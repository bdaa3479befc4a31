----------------------------- MODULE ThreadPool -----------------------------
(***************************************************************************)
(* src/thread_pool.h: the worker threads, the queue q_, the counter        *)
(* active_, the flag stop_ and the two condition variables.                *)
(*                                                                         *)
(* Every access to q_, active_ and stop_ holds m_, so a critical section   *)
(* is one action.  A wait on a condition variable is a state of its own    *)
(* (the thread has given m_ back and sleeps), every notification happens   *)
(* after the unlock and is an action of its own, and a sleeper may wake    *)
(* with no notification.  The owner is the one thread (main) that          *)
(* constructs the pool, submits, calls wait_idle and destroys the pool.    *)
(***************************************************************************)
EXTENDS Integers, Sequences, FiniteSets, Functions

CONSTANTS NumThreads,  \* the constructor's argument
          Jobs,        \* the jobs the owner may submit, each at most once
          NoJob        \* an empty std::function

ASSUME PoolAssumption ==
    /\ NumThreads \in Int
    /\ NoJob \notin Jobs

VARIABLES q,       \* q_
          active,  \* active_
          stop,    \* stop_
          wpc,     \* where each worker thread is
          job,     \* each worker's local variable job
          opc,     \* where the owner is
          done     \* the jobs whose body has returned

vars == <<q, active, stop, wpc, job, opc, done>>
-----------------------------------------------------------------------------
Width == IF NumThreads < 1 THEN 1 ELSE NumThreads
Workers == 1..Width

\* "loop": about to lock m_ and test the predicate of cv_; "asleep": blocked
\* in cv_.wait; "running": in job(); "finish": about to lock m_ and decrement
\* active_; "notify": about to notify done_cv_.
WorkerPC == {"unborn", "loop", "asleep", "running", "finish", "notify", "exited"}

\* "test": about to test the predicate of done_cv_; "asleep": blocked in
\* done_cv_.wait; "notify_one" and "notify_all": m_ released, cv_ not yet
\* notified.
OwnerPC == {"constructing", "ready", "notify_one", "test", "asleep",
            "notify_all", "joining", "destroyed"}

Queued == Range(q)
At(pc) == {w \in Workers : wpc[w] = pc}
Running == {job[w] : w \in At("running")}
Submitted == Queued \cup Running \cup done
Busy == At("running") \cup At("finish")
Go(w, pc) == wpc' = [wpc EXCEPT ![w] = pc]

\* Types: active_ never goes below zero, and the queue, the workers and done
\* hold jobs.
TypeOK ==
    /\ q \in Seq(Jobs)
    /\ active \in Nat
    /\ stop \in BOOLEAN
    /\ wpc \in [Workers -> WorkerPC]
    /\ job \in [Workers -> Jobs \cup {NoJob}]
    /\ opc \in OwnerPC
    /\ done \in SUBSET Jobs

Init ==
    /\ q = <<>>
    /\ active = 0
    /\ stop = FALSE
    /\ wpc = [w \in Workers |-> "unborn"]
    /\ job = [w \in Workers |-> NoJob]
    /\ opc = "constructing"
    /\ done = {}
-----------------------------------------------------------------------------
\* The owner.

\* The constructor's loop: the threads already spawned run meanwhile.
Spawn(w) ==
    /\ opc = "constructing"
    /\ wpc[w] = "unborn"
    /\ \A v \in 1..(w - 1) : wpc[v] # "unborn"
    /\ Go(w, "loop")
    /\ opc' = IF w = Width THEN "ready" ELSE opc
    /\ UNCHANGED <<q, active, stop, job, done>>

\* Mutant: submit without its notification.
SubmitSilent(j) ==
    /\ opc = "ready"
    /\ j \notin Submitted
    /\ q' = Append(q, j)
    /\ UNCHANGED <<active, stop, wpc, job, opc, done>>

Submit(j) ==
    /\ opc = "ready"
    /\ j \notin Submitted
    /\ q' = Append(q, j)
    /\ opc' = "notify_one"
    /\ UNCHANGED <<active, stop, wpc, job, done>>

\* One sleeper wakes, whichever the system picks; with none, the notification
\* is lost.
NotifyOne ==
    /\ opc = "notify_one"
    /\ \/ \E w \in At("asleep") : Go(w, "loop")
       \/ At("asleep") = {} /\ UNCHANGED wpc
    /\ opc' = "ready"
    /\ UNCHANGED <<q, active, stop, job, done>>

CallWaitIdle ==
    /\ opc = "ready"
    /\ opc' = "test"
    /\ UNCHANGED <<q, active, stop, wpc, job, done>>

WaitIdleSleep ==
    /\ opc = "test"
    /\ ~(q = <<>> /\ active = 0)
    /\ opc' = "asleep"
    /\ UNCHANGED <<q, active, stop, wpc, job, done>>

WaitIdleReturn ==
    /\ opc = "test"
    /\ q = <<>> /\ active = 0
    /\ opc' = "ready"
    /\ UNCHANGED <<q, active, stop, wpc, job, done>>

Destroy ==
    /\ opc = "ready"
    /\ stop' = TRUE
    /\ opc' = "notify_all"
    /\ UNCHANGED <<q, active, wpc, job, done>>

\* Mutant: the destructor wakes a single sleeper.
NotifyAllOnlyOne ==
    /\ opc = "notify_all"
    /\ \/ \E w \in At("asleep") : Go(w, "loop")
       \/ At("asleep") = {} /\ UNCHANGED wpc
    /\ opc' = "joining"
    /\ UNCHANGED <<q, active, stop, job, done>>

NotifyAll ==
    /\ opc = "notify_all"
    /\ wpc' = [w \in Workers |-> IF wpc[w] = "asleep" THEN "loop" ELSE wpc[w]]
    /\ opc' = "joining"
    /\ UNCHANGED <<q, active, stop, job, done>>

Join ==
    /\ opc = "joining"
    /\ At("exited") = Workers
    /\ opc' = "destroyed"
    /\ UNCHANGED <<q, active, stop, wpc, job, done>>
-----------------------------------------------------------------------------
\* The workers: worker_loop.

Sleep(w) ==
    /\ wpc[w] = "loop"
    /\ ~stop /\ q = <<>>
    /\ Go(w, "asleep")
    /\ UNCHANGED <<q, active, stop, job, opc, done>>

\* Mutant: a worker leaves as soon as it sees stop_.
ExitAtOnce(w) ==
    /\ wpc[w] = "loop"
    /\ stop
    /\ Go(w, "exited")
    /\ UNCHANGED <<q, active, stop, job, opc, done>>

Exit(w) ==
    /\ wpc[w] = "loop"
    /\ stop /\ q = <<>>
    /\ Go(w, "exited")
    /\ UNCHANGED <<q, active, stop, job, opc, done>>

\* Mutants: the job is not counted; the newest job is taken first.
TakeUncounted(w) ==
    /\ wpc[w] = "loop"
    /\ q # <<>>
    /\ job' = [job EXCEPT ![w] = Head(q)]
    /\ q' = Tail(q)
    /\ Go(w, "running")
    /\ UNCHANGED <<active, stop, opc, done>>

TakeNewest(w) ==
    /\ wpc[w] = "loop"
    /\ q # <<>>
    /\ job' = [job EXCEPT ![w] = q[Len(q)]]
    /\ q' = SubSeq(q, 1, Len(q) - 1)
    /\ active' = active + 1
    /\ Go(w, "running")
    /\ UNCHANGED <<stop, opc, done>>

Take(w) ==
    /\ wpc[w] = "loop"
    /\ q # <<>>
    /\ job' = [job EXCEPT ![w] = Head(q)]
    /\ q' = Tail(q)
    /\ active' = active + 1
    /\ Go(w, "running")
    /\ UNCHANGED <<stop, opc, done>>

Run(w) ==
    /\ wpc[w] = "running"
    /\ done' = done \cup {job[w]}
    /\ Go(w, "finish")
    /\ UNCHANGED <<q, active, stop, job, opc>>

\* Mutant: done_cv_ is never notified.
FinishSilent(w) ==
    /\ wpc[w] = "finish"
    /\ active' = active - 1
    /\ Go(w, "loop")
    /\ UNCHANGED <<q, stop, job, opc, done>>

Finish(w) ==
    /\ wpc[w] = "finish"
    /\ active' = active - 1
    /\ Go(w, "notify")
    /\ UNCHANGED <<q, stop, job, opc, done>>

\* done_cv_.notify_all, then the next turn of the loop and a fresh local job.
NotifyDone(w) ==
    /\ wpc[w] = "notify"
    /\ opc' = IF opc = "asleep" THEN "test" ELSE opc
    /\ job' = [job EXCEPT ![w] = NoJob]
    /\ Go(w, "loop")
    /\ UNCHANGED <<q, active, stop, done>>

\* A condition variable may wake with no notification.
SpuriousWorker(w) ==
    /\ wpc[w] = "asleep"
    /\ Go(w, "loop")
    /\ UNCHANGED <<q, active, stop, job, opc, done>>

SpuriousOwner ==
    /\ opc = "asleep"
    /\ opc' = "test"
    /\ UNCHANGED <<q, active, stop, wpc, job, done>>
-----------------------------------------------------------------------------
WorkerStep(w) ==
    \/ Sleep(w)
    \/ Exit(w)
    \/ Take(w)
    \/ Run(w)
    \/ Finish(w)
    \/ NotifyDone(w)

\* The steps of an operation the owner has begun.
OwnerStep ==
    \/ \E w \in Workers : Spawn(w)
    \/ NotifyOne
    \/ WaitIdleSleep
    \/ WaitIdleReturn
    \/ NotifyAll
    \/ Join

\* The operations the owner may begin.
OwnerCall ==
    \/ \E j \in Jobs : Submit(j)
    \/ CallWaitIdle
    \/ Destroy

Spurious == SpuriousOwner \/ \E w \in Workers : SpuriousWorker(w)

\* The pool is gone; nothing is left to do.
Gone == opc = "destroyed" /\ UNCHANGED vars

Next ==
    \/ \E w \in Workers : WorkerStep(w)
    \/ OwnerStep
    \/ OwnerCall
    \/ Spurious
    \/ Gone

\* The scheduler runs every thread that can run, and a job returns.  Nothing
\* obliges the owner to begin an operation or a sleeper to wake by itself.
Fairness ==
    /\ WF_vars(OwnerStep)
    /\ \A w \in Workers : WF_vars(WorkerStep(w))

Safe == Init /\ [][Next]_vars
Spec == Safe /\ Fairness
-----------------------------------------------------------------------------
\* Properties.

\* A job is in one place at a time: once in the queue, or held by one running
\* worker, or done.  Nothing is lost or run twice, whatever the interleaving
\* of submit and worker_loop.
OnePlacePerJob ==
    /\ IsInjective(q)
    /\ \A v, w \in At("running") : job[v] = job[w] => v = w
    /\ Running \subseteq Jobs
    /\ Queued \cap Running = {}
    /\ (Queued \cup Running) \cap done = {}

\* active_ counts the workers between their pop and their decrement, so
\* wait_idle's test of it speaks of jobs.
ActiveCount == active = Cardinality(Busy)

\* While somebody sleeps on cv_, there are at least as many awake workers (or
\* notifications under way) as queued jobs: submit's single notify_one,
\* issued after the unlock, never leaves a job beside an idle worker.
NoLostWakeup ==
    At("asleep") # {} =>
        Len(q) <= Cardinality(At("loop")) + (IF opc = "notify_one" THEN 1 ELSE 0)

\* No worker sleeps through the destructor's notify_all: once it has been
\* sent, nobody is asleep and nobody falls asleep again.
ShutdownReachesAll ==
    opc \in {"joining", "destroyed"} => At("asleep") = {}

\* An owner asleep in wait_idle has a notification coming: some job is
\* unfinished, or its worker has decremented active_ and not yet notified.
OwnerHasWaker ==
    opc = "asleep" => q # <<>> \/ active > 0 \/ At("notify") # {}

\* wait_idle returns only when every job submitted so far has returned (what
\* main.cpp relies on to let go of the file's bytes).
WaitReturnsQuiet ==
    [][opc = "test" /\ opc' = "ready" => Submitted = done]_vars

\* The destructor drops no job: it returns with the queue drained.
DestructorDrains == opc = "destroyed" => Submitted = done

\* The order of shutdown: stop_ is set exactly from the destructor's first
\* step on, a worker leaves only an empty queue behind it, and the members
\* are gone only when no thread is left that could touch them.
Lifecycle ==
    /\ stop <=> opc \in {"notify_all", "joining", "destroyed"}
    /\ At("exited") # {} => stop /\ q = <<>>
    /\ opc = "destroyed" => At("exited") = Workers

Phase ==
    IF opc \in {"test", "asleep"} THEN "waiting"
    ELSE IF opc \in {"notify_all", "joining"} THEN "closing"
    ELSE IF opc = "destroyed" THEN "closed" ELSE "open"

Abstract == INSTANCE JobPool WITH
    todo <- q, running <- Running, finished <- done, phase <- Phase

\* The pool implements JobPool: jobs start in the order of submission, at most
\* Width run at once, each once, wait_idle and the destructor return only over
\* a quiet pool, and its progress: whatever was submitted is run even if the
\* owner never waits, and wait_idle and the destructor do return.
ImplementsJobPool == Abstract!Spec
=============================================================================
