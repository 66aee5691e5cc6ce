----------------------------- MODULE JobSystem ------------------------------
(***************************************************************************)
(* Core/JobSystem.cpp: worker threads that share one ring buffer of jobs,  *)
(* and the main thread, the only caller of Execute, Dispatch and Wait.     *)
(*                                                                         *)
(* A step is one critical section, one atomic operation or one call of the *)
(* condition variable.  The condition variable has no predicate, and       *)
(* notify_one is called without wakeMutex: a worker whose pop_front has    *)
(* failed and that has not reached wait() yet misses the notification.     *)
(***************************************************************************)
EXTENDS RingBuffer, JobGroups, Sequences, FiniteSets

CONSTANTS Workers,     \* the threads OnInit starts: Max(1, hardware_concurrency())
          Shapes,      \* the <<jobCount, groupSize>> the main thread dispatches
          MaxCalls     \* bound: Execute and Dispatch calls in a behaviour

ASSUME JobSystemAssumption ==
    /\ Workers # {} /\ IsFiniteSet(Workers)
    /\ Shapes \subseteq UInt \X UInt
    /\ MaxCalls \in Nat

VARIABLES
    jobPool,         \* the ring buffer
    currentLabel,    \* jobs issued, written and read by the main thread only
    finishedLabel,   \* jobs finished, atomic
    main,            \* where the main thread is: "caller" outside the job system
    groupIndex,      \* loop variable of Dispatch: the next group to push
    wpc,             \* where each worker is in its loop
    job,             \* the job a worker took last
    index,           \* loop variable of the job that worker runs
    calls,           \* history: what each call asked for, captured by its jobs
    ran              \* history: the <<call, index>> passed to the caller's function

poolVars   == jobPool
labelVars  == <<currentLabel, finishedLabel>>
mainVars   == <<main, groupIndex, calls>>
workerVars == <<wpc, job, index, ran>>
vars == <<jobPool, currentLabel, finishedLabel, main, groupIndex, wpc, job, index, calls, ran>>

Call == [jobCount : UInt \ {0}, groupSize : UInt \ {0}]
Job  == [call : 1 .. MaxCalls, group : UInt]
NoJob == [call |-> 0, group |-> 0]

Groups(call) == GroupCount(calls[call].jobCount, calls[call].groupSize)
JobOffset(j) == GroupOffset(calls[j.call].groupSize, j.group)
JobEnd(j)    == GroupEnd(calls[j.call].jobCount, calls[j.call].groupSize, j.group)

Init ==
    /\ jobPool = EmptyRing(NoJob)
    /\ currentLabel = 0 /\ finishedLabel = 0
    /\ main = "caller" /\ groupIndex = 0
    /\ wpc = [w \in Workers |-> "pop"]
    /\ job = [w \in Workers |-> NoJob]
    /\ index = [w \in Workers |-> 0]
    /\ calls = <<>> /\ ran = {}

-----------------------------------------------------------------------------
(* The main thread. *)

\* wakeCondition.notify_one(): one sleeping worker, if there is one, wakes.
NotifyOne ==
    \/ /\ \E w \in Workers : wpc[w] = "asleep" /\ wpc' = [wpc EXCEPT ![w] = "pop"]
       /\ UNCHANGED <<job, index, ran>>
    \/ /\ \A w \in Workers : wpc[w] # "asleep"
       /\ UNCHANGED workerVars

\* What Execute and Dispatch do before their push loop: the label goes up by
\* the whole number of groups at once.
Issue(jobCount, groupSize, groupCount) ==
    /\ main = "caller"
    /\ Len(calls) < MaxCalls
    /\ calls' = Append(calls, [jobCount |-> jobCount, groupSize |-> groupSize])
    /\ currentLabel' = currentLabel + groupCount
    /\ groupIndex' = 0
    /\ main' = IF groupCount = 0 THEN "caller" ELSE "push"
    /\ UNCHANGED <<jobPool, finishedLabel, workerVars>>

Execute == Issue(1, 1, 1)

Dispatch(jobCount, groupSize) ==
    /\ jobCount # 0 /\ groupSize # 0
    /\ Issue(jobCount, groupSize, GroupCount(jobCount, groupSize))

\* push_back in the condition of the push loop.
PushSucceeds ==
    /\ main = "push" /\ ~IsFull(jobPool)
    /\ jobPool' = PushBack(jobPool, [call |-> Len(calls), group |-> groupIndex])
    /\ groupIndex' = groupIndex + 1
    /\ main' = "notify"
    /\ UNCHANGED <<calls, labelVars, workerVars>>

PushFails ==
    /\ main = "push" /\ IsFull(jobPool)
    /\ main' = "pushPoll"
    /\ UNCHANGED <<groupIndex, calls, poolVars, labelVars, workerVars>>

\* notify_one after a push, then the next group or the return to the caller.
NotifyPushed ==
    /\ main = "notify"
    /\ NotifyOne
    /\ main' = IF groupIndex < Groups(Len(calls)) THEN "push" ELSE "caller"
    /\ UNCHANGED <<groupIndex, calls, poolVars, labelVars>>

\* poll(): in the push loop, then in the loop of Wait.
PollPush ==
    /\ main = "pushPoll"
    /\ NotifyOne
    /\ main' = "push"
    /\ UNCHANGED <<groupIndex, calls, poolVars, labelVars>>

\* Faulty variant: poll() yields and wakes nobody.
PollWaitSilently ==
    /\ main = "waitPoll"
    /\ main' = "wait"
    /\ UNCHANGED <<groupIndex, calls, poolVars, labelVars, workerVars>>

PollWait ==
    /\ main = "waitPoll"
    /\ NotifyOne
    /\ main' = "wait"
    /\ UNCHANGED <<groupIndex, calls, poolVars, labelVars>>

IsBusy == finishedLabel < currentLabel

CallWait ==
    /\ main = "caller"
    /\ main' = "wait"
    /\ UNCHANGED <<groupIndex, calls, poolVars, labelVars, workerVars>>

WaitTest ==
    /\ main = "wait"
    /\ main' = IF IsBusy THEN "waitPoll" ELSE "caller"
    /\ UNCHANGED <<groupIndex, calls, poolVars, labelVars, workerVars>>

-----------------------------------------------------------------------------
(* A worker thread: the loop of the lambda in OnInit. *)

PopSucceeds(w) ==
    /\ wpc[w] = "pop" /\ ~IsEmpty(jobPool)
    /\ job' = [job EXCEPT ![w] = Front(jobPool)]
    /\ index' = [index EXCEPT ![w] = JobOffset(Front(jobPool))]
    /\ jobPool' = PopFront(jobPool)
    /\ wpc' = [wpc EXCEPT ![w] = "run"]
    /\ UNCHANGED <<labelVars, mainVars, ran>>

PopFails(w) ==
    /\ wpc[w] = "pop" /\ IsEmpty(jobPool)
    /\ wpc' = [wpc EXCEPT ![w] = "lock"]
    /\ UNCHANGED <<poolVars, labelVars, mainVars, job, index, ran>>

\* job(): one turn of the loop over the indices of the group.
RunIndex(w) ==
    /\ wpc[w] = "run" /\ index[w] < JobEnd(job[w])
    /\ ran' = ran \cup {<<job[w].call, index[w]>>}
    /\ index' = [index EXCEPT ![w] = @ + 1]
    /\ UNCHANGED <<poolVars, labelVars, mainVars, wpc, job>>

\* Faulty variant: the label is raised before job() has returned.
FinishJobEarly(w) ==
    /\ wpc[w] = "run"
    /\ finishedLabel' = finishedLabel + 1
    /\ wpc' = [wpc EXCEPT ![w] = "pop"]
    /\ UNCHANGED <<currentLabel, poolVars, mainVars, job, index, ran>>

\* finishedLabel.fetch_add(1) once the loop over the indices is over.
FinishJob(w) ==
    /\ wpc[w] = "run" /\ index[w] >= JobEnd(job[w])
    /\ finishedLabel' = finishedLabel + 1
    /\ wpc' = [wpc EXCEPT ![w] = "pop"]
    /\ UNCHANGED <<currentLabel, poolVars, mainVars, job, index, ran>>

\* Lock wakeMutex and wait on the condition variable.
Sleep(w) ==
    /\ wpc[w] = "lock"
    /\ wpc' = [wpc EXCEPT ![w] = "asleep"]
    /\ UNCHANGED <<poolVars, labelVars, mainVars, job, index, ran>>

\* std::condition_variable may return from wait() without a notification.
SpuriousWake(w) ==
    /\ wpc[w] = "asleep"
    /\ wpc' = [wpc EXCEPT ![w] = "pop"]
    /\ UNCHANGED <<poolVars, labelVars, mainVars, job, index, ran>>

-----------------------------------------------------------------------------
\* The main thread inside the job system, which it leaves by itself.
MainStep == PushSucceeds \/ PushFails \/ NotifyPushed \/ PollPush \/ PollWait \/ WaitTest

WorkerStep(w) == PopSucceeds(w) \/ PopFails(w) \/ RunIndex(w) \/ FinishJob(w) \/ Sleep(w)

Next ==
    \/ Execute
    \/ \E s \in Shapes : Dispatch(s[1], s[2])
    \/ CallWait
    \/ MainStep
    \/ \E w \in Workers : WorkerStep(w) \/ SpuriousWake(w)

Spec == Init /\ [][Next]_vars

(***************************************************************************)
(* The scheduler runs every thread that can run, and the functions given   *)
(* to the job system return.  Nothing obliges the caller to call again,    *)
(* and nothing promises a spurious wakeup.                                 *)
(***************************************************************************)
FairSpec == Spec /\ WF_vars(MainStep) /\ \A w \in Workers : WF_vars(WorkerStep(w))

-----------------------------------------------------------------------------
(* Properties. *)

\* The types of the variables; the ring indices stay inside the array.
TypeOK ==
    /\ jobPool \in RingBuffers(Job \cup {NoJob})
    /\ currentLabel \in Nat /\ finishedLabel \in Nat
    /\ main \in {"caller", "push", "pushPoll", "notify", "wait", "waitPoll"}
    /\ groupIndex \in Nat
    /\ wpc \in [Workers -> {"pop", "run", "lock", "asleep"}]
    /\ job \in [Workers -> Job \cup {NoJob}]
    /\ index \in [Workers -> Nat]
    /\ calls \in Seq(Call) /\ Len(calls) <= MaxCalls
    /\ ran \subseteq (1 .. MaxCalls) \X Nat

\* The indices a call asked for that the job system accepted, and those it owes.
AcceptedBy(call) == {<<call, i>> : i \in Accepted(calls[call].jobCount, calls[call].groupSize)}
AllAccepted == UNION {AcceptedBy(call) : call \in DOMAIN calls}

\* When IsBusy is false, nothing is queued, no worker is inside a job and every
\* index that was accepted of a call has been run (a Dispatch whose sum wraps has
\* none): Wait is a barrier behind which the frame may drop what its jobs captured
\* by reference (IsBusy and Wait, JobSystem.cpp).
IdleMeansDone ==
    ~IsBusy => /\ IsEmpty(jobPool)
               /\ \A w \in Workers : wpc[w] # "run"
               /\ AllAccepted \subseteq ran

Before(a, b) == a.call < b.call \/ (a.call = b.call /\ a.group < b.group)

\* Jobs start in the order they were issued: the queue is sorted, and what a
\* worker runs was issued before everything still queued (pop_front).
OldestFirst ==
    LET q == Queue(jobPool)
    IN  /\ \A k \in 2 .. Len(q) : Before(q[k - 1], q[k])
        /\ \A w \in Workers : wpc[w] = "run" /\ q # <<>> => Before(job[w], q[1])

\* Execute, Dispatch and Wait return to the caller, although workers miss
\* notifications and the buffer may be full: poll() repairs every lost wakeup.
CallsReturn == (main # "caller") ~> (main = "caller")

\* Every index of an accepted call is run exactly once, none out of range, and
\* Wait returns only when none is left (the comments of JobSystem.h).
FJ == INSTANCE ForkJoin WITH
          Item <- (1 .. MaxCalls) \X UInt,
          todo <- AllAccepted \ ran,
          done <- ran,
          mode <- IF main \in {"wait", "waitPoll"} THEN "waiting" ELSE "free"

ImplementsForkJoin == FJ!Spec

\* "Any idle thread will execute this job" (JobSystem.h, Execute): a job that was
\* issued is eventually run, whatever the main thread does afterwards.
IssuedJobsRun ==
    \A call \in 1 .. MaxCalls :
        call <= Len(calls) ~> (call <= Len(calls) /\ AcceptedBy(call) \subseteq ran)

-----------------------------------------------------------------------------
(***************************************************************************)
(* Why the properties hold: the two labels differ by the jobs that are not *)
(* pushed yet, queued, or in a worker's hands, and an accepted index that  *)
(* was not run belongs to one of them.                                     *)
(***************************************************************************)
Pushing  == main \in {"push", "pushPoll", "notify"}
Unpushed == IF Pushing THEN Groups(Len(calls)) - groupIndex ELSE 0
Running  == {w \in Workers : wpc[w] = "run"}

\* The jobs of all calls, those that were pushed, and the indices of one.
Issued == {j \in Job : j.call <= Len(calls) /\ j.group < Groups(j.call)}
Pushed == {j \in Issued : Pushing /\ j.call = Len(calls) => j.group < groupIndex}
Indices(j) == GroupIndices(calls[j.call].jobCount, calls[j.call].groupSize, j.group)

\* The push loop runs for the last call, inside its groups.
LoopInv ==
    /\ main \in {"push", "pushPoll"} => Len(calls) > 0 /\ groupIndex < Groups(Len(calls))
    /\ main = "notify" => Len(calls) > 0 /\ groupIndex <= Groups(Len(calls))

JobsInv == Held(jobPool) \subseteq Pushed /\ \A w \in Running : job[w] \in Pushed

Accounting == currentLabel = finishedLabel + Unpushed + Size(jobPool) + Cardinality(Running)

\* Some job that will still pass index i of the call to the caller's function.
Owed(call, i) ==
    \E j \in Issued :
        /\ j.call = call /\ i \in Indices(j)
        /\ \/ j \notin Pushed
           \/ j \in Held(jobPool)
           \/ \E w \in Running : job[w] = j /\ index[w] <= i

Coverage ==
    \A call \in DOMAIN calls :
        \A i \in Accepted(calls[call].jobCount, calls[call].groupSize) :
            <<call, i>> \in ran \/ Owed(call, i)

\* A pushed job is in one slot or in one worker's hands at a time.
JobsDistinct ==
    /\ \A s, t \in LiveSlots(jobPool) : s # t => jobPool.data[s] # jobPool.data[t]
    /\ \A w \in Running : job[w] \notin Held(jobPool)
    /\ \A v, w \in Running : v # w => job[v] # job[w]

\* What was run was accepted, and no job in circulation will run it again.
RanOnce ==
    /\ ran \subseteq AllAccepted
    /\ \A w \in Running : JobOffset(job[w]) <= index[w]
    /\ \A j \in Issued : \A i \in Indices(j) :
           <<j.call, i>> \in ran =>
               /\ j \in Pushed \ Held(jobPool)
               /\ \A w \in Running : job[w] = j => i < index[w]

\* The inductive invariant behind IdleMeansDone and ImplementsForkJoin: the label
\* arithmetic of Execute, Dispatch and the worker loop (JobSystem.cpp) accounts for
\* every job, and the jobs in circulation are the ones still to be run.
IInv == TypeOK /\ LoopInv /\ JobsInv /\ Accounting /\ Coverage /\ JobsDistinct /\ RanOnce
=============================================================================
