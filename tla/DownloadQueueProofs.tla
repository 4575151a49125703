------------------------ MODULE DownloadQueueProofs ------------------------
(***************************************************************************)
(* The promises of the download queue, for every set of requests, every    *)
(* number of slots, jobs and restarts, and whatever fails.                 *)
(***************************************************************************)
EXTENDS DownloadQueue, SequenceTheorems, TLAPS

-----------------------------------------------------------------------------
(* Types, as far as the proofs need them *)

JobRow == [req : Requests, status : JobStatus]

Typed ==
  /\ jobs \in Seq(JobRow) /\ Len(jobs) <= MaxJobs
  /\ task \in [Ids -> Tasks]
  /\ stopped \subseteq DOMAIN jobs

\* Job numbers are task numbers.
LEMMA JobsAreIds ==
  ASSUME Typed
  PROVE  DOMAIN jobs = 1..Len(jobs) /\ DOMAIN jobs \subseteq Ids /\ Len(jobs) \in Nat
<1>1. jobs \in Seq(JobRow) /\ Len(jobs) <= MaxJobs /\ MaxJobs \in Nat
  BY QueueAssumption DEF Typed
<1>2. QED
  BY <1>1 DEF Ids

\* Writing a status leaves the table as long as it was and every other row alone.
LEMMA WithStatus ==
  ASSUME Typed, NEW j \in DOMAIN jobs, NEW st \in JobStatus
  PROVE  /\ With(j, st) \in Seq(JobRow)
         /\ Len(With(j, st)) = Len(jobs) /\ DOMAIN With(j, st) = DOMAIN jobs
         /\ With(j, st)[j].status \in {st, "deleted"}
         /\ jobs[j].status # "deleted" => With(j, st)[j].status = st
         /\ \A i \in DOMAIN jobs : i # j => With(j, st)[i] = jobs[i]
<1> DEFINE row == [jobs[j] EXCEPT !.status = st]
<1>1. jobs \in Seq(JobRow) /\ j \in 1..Len(jobs) /\ DOMAIN jobs = 1..Len(jobs)
  BY JobsAreIds DEF Typed
<1>2. row \in JobRow /\ row.status = st
  <2>1. jobs[j] \in JobRow
    BY <1>1
  <2>2. QED
    BY <2>1 DEF JobRow
<1>3. With(j, st) = IF jobs[j].status = "deleted" THEN jobs ELSE [jobs EXCEPT ![j] = row]
  BY DEF With
<1> HIDE DEF row
<1>4. /\ [jobs EXCEPT ![j] = row] \in Seq(JobRow)
      /\ Len([jobs EXCEPT ![j] = row]) = Len(jobs)
      /\ \A i \in 1..Len(jobs) : [jobs EXCEPT ![j] = row][i] = IF i = j THEN row ELSE jobs[i]
  BY <1>1, <1>2, ExceptSeq
<1>5. DOMAIN [jobs EXCEPT ![j] = row] = DOMAIN jobs
  OBVIOUS
<1>6. jobs \in Seq(JobRow)
  BY DEF Typed
<1>7. QED
  BY <1>1, <1>2, <1>3, <1>4, <1>5, <1>6

\* Inserting a job appends a queued row.
LEMMA Inserted ==
  ASSUME Typed, NEW r \in Requests, Insert(r)
  PROVE  /\ jobs' \in Seq(JobRow) /\ Len(jobs') <= MaxJobs
         /\ DOMAIN jobs \subseteq DOMAIN jobs'
         /\ \A i \in DOMAIN jobs : jobs'[i] = jobs[i]
         /\ \A i \in DOMAIN jobs' : i \notin DOMAIN jobs => jobs'[i].status = "queued"
<1> DEFINE row == [req |-> r, status |-> "queued"]
<1>1. row \in JobRow /\ row.status = "queued"
  BY DEF JobRow, JobStatus
<1>2. /\ jobs' = Append(jobs, row) /\ Len(jobs) < MaxJobs
      /\ jobs \in Seq(JobRow) /\ MaxJobs \in Nat
  BY QueueAssumption DEF Insert, Typed
<1> HIDE DEF row
<1>3. QED
  BY <1>1, <1>2

\* The restart writes QUEUED over what was running or paused and nothing else.
LEMMA Recovered ==
  ASSUME Typed, Recover
  PROVE  /\ jobs' \in Seq(JobRow) /\ Len(jobs') = Len(jobs) /\ DOMAIN jobs' = DOMAIN jobs
         /\ \A i \in DOMAIN jobs :
              /\ jobs[i].status \in {"running", "paused"} => jobs'[i].status = "queued"
              /\ jobs[i].status \notin {"running", "paused"} =>
                   jobs'[i] = jobs[i] /\ (i \in flags => i \in flags')
<1> DEFINE orphaned == {i \in DOMAIN jobs : jobs[i].status \in {"running", "paused"}}
           after(i) == IF i \in orphaned THEN [jobs[i] EXCEPT !.status = "queued"] ELSE jobs[i]
<1>1. jobs' = [i \in DOMAIN jobs |-> after(i)] /\ flags' = flags \ orphaned
  BY DEF Recover
<1>2. \A i \in DOMAIN jobs : jobs[i] \in JobRow
  BY DEF Typed
<1>3. \A i \in DOMAIN jobs :
         after(i) \in JobRow /\ (i \in orphaned => after(i).status = "queued")
  BY <1>2 DEF JobRow, JobStatus
<1>4. DOMAIN jobs = 1..Len(jobs) /\ Len(jobs) \in Nat
  BY JobsAreIds
<1>5. jobs' \in Seq(JobRow) /\ Len(jobs') = Len(jobs) /\ DOMAIN jobs' = DOMAIN jobs
  BY <1>1, <1>3, <1>4
<1>6. QED
  BY <1>1, <1>3, <1>5

\* Clearing deletes every row and leaves the tasks to find out.
LEMMA Cleared ==
  ASSUME Typed, ClearAll
  PROVE  /\ jobs' \in Seq(JobRow) /\ Len(jobs') = Len(jobs) /\ DOMAIN jobs' = DOMAIN jobs
         /\ \A i \in DOMAIN jobs : jobs'[i].status = "deleted"
         /\ UNCHANGED <<task, line, flags, confirmed, stopped, missed, strays, worker, crashes>>
         /\ handlers' \subseteq handlers \cup {[do |-> "signal", job |-> i] : i \in DOMAIN jobs}
<1> DEFINE gone(i) == [jobs[i] EXCEPT !.status = "deleted"]
<1>1. jobs' = [i \in DOMAIN jobs |-> gone(i)]
  BY DEF ClearAll
<1>2. \A i \in DOMAIN jobs : gone(i) \in JobRow /\ gone(i).status = "deleted"
  <2>1. \A i \in DOMAIN jobs : jobs[i] \in JobRow
    BY DEF Typed
  <2>2. QED
    BY <2>1 DEF JobRow, JobStatus
<1>3. DOMAIN jobs = 1..Len(jobs) /\ Len(jobs) \in Nat
  BY JobsAreIds
<1> HIDE DEF gone
<1>4. jobs' \in Seq(JobRow) /\ Len(jobs') = Len(jobs) /\ DOMAIN jobs' = DOMAIN jobs
  BY <1>1, <1>2, <1>3
<1>5. QED
  BY <1>1, <1>2, <1>4, Zenon DEF ClearAll

\* What one action does to a job's row, its task and its flag is all that the
\* invariants look at.  Worker steps that write a status end the task.
Writes(j, st) == jobs' = With(j, st) /\ task' = [task EXCEPT ![j] = "none"]

LEMMA WorkStepShape ==
  ASSUME NEW j, WorkStep(j)
  PROVE  /\ UNCHANGED <<stopped, worker>>
         /\ \/ /\ \/ Writes(j, "cancelled") /\ flags' = flags \ {j}
                  \/ Writes(j, "failed") /\ UNCHANGED flags
                  \/ /\ task[j] \in {"parking", "finishing"} /\ UNCHANGED flags
                     /\ Writes(j, "paused") \/ Writes(j, "completed")
               /\ UNCHANGED <<missed, strays>>
            \/ /\ task[j] = "working" /\ Overlooks(j) /\ UNCHANGED <<jobs, flags, strays>>
               /\ \E at \in {"parking", "finishing"} : task' = [task EXCEPT ![j] = at]
            \/ /\ task' = [task EXCEPT ![j] = "none"] /\ strays' = strays \cup {j}
               /\ UNCHANGED <<jobs, flags, missed>>
<1>1. CASE SeesCancel(j) BY <1>1 DEF SeesCancel, Ends, Writes
<1>2. CASE ReachGate(j) \/ LastCheck(j) BY <1>2 DEF ReachGate, LastCheck
<1>3. CASE Park(j) \/ PauseForCoverage(j) \/ FinalizeComplete(j)
  BY <1>3 DEF Park, PauseForCoverage, FinalizeComplete, Ends, Writes
<1>4. CASE HandleFailure(j) BY <1>4 DEF HandleFailure, Ends, Writes
<1>5. CASE EndUnwritten(j) BY <1>5 DEF EndUnwritten, Ends
<1> QED BY <1>1, <1>2, <1>3, <1>4, <1>5 DEF WorkStep

-----------------------------------------------------------------------------
(* Types *)

LEMMA InitTyped == Init => Typed
  BY QueueAssumption DEF Init, Typed, Tasks

\* A task moves only for a job that exists, so task keeps its shape.
LEMMA TaskStep ==
  ASSUME Typed, NEW j \in DOMAIN jobs, NEW at \in Tasks, task' = [task EXCEPT ![j] = at]
  PROVE  task' \in [Ids -> Tasks]
  BY JobsAreIds DEF Typed

LEMMA WorkTyped ==
  ASSUME Typed, NEW j \in DOMAIN jobs, WorkStep(j)
  PROVE  Typed'
<1>1. UNCHANGED stopped
  BY WorkStepShape
<1>2. CASE \E st \in JobStatus : Writes(j, st)
  <2>1. PICK st \in JobStatus : Writes(j, st)
    BY <1>2
  <2>2. jobs' = With(j, st) /\ task' = [task EXCEPT ![j] = "none"]
    BY <2>1 DEF Writes
  <2>3. jobs' \in Seq(JobRow) /\ Len(jobs') = Len(jobs) /\ DOMAIN jobs' = DOMAIN jobs
    BY <2>2, WithStatus
  <2>4. task' \in [Ids -> Tasks]
    BY <2>2, TaskStep DEF Tasks
  <2>5. QED
    BY <1>1, <2>3, <2>4 DEF Typed
<1>3. CASE UNCHANGED jobs /\ \E at \in {"parking", "finishing"} : task' = [task EXCEPT ![j] = at]
  <2>1. task' \in [Ids -> Tasks]
    BY <1>3, TaskStep DEF Tasks
  <2>2. QED
    BY <1>1, <1>3, <2>1 DEF Typed
<1>4. CASE UNCHANGED jobs /\ task' = [task EXCEPT ![j] = "none"]
  <2>1. task' \in [Ids -> Tasks]
    BY <1>4, TaskStep DEF Tasks
  <2>2. QED
    BY <1>1, <1>4, <2>1 DEF Typed
<1>5. QED
  BY <1>2, <1>3, <1>4, WorkStepShape DEF JobStatus

LEMMA TypedStep == Typed /\ [Next]_vars => Typed'
<1> SUFFICES ASSUME Typed, [Next]_vars PROVE Typed'
  OBVIOUS
<1>1. ASSUME NEW r \in Requests, Enqueue(r) \/ ResumeEnqueue(r) PROVE Typed'
  <2>1. Insert(r) /\ UNCHANGED <<task, stopped>>
    BY <1>1 DEF Enqueue, ResumeEnqueue
  <2>2. QED
    BY <2>1, Inserted DEF Typed
<1>2. ASSUME NEW j \in DOMAIN jobs, Cancel(j) PROVE Typed'
  <2>1. /\ jobs' = With(j, "cancelled") \/ UNCHANGED jobs
        /\ UNCHANGED <<task, stopped>> /\ "cancelled" \in JobStatus
    BY <1>2 DEF Cancel, JobStatus
  <2>2. QED
    BY <2>1, WithStatus DEF Typed
<1>3. ASSUME NEW j \in DOMAIN jobs, Signal(j) PROVE Typed'
  <2>1. UNCHANGED <<jobs, task>> /\ stopped' \subseteq stopped \cup {j}
    BY <1>3 DEF Signal
  <2>2. QED
    BY <2>1 DEF Typed
<1>4. ASSUME NEW j \in DOMAIN jobs, FlagExpires(j) \/ ResumeParked(j) PROVE Typed'
  BY <1>4 DEF FlagExpires, ResumeParked, Typed
<1>5. ASSUME NEW j \in DOMAIN jobs, ClaimNext(j) PROVE Typed'
  <2>1. /\ jobs' = With(j, "running") /\ task' = [task EXCEPT ![j] = "waiting"]
        /\ UNCHANGED stopped /\ "running" \in JobStatus /\ "waiting" \in Tasks
    BY <1>5 DEF ClaimNext, JobStatus, Tasks
  <2>2. task' \in [Ids -> Tasks]
    BY <2>1, TaskStep
  <2>3. QED
    BY <2>1, <2>2, WithStatus DEF Typed
<1>6. ASSUME NEW j \in DOMAIN jobs, Acquire(j) PROVE Typed'
  <2>1. task' = [task EXCEPT ![j] = Begins(j)] /\ UNCHANGED <<jobs, stopped>> /\ Begins(j) \in Tasks
    BY <1>6 DEF Acquire, Begins, Tasks
  <2>2. task' \in [Ids -> Tasks]
    BY <2>1, TaskStep
  <2>3. QED
    BY <2>1, <2>2 DEF Typed
<1>7. ASSUME NEW j \in DOMAIN jobs, WorkStep(j) PROVE Typed'
  BY <1>7, WorkTyped
<1>8. CASE Crash
  BY <1>8 DEF Crash, Typed, Tasks
<1>9. CASE Recover
  <2>1. UNCHANGED <<task, stopped>>
    BY <1>9 DEF Recover
  <2>2. QED
    BY <1>9, <2>1, Recovered DEF Typed
<1>10. CASE ClearAll
  BY <1>10, Cleared DEF Typed
<1>11. CASE PollEnds \/ UNCHANGED vars
  BY <1>11 DEF PollEnds, vars, Typed
<1>12. QED
  BY <1>1, <1>2, <1>3, <1>4, <1>5, <1>6, <1>7, <1>8, <1>9, <1>10, <1>11 DEF Next

-----------------------------------------------------------------------------
(* No phantom rows *)

\* A running row has a task: claiming starts one, every way a task can end writes
\* the row, and the restart that loses all tasks queues what they were on.
LEMMA PhantomStep == Typed /\ NoPhantomJob /\ [Next]_vars => NoPhantomJob'
<1> SUFFICES ASSUME Typed, NoPhantomJob, [Next]_vars, worker' = "polling",
                    NEW i \in DOMAIN jobs', i \notin strays', jobs'[i].status = "running"
             PROVE  task'[i] # "none"
  BY DEF NoPhantomJob
<1>0. DOMAIN jobs \subseteq Ids /\ task \in [Ids -> Tasks]
  BY JobsAreIds DEF Typed
<1> DEFINE Kept == /\ worker = "polling" /\ i \in DOMAIN jobs /\ i \notin strays
                   /\ jobs[i].status = "running" /\ task'[i] = task[i]
<1>k. Kept => task'[i] # "none"
  BY DEF NoPhantomJob
<1>1. ASSUME NEW r \in Requests, Enqueue(r) \/ ResumeEnqueue(r) PROVE Kept
  <2>1. Insert(r) /\ UNCHANGED <<task, strays, worker>>
    BY <1>1 DEF Enqueue, ResumeEnqueue
  <2>2. QED
    BY <2>1, Inserted
<1>2. ASSUME NEW j \in DOMAIN jobs, Cancel(j) PROVE Kept
  <2>1. /\ jobs' = With(j, "cancelled") \/ UNCHANGED jobs
        /\ UNCHANGED <<task, strays, worker>> /\ "cancelled" \in JobStatus
    BY <1>2 DEF Cancel, JobStatus
  <2>2. QED
    BY <2>1, WithStatus
<1>3. ASSUME NEW j \in DOMAIN jobs, Signal(j) \/ FlagExpires(j) \/ ResumeParked(j) PROVE Kept
  BY <1>3 DEF Signal, FlagExpires, ResumeParked
<1>4. ASSUME NEW j \in DOMAIN jobs, ClaimNext(j) PROVE task'[i] # "none"
  <2>1. /\ jobs' = With(j, "running") /\ task' = [task EXCEPT ![j] = "waiting"]
        /\ worker = "polling" /\ UNCHANGED strays /\ "running" \in JobStatus
    BY <1>4 DEF ClaimNext, JobStatus
  <2>2. CASE i = j
    BY <2>1, <2>2, <1>0
  <2>3. CASE i # j
    <3>1. Kept
      BY <2>1, <2>3, <1>0, WithStatus
    <3>2. QED
      BY <3>1, <1>k
  <2>4. QED
    BY <2>2, <2>3
<1>5. ASSUME NEW j \in DOMAIN jobs, Acquire(j) PROVE task'[i] # "none"
  <2>1. task' = [task EXCEPT ![j] = Begins(j)] /\ UNCHANGED <<jobs, strays, worker>>
    BY <1>5 DEF Acquire
  <2>2. QED
    BY <2>1, <1>0 DEF NoPhantomJob, Begins
<1>6. ASSUME NEW j \in DOMAIN jobs, WorkStep(j) PROVE task'[i] # "none"
  <2>1. UNCHANGED worker
    BY <1>6, WorkStepShape
  <2>2. ASSUME NEW st \in JobStatus \ {"running"}, Writes(j, st), UNCHANGED strays PROVE Kept
    <3>1. jobs' = With(j, st) /\ task' = [task EXCEPT ![j] = "none"]
      BY <2>2 DEF Writes
    <3>2. i # j /\ i \in DOMAIN jobs /\ jobs'[i] = jobs[i]
      BY <2>2, <3>1, WithStatus
    <3>3. QED
      BY <2>1, <2>2, <3>1, <3>2, <1>0
  <2>3. CASE /\ UNCHANGED <<jobs, strays>>
             /\ \E at \in {"parking", "finishing"} : task' = [task EXCEPT ![j] = at]
    BY <2>1, <2>3, <1>0 DEF NoPhantomJob
  <2>4. CASE /\ task' = [task EXCEPT ![j] = "none"] /\ strays' = strays \cup {j} /\ UNCHANGED jobs
    <3>1. i # j /\ Kept
      BY <2>1, <2>4, <1>0
    <3>2. QED
      BY <3>1, <1>k
  <2>5. QED
    BY <1>6, <1>k, <2>2, <2>3, <2>4, WorkStepShape DEF JobStatus
<1>7. CASE Crash \/ PollEnds
  BY <1>7 DEF Crash, PollEnds
<1>8. CASE Recover
  <2>1. i \in DOMAIN jobs /\ jobs'[i].status # "running"
    <3>1. i \in DOMAIN jobs
      BY <1>8, Recovered
    <3>2. QED
      BY <1>8, <3>1, Recovered
  <2>2. QED
    BY <2>1
<1>9. CASE ClearAll
  BY <1>9, Cleared
<1>10. CASE UNCHANGED vars
  BY <1>10 DEF vars, NoPhantomJob
<1>11. QED
  BY <1>k, <1>1, <1>2, <1>3, <1>4, <1>5, <1>6, <1>7, <1>8, <1>9, <1>10 DEF Next

\* While the worker polls, no row is RUNNING without a task of this process ("a phantom
\* 'downloading' row", recover_on_startup), but for a task that could not write its end.
THEOREM NoPhantoms == Spec => []NoPhantomJob
<1>1. Init => Typed /\ NoPhantomJob
  BY InitTyped DEF Init, NoPhantomJob
<1>2. Typed /\ NoPhantomJob /\ [Next]_vars => (Typed /\ NoPhantomJob)'
  BY TypedStep, PhantomStep
<1>3. QED
  BY <1>1, <1>2, PTL DEF Spec

-----------------------------------------------------------------------------
(* The semaphore's line *)

\* Tasks in the line are those that wait, each once; a task belongs to a claimed
\* job, and there is none while the process is down.
LineInv ==
  /\ line \in Seq(Ids)
  /\ ToSet(line) = {j \in Ids : task[j] = "waiting"} /\ IsInjective(line)
  /\ \A j \in Ids : task[j] # "none" =>
        worker # "down" /\ j \in DOMAIN jobs /\ jobs[j].status # "queued"

LEMMA AppendToLine ==
  ASSUME NEW S, NEW s \in Seq(S), NEW e \in S, e \notin ToSet(s), IsInjective(s)
  PROVE  /\ Append(s, e) \in Seq(S)
         /\ ToSet(Append(s, e)) = ToSet(s) \cup {e} /\ IsInjective(Append(s, e))
<1>1. /\ Append(s, e) \in Seq(S) /\ Len(s) \in Nat
      /\ DOMAIN s = 1..Len(s) /\ DOMAIN Append(s, e) = 1..(Len(s) + 1)
      /\ \A k \in 1..Len(s) : Append(s, e)[k] = s[k]
      /\ Append(s, e)[Len(s) + 1] = e
  OBVIOUS
<1>2. \A k \in 1..(Len(s) + 1) : k \in 1..Len(s) \/ k = Len(s) + 1
  BY <1>1
<1>3. ToSet(Append(s, e)) = ToSet(s) \cup {e}
  BY <1>1, <1>2 DEF ToSet
<1>4. IsInjective(Append(s, e))
  BY <1>1, <1>2 DEF ToSet, IsInjective
<1>5. QED
  BY <1>1, <1>3, <1>4

LEMMA TailOfLine ==
  ASSUME NEW S, NEW s \in Seq(S), s # <<>>, IsInjective(s)
  PROVE  /\ Head(s) \in ToSet(s) /\ Tail(s) \in Seq(S)
         /\ ToSet(Tail(s)) = ToSet(s) \ {Head(s)} /\ IsInjective(Tail(s))
<1>1. /\ Tail(s) \in Seq(S) /\ Len(s) \in Nat \ {0} /\ Len(Tail(s)) = Len(s) - 1
      /\ DOMAIN s = 1..Len(s) /\ DOMAIN Tail(s) = 1..(Len(s) - 1)
      /\ \A k \in 1..(Len(s) - 1) : Tail(s)[k] = s[k + 1]
      /\ Head(s) = s[1]
  OBVIOUS
<1>2. \A k \in 1..Len(s) : k = 1 \/ (k - 1 \in 1..(Len(s) - 1) /\ s[k] = Tail(s)[k - 1])
  BY <1>1
<1>3. \A k \in 1..(Len(s) - 1) : k + 1 \in 1..Len(s) /\ k + 1 # 1
  BY <1>1
<1>4. Head(s) \in ToSet(s)
  BY <1>1 DEF ToSet
<1>5. ToSet(Tail(s)) \subseteq ToSet(s) \ {Head(s)}
  BY <1>1, <1>3 DEF ToSet, IsInjective
<1>6. ToSet(s) \ {Head(s)} \subseteq ToSet(Tail(s))
  <2>1. ASSUME NEW k \in 1..Len(s), s[k] # Head(s) PROVE s[k] \in ToSet(Tail(s))
    <3>1. k - 1 \in DOMAIN Tail(s) /\ s[k] = Tail(s)[k - 1]
      BY <1>1, <1>2, <2>1
    <3>2. QED
      BY <3>1 DEF ToSet
  <2>2. QED
    BY <1>1, <2>1 DEF ToSet
<1>7. IsInjective(Tail(s))
  BY <1>1, <1>3 DEF IsInjective
<1>8. QED
  BY <1>1, <1>4, <1>5, <1>6, <1>7

LEMMA InitLine == Init => LineInv
  BY DEF Init, LineInv, ToSet, IsInjective

LEMMA LineStep == Typed /\ LineInv /\ [Next]_vars => LineInv'
<1> SUFFICES ASSUME Typed, LineInv, [Next]_vars PROVE LineInv'
  OBVIOUS
<1>0. DOMAIN jobs \subseteq Ids /\ task \in [Ids -> Tasks]
  BY JobsAreIds DEF Typed
<1>1. ASSUME NEW r \in Requests, Enqueue(r) \/ ResumeEnqueue(r) PROVE LineInv'
  <2>1. Insert(r) /\ UNCHANGED <<task, line, worker>>
    BY <1>1 DEF Enqueue, ResumeEnqueue
  <2>2. QED
    BY <2>1, Inserted DEF LineInv
<1>2. ASSUME NEW j \in DOMAIN jobs, Cancel(j) PROVE LineInv'
  <2>1. /\ jobs' = With(j, "cancelled") \/ UNCHANGED jobs
        /\ UNCHANGED <<task, line, worker>> /\ "cancelled" \in JobStatus
    BY <1>2 DEF Cancel, JobStatus
  <2>2. QED
    BY <2>1, WithStatus DEF LineInv
<1>3. ASSUME NEW j \in DOMAIN jobs, Signal(j) \/ FlagExpires(j) \/ ResumeParked(j)
      PROVE  LineInv'
  BY <1>3 DEF Signal, FlagExpires, ResumeParked, LineInv
<1>4. ASSUME NEW j \in DOMAIN jobs, ClaimNext(j) PROVE LineInv'
  <2>1. /\ jobs' = With(j, "running") /\ task' = [task EXCEPT ![j] = "waiting"]
        /\ line' = Append(line, j) /\ worker = "polling" /\ UNCHANGED worker
        /\ jobs[j].status = "queued"
        /\ "running" \in JobStatus /\ j \in Ids
    BY <1>4, <1>0 DEF ClaimNext, NextQueued, JobStatus
  <2>2. task[j] = "none"
    BY <2>1 DEF LineInv
  <2>3. j \notin ToSet(line)
    BY <2>2 DEF LineInv
  <2>4. /\ line' \in Seq(Ids) /\ ToSet(line') = ToSet(line) \cup {j} /\ IsInjective(line')
    BY <2>1, <2>3, AppendToLine DEF LineInv
  <2>5. ToSet(line') = {i \in Ids : task'[i] = "waiting"}
    BY <2>1, <2>4, <1>0 DEF LineInv
  <2>6. \A i \in Ids : task'[i] # "none" =>
          worker' # "down" /\ i \in DOMAIN jobs' /\ jobs'[i].status # "queued"
    BY <2>1, <1>0, WithStatus DEF LineInv
  <2>7. QED
    BY <2>4, <2>5, <2>6 DEF LineInv
<1>5. ASSUME NEW j \in DOMAIN jobs, Acquire(j) PROVE LineInv'
  <2>1. /\ line # <<>> /\ Head(line) = j /\ line' = Tail(line) /\ j \in Ids
        /\ task' = [task EXCEPT ![j] = Begins(j)] /\ UNCHANGED <<jobs, worker>>
        /\ Begins(j) \in {"none", "working"}
    BY <1>5, <1>0 DEF Acquire, Begins
  <2>2. /\ j \in ToSet(line) /\ line' \in Seq(Ids)
        /\ ToSet(line') = ToSet(line) \ {j} /\ IsInjective(line')
    BY <2>1, TailOfLine DEF LineInv
  <2>3. ToSet(line') = {i \in Ids : task'[i] = "waiting"}
    BY <2>1, <2>2, <1>0 DEF LineInv
  <2>4. \A i \in Ids : task'[i] # "none" =>
          worker' # "down" /\ i \in DOMAIN jobs' /\ jobs'[i].status # "queued"
    BY <2>1, <2>2, <1>0 DEF LineInv
  <2>5. QED
    BY <2>2, <2>3, <2>4 DEF LineInv
<1>6. ASSUME NEW j \in DOMAIN jobs, WorkStep(j) PROVE LineInv'
  <2>1. UNCHANGED <<line, worker>> /\ task[j] # "waiting" /\ task[j] # "none" /\ j \in Ids
    <3>1. UNCHANGED line /\ task[j] # "waiting" /\ task[j] # "none"
      BY <1>6 DEF WorkStep, SeesCancel, ReachGate, Park, LastCheck, PauseForCoverage,
         FinalizeComplete, HandleFailure, EndUnwritten
    <3>2. QED
      BY <1>6, <1>0, <3>1, WorkStepShape
  <2>2. ASSUME NEW st \in JobStatus, Writes(j, st) PROVE LineInv'
    <3>1. jobs' = With(j, st) /\ task' = [task EXCEPT ![j] = "none"]
      BY <2>2 DEF Writes
    <3>2. {i \in Ids : task'[i] = "waiting"} = {i \in Ids : task[i] = "waiting"}
      BY <2>1, <3>1, <1>0
    <3>3. \A i \in Ids : task'[i] # "none" =>
            i \in DOMAIN jobs' /\ jobs'[i].status # "queued" /\ worker # "down"
      BY <2>1, <3>1, <1>0, WithStatus DEF LineInv
    <3>4. QED
      BY <2>1, <3>2, <3>3 DEF LineInv
  <2>3. ASSUME UNCHANGED jobs, NEW at \in {"none", "parking", "finishing"},
               task' = [task EXCEPT ![j] = at]
        PROVE  LineInv'
    <3>1. {i \in Ids : task'[i] = "waiting"} = {i \in Ids : task[i] = "waiting"}
      BY <2>1, <2>3, <1>0
    <3>2. \A i \in Ids : task'[i] # "none" =>
            i \in DOMAIN jobs' /\ jobs'[i].status # "queued" /\ worker # "down"
      BY <2>1, <2>3, <1>0 DEF LineInv
    <3>3. QED
      BY <2>1, <3>1, <3>2 DEF LineInv
  <2>4. QED
    BY <1>6, <2>2, <2>3, WorkStepShape DEF JobStatus
<1>7. CASE Crash
  BY <1>7 DEF Crash, LineInv, ToSet, IsInjective
<1>8. CASE Recover
  <2>1. worker = "down" /\ UNCHANGED <<task, line>>
    BY <1>8 DEF Recover
  <2>2. QED
    BY <2>1 DEF LineInv
<1>9. CASE ClearAll
  BY <1>9, Cleared DEF LineInv
<1>10. CASE PollEnds \/ UNCHANGED vars
  BY <1>10 DEF PollEnds, vars, LineInv
<1>11. QED
  BY <1>1, <1>2, <1>3, <1>4, <1>5, <1>6, <1>7, <1>8, <1>9, <1>10 DEF Next

\* Every state has its type; above all, the semaphore's line holds exactly the
\* tasks that wait for it, each of them once.
THEOREM QueueTypeCorrect == Spec => []TypeOK
<1> DEFINE Rest == /\ flags \subseteq Ids /\ handlers \subseteq Handler
                   /\ confirmed \subseteq Requests /\ crashes \in 0..MaxCrashes
                   /\ missed \subseteq Ids /\ strays \subseteq Ids
                   /\ worker \in {"down", "polling", "ended"}
<1>1. Init => Typed /\ LineInv /\ Rest
  <2> SUFFICES ASSUME Init PROVE Typed /\ LineInv /\ Rest
    OBVIOUS
  <2>1. worker \in {"down", "polling", "ended"} /\ missed \subseteq Ids /\ strays \subseteq Ids
    BY DEF Init
  <2>2. crashes \in 0..MaxCrashes
    BY QueueAssumption DEF Init
  <2>3. flags \subseteq Ids /\ handlers \subseteq Handler /\ confirmed \subseteq Requests
    BY DEF Init
  <2>4. QED
    BY InitTyped, InitLine, <2>1, <2>2, <2>3
<1>2. Typed /\ LineInv /\ Rest /\ [Next]_vars => (Typed /\ LineInv /\ Rest)'
  <2> SUFFICES ASSUME Typed, Rest, [Next]_vars PROVE Rest'
    BY TypedStep, LineStep
  <2>0. DOMAIN jobs \subseteq Ids /\ \A j \in DOMAIN jobs : jobs[j].req \in Requests
    <3>1. \A j \in DOMAIN jobs : jobs[j] \in JobRow
      BY DEF Typed
    <3>2. QED
      BY JobsAreIds, <3>1 DEF JobRow
  <2>1. ASSUME NEW r \in Requests, Enqueue(r) \/ ResumeEnqueue(r) PROVE Rest'
    BY <2>1 DEF Enqueue, ResumeEnqueue
  <2>2. ASSUME NEW j \in DOMAIN jobs, Cancel(j) \/ Signal(j) \/ FlagExpires(j) PROVE Rest'
    BY <2>2, <2>0 DEF Cancel, Signal, FlagExpires, Handler
  <2>3. ASSUME NEW j \in DOMAIN jobs, ClaimNext(j) \/ Acquire(j) PROVE Rest'
    BY <2>3 DEF ClaimNext, Acquire
  <2>4. ASSUME NEW j \in DOMAIN jobs, WorkStep(j) PROVE Rest'
    <3>1. j \in Ids
      BY <2>0
    <3>2. UNCHANGED <<handlers, confirmed, worker, crashes>>
      BY <2>4 DEF WorkStep, SeesCancel, ReachGate, Park, LastCheck, PauseForCoverage,
         FinalizeComplete, HandleFailure, EndUnwritten
    <3>3. flags' \subseteq Ids /\ missed' \subseteq Ids /\ strays' \subseteq Ids
      BY <2>4, <3>1, WorkStepShape DEF Overlooks
    <3>4. QED
      BY <3>2, <3>3
  <2>5. ASSUME NEW j \in DOMAIN jobs, ResumeParked(j) PROVE Rest'
    BY <2>5, <2>0 DEF ResumeParked, Handler
  <2>6. CASE Crash
    <3>1. worker' = "down" /\ strays' = {} /\ UNCHANGED missed
      BY <2>6 DEF Crash
    <3>2. crashes' \in 0..MaxCrashes
      BY <2>6, QueueAssumption DEF Crash
    <3>3. handlers' = {} /\ UNCHANGED <<flags, confirmed>>
      BY <2>6 DEF Crash
    <3>4. QED
      BY <3>1, <3>2, <3>3
  <2>7. CASE Recover
    BY <2>7 DEF Recover
  <2>8. CASE ClearAll
    <3>1. \A i \in DOMAIN jobs : [do |-> "signal", job |-> i] \in Handler
      BY <2>0 DEF Handler
    <3>2. QED
      BY <2>8, <3>1, Cleared
  <2>9. CASE PollEnds \/ UNCHANGED vars
    BY <2>9 DEF PollEnds, vars
  <2>10. QED
    BY <2>1, <2>2, <2>3, <2>4, <2>5, <2>6, <2>7, <2>8, <2>9 DEF Next
<1>3. Typed /\ LineInv /\ Rest => TypeOK
  BY JobsAreIds DEF Typed, LineInv, TypeOK, JobRow
<1> HIDE DEF Rest
<1>4. QED
  BY <1>1, <1>2, <1>3, PTL DEF Spec

-----------------------------------------------------------------------------
(* A cancel in time holds *)

\* CancelHolds is not inductive: a task that is still ahead of its last checkpoint
\* must have the flag in front of it, and none is past that checkpoint.
Held(j) ==
  /\ jobs[j].status \in {"cancelled", "failed", "deleted"}
  /\ task[j] \notin {"parking", "finishing"}
  /\ task[j] \in {"waiting", "working"} => j \in flags

CancelInv == \A j \in stopped \ missed : Held(j)

LEMMA CancelStep == Typed /\ LineInv /\ CancelInv /\ [Next]_vars => CancelInv'
<1> SUFFICES ASSUME Typed, LineInv, CancelInv, [Next]_vars, NEW i \in stopped', i \notin missed'
             PROVE  /\ jobs'[i].status \in {"cancelled", "failed", "deleted"}
                    /\ task'[i] \notin {"parking", "finishing"}
                    /\ task'[i] \in {"waiting", "working"} => i \in flags'
  BY DEF CancelInv, Held
<1> DEFINE Kept == /\ i \in stopped /\ i \notin missed
                   /\ jobs'[i] = jobs[i] /\ task'[i] = task[i]
                   /\ i \in flags => i \in flags'
           Goal == /\ jobs'[i].status \in {"cancelled", "failed", "deleted"}
                   /\ task'[i] \notin {"parking", "finishing"}
                   /\ task'[i] \in {"waiting", "working"} => i \in flags'
<1>0. /\ DOMAIN jobs \subseteq Ids /\ task \in [Ids -> Tasks] /\ stopped \subseteq DOMAIN jobs
      /\ i \in stopped /\ i \notin missed =>
            jobs[i].status \in {"cancelled", "failed", "deleted"}
  BY JobsAreIds DEF Typed, CancelInv, Held
<1>k. Kept => Goal
  BY DEF CancelInv, Held
<1>1. ASSUME NEW r \in Requests, Enqueue(r) \/ ResumeEnqueue(r) PROVE Kept
  <2>1. Insert(r) /\ UNCHANGED <<task, flags, stopped, missed>>
    BY <1>1 DEF Enqueue, ResumeEnqueue
  <2>2. QED
    BY <2>1, <1>0, Inserted
<1>2. ASSUME NEW j \in DOMAIN jobs, Cancel(j) PROVE Kept
  <2>1. /\ \/ /\ jobs' = With(j, "cancelled")
              /\ jobs[j].status \in {"queued", "running", "paused"}
           \/ UNCHANGED jobs
        /\ UNCHANGED <<task, flags, stopped, missed>> /\ "cancelled" \in JobStatus
    BY <1>2 DEF Cancel, Active, JobStatus
  <2>2. CASE UNCHANGED jobs
    BY <2>1, <2>2
  <2>3. CASE ~UNCHANGED jobs
    <3>1. i # j
      BY <2>1, <2>3, <1>0
    <3>2. QED
      BY <2>1, <2>3, <3>1, <1>0, WithStatus
  <2>4. QED
    BY <2>2, <2>3
<1>3. ASSUME NEW j \in DOMAIN jobs, Signal(j) PROVE Goal
  <2>1. UNCHANGED <<jobs, task>>
    BY <1>3 DEF Signal
  <2>2. CASE i # j
    <3>1. i \in stopped /\ i \notin missed /\ (i \in flags => i \in flags')
      BY <1>3, <2>2 DEF Signal
    <3>2. QED
      BY <2>1, <3>1 DEF CancelInv, Held
  <2>3. CASE i = j
    <3>1. flags' = flags \cup {j} /\ missed' = IF InTime(j) THEN missed \ {j} ELSE missed
      BY <1>3, <2>3 DEF Signal
    <3>2. CASE InTime(j)
      BY <2>1, <2>3, <3>1, <3>2 DEF InTime
    <3>3. CASE ~InTime(j)
      <4>1. i \in stopped /\ i \notin missed
        BY <1>3, <2>3, <3>1, <3>3 DEF Signal
      <4>2. QED
        BY <2>1, <2>3, <3>1, <4>1 DEF CancelInv, Held
    <3>4. QED
      BY <3>2, <3>3
  <2>4. QED
    BY <2>2, <2>3
<1>4. ASSUME NEW j \in DOMAIN jobs, FlagExpires(j) PROVE Goal
  <2>1. /\ flags' = flags \ {j} /\ UNCHANGED <<jobs, task, stopped>> /\ i \notin missed
        /\ i = j => task[j] \notin {"waiting", "working"}
    BY <1>4 DEF FlagExpires
  <2>2. QED
    BY <2>1 DEF CancelInv, Held
<1>5. ASSUME NEW j \in DOMAIN jobs, ResumeParked(j) PROVE Kept
  BY <1>5 DEF ResumeParked
<1>6. ASSUME NEW j \in DOMAIN jobs, ClaimNext(j) PROVE Kept
  <2>1. /\ jobs' = With(j, "running") /\ task' = [task EXCEPT ![j] = "waiting"]
        /\ jobs[j].status = "queued" /\ UNCHANGED <<flags, stopped, missed>>
        /\ "running" \in JobStatus
    BY <1>6 DEF ClaimNext, NextQueued, JobStatus
  <2>2. i # j
    BY <2>1, <1>0
  <2>3. QED
    BY <2>1, <2>2, <1>0, WithStatus
<1>7. ASSUME NEW j \in DOMAIN jobs, Acquire(j) PROVE Goal
  <2>1. /\ task' = [task EXCEPT ![j] = Begins(j)] /\ UNCHANGED <<jobs, flags, stopped, missed>>
        /\ Begins(j) \in {"none", "working"}
    BY <1>7 DEF Acquire, Begins
  <2>2. task[j] = "waiting"
    BY <1>7, TailOfLine DEF Acquire, LineInv
  <2>3. QED
    BY <2>1, <2>2, <1>0 DEF CancelInv, Held
<1>8. ASSUME NEW j \in DOMAIN jobs, WorkStep(j) PROVE Goal
  <2>1. UNCHANGED stopped
    BY <1>8, WorkStepShape
  <2>2. ASSUME NEW st \in JobStatus, Writes(j, st), i # j, UNCHANGED missed,
               flags' = flags \ {j} \/ UNCHANGED flags
        PROVE  Kept
    <3>1. jobs' = With(j, st) /\ task' = [task EXCEPT ![j] = "none"]
      BY <2>2 DEF Writes
    <3>2. QED
      BY <2>1, <2>2, <3>1, <1>0, WithStatus
  <2>3. ASSUME NEW st \in {"cancelled", "failed"}, Writes(j, st), i = j PROVE Goal
    <3>1. jobs' = With(j, st) /\ task' = [task EXCEPT ![j] = "none"] /\ st \in JobStatus
      BY <2>3 DEF Writes, JobStatus
    <3>2. jobs'[i].status \in {st, "deleted"}
      BY <2>3, <3>1, WithStatus
    <3>3. QED
      BY <2>3, <3>1, <3>2, <1>0
  <2>4. UNCHANGED missed /\ task[j] \in {"parking", "finishing"} => i # j
    BY <2>1 DEF CancelInv, Held
  <2>5. CASE /\ UNCHANGED <<jobs, flags>> /\ task[j] = "working" /\ Overlooks(j)
             /\ \E at \in {"parking", "finishing"} : task' = [task EXCEPT ![j] = at]
    <3>1. i \notin missed /\ (i = j => j \notin flags)
      BY <2>5 DEF Overlooks
    <3>2. i # j
      BY <2>1, <2>5, <3>1 DEF CancelInv, Held
    <3>3. Kept
      BY <2>1, <2>5, <3>1, <3>2, <1>0
    <3>4. QED
      BY <3>3, <1>k
  <2>6. CASE task' = [task EXCEPT ![j] = "none"] /\ UNCHANGED <<jobs, flags, missed>>
    BY <2>1, <2>6, <1>0 DEF CancelInv, Held
  <2>7. QED
    BY <1>8, <1>k, <2>2, <2>3, <2>4, <2>5, <2>6, WorkStepShape DEF JobStatus
<1>9. CASE Crash
  BY <1>9, <1>0 DEF Crash, CancelInv, Held
<1>10. CASE Recover
  <2>1. UNCHANGED <<task, stopped, missed>>
    BY <1>10 DEF Recover
  <2>2. i \in DOMAIN jobs /\ jobs[i].status \notin {"running", "paused"}
    BY <2>1, <1>0
  <2>3. Kept
    BY <1>10, <2>1, <2>2, Recovered
  <2>4. QED
    BY <2>3, <1>k
<1>11. CASE ClearAll
  <2>1. i \in stopped /\ i \notin missed /\ i \in DOMAIN jobs /\ UNCHANGED <<task, flags>>
    BY <1>11, <1>0, Cleared
  <2>2. jobs'[i].status = "deleted"
    BY <1>11, <2>1, Cleared
  <2>3. QED
    BY <2>1, <2>2 DEF CancelInv, Held
<1>12. CASE PollEnds \/ UNCHANGED vars
  BY <1>12, <1>k DEF PollEnds, vars
<1>13. QED
  BY <1>k, <1>1, <1>2, <1>3, <1>4, <1>5, <1>6, <1>7, <1>8, <1>9, <1>10, <1>11, <1>12 DEF Next

\* A job cancelled or cleared before its last checkpoint stays so, or fails, across
\* restarts, and its task stops there, for as long as its flag is not lost.
THEOREM CancelsHold == Spec => []CancelHolds
<1>1. Init => Typed /\ LineInv /\ CancelInv
  BY InitTyped, InitLine DEF Init, CancelInv
<1>2. Typed /\ LineInv /\ CancelInv /\ [Next]_vars => (Typed /\ LineInv /\ CancelInv)'
  BY TypedStep, LineStep, CancelStep
<1>3. CancelInv => CancelHolds
  BY DEF CancelInv, Held, CancelHolds
<1>4. QED
  BY <1>1, <1>2, <1>3, PTL DEF Spec

=============================================================================
