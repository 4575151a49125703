--------------------------- MODULE DownloadQueue ---------------------------
(***************************************************************************)
(* The download queue: QueueService (nekofetch/services/queue_service.py)  *)
(* writes rows of download_queue, DownloadWorker (download_service.py)     *)
(* claims them and works on each in an asyncio task of its own.            *)
(*                                                                         *)
(* What a job is and what happens to it are two things that only meet at   *)
(* a few points.  The row's status is written by the worker, by cancel, by *)
(* the gates that pause a job and by the restart; a running task never     *)
(* reads it again.  It reads the cancel flag in Redis, at checkpoints, and *)
(* the flag lives ten minutes.  Calls to Redis that fail are swallowed: a  *)
(* flag may not be set, or a checkpoint not see it.  Calls to the database *)
(* may fail too, when a task ends and in the poll loop.                    *)
(*                                                                         *)
(* The owner's /cleardownloads deletes the rows from under their tasks.    *)
(* "Change source", which does so for one request, is in StageRelay; so is *)
(* the request's own status.                                               *)
(***************************************************************************)
EXTENDS Integers, FiniteSets, Sequences, SequencesExt

CONSTANTS Requests,   \* request codes
          Owned,      \* requests submitted by the owner: priority 10, not 100
          Limit,      \* concurrent_downloads
          MaxJobs,    \* bound: rows ever inserted
          MaxCrashes  \* bound: process restarts

ASSUME QueueAssumption ==
  /\ Owned \subseteq Requests /\ Limit \in Nat \ {0}
  /\ MaxJobs \in Nat /\ MaxCrashes \in Nat

VARIABLES jobs,      \* download_queue, in insertion order
          task,      \* how far the job's asyncio task is
          line,      \* tasks waiting for the semaphore, first come first served
          flags,     \* jobs with nf:job:<id>:cancel in Redis
          handlers,  \* what bot handlers have committed and must still do
          confirmed, \* requests whose franchise_data has _ddlmap_confirmed
          stopped,   \* jobs cancelled while a checkpoint was still ahead of them
          missed,    \* those whose task has missed the flag since: it was not set,
                     \* has expired, or was not read
          strays,    \* jobs whose task is over and could not write how it ended
          worker,    \* the poll loop: not yet through recover_on_startup, polling, or
                     \* ended by an error, which nothing restarts
          crashes

vars == <<jobs, task, line, flags, handlers, confirmed, stopped, missed, strays, worker, crashes>>

-----------------------------------------------------------------------------
Ids == 1..MaxJobs
JobStatus == {"queued", "running", "paused", "completed", "failed", "cancelled",
              "deleted"}    \* the row is gone
Active == {"queued", "running", "paused"}

\* In the semaphore's line; at the mapping gate or in the download loop; parking
\* the job at the gate; past the last checkpoint.
Tasks == {"none", "waiting", "working", "parking", "finishing"}

Handler == [do : {"signal"}, job : Ids] \cup [do : {"enqueue"}, req : Requests]

TypeOK ==
  /\ jobs \in Seq([req : Requests, status : JobStatus]) /\ Len(jobs) <= MaxJobs
  /\ task \in [Ids -> Tasks]
  /\ ToSet(line) = {j \in Ids : task[j] = "waiting"} /\ IsInjective(line)
  /\ flags \subseteq Ids
  /\ stopped \subseteq Ids /\ missed \subseteq Ids /\ strays \subseteq Ids
  /\ handlers \subseteq Handler
  /\ confirmed \subseteq Requests
  /\ worker \in {"down", "polling", "ended"} /\ crashes \in 0..MaxCrashes

Init ==
  /\ jobs = <<>> /\ task = [j \in Ids |-> "none"] /\ line = <<>>
  /\ flags = {} /\ handlers = {} /\ confirmed = {}
  /\ stopped = {} /\ missed = {} /\ strays = {}
  /\ worker = "down" /\ crashes = 0

\* Every write of a status is behind "if job is not None".
With(j, status) ==
  IF jobs[j].status = "deleted" THEN jobs ELSE [jobs EXCEPT ![j].status = status]
Ends(j) == task' = [task EXCEPT ![j] = "none"]

-----------------------------------------------------------------------------
(* QueueService *)

Insert(r) ==
  /\ Len(jobs) < MaxJobs
  /\ jobs' = Append(jobs, [req |-> r, status |-> "queued"])

\* Staff pick a source, retry, add links for missing episodes, or publish anyway.
Enqueue(r) ==
  /\ Insert(r)
  /\ UNCHANGED <<task, line, flags, handlers, confirmed, stopped, missed, strays, worker, crashes>>

\* QueueService.cancel commits CANCELLED, then sets the flag; a second tap only sets
\* the flag again.  (A job without a task gets one too, which nobody reads.)
Cancel(j) ==
  /\ jobs[j].status \in Active \/ task[j] # "none"
  /\ jobs' = IF jobs[j].status \in Active THEN With(j, "cancelled") ELSE jobs
  /\ handlers' = handlers \cup {[do |-> "signal", job |-> j]}
  /\ UNCHANGED <<task, line, flags, confirmed, stopped, missed, strays, worker, crashes>>

\* The job was cancelled and its task will look for the flag once more.
InTime(j) ==
  /\ task[j] \notin {"parking", "finishing"}
  /\ jobs[j].status \in {"cancelled", "deleted"}

\* safe_redis_set: a call that fails leaves no flag and tells nobody.
Signal(j) ==
  /\ [do |-> "signal", job |-> j] \in handlers
  /\ handlers' = handlers \ {[do |-> "signal", job |-> j]}
  /\ stopped' = IF InTime(j) THEN stopped \cup {j} ELSE stopped
  /\ \/ /\ flags' = flags \cup {j}
        /\ missed' = IF InTime(j) THEN missed \ {j} ELSE missed
     \/ flags' = flags /\ missed' = missed \cup {j}
  /\ UNCHANGED <<jobs, task, line, confirmed, strays, worker, crashes>>

\* QueueService.cancel_all_active deletes every row there is, then sets the flags
\* of those that were active.
ClearAll ==
  LET ids == {j \in DOMAIN jobs : jobs[j].status \in Active}
  IN  /\ \E j \in DOMAIN jobs : jobs[j].status # "deleted"
      /\ jobs' = [j \in DOMAIN jobs |-> [jobs[j] EXCEPT !.status = "deleted"]]
      /\ handlers' = handlers \cup {[do |-> "signal", job |-> j] : j \in ids}
      /\ UNCHANGED <<task, line, flags, confirmed, stopped, missed, strays, worker, crashes>>

\* ex=600, counted from the signal; a task can wait in line for longer.
FlagExpires(j) ==
  /\ j \in flags /\ flags' = flags \ {j}
  /\ missed' = IF task[j] \in {"waiting", "working"} THEN missed \cup {j} ELSE missed
  /\ UNCHANGED <<jobs, task, line, handlers, confirmed, stopped, strays, worker, crashes>>

-----------------------------------------------------------------------------
(* DownloadWorker: the poll loop *)

Before(i, j) ==
  \/ jobs[i].req \in Owned /\ jobs[j].req \notin Owned
  \/ (jobs[i].req \in Owned <=> jobs[j].req \in Owned) /\ i < j

\* ORDER BY priority, created_at LIMIT 1
NextQueued(j) ==
  /\ jobs[j].status = "queued"
  /\ \A i \in DOMAIN jobs \ {j} : jobs[i].status = "queued" => Before(j, i)

\* Every queued job is claimed and lines up, however many are running.
ClaimNext(j) ==
  /\ worker = "polling" /\ NextQueued(j)
  /\ jobs' = With(j, "running")
  /\ task' = [task EXCEPT ![j] = "waiting"]
  /\ line' = Append(line, j)
  /\ UNCHANGED <<flags, handlers, confirmed, stopped, missed, strays, worker, crashes>>

\* (mutant) The semaphore's line is popped at the wrong end.
AcquireFront(j) ==
  /\ line # <<>> /\ Head(line) = j
  /\ Cardinality({i \in Ids : task[i] \in {"working", "parking", "finishing"}}) < Limit
  /\ line' = Front(line)
  /\ task' = [task EXCEPT ![j] = "working"]
  /\ UNCHANGED <<jobs, flags, handlers, confirmed, stopped, missed, strays, worker, crashes>>

\* A job that was deleted meanwhile fails on its first line, and _handle_failure
\* finds nothing to mark.
Begins(j) == IF jobs[j].status = "deleted" THEN "none" ELSE "working"

\* asyncio.Semaphore wakes its waiters in the order they came.
Acquire(j) ==
  /\ line # <<>> /\ Head(line) = j
  /\ Cardinality({i \in Ids : task[i] \in {"working", "parking", "finishing"}}) < Limit
  /\ line' = Tail(line)
  /\ task' = [task EXCEPT ![j] = Begins(j)]
  /\ UNCHANGED <<jobs, flags, handlers, confirmed, stopped, missed, strays, worker, crashes>>

-----------------------------------------------------------------------------
(* DownloadWorker._process_job *)

\* A checkpoint finds the flag: _finalize_cancelled.
SeesCancel(j) ==
  /\ task[j] = "working" /\ j \in flags
  /\ jobs' = With(j, "cancelled") /\ flags' = flags \ {j} /\ Ends(j)
  /\ UNCHANGED <<line, handlers, confirmed, stopped, missed, strays, worker, crashes>>

\* The task goes on without having seen a flag: there is none, Redis did not answer,
\* or nobody asked.
Overlooks(j) == missed' = IF j \in flags THEN missed \cup {j} ELSE missed

\* A DDL mapping that is uncertain and unconfirmed: with a card, which is not shown if
\* the flag is seen, or, where Levi or its chat is missing, without a look at the flag.
ReachGate(j) ==
  /\ task[j] = "working"
  /\ jobs[j].req \notin confirmed
  /\ task' = [task EXCEPT ![j] = "parking"]
  /\ Overlooks(j)
  /\ UNCHANGED <<jobs, line, flags, handlers, confirmed, stopped, strays, worker, crashes>>

Park(j) ==
  /\ task[j] = "parking"
  /\ jobs' = With(j, "paused") /\ Ends(j)
  /\ UNCHANGED <<line, flags, handlers, confirmed, stopped, missed, strays, worker, crashes>>

\* (mutant) The checks at the end of the loop are gone.
SkipLastCheck(j) ==
  /\ task[j] = "working"
  /\ task' = [task EXCEPT ![j] = "finishing"]
  /\ UNCHANGED <<jobs, line, flags, handlers, confirmed, stopped, missed, strays, worker, crashes>>

\* "Final cancel check before completing the job", which has seen no flag.
LastCheck(j) ==
  /\ task[j] = "working"
  /\ task' = [task EXCEPT ![j] = "finishing"]
  /\ Overlooks(j)
  /\ UNCHANGED <<jobs, line, flags, handlers, confirmed, stopped, strays, worker, crashes>>

\* The franchise still misses episodes: the coverage gate pauses the job.
PauseForCoverage(j) ==
  /\ task[j] = "finishing" /\ jobs[j].status # "deleted"
  /\ jobs' = With(j, "paused") /\ Ends(j)
  /\ UNCHANGED <<line, flags, handlers, confirmed, stopped, missed, strays, worker, crashes>>

FinalizeComplete(j) ==
  /\ task[j] = "finishing"
  /\ jobs' = With(j, "completed") /\ Ends(j)
  /\ UNCHANGED <<line, flags, handlers, confirmed, stopped, missed, strays, worker, crashes>>

\* (mutant) The exception ends the task and nothing else.
FailSilently(j) ==
  /\ task[j] \in {"working", "finishing"}
  /\ Ends(j)
  /\ UNCHANGED <<jobs, line, flags, handlers, confirmed, stopped, missed, strays, worker, crashes>>

\* Any exception: no files, a stage that fails.
HandleFailure(j) ==
  /\ task[j] \in {"working", "finishing"}
  /\ jobs' = With(j, "failed") /\ Ends(j)
  /\ UNCHANGED <<line, flags, handlers, confirmed, stopped, missed, strays, worker, crashes>>

\* _park_job swallows an error of its transaction, and nothing is behind an error in
\* _handle_failure: the task is over and the row stays as it is.
EndUnwritten(j) ==
  /\ task[j] \in {"working", "parking", "finishing"}
  /\ Ends(j) /\ strays' = strays \cup {j}
  /\ UNCHANGED <<jobs, line, flags, handlers, confirmed, stopped, missed, worker, crashes>>

-----------------------------------------------------------------------------
(* naming_confirm.resume_parked_ddl_mapping: "Proceed", or Save in the editor *)

\* The mapping is confirmed on the request; the paused job itself stays paused.
ResumeParked(j) ==
  /\ jobs[j].status = "paused"
  /\ confirmed' = confirmed \cup {jobs[j].req}
  /\ handlers' = handlers \cup {[do |-> "enqueue", req |-> jobs[j].req]}
  /\ UNCHANGED <<jobs, task, line, flags, stopped, missed, strays, worker, crashes>>

ResumeEnqueue(r) ==
  /\ [do |-> "enqueue", req |-> r] \in handlers
  /\ Insert(r)
  /\ handlers' = handlers \ {[do |-> "enqueue", req |-> r]}
  /\ UNCHANGED <<task, line, flags, confirmed, stopped, missed, strays, worker, crashes>>

-----------------------------------------------------------------------------
(* Restart, and the end of the poll loop *)

Crash ==
  /\ crashes < MaxCrashes /\ crashes' = crashes + 1
  /\ worker' = "down" /\ strays' = {}
  /\ task' = [j \in Ids |-> "none"] /\ line' = <<>> /\ handlers' = {}
  /\ UNCHANGED <<jobs, flags, confirmed, stopped, missed>>

\* (mutant) Only jobs that had been paused are picked up again.
RecoverPaused ==
  LET orphaned == {j \in DOMAIN jobs : jobs[j].status = "paused"}
  IN  /\ worker = "down" /\ worker' = "polling"
      /\ jobs' = [j \in DOMAIN jobs |->
                    IF j \in orphaned THEN [jobs[j] EXCEPT !.status = "queued"] ELSE jobs[j]]
      /\ flags' = flags \ orphaned
      /\ UNCHANGED <<task, line, handlers, confirmed, stopped, missed, strays, crashes>>

\* recover_on_startup, with resume_interrupted as in config.yaml
Recover ==
  LET orphaned == {j \in DOMAIN jobs : jobs[j].status \in {"running", "paused"}}
  IN  /\ worker = "down" /\ worker' = "polling"
      /\ jobs' = [j \in DOMAIN jobs |->
                    IF j \in orphaned THEN [jobs[j] EXCEPT !.status = "queued"] ELSE jobs[j]]
      /\ flags' = flags \ orphaned
      /\ UNCHANGED <<task, line, handlers, confirmed, stopped, missed, strays, crashes>>

\* run_forever has no try: an error of the recovery or of _claim_next ends the loop.
\* Tasks under way go on.
PollEnds ==
  /\ worker # "ended" /\ worker' = "ended"
  /\ UNCHANGED <<jobs, task, line, flags, handlers, confirmed, stopped, missed, strays, crashes>>

-----------------------------------------------------------------------------
WorkStep(j) ==
  \/ SeesCancel(j) \/ ReachGate(j) \/ Park(j) \/ LastCheck(j)
  \/ PauseForCoverage(j) \/ FinalizeComplete(j) \/ HandleFailure(j) \/ EndUnwritten(j)

Next ==
  \/ \E r \in Requests : Enqueue(r) \/ ResumeEnqueue(r)
  \/ \E j \in DOMAIN jobs :
        \/ Cancel(j) \/ Signal(j) \/ FlagExpires(j)
        \/ ClaimNext(j) \/ Acquire(j) \/ WorkStep(j) \/ ResumeParked(j)
  \/ ClearAll
  \/ Crash
  \/ Recover \/ PollEnds

Spec == Init /\ [][Next]_vars

\* The process comes up, the worker polls every two seconds, a released semaphore
\* wakes its first waiter, and a download ends or fails.
Fairness ==
  /\ WF_vars(Recover)
  /\ \A j \in Ids : /\ WF_vars(j \in DOMAIN jobs /\ ClaimNext(j))
                    /\ WF_vars(j \in DOMAIN jobs /\ Acquire(j))
                    /\ WF_vars(j \in DOMAIN jobs /\ WorkStep(j))

FairSpec == Spec /\ Fairness

-----------------------------------------------------------------------------
(* Properties *)

\* No "phantom 'downloading' row" (recover_on_startup): while the worker polls, a job
\* is RUNNING only if a task of this process is on it, or was and could not write how
\* it ended.
NoPhantomJob ==
  worker = "polling" => \A j \in DOMAIN jobs \ strays : jobs[j].status = "running" => task[j] # "none"

\* "Cancel a single job entirely ... Works for running, queued, and orphaned/ghost
\* jobs" (QueueService.cancel), and "wipe the download state" (cancel_all_active).  A
\* job cancelled before its last checkpoint is never completed, paused or queued
\* again, restart or not, and its task does not go on to process and hand over what
\* was downloaded: a cancel is only ever lost with its flag.
CancelHolds ==
  \A j \in stopped \ missed :
    /\ jobs[j].status \in {"cancelled", "failed", "deleted"}
    /\ task[j] \notin {"parking", "finishing"}

\* A queued job is worked on in the end, whatever is in line before it and across
\* restarts: it ends, or waits for a person, unless an error ended the poll loop or
\* kept its end from being written.
JobsEnd ==
  \A j \in Ids :
    (j \in DOMAIN jobs /\ jobs[j].status \in {"queued", "running"})
      ~> \/ j \in DOMAIN jobs /\ jobs[j].status \notin {"queued", "running"}
         \/ j \in strays \/ worker = "ended"

\* "Any job left RUNNING/PAUSED was orphaned by a crash or kill"
\* (recover_on_startup): a restart brings back no job whose request a later job
\* has finished.
NoGhostRun ==
  \A i, j \in DOMAIN jobs :
    i < j /\ jobs[i].req = jobs[j].req /\ jobs[j].status = "completed"
      => jobs[i].status \notin {"queued", "running"}

=============================================================================
