----------------------------- MODULE StageRelay -----------------------------
(***************************************************************************)
(* How a request travels from Lelouch to Levi, Senku and Gojo.  Nothing    *)
(* but PostgreSQL carries it: the request's status, its assignment rows    *)
(* and its download job.  The code that moves it is a coroutine between    *)
(* two transactions - the submit flow, the download finalizer, the two     *)
(* handoffs, publish - and dies with the process.  The assignment-recovery *)
(* job, every 60 seconds, is what picks a request up again.                *)
(*                                                                         *)
(* The assignment engine appears here as what AssignmentSlots promises:    *)
(* one slot per stage, given, offered or left free.  A glitch is a         *)
(* database or Telegram error that the code catches and logs; a crash is a *)
(* restart of the process.  require_approval_before_publish is true, as in *)
(* config.yaml.                                                            *)
(***************************************************************************)
EXTENDS Integers, FiniteSets

CONSTANTS Requests,   \* request codes, numbered in the order of created_at
          Redos,      \* those that may be created with redo_relink
          Updates,    \* those that carry update_entry
          Page,       \* limit: requests one recovery tick looks at
          Diligent,   \* staff work only on tasks they have accepted
          SlowDatabase, \* a few queries in a row may outlast calls to Telegram
          LateReset,  \* a reset, a cancel or a deletion may meet a running coroutine
          MaxCrashes, \* bound: process restarts
          MaxGlitches \* bound: caught errors

ASSUME RelayAssumption ==
  /\ Requests \subseteq Nat /\ IsFiniteSet(Requests)
  /\ Redos \subseteq Requests /\ Updates \subseteq Requests \ Redos
  /\ Page \in Nat \ {0} /\ Diligent \in BOOLEAN /\ SlowDatabase \in BOOLEAN
  /\ LateReset \in BOOLEAN
  /\ MaxCrashes \in Nat /\ MaxGlitches \in Nat

VARIABLES status,   \* Request.status
          redo,     \* requests whose franchise_data carries redo_relink
          job,      \* the request's download job
          slot,     \* the open assignment row of each stage
          finished, \* stages with a completed assignment row
          hand,     \* next step of the coroutine that is moving the request
          posting,  \* requests published but not yet cleaned up after
          winding,  \* requests of which a cancelled worker has not ended yet
          tick,     \* requests the running recovery tick must still look at
          hurt,     \* (history) requests that met one of the events of Hurt
          crashes, glitches

vars == <<status, redo, job, slot, finished, hand, posting, winding, tick, hurt,
          crashes, glitches>>

-----------------------------------------------------------------------------
Stages   == {"levi", "senku", "gojo"}
Statuses == {"none", "pending", "queued", "approved", "downloading", "processing", "ready",
             "published", "rejected", "failed", "gone"}
Jobs     == {"none", "queued", "running", "paused", "failed", "cancelled", "done"}
Slot     == {"free", "offered", "held"}
Steps    == {"idle", "submit_assign", "submit_pin", "submit_queue", "bridge_assign",
             "relink", "finalize", "complete_levi", "publish_redo", "fallback_gojo",
             "assign_senku", "complete_senku", "assign_gojo"}

\* Distribution exists already: publish relinks or appends, Senku is skipped.  The
\* handoff reads it from the request's row, and finds nothing where that is deleted.
SkipsSenku == {r \in redo \cup Updates : status[r] # "gone"}

\* What assign may leave in a slot: an open row is returned as it is.
Assigned(old) == IF old = "free" THEN {"free", "offered", "held"} ELSE {old}

TypeOK ==
  /\ status \in [Requests -> Statuses]
  /\ redo \subseteq Redos
  /\ job \in [Requests -> Jobs]
  /\ slot \in [Requests -> [Stages -> Slot]]
  /\ finished \in [Requests -> SUBSET Stages]
  /\ hand \in [Requests -> Steps]
  /\ posting \subseteq Requests /\ winding \subseteq Requests /\ hurt \subseteq Requests
  /\ tick \subseteq Requests \X {"queued", "ready"}
  /\ crashes \in Nat /\ glitches \in Nat

Init ==
  /\ status = [r \in Requests |-> "none"]
  /\ redo \in SUBSET Redos
  /\ job = [r \in Requests |-> "none"]
  /\ slot = [r \in Requests |-> [s \in Stages |-> "free"]]
  /\ finished = [r \in Requests |-> {}]
  /\ hand = [r \in Requests |-> "idle"]
  /\ posting = {} /\ winding = {} /\ tick = {} /\ hurt = {}
  /\ crashes = 0 /\ glitches = 0

-----------------------------------------------------------------------------
(* Building blocks: one committed transaction each *)

Goto(r, from, to) == hand[r] = from /\ hand' = [hand EXCEPT ![r] = to]

\* engine.assign(code, stage)
Assign(r, s) ==
  \E new \in Assigned(slot[r][s]) : slot' = [slot EXCEPT ![r][s] = new]

\* (mutant) The closed row still shows as the slot.
CompleteKeepsRow(r, s) ==
  \/ /\ slot[r][s] = "held"
     /\ slot' = [slot EXCEPT ![r][s] = "completed"]
     /\ finished' = [finished EXCEPT ![r] = @ \cup {s}]
  \/ /\ slot[r][s] # "held"
     /\ UNCHANGED <<slot, finished>>

\* engine.complete_task(code, stage) sees only an assigned row, never an offer.
Complete(r, s) ==
  \/ /\ slot[r][s] = "held"
     /\ slot' = [slot EXCEPT ![r][s] = "free"]
     /\ finished' = [finished EXCEPT ![r] = @ \cup {s}]
  \/ /\ slot[r][s] # "held"
     /\ UNCHANGED <<slot, finished>>

\* Buttons and commands carry a request code; they check that the user is staff,
\* not that the assignment row is theirs or still open.
MayOpen(r, s) == Diligent => slot[r][s] = "held"

\* Nobody is between two queries about r, a recovery tick or a handoff that has yet to
\* assign.
Unread(r) ==
  (\A seen \in {"queued", "ready"} : <<r, seen>> \notin tick) /\ hand[r] # "assign_gojo"

\* A step behind several calls to Telegram: what was between two queries then is
\* through by now.
QueriesEnded(r) == SlowDatabase \/ Unread(r)

\* What resets a request meets no coroutine that is moving it.
MayReset(r) == LateReset \/ hand[r] = "idle"

\* A caught exception.
Glitch == glitches < MaxGlitches /\ glitches' = glitches + 1

\* What a request may not come back from: staff act on a task they do not hold; a reset
\* meets a coroutine; a query outlasts calls to Telegram; one of three calls raises, a
\* submission, complete_task inside an except clause, the second try to publish an
\* update or a redo; or the process ends where Cut says.
Hurt(r, event) == hurt' = IF event THEN hurt \cup {r} ELSE hurt

\* complete_task inside an except clause that logs and goes on.
TryComplete(r, s) ==
  \/ Complete(r, s) /\ UNCHANGED <<hurt, glitches>>
  \/ Glitch /\ Hurt(r, TRUE) /\ UNCHANGED <<slot, finished>>

-----------------------------------------------------------------------------
(* Intake *)

\* RequestService.submit
Submit(r) ==
  /\ r \notin SkipsSenku /\ status[r] = "none"
  /\ Goto(r, "idle", "submit_assign")
  /\ status' = [status EXCEPT ![r] = "pending"]
  /\ UNCHANGED <<redo, job, slot, finished, posting, winding, tick, hurt, crashes,
                 glitches>>

\* An admin taken, or quiet hours: go on.  Nobody at all: pin it to the owner.
SubmitAssign(r) ==
  /\ \/ Goto(r, "submit_assign", "submit_queue") /\ Assign(r, "levi")
     \/ Goto(r, "submit_assign", "submit_pin") /\ slot[r]["levi"] = "free" /\ UNCHANGED slot
  /\ UNCHANGED <<redo, status, job, finished, posting, winding, tick, hurt, crashes,
                 glitches>>

SubmitPin(r) ==
  /\ Goto(r, "submit_pin", "submit_queue")
  /\ slot' = [slot EXCEPT ![r]["levi"] = "held"]
  /\ UNCHANGED <<redo, status, job, finished, posting, winding, tick, hurt, crashes,
                 glitches>>

SubmitQueue(r) ==
  /\ Goto(r, "submit_queue", "idle")
  /\ status' = [status EXCEPT ![r] = IF @ = "gone" THEN "gone" ELSE "queued"]
  /\ UNCHANGED <<redo, job, slot, finished, posting, winding, tick, hurt, crashes,
                 glitches>>

\* One except clause covers assign, reassign and the status update.
SubmitFails(r) ==
  /\ hand[r] \in {"submit_assign", "submit_pin", "submit_queue"}
  /\ hand' = [hand EXCEPT ![r] = "idle"] /\ Glitch /\ Hurt(r, TRUE)
  /\ UNCHANGED <<redo, status, job, slot, finished, posting, winding, tick, crashes>>

\* Batch, redo and update entries are created QUEUED and assigned afterwards.
Bridge(r) ==
  /\ status[r] = "none"
  /\ Goto(r, "idle", "bridge_assign")
  /\ status' = [status EXCEPT ![r] = "queued"]
  /\ UNCHANGED <<redo, job, slot, finished, posting, winding, tick, hurt, crashes,
                 glitches>>

BridgeAssign(r) ==
  /\ Goto(r, "bridge_assign", "idle")
  /\ Assign(r, "levi")
  /\ UNCHANGED <<redo, status, job, finished, posting, winding, tick, hurt, crashes,
                 glitches>>

-----------------------------------------------------------------------------
(* Download *)

\* QueueService.enqueue, when an admin has picked a source; a job that is paused for
\* more links is superseded.
Enqueue(r) ==
  /\ status[r] \notin {"none", "gone"}
  /\ job[r] \in {"none", "paused", "failed", "cancelled"}
  /\ MayOpen(r, "levi") /\ Hurt(r, slot[r]["levi"] # "held")
  /\ job' = [job EXCEPT ![r] = "queued"]
  /\ status' = [status EXCEPT ![r] = "queued"]
  /\ UNCHANGED <<redo, slot, finished, hand, posting, winding, tick, crashes, glitches>>

\* The request stays QUEUED while its job runs.
StartJob(r) ==
  /\ job[r] = "queued"
  /\ job' = [job EXCEPT ![r] = "running"]
  /\ UNCHANGED <<redo, status, slot, finished, hand, posting, winding, tick, hurt,
                 crashes, glitches>>

\* ProcessingPipeline.run_for_job: a quality tier is processed, not the last one
\* perhaps, and redo or not.
TierProcessed(r) ==
  /\ job[r] = "running" /\ hand[r] = "idle"
  /\ status' = [status EXCEPT ![r] = "ready"]
  /\ UNCHANGED <<redo, job, slot, finished, hand, posting, winding, tick, hurt, crashes,
                 glitches>>

\* _handle_failure leaves the request where it was.
JobFails(r) ==
  /\ job[r] = "running" /\ hand[r] = "idle" /\ Glitch
  /\ job' = [job EXCEPT ![r] = "failed"]
  /\ UNCHANGED <<redo, status, slot, finished, hand, posting, winding, tick, hurt, crashes>>

\* _maybe_pause_for_coverage
PauseForLinks(r) ==
  /\ job[r] = "running" /\ hand[r] = "idle"
  /\ job' = [job EXCEPT ![r] = "paused"]
  /\ status' = [status EXCEPT ![r] = "downloading"]
  /\ UNCHANGED <<redo, slot, finished, hand, posting, winding, tick, hurt, crashes,
                 glitches>>

\* QueueService.cancel, from the queue.  A worker that has the job ends later.
Cancel(r) ==
  /\ job[r] \in {"queued", "running", "paused"} /\ MayReset(r) /\ MayOpen(r, "levi")
  /\ Hurt(r, hand[r] # "idle")
  /\ job' = [job EXCEPT ![r] = "cancelled"]
  /\ status' = [status EXCEPT ![r] = "failed"]
  /\ winding' = IF job[r] = "running" THEN winding \cup {r} ELSE winding
  /\ UNCHANGED <<redo, slot, finished, hand, posting, tick, crashes, glitches>>

\* _finalize_cancelled, whatever has become of the request.
WindUp(r) ==
  /\ r \in winding /\ winding' = winding \ {r}
  /\ MayReset(r) /\ (job[r] = "done" => LateReset)
  /\ Hurt(r, hand[r] # "idle" \/ job[r] = "done")
  /\ status' = [status EXCEPT ![r] = "failed"]
  /\ UNCHANGED <<redo, job, slot, finished, hand, posting, tick, crashes, glitches>>

\* "Change source" tells the worker to stop before it resets the request, and the worker
\* may be the faster: _finalize_source_aborted.
SourceAborted(r) ==
  /\ job[r] = "running" /\ hand[r] = "idle"
  /\ MayOpen(r, "levi")
  /\ job' = [job EXCEPT ![r] = "cancelled"]
  /\ status' = [status EXCEPT ![r] = "approved"]
  /\ UNCHANGED <<redo, slot, finished, hand, posting, winding, tick, hurt, crashes,
                 glitches>>

\* "Change source", RequestService.reset_source: the job and its files go, the
\* assignment stays, and a redo is one no longer.
ChangeSource(r) ==
  /\ job[r] \in {"running", "cancelled"} /\ MayReset(r) /\ MayOpen(r, "levi")
  /\ Hurt(r, hand[r] # "idle")
  /\ job' = [job EXCEPT ![r] = "none"]
  /\ status' = [status EXCEPT ![r] = "pending"]
  /\ redo' = redo \ {r} /\ winding' = winding \ {r}
  /\ UNCHANGED <<slot, finished, hand, posting, tick, crashes, glitches>>

\* _finalize_after_qualities, of whatever status the tiers, an older job's cancel or a
\* rejection left.
TiersDone(r) ==
  /\ job[r] = "running"
  /\ Goto(r, "idle", IF r \in redo THEN "relink" ELSE "finalize")
  /\ status' = [status EXCEPT ![r] = "processing"]
  /\ UNCHANGED <<redo, job, slot, finished, posting, winding, tick, hurt, crashes,
                 glitches>>

\* (mutant) Redos become READY as well.
ReadyForEveryone(r) == IF status[r] = "processing" THEN "ready" ELSE status[r]

\* (mutant) The finalizer asserts nothing: the request strands at PROCESSING.
StaysProcessing(r) == status[r]

\* The status a finished download leaves: READY, but never where Senku is skipped.
DownloadedStatus(r) ==
  IF r \notin SkipsSenku /\ status[r] = "processing" THEN "ready" ELSE status[r]

FinalizeComplete(r) ==
  /\ Goto(r, "finalize", "complete_levi")
  /\ r \notin posting
  /\ QueriesEnded(r) /\ Hurt(r, ~Unread(r))
  /\ \/ /\ job[r] # "none"
        /\ job' = [job EXCEPT ![r] = "done"]
        /\ status' = [status EXCEPT ![r] = DownloadedStatus(r)]
     \/ /\ job[r] = "none"     \* reset meanwhile: there is no row to complete
        /\ UNCHANGED <<job, status>>
  /\ UNCHANGED <<redo, slot, finished, posting, winding, tick, crashes, glitches>>

-----------------------------------------------------------------------------
(* PublishingService.publish: the status first, then the task cleanup *)

Published(r) ==
  /\ status' = [status EXCEPT ![r] = "published"]
  /\ posting' = posting \cup {r}

PublishCleanup(r) ==
  /\ r \in posting
  /\ TryComplete(r, "gojo")
  /\ posting' = posting \ {r}
  /\ UNCHANGED <<redo, status, job, hand, winding, tick, crashes>>

\* The redo relink inside the finalizer; an update, or a redo whose relink failed,
\* is published in the handoff.
RelinkRedo(r) ==
  /\ \/ Goto(r, "relink", "finalize")
     \/ Goto(r, "publish_redo", "idle")
  /\ status[r] # "gone"
  /\ Published(r)
  /\ UNCHANGED <<redo, job, slot, finished, winding, tick, hurt, crashes, glitches>>

RelinkFails(r) ==
  /\ \/ Goto(r, "relink", "finalize")
     \/ Goto(r, "publish_redo", "fallback_gojo")
  /\ \/ Glitch
     \/ status[r] = "gone" /\ UNCHANGED glitches
  /\ Hurt(r, hand[r] = "publish_redo")
  /\ UNCHANGED <<redo, status, job, slot, finished, posting, winding, tick, crashes>>

\* Gojo's button or a due schedule.
Publish(r) ==
  /\ status[r] \in {"processing", "ready"} /\ job[r] = "done"
  /\ hand[r] \notin {"complete_levi", "publish_redo"}
  /\ MayOpen(r, "gojo") /\ QueriesEnded(r)
  /\ Hurt(r, slot[r]["gojo"] # "held" \/ ~Unread(r))
  /\ Published(r)
  /\ UNCHANGED <<redo, job, slot, finished, hand, winding, tick, crashes, glitches>>

-----------------------------------------------------------------------------
(* handoff_download_to_distribution *)

CompleteLevi(r) ==
  /\ r \notin posting
  /\ Goto(r, "complete_levi", IF r \notin SkipsSenku THEN "assign_senku"
                              ELSE IF r \in redo /\ status[r] = "published" THEN "idle"
                              ELSE "publish_redo")
  /\ TryComplete(r, "levi")
  /\ UNCHANGED <<redo, status, job, posting, winding, tick, crashes>>

AssignSenku(r) ==
  /\ Goto(r, "assign_senku", "idle")
  /\ Assign(r, "senku")
  /\ UNCHANGED <<redo, status, job, finished, posting, winding, tick, hurt, crashes,
                 glitches>>

FallbackGojo(r) ==
  /\ Goto(r, "fallback_gojo", "idle")
  /\ Assign(r, "gojo")
  /\ UNCHANGED <<redo, status, job, finished, posting, winding, tick, hurt, crashes,
                 glitches>>

(* handoff_distribution_to_publish, at the end of Senku's wizard *)

SenkuPublishes(r) ==
  /\ status[r] = "ready" /\ job[r] = "done"
  /\ MayOpen(r, "senku") /\ Hurt(r, slot[r]["senku"] # "held")
  /\ Goto(r, "idle", "complete_senku")
  /\ UNCHANGED <<redo, status, job, slot, finished, posting, winding, tick, crashes,
                 glitches>>

CompleteSenku(r) ==
  /\ Goto(r, "complete_senku", "assign_gojo")
  /\ Complete(r, "senku")
  /\ UNCHANGED <<redo, status, job, posting, winding, tick, hurt, crashes, glitches>>

\* One except clause covers complete_task and assign.
CompleteSenkuFails(r) ==
  /\ Goto(r, "complete_senku", "idle")
  /\ Glitch
  /\ UNCHANGED <<redo, status, job, slot, finished, posting, winding, tick, hurt, crashes>>

AssignGojo(r) ==
  /\ Goto(r, "assign_gojo", "idle")
  /\ Assign(r, "gojo")
  /\ UNCHANGED <<redo, status, job, finished, posting, winding, tick, hurt, crashes,
                 glitches>>

-----------------------------------------------------------------------------
(* What takes a request off the line *)

\* RequestService.reject, from the review board: the status, and nothing else.
Reject(r) ==
  /\ status[r] \in {"pending", "queued"}
  /\ status' = [status EXCEPT ![r] = "rejected"]
  /\ UNCHANGED <<redo, job, slot, finished, hand, posting, winding, tick, hurt, crashes,
                 glitches>>

\* RequestService.abandon, on the card of a failed job: another source may be picked.
\* Unlike reset_source it leaves redo_relink where it is.
Abandon(r) ==
  /\ job[r] = "failed"
  /\ job' = [job EXCEPT ![r] = "none"] /\ winding' = winding \ {r}
  /\ status' = [status EXCEPT ![r] = "pending"]
  /\ UNCHANGED <<redo, slot, finished, hand, posting, tick, hurt, crashes, glitches>>

\* A deletion that nothing overlaps ends whatever befell the request.
Erased(r) ==
  hurt' = IF hand[r] = "idle" /\ Unread(r) THEN hurt \ {r} ELSE hurt \cup {r}

\* (mutant) The assignment rows, which no foreign key ties to the request, stay.
KeepsAssignments(r) ==
  /\ status[r] \notin {"none", "gone"} /\ MayReset(r) /\ QueriesEnded(r)
  /\ Erased(r)
  /\ job' = [job EXCEPT ![r] = "none"] /\ winding' = winding \ {r}
  /\ UNCHANGED <<slot, finished>>

\* _purge_request_rows and _clear_assignments: first the packs' messages in Telegram,
\* then, in one transaction, the jobs, the assignment rows and the request itself.
TornDown(r) ==
  /\ status[r] \notin {"none", "gone"} /\ MayReset(r) /\ QueriesEnded(r)
  /\ Erased(r)
  /\ job' = [job EXCEPT ![r] = "none"] /\ winding' = winding \ {r}
  /\ slot' = [slot EXCEPT ![r] = [s \in Stages |-> "free"]]
  /\ finished' = [finished EXCEPT ![r] = {}]

\* RequestService.delete_request
Delete(r) ==
  /\ TornDown(r)
  /\ status' = [status EXCEPT ![r] = "gone"]
  /\ UNCHANGED <<redo, hand, posting, tick, crashes, glitches>>

\* RequestService.reassign_fresh: in the same transaction a new ticket of the same
\* kind; its download stage is assigned afterwards.
Refetch(r, q) ==
  /\ status[q] = "none" /\ (q \in redo <=> r \in redo) /\ (q \in Updates <=> r \in Updates)
  /\ TornDown(r)
  /\ status' = [status EXCEPT ![r] = "gone", ![q] = "queued"]
  /\ hand' = [hand EXCEPT ![q] = "bridge_assign"]
  /\ UNCHANGED <<redo, posting, tick, crashes, glitches>>

-----------------------------------------------------------------------------
(* Offers *)

Accept(r, s) ==
  /\ slot[r][s] = "offered"
  /\ slot' = [slot EXCEPT ![r][s] = "held"]
  /\ UNCHANGED <<redo, status, job, finished, hand, posting, winding, tick, hurt,
                 crashes, glitches>>

\* Declined, or silent for an hour: then the sweep may hand it to someone else.
Decline(r, s) ==
  /\ slot[r][s] = "offered"
  /\ \E new \in {"free", "held"} : slot' = [slot EXCEPT ![r][s] = new]
  /\ UNCHANGED <<redo, status, job, finished, hand, posting, winding, tick, hurt,
                 crashes, glitches>>

-----------------------------------------------------------------------------
(* recover_assignment_queue *)

MissingStage(r, seen) ==
  LET open(s) == slot[r][s] # "free"
      done(s) == s \in finished[r]
  IN  CASE seen = "queued" /\ ~done("levi") /\ ~open("levi") -> "levi"
        [] seen = "ready" /\ done("senku") /\ ~open("gojo") /\ ~done("gojo") -> "gojo"
        [] seen = "ready" /\ done("levi") /\ ~open("senku") /\ ~done("senku") -> "senku"
        [] OTHER -> "none"

\* (mutant) The tick looks at queued requests only.
FirstQueued ==
  LET waiting == {r \in Requests : status[r] = "queued"}
  IN  {r \in waiting : Cardinality({q \in waiting : q < r}) < Page}

\* SELECT ... WHERE status IN (QUEUED, READY) ORDER BY created_at LIMIT page
FirstPage ==
  LET waiting == {r \in Requests : status[r] \in {"queued", "ready"}}
  IN  {r \in waiting : Cardinality({q \in waiting : q < r}) < Page}

TickStart ==
  /\ tick = {} /\ FirstPage # {}
  /\ tick' = {<<r, status[r]>> : r \in FirstPage}
  /\ UNCHANGED <<redo, status, job, slot, finished, hand, posting, winding, hurt,
                 crashes, glitches>>

\* Statuses are those the tick selected; the stage checks query afresh.
TickLook(r, seen) ==
  LET s == MissingStage(r, seen)
  IN  /\ <<r, seen>> \in tick
      /\ tick' = tick \ {<<r, seen>>}
      /\ \/ s = "none" /\ UNCHANGED slot
         \/ s # "none" /\ Assign(r, s)
      /\ UNCHANGED <<redo, status, job, finished, hand, posting, winding, hurt, crashes,
                     glitches>>

\* Where a request does not survive a restart: in the middle of its submission, between
\* the end of a download and that of Levi's task, on the second try to publish a redo or
\* an update, and between a publication and its cleanup.
Cut(r) ==
  \/ hand[r] \in {"submit_assign", "submit_pin", "submit_queue", "complete_levi",
                 "publish_redo"}
  \/ hand[r] = "finalize" /\ status[r] = "published"
  \/ r \in posting

\* The process restarts: coroutines are gone, running and paused jobs are queued again.
Crash ==
  /\ crashes < MaxCrashes /\ crashes' = crashes + 1
  /\ hand' = [r \in Requests |-> "idle"]
  /\ posting' = {} /\ winding' = {} /\ tick' = {}
  /\ hurt' = hurt \cup {r \in Requests : Cut(r)}
  /\ job' = [r \in Requests |-> IF job[r] \in {"running", "paused"} THEN "queued" ELSE job[r]]
  /\ UNCHANGED <<redo, status, slot, finished, glitches>>

-----------------------------------------------------------------------------
Intake(r) ==
  \/ Submit(r) \/ SubmitAssign(r) \/ SubmitPin(r) \/ SubmitQueue(r)
  \/ SubmitFails(r) \/ Bridge(r) \/ BridgeAssign(r)

Download(r) ==
  \/ Enqueue(r) \/ StartJob(r) \/ TierProcessed(r) \/ JobFails(r) \/ PauseForLinks(r)
  \/ Cancel(r) \/ WindUp(r) \/ SourceAborted(r) \/ ChangeSource(r)
  \/ TiersDone(r) \/ FinalizeComplete(r)

Handoff(r) ==
  \/ CompleteLevi(r) \/ AssignSenku(r) \/ FallbackGojo(r)
  \/ SenkuPublishes(r) \/ CompleteSenku(r) \/ CompleteSenkuFails(r) \/ AssignGojo(r)

Posting(r) ==
  RelinkRedo(r) \/ RelinkFails(r) \/ Publish(r) \/ PublishCleanup(r)

Removal(r) ==
  Reject(r) \/ Abandon(r) \/ Delete(r) \/ \E q \in Requests : Refetch(r, q)

Recover == TickStart \/ \E r \in Requests, seen \in {"queued", "ready"} : TickLook(r, seen)

Next ==
  \/ \E r \in Requests : Intake(r) \/ Download(r) \/ Handoff(r) \/ Posting(r) \/ Removal(r)
  \/ \E r \in Requests, s \in Stages : Accept(r, s) \/ Decline(r, s)
  \/ Recover
  \/ Crash

Spec == Init /\ [][Next]_vars

\* The scheduler keeps ticking, every tick ends, and someone answers a ladder
\* that is climbed again and again.
GivesStage(r) ==
  \E seen \in {"queued", "ready"} :
    /\ TickLook(r, seen)
    /\ \E s \in Stages : slot[r][s] = "free" /\ slot'[r][s] # "free"

Fairness ==
  /\ WF_vars(Recover)
  /\ \A r \in Requests : SF_vars(GivesStage(r))

FairSpec == Spec /\ Fairness

-----------------------------------------------------------------------------
(* Properties *)

\* A redo or an update entry skips distribution: no interleaving of the tick
\* with the finalizer, the relink and the handoff gives Senku a task for it
\* ("flipping it READY could let recovery inject a bogus senku task",
\* _finalize_complete).
NoBogusSenku == \A r \in SkipsSenku : slot[r]["senku"] = "free"

\* Somebody or something is responsible for every request that is under way:
\* a coroutine, a download job, an open task, or the next recovery tick.  So it is
\* through restarts, cancels and errors: what strands a request are the events of Hurt.
Responsible(r) ==
  \/ hand[r] # "idle"
  \/ job[r] \in {"queued", "running"}
  \/ \E s \in Stages : slot[r][s] # "free"
  \/ MissingStage(r, status[r]) # "none"

NothingStranded ==
  \A r \in Requests \ hurt :
    status[r] \notin {"none", "published", "rejected", "gone"} => Responsible(r)

\* "so a force-published title never lingers in /tasks" (publish), and "a
\* purged/reassigned request leaves no dangling stage ownership" (_clear_assignments):
\* once a request is published and cleaned up after, or deleted, no stage of it is on
\* anybody's task list, save for those events.
ClosedLeavesNoTask ==
  \A r \in Requests \ hurt :
    status[r] \in {"published", "gone"} /\ r \notin posting /\ hand[r] = "idle" =>
      \A s \in Stages : slot[r][s] = "free"

\* A stage that nobody has is given to somebody, or the request moves on:
\* "deferred work recover[s] without operator clicks" (README, Restart Safety).
MissingStageRestored ==
  \A r \in Requests :
    MissingStage(r, status[r]) # "none" ~> MissingStage(r, status[r]) = "none"

=============================================================================
