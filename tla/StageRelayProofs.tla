-------------------------- MODULE StageRelayProofs --------------------------
(***************************************************************************)
(* StageRelay for every set of requests, any page of the tick, any number  *)
(* of restarts and caught errors, careless staff or not: its types; that   *)
(* nothing is stranded and nothing that is closed keeps a task, where the  *)
(* events of Hurt have not met the request - it then walks through the     *)
(* phases below, restarts, cancels and errors included; and that Senku     *)
(* never gets a task for a redo or an update entry.                        *)
(*                                                                         *)
(* The last rests on two things the code has not written down.  READY      *)
(* seen by a tick is stale once the finalizer completes the download, so   *)
(* the tick's queries must not outlast the calls to Telegram before it     *)
(* (SlowDatabase).  And an update entry must not change its source while   *)
(* the finalizer runs (LateReset): unlike a redo it remains an update      *)
(* entry, its first finalizer completes Levi's task, and its second        *)
(* download makes it READY with that task done.                            *)
(***************************************************************************)
EXTENDS StageRelay, TLAPS

Prompt == ~SlowDatabase /\ (LateReset => Updates = {})

\* A request that skips Senku: Levi's task is completed after the download, and from
\* then on it is not READY, not to a tick that is under way either.
Skipping(r) ==
  /\ slot[r]["senku"] = "free"
  /\ hand[r] # "assign_senku"
  /\ hand[r] \in {"relink", "finalize"} =>
       job[r] \in {"queued", "running", "cancelled"} /\ status[r] # "ready"
  /\ hand[r] \in {"complete_levi", "publish_redo", "fallback_gojo"} => job[r] = "done"
  /\ "levi" \in finished[r] => job[r] = "done"
  /\ job[r] = "done" => status[r] # "ready" /\ <<r, "ready">> \notin tick

\* A deleted request has no job left and no worker that ends, so that nothing brings it
\* back.
StaysGone ==
  \A r \in Requests : (status[r] = "gone" => job[r] = "none") /\ (r \in winding => job[r] # "none")

\* The inductive invariant.
IInv ==
  /\ TypeOK /\ StaysGone
  /\ \A r \in Requests : r \in SkipsSenku => Skipping(r)

-----------------------------------------------------------------------------
(* Types *)

LEMMA AssignedIsSlot == \A old \in Slot : Assigned(old) \subseteq Slot
BY DEF Assigned, Slot

LEMMA AssignType ==
  ASSUME TypeOK, NEW r \in Requests, NEW s \in Stages, Assign(r, s)
  PROVE  slot' \in [Requests -> [Stages -> Slot]]
<1>1. PICK new \in Assigned(slot[r][s]) : slot' = [slot EXCEPT ![r][s] = new]
  BY DEF Assign
<1>2. new \in Slot BY <1>1, AssignedIsSlot DEF TypeOK
<1> QED BY <1>1, <1>2 DEF TypeOK

LEMMA CompleteType ==
  ASSUME TypeOK, NEW r \in Requests, NEW s \in Stages, Complete(r, s)
  PROVE  slot' \in [Requests -> [Stages -> Slot]] /\ finished' \in [Requests -> SUBSET Stages]
<1>1. CASE slot[r][s] = "held" /\ slot' = [slot EXCEPT ![r][s] = "free"]
           /\ finished' = [finished EXCEPT ![r] = @ \cup {s}]
  <2>1. slot' \in [Requests -> [Stages -> Slot]] BY <1>1 DEF TypeOK, Slot
  <2>2. finished[r] \cup {s} \in SUBSET Stages BY DEF TypeOK
  <2> QED BY <1>1, <2>1, <2>2 DEF TypeOK
<1>2. CASE slot' = slot /\ finished' = finished BY <1>2 DEF TypeOK
<1> QED BY <1>1, <1>2 DEF Complete

LEMMA TryCompleteType ==
  ASSUME TypeOK, NEW r \in Requests, NEW s \in Stages, TryComplete(r, s)
  PROVE  /\ slot' \in [Requests -> [Stages -> Slot]] /\ finished' \in [Requests -> SUBSET Stages]
         /\ hurt' \subseteq Requests /\ glitches' \in Nat
BY CompleteType DEF TryComplete, Hurt, Glitch, TypeOK

LEMMA Names == "levi" \in Stages /\ "senku" \in Stages /\ "gojo" \in Stages
BY DEF Stages

LEMMA IntakeType ==
  ASSUME TypeOK, NEW r \in Requests, Intake(r) PROVE TypeOK'
<1>1. CASE Submit(r) BY <1>1 DEF Submit, Goto, TypeOK, Statuses, Steps
<1>2. CASE SubmitAssign(r)
  <2>1. CASE Assign(r, "levi") BY <1>2, <2>1, AssignType, Names DEF SubmitAssign, Goto, TypeOK, Steps
  <2>2. CASE slot' = slot BY <1>2, <2>2 DEF SubmitAssign, Goto, TypeOK, Steps
  <2> QED BY <1>2, <2>1, <2>2 DEF SubmitAssign
<1>3. CASE SubmitPin(r) BY <1>3 DEF SubmitPin, Goto, TypeOK, Steps, Slot, Stages
<1>4. CASE SubmitQueue(r) BY <1>4 DEF SubmitQueue, Goto, TypeOK, Steps, Statuses
<1>5. CASE SubmitFails(r) BY <1>5 DEF SubmitFails, Hurt, Glitch, TypeOK, Steps
<1>6. CASE Bridge(r) BY <1>6 DEF Bridge, Goto, TypeOK, Steps, Statuses
<1>7. CASE BridgeAssign(r) BY <1>7, AssignType, Names DEF BridgeAssign, Goto, TypeOK, Steps
<1> QED BY <1>1, <1>2, <1>3, <1>4, <1>5, <1>6, <1>7 DEF Intake

LEMMA DownloadType ==
  ASSUME TypeOK, NEW r \in Requests, Download(r) PROVE TypeOK'
<1>1. CASE Enqueue(r) BY <1>1 DEF Enqueue, Hurt, TypeOK, Statuses, Jobs
<1>2. CASE StartJob(r) BY <1>2 DEF StartJob, TypeOK, Jobs
<1>3. CASE TierProcessed(r) BY <1>3 DEF TierProcessed, TypeOK, Statuses
<1>4. CASE JobFails(r) BY <1>4 DEF JobFails, Glitch, TypeOK, Jobs
<1>5. CASE ChangeSource(r) BY <1>5 DEF ChangeSource, Hurt, TypeOK, Statuses, Jobs
<1>6. CASE TiersDone(r) BY <1>6 DEF TiersDone, Goto, TypeOK, Statuses, Steps
<1>7. CASE FinalizeComplete(r)
  <2>1. DownloadedStatus(r) \in Statuses BY DEF DownloadedStatus, TypeOK, Statuses
  <2> QED BY <1>7, <2>1 DEF FinalizeComplete, Hurt, Goto, TypeOK, Jobs, Steps
<1>8. CASE PauseForLinks(r) BY <1>8 DEF PauseForLinks, TypeOK, Statuses, Jobs
<1>9. CASE Cancel(r) BY <1>9 DEF Cancel, Hurt, TypeOK, Statuses, Jobs
<1>10. CASE WindUp(r) BY <1>10 DEF WindUp, Hurt, TypeOK, Statuses
<1>11. CASE SourceAborted(r) BY <1>11 DEF SourceAborted, Hurt, TypeOK, Statuses, Jobs
<1> QED BY <1>1, <1>2, <1>3, <1>4, <1>5, <1>6, <1>7, <1>8, <1>9, <1>10, <1>11 DEF Download

LEMMA PostingType ==
  ASSUME TypeOK, NEW r \in Requests, Posting(r) PROVE TypeOK'
<1>1. CASE RelinkRedo(r) BY <1>1 DEF RelinkRedo, Published, Goto, TypeOK, Statuses, Steps
<1>2. CASE RelinkFails(r)
  <2>1. glitches' \in Nat BY <1>2 DEF RelinkFails, Glitch, TypeOK
  <2> QED BY <1>2, <2>1 DEF RelinkFails, Hurt, Goto, TypeOK, Steps
<1>3. CASE Publish(r) BY <1>3 DEF Publish, Published, Hurt, TypeOK, Statuses
<1>4. CASE PublishCleanup(r) BY <1>4, TryCompleteType, Names DEF PublishCleanup, TypeOK
<1> QED BY <1>1, <1>2, <1>3, <1>4 DEF Posting

LEMMA HandoffType ==
  ASSUME TypeOK, NEW r \in Requests, Handoff(r) PROVE TypeOK'
<1>1. CASE CompleteLevi(r) BY <1>1, TryCompleteType, Names DEF CompleteLevi, Goto, TypeOK, Steps
<1>2. CASE AssignSenku(r) BY <1>2, AssignType, Names DEF AssignSenku, Goto, TypeOK, Steps
<1>3. CASE FallbackGojo(r) BY <1>3, AssignType, Names DEF FallbackGojo, Goto, TypeOK, Steps
<1>4. CASE SenkuPublishes(r) BY <1>4 DEF SenkuPublishes, Hurt, Goto, TypeOK, Steps
<1>5. CASE CompleteSenku(r) BY <1>5, CompleteType, Names DEF CompleteSenku, Goto, TypeOK, Steps
<1>6. CASE CompleteSenkuFails(r) BY <1>6 DEF CompleteSenkuFails, Glitch, Goto, TypeOK, Steps
<1>7. CASE AssignGojo(r) BY <1>7, AssignType, Names DEF AssignGojo, Goto, TypeOK, Steps
<1> QED BY <1>1, <1>2, <1>3, <1>4, <1>5, <1>6, <1>7 DEF Handoff

LEMMA RemovalType ==
  ASSUME TypeOK, NEW r \in Requests, Removal(r) PROVE TypeOK'
<1>1. CASE Reject(r) BY <1>1 DEF Reject, TypeOK, Statuses
<1>2. CASE Abandon(r) BY <1>2 DEF Abandon, TypeOK, Statuses, Jobs
<1>3. CASE TornDown(r)
  <2>1. /\ job' \in [Requests -> Jobs] /\ slot' \in [Requests -> [Stages -> Slot]]
        /\ finished' \in [Requests -> SUBSET Stages]
        /\ winding' \subseteq Requests /\ hurt' \subseteq Requests
    BY <1>3 DEF TornDown, Erased, TypeOK, Jobs, Slot
  <2>2. CASE Delete(r) BY <2>1, <2>2 DEF Delete, TypeOK, Statuses
  <2>3. ASSUME NEW q \in Requests, Refetch(r, q) PROVE TypeOK'
    BY <2>1, <2>3 DEF Refetch, TypeOK, Statuses, Steps
  <2> QED BY <1>3, <2>2, <2>3, <1>1, <1>2 DEF Removal
<1> QED BY <1>1, <1>2, <1>3 DEF Removal, Delete, Refetch

LEMMA OffersType ==
  ASSUME TypeOK, NEW r \in Requests, NEW s \in Stages, Accept(r, s) \/ Decline(r, s)
  PROVE  TypeOK'
<1>1. CASE Accept(r, s) BY <1>1 DEF Accept, TypeOK, Slot
<1>2. CASE Decline(r, s) BY <1>2 DEF Decline, TypeOK, Slot
<1> QED BY <1>1, <1>2

LEMMA MissingIsStage ==
  \A r, seen : MissingStage(r, seen) \in Stages \cup {"none"}
BY DEF MissingStage, Stages

LEMMA RecoverType ==
  ASSUME TypeOK, Recover PROVE TypeOK'
<1>1. CASE TickStart
  <2>1. FirstPage \subseteq Requests
        /\ \A r \in FirstPage : status[r] \in {"queued", "ready"}
    BY DEF FirstPage
  <2>2. tick' \subseteq Requests \X {"queued", "ready"} BY <1>1, <2>1 DEF TickStart
  <2> QED BY <1>1, <2>2 DEF TickStart, TypeOK
<1>2. ASSUME NEW r \in Requests, NEW seen \in {"queued", "ready"}, TickLook(r, seen)
      PROVE  TypeOK'
  <2>1. slot' \in [Requests -> [Stages -> Slot]]
    <3>1. CASE slot' = slot BY <3>1 DEF TypeOK
    <3>2. CASE MissingStage(r, seen) # "none" /\ Assign(r, MissingStage(r, seen))
      BY <3>2, MissingIsStage, AssignType
    <3> QED BY <1>2, <3>1, <3>2 DEF TickLook
  <2> QED BY <1>2, <2>1 DEF TickLook, TypeOK
<1> QED BY <1>1, <1>2 DEF Recover

LEMMA TypeStep == TypeOK /\ [Next]_vars => TypeOK'
<1> SUFFICES ASSUME TypeOK, [Next]_vars PROVE TypeOK' OBVIOUS
<1>1. CASE UNCHANGED vars BY <1>1 DEF vars, TypeOK
<1>2. CASE Crash BY <1>2 DEF Crash, TypeOK, Jobs, Steps
<1> QED BY <1>1, <1>2, IntakeType, DownloadType, HandoffType, PostingType, RemovalType,
        OffersType, RecoverType
        DEF Next

LEMMA InitType == Init => TypeOK
BY DEF Init, TypeOK, Statuses, Jobs, Slot, Steps

-----------------------------------------------------------------------------
(* A request that skips Senku *)

\* What a step that is not about q leaves of it.
Apart(q) ==
  /\ status'[q] = status[q] /\ job'[q] = job[q] /\ hand'[q] = hand[q]
  /\ slot'[q] = slot[q] /\ finished'[q] = finished[q]
  /\ <<q, "ready">> \in tick' => <<q, "ready">> \in tick

LEMMA ApartKeeps ==
  ASSUME NEW q \in Requests, Skipping(q), Apart(q) PROVE Skipping(q)'
BY DEF Skipping, Apart

LEMMA GoneStep ==
  ASSUME TypeOK, StaysGone, [Next]_vars
  PROVE  /\ StaysGone' /\ SkipsSenku' \subseteq SkipsSenku
         /\ \A q \in Requests : status[q] = "gone" => status'[q] = "gone"
\* Nothing becomes a redo after its creation.
<1>1. redo' \subseteq redo
  BY DEF Next, vars, Intake, Download, Handoff, Posting, Removal, Recover, Crash, Submit, SubmitAssign,
     SubmitPin, SubmitQueue, SubmitFails, Bridge, BridgeAssign, Enqueue, StartJob, TierProcessed,
     JobFails, PauseForLinks, Cancel, WindUp, SourceAborted, ChangeSource, TiersDone, FinalizeComplete, CompleteLevi, AssignSenku, FallbackGojo,
     SenkuPublishes, CompleteSenku, CompleteSenkuFails, AssignGojo, RelinkRedo, RelinkFails,
     Publish, PublishCleanup, Reject, Abandon, Delete, Refetch, Accept, Decline, TickStart, TickLook
<1> DEFINE ForGood(q) == /\ status'[q] = "gone" => job'[q] = "none"
                         /\ q \in winding' => job'[q] # "none"
                         /\ status[q] = "gone" => status'[q] = "gone"
<1>2. ASSUME NEW q \in Requests PROVE ForGood(q)
  <2>0. (status[q] = "gone" => job[q] = "none") /\ (q \in winding => job[q] # "none")
    BY DEF StaysGone
  <2>1. ASSUME NEW r \in Requests, Intake(r) PROVE ForGood(q)
    BY <2>0, <2>1 DEF Intake, Submit, SubmitAssign, SubmitPin, SubmitQueue, SubmitFails, Bridge,
       BridgeAssign, TypeOK
  <2>2. ASSUME NEW r \in Requests, Download(r) PROVE ForGood(q)
    <3>1. DownloadedStatus(r) \in {status[r], "ready"} BY DEF DownloadedStatus
    <3>2. CASE FinalizeComplete(r) BY <2>0, <3>1, <3>2 DEF FinalizeComplete, TypeOK
    <3> QED BY <2>0, <2>2, <3>2 DEF Download, Enqueue, StartJob, TierProcessed, JobFails, PauseForLinks,
               Cancel, WindUp, SourceAborted, ChangeSource, TiersDone, TypeOK
  <2>3. ASSUME NEW r \in Requests, Handoff(r) PROVE ForGood(q)
    BY <2>0, <2>3 DEF Handoff, CompleteLevi, AssignSenku, FallbackGojo, SenkuPublishes, CompleteSenku,
       CompleteSenkuFails, AssignGojo
  <2>4. ASSUME NEW r \in Requests, Posting(r) PROVE ForGood(q)
    BY <2>0, <2>4 DEF Posting, RelinkRedo, RelinkFails, Publish, PublishCleanup, Published, TypeOK
  <2>5. ASSUME NEW r \in Requests, Removal(r) PROVE ForGood(q)
    BY <2>0, <2>5 DEF Removal, Reject, Abandon, Delete, Refetch, TornDown, TypeOK
  <2>6. CASE Recover \/ Crash BY <2>0, <2>6 DEF Recover, TickStart, TickLook, Crash, TypeOK
  <2>7. ASSUME NEW r \in Requests, NEW s \in Stages, Accept(r, s) \/ Decline(r, s) PROVE ForGood(q)
    BY <2>0, <2>7 DEF Accept, Decline
  <2>8. CASE UNCHANGED vars BY <2>0, <2>8 DEF vars
  <2> QED BY <2>1, <2>2, <2>3, <2>4, <2>5, <2>6, <2>7, <2>8 DEF Next
<1>3. Redos \subseteq Requests /\ Updates \subseteq Requests /\ redo' \subseteq Requests
  BY <1>1, RelayAssumption DEF TypeOK
<1> QED BY <1>1, <1>2, <1>3 DEF StaysGone, SkipsSenku

\* An assignment or completion of another stage leaves Senku's slot as it is.
LEMMA AssignElsewhere ==
  ASSUME TypeOK, NEW r \in Requests, NEW s \in Stages, Assign(r, s)
  PROVE  /\ \A q \in Requests \ {r} : slot'[q] = slot[q]
         /\ s # "senku" => slot'[r]["senku"] = slot[r]["senku"]
BY Names DEF Assign, TypeOK

LEMMA TryCompleteEffect ==
  ASSUME TypeOK, NEW r \in Requests, NEW s \in Stages, TryComplete(r, s)
  PROVE  /\ \A q \in Requests \ {r} : slot'[q] = slot[q] /\ finished'[q] = finished[q]
         /\ slot[r]["senku"] = "free" => slot'[r]["senku"] = "free"
         /\ s # "levi" => ("levi" \in finished'[r] => "levi" \in finished[r])
<1>1. CASE slot[r][s] = "held" /\ slot' = [slot EXCEPT ![r][s] = "free"]
           /\ finished' = [finished EXCEPT ![r] = @ \cup {s}]
  BY <1>1, Names DEF TypeOK
<1>2. CASE slot' = slot /\ finished' = finished BY <1>2
<1> QED BY <1>1, <1>2 DEF TryComplete, Complete

LEMMA IntakeKeeps ==
  ASSUME TypeOK, NEW r \in Requests, Intake(r), NEW q \in Requests, q \in SkipsSenku, Skipping(q)
  PROVE  Skipping(q)'
<1>1. CASE q # r
  <2>1. slot'[q] = slot[q]
    BY <1>1, AssignElsewhere, Names DEF Intake, Submit, SubmitAssign, SubmitPin, SubmitQueue,
       SubmitFails, Bridge, BridgeAssign, TypeOK
  <2>2. Apart(q)
    BY <1>1, <2>1 DEF Apart, Intake, Submit, SubmitAssign, SubmitPin, SubmitQueue, SubmitFails,
       Bridge, BridgeAssign, Goto, TypeOK
  <2> QED BY <2>2, ApartKeeps
<1>2. CASE q = r
  <2>1. slot'[r]["senku"] = "free"
    <3>1. slot[r]["senku"] = "free" BY <1>2 DEF Skipping
    <3>2. CASE Assign(r, "levi") BY <3>1, <3>2, AssignElsewhere, Names
    <3>3. CASE slot' = slot BY <3>1, <3>3
    <3>4. CASE slot' = [slot EXCEPT ![r]["levi"] = "held"] BY <3>1, <3>4, Names DEF TypeOK
    <3> QED BY <3>2, <3>3, <3>4 DEF Intake, Submit, SubmitAssign, SubmitPin, SubmitQueue, SubmitFails,
               Bridge, BridgeAssign
  <2>3. finished' = finished /\ job' = job /\ tick' = tick
    BY DEF Intake, Submit, SubmitAssign, SubmitPin, SubmitQueue, SubmitFails, Bridge, BridgeAssign
  <2>2. /\ hand'[r] \in {"idle", "submit_assign", "submit_pin", "submit_queue", "bridge_assign"}
        /\ status'[r] \in {status[r], "pending", "queued"}
    BY DEF Intake, Submit, SubmitAssign, SubmitPin, SubmitQueue, SubmitFails, Bridge, BridgeAssign,
       Goto, TypeOK
  <2> QED BY <1>2, <2>1, <2>2, <2>3 DEF Skipping
<1> QED BY <1>1, <1>2

LEMMA DownloadKeeps ==
  ASSUME Prompt, TypeOK, NEW r \in Requests, Download(r),
         NEW q \in Requests, q \in SkipsSenku, q \in SkipsSenku', Skipping(q)
  PROVE  Skipping(q)'
<1>1. CASE q # r
  <2>1. Apart(q)
    BY <1>1 DEF Apart, Download, Enqueue, StartJob, TierProcessed, JobFails, PauseForLinks, Cancel,
       WindUp, SourceAborted, ChangeSource, TiersDone, FinalizeComplete, Goto, TypeOK
  <2> QED BY <2>1, ApartKeeps
<1>2. CASE q = r
  <2>0. slot' = slot /\ finished' = finished /\ tick' = tick
    BY DEF Download, Enqueue, StartJob, TierProcessed, JobFails, PauseForLinks, Cancel, WindUp,
       SourceAborted, ChangeSource, TiersDone, FinalizeComplete
  <2>1. CASE Enqueue(r) BY <1>2, <2>0, <2>1 DEF Enqueue, Skipping, TypeOK
  <2>2. CASE StartJob(r) BY <1>2, <2>0, <2>2 DEF StartJob, Skipping, TypeOK
  <2>3. CASE TierProcessed(r) BY <1>2, <2>0, <2>3 DEF TierProcessed, Skipping, TypeOK
  <2>4. CASE JobFails(r) BY <1>2, <2>0, <2>4 DEF JobFails, Skipping, TypeOK
  <2>5. CASE ChangeSource(r)
    <3>1. r \in Updates BY <1>2, <2>5 DEF ChangeSource, SkipsSenku
    <3>2. hand[r] = "idle" BY <2>5, <3>1 DEF ChangeSource, MayReset, Prompt
    <3> QED BY <1>2, <2>0, <2>5, <3>2 DEF ChangeSource, Skipping, TypeOK
  <2>6. CASE TiersDone(r)
    BY <1>2, <2>0, <2>6 DEF TiersDone, Goto, Skipping, TypeOK
  <2>7. CASE FinalizeComplete(r)
    <3>1. hand[r] = "finalize" /\ hand' = [hand EXCEPT ![r] = "complete_levi"]
      BY <2>7 DEF FinalizeComplete, Goto
    <3>2. job[r] # "none" /\ status[r] # "ready" BY <1>2, <3>1 DEF Skipping
    <3>3. job' = [job EXCEPT ![r] = "done"] /\ status'[r] = status[r]
      BY <1>2, <2>7, <3>2 DEF FinalizeComplete, DownloadedStatus, TypeOK
    <3>4. <<r, "ready">> \notin tick BY <2>7 DEF FinalizeComplete, QueriesEnded, Unread, Prompt
    <3> QED BY <1>2, <2>0, <3>1, <3>2, <3>3, <3>4 DEF Skipping, TypeOK
  <2>8. CASE PauseForLinks(r) BY <1>2, <2>0, <2>8 DEF PauseForLinks, Skipping, TypeOK
  <2>9. CASE Cancel(r) BY <1>2, <2>0, <2>9 DEF Cancel, Skipping, TypeOK
  <2>10. CASE WindUp(r) BY <1>2, <2>0, <2>10 DEF WindUp, Skipping, TypeOK
  <2>11. CASE SourceAborted(r) BY <1>2, <2>0, <2>11 DEF SourceAborted, Skipping, TypeOK
  <2> QED BY <2>1, <2>2, <2>3, <2>4, <2>5, <2>6, <2>7, <2>8, <2>9, <2>10, <2>11 DEF Download
<1> QED BY <1>1, <1>2

LEMMA PostingKeeps ==
  ASSUME TypeOK, NEW r \in Requests, Posting(r), NEW q \in Requests, q \in SkipsSenku, Skipping(q)
  PROVE  Skipping(q)'
<1>1. CASE RelinkRedo(r)
  BY <1>1 DEF RelinkRedo, Published, Goto, Skipping, TypeOK
<1>2. CASE RelinkFails(r)
  BY <1>2 DEF RelinkFails, Goto, Skipping, TypeOK
<1>3. CASE Publish(r)
  BY <1>3 DEF Publish, Published, Skipping, TypeOK
<1>4. CASE PublishCleanup(r)
  <2>1. /\ slot'[q]["senku"] = "free"
        /\ "levi" \in finished'[q] => "levi" \in finished[q]
    BY <1>4, TryCompleteEffect, Names DEF PublishCleanup, Skipping
  <2> QED BY <1>4, <2>1 DEF PublishCleanup, Skipping
<1> QED BY <1>1, <1>2, <1>3, <1>4 DEF Posting

LEMMA HandoffKeeps ==
  ASSUME TypeOK, NEW r \in Requests, Handoff(r), NEW q \in Requests, q \in SkipsSenku, Skipping(q)
  PROVE  Skipping(q)'
<1>0. status' = status /\ job' = job /\ tick' = tick
  BY DEF Handoff, CompleteLevi, AssignSenku, FallbackGojo, SenkuPublishes, CompleteSenku,
     CompleteSenkuFails, AssignGojo
<1>1. CASE CompleteLevi(r)
  <2>1. /\ slot'[q]["senku"] = "free"
        /\ q # r => finished'[q] = finished[q]
    BY <1>1, TryCompleteEffect, Names DEF CompleteLevi, Skipping
  <2>2. CASE q # r
    <3>1. hand'[q] = hand[q] BY <1>1, <2>2 DEF CompleteLevi, Goto, TypeOK
    <3> QED BY <1>0, <2>1, <2>2, <3>1 DEF Skipping
  <2>3. CASE q = r
    <3>1. job[q] = "done" /\ hand'[q] \in {"idle", "publish_redo"}
      BY <1>1, <2>3 DEF CompleteLevi, Goto, Skipping, TypeOK
    <3> QED BY <1>0, <2>1, <3>1 DEF Skipping
  <2> QED BY <2>2, <2>3
<1>2. CASE AssignSenku(r)
  <2>1. q # r BY <1>2 DEF AssignSenku, Goto, Skipping
  <2>2. slot'[q] = slot[q] BY <1>2, <2>1, AssignElsewhere, Names DEF AssignSenku
  <2>3. hand'[q] = hand[q] /\ finished' = finished BY <1>2, <2>1 DEF AssignSenku, Goto, TypeOK
  <2> QED BY <1>0, <2>2, <2>3 DEF Skipping
<1>3. CASE FallbackGojo(r) \/ AssignGojo(r)
  <2>1. slot'[q]["senku"] = "free"
    BY <1>3, AssignElsewhere, Names DEF FallbackGojo, AssignGojo, Skipping
  <2>2. hand'[q] \in {hand[q], "idle"} /\ finished' = finished
    BY <1>3 DEF FallbackGojo, AssignGojo, Goto, TypeOK
  <2> QED BY <1>0, <2>1, <2>2 DEF Skipping
<1>4. CASE SenkuPublishes(r) \/ CompleteSenkuFails(r)
  <2>1. /\ hand'[q] \in {hand[q], "idle", "complete_senku"}
        /\ finished' = finished /\ slot' = slot
    BY <1>4 DEF SenkuPublishes, CompleteSenkuFails, Goto, TypeOK
  <2> QED BY <1>0, <2>1 DEF Skipping
<1>5. CASE CompleteSenku(r)
  <2>1. /\ slot'[q]["senku"] = "free"
        /\ "levi" \in finished'[q] => "levi" \in finished[q]
    BY <1>5, Names DEF CompleteSenku, Complete, Skipping, TypeOK
  <2>2. hand'[q] \in {hand[q], "assign_gojo"} BY <1>5 DEF CompleteSenku, Goto, TypeOK
  <2> QED BY <1>0, <2>1, <2>2 DEF Skipping
<1> QED BY <1>1, <1>2, <1>3, <1>4, <1>5 DEF Handoff

LEMMA RemovalKeeps ==
  ASSUME TypeOK, NEW r \in Requests, Removal(r),
         NEW q \in Requests, q \in SkipsSenku, q \in SkipsSenku', Skipping(q)
  PROVE  Skipping(q)'
<1>1. CASE Reject(r) BY <1>1 DEF Reject, Skipping, TypeOK
<1>2. CASE Abandon(r) BY <1>2 DEF Abandon, Skipping, TypeOK
<1>3. ASSUME TornDown(r), status'[r] = "gone", tick' = tick,
             hand'[q] \in {hand[q], "bridge_assign"}, status'[q] \in {status[q], "queued", "gone"}
      PROVE  Skipping(q)'
  <2>1. q # r BY <1>3 DEF SkipsSenku
  <2>2. job'[q] = job[q] /\ slot'[q] = slot[q] /\ finished'[q] = finished[q]
    BY <1>3, <2>1 DEF TornDown, TypeOK
  <2> QED BY <1>3, <2>1, <2>2 DEF Skipping, SkipsSenku
<1>4. CASE Delete(r) BY <1>3, <1>4 DEF Delete, TypeOK
<1>5. ASSUME NEW p \in Requests, Refetch(r, p) PROVE Skipping(q)'
  <2>1. p # r BY <1>5 DEF Refetch, TornDown
  <2> QED BY <1>3, <1>5, <2>1 DEF Refetch, TypeOK
<1> QED BY <1>1, <1>2, <1>4, <1>5 DEF Removal

LEMMA OffersKeep ==
  ASSUME TypeOK, NEW r \in Requests, NEW s \in Stages, Accept(r, s) \/ Decline(r, s),
         NEW q \in Requests, q \in SkipsSenku, Skipping(q)
  PROVE  Skipping(q)'
<1>1. slot'[q]["senku"] = "free"
  BY Names DEF Accept, Decline, Skipping, TypeOK
<1>2. UNCHANGED <<status, job, hand, finished, tick>> BY DEF Accept, Decline
<1> QED BY <1>1, <1>2 DEF Skipping

LEMMA RecoverKeeps ==
  ASSUME TypeOK, Recover, NEW q \in Requests, q \in SkipsSenku, Skipping(q)
  PROVE  Skipping(q)'
<1>1. CASE TickStart
  <2>1. <<q, "ready">> \in tick' => status[q] = "ready" BY <1>1 DEF TickStart
  <2> QED BY <1>1, <2>1 DEF TickStart, Skipping
<1>2. ASSUME NEW r \in Requests, NEW seen \in {"queued", "ready"}, TickLook(r, seen)
      PROVE  Skipping(q)'
  <2>1. CASE MissingStage(r, seen) # "none" /\ Assign(r, MissingStage(r, seen))
    <3>1. MissingStage(r, seen) \in Stages BY <2>1, MissingIsStage
    <3>2. q = r => MissingStage(r, seen) # "senku"
      BY <1>2 DEF TickLook, MissingStage, Skipping
    <3>3. slot'[q]["senku"] = "free" BY <2>1, <3>1, <3>2, AssignElsewhere DEF Skipping
    <3> QED BY <1>2, <3>3 DEF TickLook, Skipping
  <2>2. CASE slot' = slot BY <1>2, <2>2 DEF TickLook, Skipping
  <2> QED BY <1>2, <2>1, <2>2 DEF TickLook
<1> QED BY <1>1, <1>2 DEF Recover

LEMMA CrashKeeps ==
  ASSUME TypeOK, Crash, NEW q \in Requests, Skipping(q)
  PROVE  Skipping(q)'
BY DEF Crash, Skipping, TypeOK

LEMMA InitIInv == Init => IInv
<1> SUFFICES ASSUME Init PROVE IInv OBVIOUS
<1>1. TypeOK BY InitType
<1>2. \A r \in Requests : Skipping(r) BY Names DEF Init, Skipping
<1>3. StaysGone BY DEF Init, StaysGone
<1> QED BY <1>1, <1>2, <1>3 DEF IInv

LEMMA NextIInv == Prompt /\ IInv /\ [Next]_vars => IInv'
<1> SUFFICES ASSUME Prompt, IInv, [Next]_vars PROVE IInv' OBVIOUS
<1>1. TypeOK /\ TypeOK' BY TypeStep DEF IInv
<1>0. StaysGone' /\ SkipsSenku' \subseteq SkipsSenku BY GoneStep DEF IInv
<1>2. ASSUME NEW q \in Requests, q \in SkipsSenku' PROVE Skipping(q)'
  <2>1. q \in SkipsSenku /\ Skipping(q) BY <1>0, <1>2 DEF IInv
  <2>2. CASE UNCHANGED vars BY <2>1, <2>2 DEF vars, Skipping
  <2>3. CASE Next
    BY <1>1, <1>2, <2>1, <2>3, IntakeKeeps, DownloadKeeps, HandoffKeeps, PostingKeeps, RemovalKeeps,
       OffersKeep, RecoverKeeps, CrashKeeps DEF Next
  <2> QED BY <2>2, <2>3
<1> QED BY <1>0, <1>1, <1>2 DEF IInv

-----------------------------------------------------------------------------
(* The phases of a request that none of the events of Hurt has met *)

IntakeSteps == {"idle", "submit_assign", "submit_pin", "submit_queue", "bridge_assign"}

\* At most that stage's task is on somebody's list.
OnlyTask(r, s) == \A t \in Stages \ {s} : slot[r][t] = "free"

Unseen(r) == \A seen \in {"queued", "ready"} : <<r, seen>> \notin tick

Unborn(r) ==
  /\ status[r] = "none" /\ hand[r] = "idle" /\ job[r] = "none"
  /\ finished[r] = {} /\ slot[r]["levi"] = "free" /\ OnlyTask(r, "levi")
  /\ Unseen(r)

\* Submitted, sourced, downloaded in part, cancelled, failed or turned back: Levi has it,
\* or a tick will offer it to someone, unless the submission is still under way.
AtLevi(r) ==
  /\ status[r] \notin {"none", "published", "gone"} /\ hand[r] \in IntakeSteps
  /\ job[r] # "done" /\ finished[r] = {} /\ OnlyTask(r, "levi")
  /\ \/ slot[r]["levi"] = "held"
     \/ /\ job[r] = "none"
        /\ status[r] \in {"queued", "rejected"} \/ hand[r] \notin {"idle", "bridge_assign"}

Finalizing(r) ==
  /\ job[r] = "running" /\ finished[r] = {}
  /\ slot[r]["levi"] = "held" /\ OnlyTask(r, "levi")
  /\ \/ hand[r] = "relink" /\ r \in redo /\ status[r] = "processing"
     \/ hand[r] = "finalize" /\ status[r] = "processing"
     \/ hand[r] = "finalize" /\ r \in redo /\ status[r] = "published"

\* No tick that is under way has seen it READY, if it is to skip Senku.
Downloaded(r) ==
  /\ job[r] = "done" /\ hand[r] = "complete_levi" /\ finished[r] = {}
  /\ slot[r]["levi"] = "held" /\ OnlyTask(r, "levi")
  /\ \/ r \notin SkipsSenku /\ status[r] = "ready"
     \/ /\ r \in SkipsSenku /\ <<r, "ready">> \notin tick
        /\ status[r] = "processing" \/ (r \in redo /\ status[r] = "published")

AtSenku(r) ==
  /\ job[r] = "done" /\ status[r] = "ready" /\ r \notin SkipsSenku
  /\ hand[r] \in {"idle", "assign_senku", "complete_senku"}
  /\ finished[r] = {"levi"} /\ OnlyTask(r, "senku")
  /\ hand[r] = "complete_senku" => slot[r]["senku"] = "held"

AtGojo(r) ==
  /\ job[r] = "done" /\ status[r] = "ready" /\ r \notin SkipsSenku
  /\ hand[r] \in {"idle", "assign_gojo"}
  /\ finished[r] = {"levi", "senku"} /\ OnlyTask(r, "gojo")

Updating(r) ==
  /\ job[r] = "done" /\ status[r] = "processing" /\ r \in SkipsSenku
  /\ hand[r] = "publish_redo" /\ <<r, "ready">> \notin tick
  /\ finished[r] = {"levi"} /\ slot[r]["gojo"] = "free" /\ OnlyTask(r, "gojo")

\* Published: Gojo's task lasts until the cleanup, and no tick gives one anew.
Out(r) ==
  /\ job[r] = "done" /\ status[r] = "published" /\ hand[r] = "idle"
  /\ OnlyTask(r, "gojo") /\ slot[r]["gojo"] # "offered"
  /\ slot[r]["gojo"] = "held" => r \in posting
  /\ "levi" \in finished[r]
  /\ \/ r \in SkipsSenku /\ <<r, "ready">> \notin tick
     \/ "senku" \in finished[r] /\ (slot[r]["gojo"] = "held" \/ "gojo" \in finished[r])

\* Deleted: nothing is left that could give somebody a task for it.
Over(r) ==
  /\ status[r] = "gone" /\ hand[r] = "idle" /\ job[r] = "none"
  /\ \A s \in Stages : slot[r][s] = "free"
  /\ Unseen(r)

Phased(r) ==
  /\ \/ Unborn(r) \/ AtLevi(r) \/ Finalizing(r) \/ Downloaded(r) \/ AtSenku(r) \/ AtGojo(r)
     \/ Updating(r) \/ Out(r) \/ Over(r)
  /\ r \in posting => status[r] \in {"published", "gone"}

\* The inductive invariant.
PhaseInv ==
  /\ TypeOK /\ StaysGone
  /\ \A r \in Requests \ hurt : Phased(r)

\* The phase shows in the coroutine, the status and the job.
LEMMA WhichPhase ==
  ASSUME NEW r \in Requests, Phased(r)
  PROVE  /\ hand[r] \in IntakeSteps \ {"idle"} => AtLevi(r)
         /\ hand[r] \in {"relink", "finalize"} => Finalizing(r)
         /\ hand[r] = "complete_levi" => Downloaded(r)
         /\ hand[r] \in {"assign_senku", "complete_senku"} => AtSenku(r)
         /\ hand[r] = "assign_gojo" => AtGojo(r)
         /\ hand[r] = "publish_redo" => Updating(r)
         /\ hand[r] # "fallback_gojo"
         /\ status[r] = "none" => Unborn(r)
         /\ status[r] = "gone" => Over(r)
         /\ job[r] \notin {"running", "done"} /\ status[r] \notin {"none", "gone"} => AtLevi(r)
         /\ hand[r] = "idle" /\ job[r] \notin {"none", "done"} => AtLevi(r)
BY DEF Phased, Unborn, AtLevi, Finalizing, Downloaded, AtSenku, AtGojo, Updating, Out, Over,
   IntakeSteps

-----------------------------------------------------------------------------
(* A step from phase to phase *)

\* A step that is not about q.
Untouched(q) ==
  /\ status'[q] = status[q] /\ job'[q] = job[q] /\ hand'[q] = hand[q]
  /\ slot'[q] = slot[q] /\ finished'[q] = finished[q]
  /\ (q \in redo' <=> q \in redo) /\ (q \in posting' <=> q \in posting)
  /\ q \in hurt' <=> q \in hurt
  /\ \A seen \in {"queued", "ready"} : <<q, seen>> \in tick' => <<q, seen>> \in tick

LEMMA UntouchedKeeps ==
  ASSUME NEW q \in Requests, Phased(q), Untouched(q) PROVE Phased(q)'
<1>1. q \in SkipsSenku' <=> q \in SkipsSenku BY DEF Untouched, SkipsSenku
<1>2. Unseen(q) => Unseen(q)' BY DEF Untouched, Unseen
<1> QED BY <1>1, <1>2 DEF Untouched, Phased, Unborn, AtLevi, Finalizing, Downloaded, AtSenku, AtGojo,
           Updating, Out, Over, OnlyTask

LEMMA OthersUntouched ==
  ASSUME TypeOK, NEW r \in Requests, Intake(r) \/ Download(r) \/ Handoff(r) \/ Posting(r),
         NEW q \in Requests \ {r}
  PROVE  Untouched(q)
<1>1. CASE Intake(r)
  <2>1. slot'[q] = slot[q]
    BY <1>1, AssignElsewhere, Names DEF Intake, Submit, SubmitAssign, SubmitPin, SubmitQueue,
       SubmitFails, Bridge, BridgeAssign, TypeOK
  <2> QED BY <1>1, <2>1 DEF Intake, Submit, SubmitAssign, SubmitPin, SubmitQueue, SubmitFails,
             Bridge, BridgeAssign, Hurt, Goto, Untouched, TypeOK
<1>2. CASE Download(r)
  BY <1>2 DEF Download, Enqueue, StartJob, TierProcessed, JobFails, PauseForLinks, Cancel, WindUp,
     SourceAborted, ChangeSource, TiersDone, FinalizeComplete, Hurt, Goto, Untouched, TypeOK
<1>3. CASE Handoff(r)
  <2>1. slot'[q] = slot[q] /\ finished'[q] = finished[q] /\ (q \in hurt' <=> q \in hurt)
    <3>1. CASE CompleteLevi(r)
      BY <3>1, TryCompleteEffect, Names DEF CompleteLevi, TryComplete, Hurt
    <3>2. CASE CompleteSenku(r) BY <3>2, Names DEF CompleteSenku, Complete, TypeOK
    <3> QED BY <1>3, <3>1, <3>2, AssignElsewhere, Names
            DEF Handoff, AssignSenku, FallbackGojo, SenkuPublishes, CompleteSenkuFails, AssignGojo, Hurt
  <2> QED BY <1>3, <2>1 DEF Handoff, CompleteLevi, AssignSenku, FallbackGojo, SenkuPublishes,
             CompleteSenku, CompleteSenkuFails, AssignGojo, Goto, Untouched, TypeOK
<1>4. CASE Posting(r)
  <2>1. slot'[q] = slot[q] /\ finished'[q] = finished[q] /\ (q \in hurt' <=> q \in hurt)
    <3>1. CASE PublishCleanup(r)
      BY <3>1, TryCompleteEffect, Names DEF PublishCleanup, TryComplete, Hurt
    <3> QED BY <1>4, <3>1 DEF Posting, RelinkRedo, RelinkFails, Publish, Hurt
  <2> QED BY <1>4, <2>1 DEF Posting, RelinkRedo, RelinkFails, Publish, PublishCleanup, Published,
             Goto, Untouched, TypeOK
<1> QED BY <1>1, <1>2, <1>3, <1>4

\* What an assignment or a completion does to the request's own slots.
LEMMA AssignOwn ==
  ASSUME TypeOK, NEW r \in Requests, NEW s \in Stages, Assign(r, s)
  PROVE  /\ slot'[r][s] \in Slot
         /\ slot[r][s] # "free" => slot'[r][s] = slot[r][s]
         /\ \A t \in Stages \ {s} : slot'[r][t] = slot[r][t]
BY DEF Assign, Assigned, TypeOK, Slot

LEMMA CompleteOwn ==
  ASSUME TypeOK, NEW r \in Requests, NEW s \in Stages, Complete(r, s)
  PROVE  /\ \A t \in Stages \ {s} : slot'[r][t] = slot[r][t]
         /\ IF slot[r][s] = "held"
              THEN slot'[r][s] = "free" /\ finished'[r] = finished[r] \cup {s}
              ELSE slot'[r][s] = slot[r][s] /\ finished'[r] = finished[r]
BY DEF Complete, TypeOK

\* A request that stays unhurt met no such event.
LEMMA Unhurt ==
  \A r \in Requests, event \in BOOLEAN : Hurt(r, event) /\ r \notin hurt' => ~event /\ r \notin hurt
BY DEF Hurt

LEMMA IntakePhase ==
  ASSUME TypeOK, NEW r \in Requests, Phased(r), r \notin hurt', Intake(r)
  PROVE  Phased(r)'
<1>1. CASE Submit(r) \/ Bridge(r)
  <2>1. /\ status[r] = "none" /\ status'[r] \in {"pending", "queued"}
        /\ hand'[r] \in {"submit_assign", "bridge_assign"}
        /\ status'[r] = "queued" \/ hand'[r] = "submit_assign"
        /\ UNCHANGED <<job, slot, finished, posting>>
    BY <1>1 DEF Submit, Bridge, Goto, TypeOK
  <2>2. Unborn(r) /\ r \notin posting BY <2>1, WhichPhase DEF Phased
  <2>3. AtLevi(r)' BY <2>1, <2>2 DEF Unborn, AtLevi, OnlyTask, IntakeSteps
  <2> QED BY <2>1, <2>2, <2>3 DEF Phased
<1>2. ASSUME hand[r] \in IntakeSteps \ {"idle"}, hand'[r] \in IntakeSteps,
             status'[r] \in {status[r], "queued"},
             slot[r]["levi"] = "held" => slot'[r]["levi"] = "held",
             \/ slot'[r]["levi"] = "held"
             \/ hand'[r] \notin {"idle", "bridge_assign"}
             \/ status'[r] = "queued"
             \/ hand[r] = "bridge_assign" /\ status'[r] = status[r],
             \A t \in Stages \ {"levi"} : slot'[r][t] = slot[r][t],
             job' = job, finished' = finished, posting' = posting
      PROVE  Phased(r)'
  <2>1. AtLevi(r) BY <1>2, WhichPhase
  <2>2. r \notin posting BY <2>1 DEF Phased, AtLevi
  <2>3. AtLevi(r)' BY <1>2, <2>1 DEF AtLevi, OnlyTask
  <2> QED BY <1>2, <2>2, <2>3 DEF Phased
<1>3. CASE SubmitAssign(r)
  <2>1. CASE Assign(r, "levi")
    BY <1>2, <1>3, <2>1, AssignOwn, Names DEF SubmitAssign, Goto, IntakeSteps, TypeOK
  <2>2. CASE slot' = slot
    BY <1>2, <1>3, <2>2 DEF SubmitAssign, Goto, IntakeSteps, TypeOK
  <2> QED BY <1>3, <2>1, <2>2 DEF SubmitAssign
<1>4. CASE SubmitPin(r)
  BY <1>2, <1>4, Names DEF SubmitPin, Goto, IntakeSteps, TypeOK
<1>5. CASE SubmitQueue(r)
  <2>1. status[r] # "gone"
    BY <1>5, WhichPhase DEF SubmitQueue, Goto, Over
  <2> QED BY <1>2, <1>5, <2>1 DEF SubmitQueue, Goto, IntakeSteps, TypeOK
<1>6. CASE BridgeAssign(r)
  BY <1>2, <1>6, AssignOwn, Names DEF BridgeAssign, Goto, IntakeSteps, TypeOK
<1>7. CASE SubmitFails(r) BY <1>7, Unhurt DEF SubmitFails
<1> QED BY <1>1, <1>3, <1>4, <1>5, <1>6, <1>7 DEF Intake

LEMMA DownloadPhase ==
  ASSUME TypeOK, StaysGone, NEW r \in Requests, Phased(r), r \notin hurt', Download(r)
  PROVE  Phased(r)'
<1>0. slot' = slot /\ finished' = finished /\ tick' = tick /\ posting' = posting
  BY DEF Download, Enqueue, StartJob, TierProcessed, JobFails, PauseForLinks, Cancel, WindUp,
     SourceAborted, ChangeSource, TiersDone, FinalizeComplete
\* Whatever becomes of the job, Levi keeps his task.
<1>1. ASSUME AtLevi(r), job[r] # "none" \/ slot[r]["levi"] = "held", hand' = hand,
             job'[r] # "done", status'[r] \notin {"none", "published", "gone"}
      PROVE  Phased(r)'
  <2>1. r \notin posting BY <1>1 DEF Phased, AtLevi
  <2>2. AtLevi(r)' BY <1>0, <1>1 DEF AtLevi, OnlyTask
  <2> QED BY <1>0, <2>1, <2>2 DEF Phased
<1>2. CASE Enqueue(r)
  <2>1. slot[r]["levi"] = "held" BY <1>2, Unhurt DEF Enqueue
  <2>2. AtLevi(r) BY <1>2, WhichPhase DEF Enqueue
  <2> QED BY <1>1, <1>2, <2>1, <2>2 DEF Enqueue, TypeOK
<1>3. CASE StartJob(r)
  <2>1. AtLevi(r) BY <1>3, WhichPhase DEF StartJob, StaysGone, Unborn, Over
  <2> QED BY <1>1, <1>3, <2>1 DEF StartJob, AtLevi, TypeOK
<1>4. CASE TierProcessed(r) \/ JobFails(r) \/ PauseForLinks(r) \/ SourceAborted(r)
  <2>1. hand[r] = "idle" /\ job[r] = "running"
    BY <1>4 DEF TierProcessed, JobFails, PauseForLinks, SourceAborted
  <2>2. AtLevi(r) BY <2>1, WhichPhase
  <2> QED BY <1>1, <1>4, <2>1, <2>2
          DEF TierProcessed, JobFails, PauseForLinks, SourceAborted, AtLevi, TypeOK
<1>5. CASE Cancel(r) \/ ChangeSource(r)
  <2>1. hand[r] = "idle" /\ job[r] \notin {"none", "done"}
    BY <1>5, Unhurt DEF Cancel, ChangeSource
  <2>2. AtLevi(r) BY <2>1, WhichPhase
  <2> QED BY <1>1, <1>5, <2>1, <2>2 DEF Cancel, ChangeSource, TypeOK
<1>6. CASE WindUp(r)
  <2>1. hand[r] = "idle" /\ job[r] \notin {"none", "done"}
    BY <1>6, Unhurt DEF WindUp, StaysGone
  <2>2. AtLevi(r) BY <2>1, WhichPhase
  <2> QED BY <1>1, <1>6, <2>1, <2>2 DEF WindUp, AtLevi, TypeOK
<1>7. CASE TiersDone(r)
  <2>1. hand[r] = "idle" /\ job[r] = "running" BY <1>7 DEF TiersDone, Goto
  <2>2. AtLevi(r) BY <2>1, WhichPhase
  <2>3. Finalizing(r)'
    BY <1>0, <1>7, <2>1, <2>2 DEF TiersDone, Goto, AtLevi, Finalizing, OnlyTask, TypeOK
  <2>4. r \notin posting BY <2>2 DEF AtLevi, Phased
  <2> QED BY <1>0, <2>3, <2>4 DEF Phased
<1>8. CASE FinalizeComplete(r)
  <2>1. /\ hand[r] = "finalize" /\ hand'[r] = "complete_levi"
        /\ r \notin posting /\ redo' = redo
    BY <1>8 DEF FinalizeComplete, Goto, TypeOK
  <2>2. Finalizing(r) BY <2>1, WhichPhase
  <2>3. job'[r] = "done" /\ status'[r] = DownloadedStatus(r)
    BY <1>8, <2>2 DEF FinalizeComplete, Finalizing, TypeOK
  <2>4. <<r, "ready">> \notin tick BY <1>8, Unhurt DEF FinalizeComplete, Unread
  <2>5. r \in SkipsSenku <=> r \in redo \cup Updates BY <2>2 DEF Finalizing, SkipsSenku
  <2>6. /\ r \in SkipsSenku => status'[r] = status[r]
        /\ r \notin SkipsSenku => status'[r] = "ready"
    BY <2>1, <2>2, <2>3, <2>5 DEF DownloadedStatus, Finalizing
  <2>7. r \in SkipsSenku' <=> r \in SkipsSenku BY <2>1, <2>2, <2>5, <2>6 DEF SkipsSenku, Finalizing
  <2>8. CASE r \in SkipsSenku
    <3>1. status'[r] = "processing" \/ (r \in redo' /\ status'[r] = "published")
      BY <2>1, <2>2, <2>6, <2>8 DEF Finalizing
    <3>2. r \in SkipsSenku' /\ <<r, "ready">> \notin tick' BY <1>0, <2>4, <2>7, <2>8
    <3>3. Downloaded(r)'
      BY <1>0, <2>1, <2>2, <2>3, <3>1, <3>2 DEF Finalizing, Downloaded, OnlyTask
    <3> QED BY <1>0, <2>1, <3>3 DEF Phased
  <2>9. CASE r \notin SkipsSenku
    BY <1>0, <2>1, <2>2, <2>3, <2>6, <2>7, <2>9 DEF Finalizing, Downloaded, OnlyTask, Phased
  <2> QED BY <2>8, <2>9
<1> QED BY <1>2, <1>3, <1>4, <1>5, <1>6, <1>7, <1>8 DEF Download

LEMMA HandoffPhase ==
  ASSUME TypeOK, NEW r \in Requests, Phased(r), r \notin hurt', Handoff(r)
  PROVE  Phased(r)'
<1>0. /\ status' = status /\ job' = job /\ tick' = tick /\ posting' = posting /\ redo' = redo
      /\ SkipsSenku' = SkipsSenku
  BY DEF Handoff, CompleteLevi, AssignSenku, FallbackGojo, SenkuPublishes, CompleteSenku,
     CompleteSenkuFails, AssignGojo, SkipsSenku
<1>1. CASE CompleteLevi(r)
  <2>1. hand[r] = "complete_levi" /\ r \notin posting /\ Complete(r, "levi")
    BY <1>1, Unhurt DEF CompleteLevi, Goto, TryComplete
  <2>2. Downloaded(r) BY <2>1, WhichPhase
  <2>3. /\ slot'[r]["levi"] = "free" /\ finished'[r] = {"levi"}
        /\ \A t \in Stages \ {"levi"} : slot'[r][t] = "free"
    BY <2>1, <2>2, CompleteOwn, Names DEF Downloaded, OnlyTask
  <2>4. \A s \in Stages : slot'[r][s] = "free" BY <2>3
  <2>5. CASE r \notin SkipsSenku
    <3>1. hand'[r] = "assign_senku" BY <1>1, <2>5 DEF CompleteLevi, Goto, TypeOK
    <3>2. status[r] = "ready" BY <2>2, <2>5 DEF Downloaded
    <3>3. AtSenku(r)' BY <1>0, <2>2, <2>3, <2>4, <2>5, <3>1, <3>2 DEF AtSenku, OnlyTask, Downloaded
    <3> QED BY <1>0, <2>1, <3>3 DEF Phased
  <2>6. CASE r \in SkipsSenku /\ r \in redo /\ status[r] = "published"
    <3>1. hand'[r] = "idle" BY <1>1, <2>6 DEF CompleteLevi, Goto, TypeOK
    <3>2. Out(r)' BY <1>0, <2>2, <2>3, <2>4, <2>6, <3>1, Names DEF Out, OnlyTask, Downloaded
    <3> QED BY <1>0, <2>1, <3>2 DEF Phased
  <2>7. CASE r \in SkipsSenku /\ ~(r \in redo /\ status[r] = "published")
    <3>1. status[r] = "processing" BY <2>2, <2>7 DEF Downloaded
    <3>2. hand'[r] = "publish_redo" BY <1>1, <2>7 DEF CompleteLevi, Goto, TypeOK
    <3>3. Updating(r)' BY <1>0, <2>2, <2>3, <2>4, <2>7, <3>1, <3>2, Names DEF Updating, OnlyTask, Downloaded
    <3> QED BY <1>0, <2>1, <3>3 DEF Phased
  <2> QED BY <2>5, <2>6, <2>7
<1>2. CASE AssignSenku(r)
  <2>1. /\ hand[r] = "assign_senku" /\ hand'[r] = "idle" /\ finished' = finished
        /\ Assign(r, "senku")
    BY <1>2 DEF AssignSenku, Goto, TypeOK
  <2>2. AtSenku(r) /\ r \notin posting BY <2>1, WhichPhase DEF AtSenku, Phased
  <2>3. AtSenku(r)' BY <1>0, <2>1, <2>2, AssignOwn, Names DEF AtSenku, OnlyTask
  <2> QED BY <1>0, <2>2, <2>3 DEF Phased
<1>3. CASE FallbackGojo(r) BY <1>3, WhichPhase DEF FallbackGojo, Goto
<1>4. CASE SenkuPublishes(r)
  <2>1. /\ hand[r] = "idle" /\ hand'[r] = "complete_senku" /\ finished' = finished /\ slot' = slot
        /\ job[r] = "done" /\ status[r] = "ready" /\ slot[r]["senku"] = "held"
    BY <1>4, Unhurt DEF SenkuPublishes, Goto, TypeOK
  <2>2. AtSenku(r) /\ r \notin posting
    BY <2>1, Names DEF Phased, Unborn, AtLevi, Finalizing, Downloaded, AtSenku, AtGojo, Updating,
       Out, Over, OnlyTask
  <2>3. AtSenku(r)' BY <1>0, <2>1, <2>2 DEF AtSenku, OnlyTask
  <2> QED BY <1>0, <2>2, <2>3 DEF Phased
<1>5. CASE CompleteSenku(r)
  <2>1. hand[r] = "complete_senku" /\ hand'[r] = "assign_gojo" /\ Complete(r, "senku")
    BY <1>5 DEF CompleteSenku, Goto, TypeOK
  <2>2. AtSenku(r) /\ r \notin posting /\ slot[r]["senku"] = "held"
    BY <2>1, WhichPhase DEF AtSenku, Phased
  <2>3. /\ slot'[r]["senku"] = "free" /\ finished'[r] = {"levi", "senku"}
        /\ \A t \in Stages \ {"senku"} : slot'[r][t] = "free"
    BY <2>1, <2>2, CompleteOwn, Names DEF AtSenku, OnlyTask
  <2>4. AtGojo(r)' BY <1>0, <2>1, <2>2, <2>3 DEF AtSenku, AtGojo, OnlyTask
  <2> QED BY <1>0, <2>2, <2>4 DEF Phased
<1>6. CASE CompleteSenkuFails(r)
  <2>1. hand[r] = "complete_senku" /\ hand'[r] = "idle" /\ finished' = finished /\ slot' = slot
    BY <1>6 DEF CompleteSenkuFails, Goto, TypeOK
  <2>2. AtSenku(r) /\ r \notin posting BY <2>1, WhichPhase DEF AtSenku, Phased
  <2>3. AtSenku(r)' BY <1>0, <2>1, <2>2 DEF AtSenku, OnlyTask
  <2> QED BY <1>0, <2>2, <2>3 DEF Phased
<1>7. CASE AssignGojo(r)
  <2>1. hand[r] = "assign_gojo" /\ hand'[r] = "idle" /\ finished' = finished /\ Assign(r, "gojo")
    BY <1>7 DEF AssignGojo, Goto, TypeOK
  <2>2. AtGojo(r) /\ r \notin posting BY <2>1, WhichPhase DEF AtGojo, Phased
  <2>3. AtGojo(r)' BY <1>0, <2>1, <2>2, AssignOwn, Names DEF AtGojo, OnlyTask
  <2> QED BY <1>0, <2>2, <2>3 DEF Phased
<1> QED BY <1>1, <1>2, <1>3, <1>4, <1>5, <1>6, <1>7 DEF Handoff

LEMMA PostingPhase ==
  ASSUME TypeOK, NEW r \in Requests, Phased(r), r \notin hurt', Posting(r)
  PROVE  Phased(r)'
<1>1. CASE RelinkRedo(r)
  <2>1. /\ status'[r] = "published" /\ r \in posting' /\ redo' = redo
        /\ UNCHANGED <<job, slot, finished, tick>>
    BY <1>1 DEF RelinkRedo, Published, TypeOK
  <2>2. CASE Goto(r, "relink", "finalize")
    <3>1. hand[r] = "relink" /\ hand'[r] = "finalize" BY <2>2 DEF Goto, TypeOK
    <3>2. Finalizing(r) /\ r \in redo BY <3>1, WhichPhase DEF Finalizing
    <3>3. Finalizing(r)' BY <2>1, <3>1, <3>2 DEF Finalizing, OnlyTask
    <3> QED BY <2>1, <3>3 DEF Phased
  <2>3. CASE Goto(r, "publish_redo", "idle")
    <3>1. hand[r] = "publish_redo" /\ hand'[r] = "idle" BY <2>3 DEF Goto, TypeOK
    <3>2. Updating(r) BY <3>1, WhichPhase
    <3>3. r \in SkipsSenku' BY <2>1, <3>2 DEF Updating, SkipsSenku
    <3>4. Out(r)' BY <2>1, <3>1, <3>2, <3>3 DEF Updating, Out, OnlyTask
    <3> QED BY <2>1, <3>4 DEF Phased
  <2> QED BY <1>1, <2>2, <2>3 DEF RelinkRedo
<1>2. CASE RelinkFails(r)
  <2>1. /\ hand[r] = "relink" /\ hand'[r] = "finalize"
        /\ UNCHANGED <<redo, status, job, slot, finished, posting, tick>>
    BY <1>2, Unhurt DEF RelinkFails, Goto, TypeOK
  <2>2. Finalizing(r) BY <2>1, WhichPhase
  <2>3. Finalizing(r)' BY <2>1, <2>2 DEF Finalizing, OnlyTask
  <2> QED BY <2>1, <2>3, <2>2 DEF Phased
<1>3. CASE Publish(r)
  <2>1. /\ status'[r] = "published" /\ r \in posting'
        /\ UNCHANGED <<redo, job, slot, finished, hand, tick>>
    BY <1>3 DEF Publish, Published, TypeOK
  <2>2. /\ job[r] = "done" /\ status[r] # "published"
        /\ hand[r] \notin {"complete_levi", "publish_redo", "assign_gojo"}
        /\ slot[r]["gojo"] = "held"
    BY <1>3, Unhurt DEF Publish, Unread
  <2>3. AtGojo(r)
    BY <2>2, Names DEF Phased, Unborn, AtLevi, Finalizing, Downloaded, AtSenku, AtGojo, Updating,
       Out, Over, OnlyTask
  <2>4. Out(r)' BY <2>1, <2>2, <2>3 DEF AtGojo, Out, OnlyTask
  <2> QED BY <2>1, <2>4 DEF Phased
<1>4. CASE PublishCleanup(r)
  <2>1. /\ r \in posting /\ r \notin posting' /\ Complete(r, "gojo")
        /\ UNCHANGED <<redo, status, job, hand, tick>> /\ SkipsSenku' = SkipsSenku
    BY <1>4, Unhurt DEF PublishCleanup, TryComplete, SkipsSenku
  <2>2. CASE Finalizing(r)
    <3>1. slot'[r]["levi"] = "held" /\ finished'[r] = finished[r] /\ OnlyTask(r, "levi")'
      BY <2>1, <2>2, CompleteOwn, Names DEF Finalizing, OnlyTask
    <3>2. Finalizing(r)' BY <2>1, <2>2, <3>1 DEF Finalizing
    <3> QED BY <2>1, <3>2 DEF Phased
  <2>3. CASE Out(r)
    <3>1. /\ OnlyTask(r, "gojo")' /\ slot'[r]["gojo"] = "free"
          /\ slot[r]["gojo"] = "held" => finished'[r] = finished[r] \cup {"gojo"}
          /\ slot[r]["gojo"] = "free" => finished'[r] = finished[r]
      BY <2>1, <2>3, CompleteOwn, Names DEF Out, OnlyTask, TypeOK, Slot
    <3>2. slot[r]["gojo"] \in {"held", "free"} BY <2>3, Names DEF Out, TypeOK, Slot
    <3>3. Out(r)' BY <2>1, <2>3, <3>1, <3>2 DEF Out
    <3> QED BY <2>1, <3>3 DEF Phased
  <2>4. CASE Downloaded(r)
    <3>1. slot'[r]["levi"] = "held" /\ finished'[r] = finished[r] /\ OnlyTask(r, "levi")'
      BY <2>1, <2>4, CompleteOwn, Names DEF Downloaded, OnlyTask
    <3>2. Downloaded(r)' BY <2>1, <2>4, <3>1 DEF Downloaded
    <3> QED BY <2>1, <3>2 DEF Phased
  <2>5. CASE Over(r)
    <3>1. \A s \in Stages : slot'[r][s] = "free"
      BY <2>1, <2>5, CompleteOwn, Names DEF Over
    <3>2. Over(r)' BY <2>1, <2>5, <3>1 DEF Over, Unseen
    <3> QED BY <2>1, <3>2 DEF Phased
  <2>6. status[r] \in {"published", "gone"} BY <2>1 DEF Phased
  <2> QED BY <2>2, <2>3, <2>4, <2>5, <2>6 DEF Phased, Unborn, AtLevi, AtSenku, AtGojo, Updating
<1> QED BY <1>1, <1>2, <1>3, <1>4 DEF Posting

\* A deletion that hurts nobody leaves a request that is over, whatever it was before.
LEMMA DeletedIsOver ==
  ASSUME TypeOK, NEW r \in Requests, TornDown(r), r \notin hurt', status'[r] = "gone",
         hand'[r] = hand[r], tick' = tick
  PROVE  Phased(r)'
<1>1. hand[r] = "idle" /\ Unread(r) BY DEF TornDown, Erased
<1>2. job'[r] = "none" /\ \A s \in Stages : slot'[r][s] = "free" BY DEF TornDown, TypeOK
<1>3. Over(r)' BY <1>1, <1>2 DEF Over, Unread, Unseen
<1> QED BY <1>3 DEF Phased

LEMMA RemovalPhase ==
  ASSUME TypeOK, StaysGone, NEW r \in Requests, Removal(r),
         NEW q \in Requests, q \notin hurt', q \notin hurt => Phased(q)
  PROVE  Phased(q)'
<1>1. CASE Reject(r) \/ Abandon(r)
  <2>0. hurt' = hurt BY <1>1 DEF Reject, Abandon
  <2>1. CASE q # r
    <3>1. Untouched(q) BY <1>1, <2>1 DEF Reject, Abandon, Untouched, TypeOK
    <3> QED BY <2>0, <3>1, UntouchedKeeps
  <2>2. CASE q = r
    <3>1. /\ UNCHANGED <<redo, slot, finished, hand, posting, tick>>
          /\ \/ status[r] \in {"pending", "queued"} /\ status'[r] = "rejected" /\ job' = job
             \/ job[r] = "failed" /\ job'[r] = "none" /\ status'[r] = "pending"
      BY <1>1 DEF Reject, Abandon, TypeOK
    <3>2. AtLevi(r)
      BY <2>0, <2>2, <3>1 DEF Phased, Unborn, AtLevi, Finalizing, Downloaded, AtSenku, AtGojo, Updating,
         Out, Over
    <3>3. AtLevi(r)' BY <3>1, <3>2 DEF AtLevi, OnlyTask
    <3> QED BY <2>0, <2>2, <3>1, <3>2, <3>3 DEF Phased, AtLevi
  <2> QED BY <2>1, <2>2
<1>2. CASE Delete(r)
  <2>1. CASE q # r
    <3>1. Untouched(q) BY <1>2, <2>1 DEF Delete, TornDown, Erased, Untouched, TypeOK
    <3> QED BY <3>1, UntouchedKeeps DEF Untouched
  <2>2. CASE q = r BY <1>2, <2>2, DeletedIsOver DEF Delete, TypeOK
  <2> QED BY <2>1, <2>2
<1>3. ASSUME NEW p \in Requests, Refetch(r, p) PROVE Phased(q)'
  <2>0. status[p] = "none" /\ p # r BY <1>3 DEF Refetch, TornDown
  <2>1. CASE q # r /\ q # p
    <3>1. Untouched(q) BY <1>3, <2>1 DEF Refetch, TornDown, Erased, Untouched, TypeOK
    <3> QED BY <3>1, UntouchedKeeps DEF Untouched
  <2>2. CASE q = r
    <3>1. status'[r] = "gone" /\ hand'[r] = hand[r] /\ tick' = tick /\ TornDown(r)
      BY <1>3, <2>0 DEF Refetch, TypeOK
    <3> QED BY <2>2, <3>1, DeletedIsOver
  <2>3. CASE q = p
    <3>1. q \notin hurt BY <1>3, <2>0, <2>3 DEF Refetch, TornDown, Erased
    <3>2. Unborn(q) /\ q \notin posting BY <2>0, <2>3, <3>1, WhichPhase DEF Phased
    <3>3. /\ status'[q] = "queued" /\ hand'[q] = "bridge_assign" /\ posting' = posting
          /\ job'[q] = job[q] /\ slot'[q] = slot[q] /\ finished'[q] = finished[q]
      BY <1>3, <2>0, <2>3 DEF Refetch, TornDown, TypeOK
    <3>4. AtLevi(q)' BY <3>2, <3>3 DEF Unborn, AtLevi, OnlyTask, IntakeSteps
    <3> QED BY <3>2, <3>3, <3>4 DEF Phased
  <2> QED BY <2>1, <2>2, <2>3
<1> QED BY <1>1, <1>2, <1>3 DEF Removal

\* A slot of its own that changes while everything else stays.
LEMMA SlotOnly ==
  ASSUME TypeOK, NEW r \in Requests, Phased(r), NEW s \in Stages,
         slot'[r][s] \in Slot, \A t \in Stages \ {s} : slot'[r][t] = slot[r][t],
         slot[r][s] # "held",
         \/ s = "levi" /\ AtLevi(r)
         \/ s = "senku" /\ AtSenku(r)
         \/ s = "gojo" /\ AtGojo(r),
         UNCHANGED <<redo, status, job, finished, hand, posting>>
  PROVE  Phased(r)'
<1>1. CASE s = "levi" /\ AtLevi(r)
  <2>1. AtLevi(r)' BY <1>1 DEF AtLevi, OnlyTask
  <2> QED BY <2>1 DEF Phased
<1>2. CASE s = "senku" /\ AtSenku(r)
  <2>1. AtSenku(r)' BY <1>2 DEF AtSenku, OnlyTask, SkipsSenku
  <2> QED BY <2>1 DEF Phased
<1>3. CASE s = "gojo" /\ AtGojo(r)
  <2>1. AtGojo(r)' BY <1>3 DEF AtGojo, OnlyTask, SkipsSenku
  <2> QED BY <2>1 DEF Phased
<1> QED BY <1>1, <1>2, <1>3

LEMMA OffersPhase ==
  ASSUME TypeOK, NEW r \in Requests, NEW s \in Stages, Accept(r, s) \/ Decline(r, s),
         NEW q \in Requests, Phased(q)
  PROVE  Phased(q)'
<1>0. /\ UNCHANGED <<redo, status, job, finished, hand, posting, hurt, tick>>
      /\ slot[r][s] = "offered" /\ \E new \in Slot : slot' = [slot EXCEPT ![r][s] = new]
  BY DEF Accept, Decline, Slot
<1>1. CASE q # r
  <2>1. Untouched(q) BY <1>0, <1>1 DEF Untouched, TypeOK
  <2> QED BY <2>1, UntouchedKeeps
<1>2. CASE q = r
  <2>1. slot'[r][s] \in Slot /\ \A t \in Stages \ {s} : slot'[r][t] = slot[r][t]
    BY <1>0 DEF TypeOK
  <2>2. \/ s = "levi" /\ AtLevi(r)
        \/ s = "senku" /\ AtSenku(r)
        \/ s = "gojo" /\ AtGojo(r)
    BY <1>0, <1>2 DEF Phased, Unborn, Finalizing, Downloaded, Updating, Out, Over, OnlyTask, AtLevi,
       AtSenku, AtGojo, Stages
  <2> QED BY <1>0, <1>2, <2>1, <2>2, SlotOnly
<1> QED BY <1>1, <1>2

LEMMA RecoverPhase ==
  ASSUME TypeOK, Recover, NEW q \in Requests, Phased(q)
  PROVE  Phased(q)'
<1>1. CASE TickStart
  <2>1. UNCHANGED <<redo, status, job, finished, hand, posting, slot>> BY <1>1 DEF TickStart
  <2>2. SkipsSenku' = SkipsSenku BY <2>1 DEF SkipsSenku
  <2>3. /\ <<q, "ready">> \in tick' => status[q] = "ready"
        /\ status[q] \in {"none", "gone"} => Unseen(q)'
    BY <1>1 DEF TickStart, FirstPage, Unseen
  <2> QED BY <2>1, <2>2, <2>3 DEF Phased, Unborn, AtLevi, Finalizing, Downloaded, AtSenku, AtGojo,
             Updating, Out, Over, OnlyTask
<1>2. ASSUME NEW r \in Requests, NEW seen \in {"queued", "ready"}, TickLook(r, seen)
      PROVE  Phased(q)'
  <2>0. /\ UNCHANGED <<redo, status, job, finished, hand, posting, hurt>>
        /\ tick' \subseteq tick /\ <<r, seen>> \in tick
    BY <1>2 DEF TickLook
  <2>1. CASE slot' = slot
    <3>1. Untouched(q) BY <2>0, <2>1 DEF Untouched
    <3> QED BY <3>1, UntouchedKeeps
  <2>2. CASE MissingStage(r, seen) # "none" /\ Assign(r, MissingStage(r, seen))
    <3> DEFINE s == MissingStage(r, seen)
    <3>1. s \in Stages /\ slot[r][s] = "free" BY <2>2, MissingIsStage DEF MissingStage
    <3>2. CASE q # r
      <4>1. slot'[q] = slot[q] BY <2>2, <3>1, <3>2, AssignElsewhere
      <4>2. Untouched(q) BY <2>0, <4>1 DEF Untouched
      <4> QED BY <4>2, UntouchedKeeps
    <3>3. CASE q = r
      <4>1. ~Unseen(r) BY <2>0 DEF Unseen
      <4>2. slot'[r][s] \in Slot /\ \A t \in Stages \ {s} : slot'[r][t] = slot[r][t]
        BY <2>2, <3>1, AssignOwn
      <4>3. CASE s = "levi"
        <5>1. slot[r]["levi"] = "free" /\ "levi" \notin finished[r]
          BY <4>3, <2>2 DEF MissingStage
        <5>2. AtLevi(r)
          BY <3>3, <4>1, <5>1 DEF Phased, Unborn, Finalizing, Downloaded, AtSenku, AtGojo, Updating, Out, Over
        <5> QED BY <2>0, <3>1, <3>3, <4>2, <4>3, <5>2, SlotOnly
      <4>4. CASE s = "senku"
        <5>1. seen = "ready" /\ "levi" \in finished[r] /\ "senku" \notin finished[r]
          BY <4>4, <2>2 DEF MissingStage
        <5>2. AtSenku(r)
          BY <2>0, <3>3, <4>1, <5>1 DEF Phased, Unborn, AtLevi, Finalizing, Downloaded, AtGojo, Updating,
             Out, Over
        <5> QED BY <2>0, <3>1, <3>3, <4>2, <4>4, <5>2, SlotOnly
      <4>5. CASE s = "gojo"
        <5>1. /\ seen = "ready" /\ "senku" \in finished[r] /\ "gojo" \notin finished[r]
              /\ slot[r]["gojo"] = "free"
          BY <4>5, <2>2 DEF MissingStage
        <5>2. AtGojo(r)
          BY <2>0, <3>3, <4>1, <5>1 DEF Phased, Unborn, AtLevi, Finalizing, Downloaded, AtSenku, Updating,
             Out, Over
        <5> QED BY <2>0, <3>1, <3>3, <4>2, <4>5, <5>2, SlotOnly
      <4> QED BY <3>1, <4>3, <4>4, <4>5 DEF Stages
    <3> QED BY <3>2, <3>3
  <2> QED BY <1>2, <2>1, <2>2 DEF TickLook
<1> QED BY <1>1, <1>2 DEF Recover

\* A restart hurts where Cut says; every other phase it leaves, or sets back to Levi's.
LEMMA CrashPhase ==
  ASSUME TypeOK, Crash, NEW q \in Requests, Phased(q), q \notin hurt'
  PROVE  Phased(q)'
<1>1. /\ hand'[q] = "idle" /\ posting' = {} /\ tick' = {} /\ ~Cut(q)
      /\ job'[q] = IF job[q] \in {"running", "paused"} THEN "queued" ELSE job[q]
      /\ UNCHANGED <<redo, status, slot, finished>> /\ SkipsSenku' = SkipsSenku
  BY DEF Crash, SkipsSenku
<1>2. Unseen(q)' /\ <<q, "ready">> \notin tick' /\ q \notin posting' BY <1>1 DEF Unseen
<1>3. CASE AtLevi(q)
  <2>1. hand[q] \in {"idle", "bridge_assign"} BY <1>1, <1>3 DEF Cut, AtLevi, IntakeSteps
  <2>2. AtLevi(q)' BY <1>1, <1>3, <2>1 DEF AtLevi, OnlyTask, IntakeSteps
  <2> QED BY <1>2, <2>2 DEF Phased
<1>4. CASE Finalizing(q)
  <2>1. status[q] = "processing" BY <1>1, <1>4 DEF Cut, Finalizing
  <2>2. AtLevi(q)' BY <1>1, <1>4, <2>1 DEF AtLevi, Finalizing, OnlyTask, IntakeSteps
  <2> QED BY <1>2, <2>2 DEF Phased
<1>5. CASE Unborn(q) \/ Over(q)
  <2>1. Unborn(q)' \/ Over(q)' BY <1>1, <1>2, <1>5 DEF Unborn, Over, OnlyTask
  <2> QED BY <1>2, <2>1 DEF Phased
<1>6. CASE AtSenku(q) \/ AtGojo(q)
  <2>1. AtSenku(q)' \/ AtGojo(q)' BY <1>1, <1>6 DEF AtSenku, AtGojo, OnlyTask
  <2> QED BY <1>2, <2>1 DEF Phased
<1>7. CASE Out(q)
  <2>1. q \notin posting BY <1>1 DEF Cut
  <2>2. Out(q)' BY <1>1, <1>2, <1>7, <2>1 DEF Out, OnlyTask
  <2> QED BY <1>2, <2>2 DEF Phased
<1> QED BY <1>1, <1>3, <1>4, <1>5, <1>6, <1>7 DEF Phased, Downloaded, Updating, Cut

\* No call heals a request.
LEMMA OnlyHurts ==
  ASSUME NEW r \in Requests, Intake(r) \/ Download(r) \/ Handoff(r) \/ Posting(r)
  PROVE  hurt \subseteq hurt'
BY DEF Hurt, Intake, Submit, SubmitAssign, SubmitPin, SubmitQueue, SubmitFails, Bridge, BridgeAssign,
   Download, Enqueue, StartJob, TierProcessed, JobFails, PauseForLinks, Cancel, WindUp, SourceAborted,
   ChangeSource, TiersDone, FinalizeComplete, Handoff, CompleteLevi, AssignSenku, FallbackGojo,
   SenkuPublishes, CompleteSenku, CompleteSenkuFails, AssignGojo, Posting, RelinkRedo, RelinkFails,
   Publish, PublishCleanup, TryComplete

LEMMA PhaseStep == PhaseInv /\ [Next]_vars => PhaseInv'
<1> SUFFICES ASSUME PhaseInv, [Next]_vars PROVE PhaseInv' OBVIOUS
<1>1. TypeOK /\ StaysGone /\ TypeOK' BY TypeStep DEF PhaseInv
<1>2. StaysGone' BY <1>1, GoneStep
<1>3. ASSUME NEW q \in Requests, q \notin hurt' PROVE Phased(q)'
  <2>0. q \notin hurt => Phased(q) BY DEF PhaseInv
  <2>1. CASE UNCHANGED vars
    <3>1. Untouched(q) BY <2>1 DEF vars, Untouched
    <3> QED BY <1>3, <2>0, <3>1, UntouchedKeeps DEF Untouched
  <2>2. ASSUME NEW r \in Requests, Intake(r) \/ Download(r) \/ Handoff(r) \/ Posting(r)
        PROVE  Phased(q)'
    <3>1. CASE q # r
      <4>1. Untouched(q) BY <1>1, <2>2, <3>1, OthersUntouched
      <4> QED BY <1>3, <2>0, <4>1, UntouchedKeeps DEF Untouched
    <3>2. CASE q = r
      <4>1. q \notin hurt BY <1>1, <1>3, <2>2, <3>2, OnlyHurts
      <4> QED BY <1>1, <1>3, <2>0, <2>2, <3>2, <4>1, IntakePhase, DownloadPhase, HandoffPhase,
              PostingPhase
    <3> QED BY <3>1, <3>2
  <2>3. ASSUME NEW r \in Requests, Removal(r) PROVE Phased(q)'
    BY <1>1, <1>3, <2>0, <2>3, RemovalPhase
  <2>4. ASSUME NEW r \in Requests, NEW s \in Stages, Accept(r, s) \/ Decline(r, s) PROVE Phased(q)'
    <3>1. hurt' = hurt BY <2>4 DEF Accept, Decline
    <3> QED BY <1>1, <1>3, <2>0, <2>4, <3>1, OffersPhase
  <2>5. CASE Recover
    <3>1. hurt' = hurt BY <2>5 DEF Recover, TickStart, TickLook
    <3> QED BY <1>1, <1>3, <2>0, <2>5, <3>1, RecoverPhase
  <2>6. CASE Crash
    <3>1. q \notin hurt BY <1>3, <2>6 DEF Crash
    <3> QED BY <1>1, <1>3, <2>0, <2>6, <3>1, CrashPhase
  <2> QED BY <2>1, <2>2, <2>3, <2>4, <2>5, <2>6 DEF Next
<1> QED BY <1>1, <1>2, <1>3 DEF PhaseInv

LEMMA InitPhase == Init => PhaseInv
<1> SUFFICES ASSUME Init PROVE PhaseInv OBVIOUS
<1>1. TypeOK BY InitType
<1>2. StaysGone BY DEF Init, StaysGone
<1>3. ASSUME NEW r \in Requests PROVE Phased(r)
  <2>1. Unborn(r) BY Names DEF Init, Unborn, OnlyTask, Unseen
  <2> QED BY <2>1 DEF Phased, Init
<1> QED BY <1>1, <1>2, <1>3 DEF PhaseInv

LEMMA PhaseIsResponsible ==
  ASSUME NEW r \in Requests, Phased(r), status[r] \notin {"none", "published", "rejected", "gone"}
  PROVE  Responsible(r)
<1>1. CASE AtLevi(r) BY <1>1, Names DEF AtLevi, Responsible, MissingStage
<1>2. CASE Finalizing(r) \/ Downloaded(r) \/ Updating(r)
  BY <1>2 DEF Finalizing, Downloaded, Updating, Responsible
<1>3. CASE AtSenku(r) BY <1>3, Names DEF AtSenku, Responsible, MissingStage
<1>4. CASE AtGojo(r) BY <1>4, Names DEF AtGojo, Responsible, MissingStage
<1> QED BY <1>1, <1>2, <1>3, <1>4 DEF Phased, Unborn, Out, Over

LEMMA PhaseIsClosed ==
  ASSUME TypeOK, NEW r \in Requests, Phased(r), status[r] \in {"published", "gone"},
         r \notin posting, hand[r] = "idle", NEW s \in Stages
  PROVE  slot[r][s] = "free"
<1>1. CASE Over(r) BY <1>1 DEF Over
<1>2. CASE Out(r)
  <2>1. slot[r]["gojo"] = "free" BY <1>2, Names DEF Out, TypeOK, Slot
  <2> QED BY <1>2, <2>1 DEF Out, OnlyTask
<1> QED BY <1>1, <1>2
        DEF Phased, Unborn, AtLevi, Finalizing, Downloaded, AtSenku, AtGojo, Updating

-----------------------------------------------------------------------------
(* Theorems *)

\* Statuses, jobs, slots, coroutines and the tick have their types.
THEOREM RelayTypeCorrect == Spec => []TypeOK
BY InitType, TypeStep, PTL DEF Spec

\* A redo or an update entry never gets a task for Senku, as long as queries are quick
\* and no update entry changes its source while its download is being finalized.
THEOREM SenkuIsSkipped == Prompt => (Spec => []NoBogusSenku)
<1>1. IInv => NoBogusSenku
  <2> SUFFICES ASSUME IInv, NEW r \in SkipsSenku PROVE slot[r]["senku"] = "free"
    BY DEF NoBogusSenku
  <2>1. r \in Requests BY RelayAssumption DEF IInv, TypeOK, SkipsSenku
  <2> QED BY <2>1 DEF IInv, Skipping
<1>2. CASE Prompt
  <2>1. IInv /\ [Next]_vars => IInv' BY <1>2, NextIInv
  <2>2. Spec => []NoBogusSenku BY <1>1, <2>1, InitIInv, PTL DEF Spec
  <2> QED BY <2>2
<1>3. CASE ~Prompt BY <1>3
<1> QED BY <1>2, <1>3

\* Through restarts, cancels, failed downloads and deletions, every request that is under
\* way has somebody or something responsible for it ("deferred work recover[s] without
\* operator clicks", README), unless one of the events of Hurt has met it.
THEOREM NothingIsStranded == Spec => []NothingStranded
<1>1. PhaseInv => NothingStranded BY PhaseIsResponsible DEF PhaseInv, NothingStranded
<1> QED BY <1>1, InitPhase, PhaseStep, PTL DEF Spec

\* And one that is published and cleaned up after, or deleted, is on nobody's task list
\* ("never lingers in /tasks", publish; "leaves no dangling stage ownership",
\* _clear_assignments), with the same exceptions.
THEOREM ClosedIsOffTheLists == Spec => []ClosedLeavesNoTask
<1>1. PhaseInv => ClosedLeavesNoTask BY PhaseIsClosed DEF PhaseInv, ClosedLeavesNoTask
<1> QED BY <1>1, InitPhase, PhaseStep, PTL DEF Spec

=============================================================================
