-------------------------- MODULE AdminAssignment --------------------------
(***************************************************************************)
(* AdminAssignmentEngine (shared/admin_assignment.py): who does which      *)
(* stage of which request.  The engine keeps one append-only table of      *)
(* assignment rows; live bot handlers, the 60-second recovery job and the  *)
(* owner's management board all change it in SEPARATE READ COMMITTED       *)
(* transactions.                                                           *)
(*                                                                         *)
(* A transaction is split where another one can commit in between:         *)
(*   assign         look for an open row | lock and choose | insert        *)
(*   complete_task  read the active row and the work item | commit         *)
(* accept_offer, reject_offer, reassign and the expiry sweep work on rows  *)
(* they hold FOR UPDATE, so each is one step (the sweep is a few, during   *)
(* which nothing else moves: nobody can see or touch its rows before it    *)
(* commits).                                                               *)
(*                                                                         *)
(* What the ladder reads of the clock and of people (duty slot, quiet      *)
(* hours, last_seen, breaks, working hours) is an input of the choosing    *)
(* step: any mixture of presences.                                         *)
(***************************************************************************)
EXTENDS Integers, FiniteSets, Sequences

CONSTANTS Requests,   \* request codes
          Stages,     \* pipeline stages
          Admins,     \* staff in admin_availability
          Bots,       \* assigned_bots: [Admins -> SUBSET Stages]
          Weight,     \* weight: [Admins -> positive integers]
          Preferred,  \* admins a caller may pass as preferred_admin
          Linked,     \* requests that bridge a work item (WRK-N)
          Claimed,    \* those whose work item an admin has claimed
          Callers,    \* concurrently running assign / complete transactions
          MaxRows,    \* bound: rows ever inserted
          Nobody      \* no admin

ASSUME EngineAssumption ==
  /\ Stages \subseteq {"levi", "senku", "gojo"}
  /\ Bots \in [Admins -> SUBSET Stages]
  /\ Weight \in [Admins -> Nat \ {0}]
  /\ Preferred \subseteq Admins
  /\ Linked \subseteq Requests /\ Claimed \subseteq Linked
  /\ Nobody \notin Admins
  /\ MaxRows \in Nat

VARIABLES rows,   \* admin_assignments, in insertion order
          done,   \* admin_availability.total_tasks_completed
          work,   \* the linked work item: its stage and status
          tx,     \* the running transactions
          sweep,  \* rows the expiry sweep has closed and must still re-place
          faults  \* operations that ended in an unhandled database error

vars == <<rows, done, work, tx, sweep, faults>>

-----------------------------------------------------------------------------
(* Types *)

Active   == {"assigned"}                \* ACTIVE_STATUSES; nothing sets in_progress
Open     == Active \cup {"offered"}     \* OPEN_STATUSES
Statuses == Open \cup {"completed", "skipped", "rejected"}
Reasons  == {"none", "slot_offer", "quiet_offer", "accepted_offer", "quiet_reject",
             "manual_reject", "silent_timeout", "second_silent_timeout"}

Row == [req : Requests, stage : Stages, admin : Admins, status : Statuses,
        attempt : Nat, reason : Reasons,
        lapsed : BOOLEAN,   \* expires_at is set and has passed
        today : BOOLEAN]    \* created in the admin's current local day

\* How an admin looks to the ladder at one instant.  Quiet hours exclude duty.
Presence == {"duty", "online", "away", "quiet_online", "quiet_away", "off"}
Quiet    == {"quiet_online", "quiet_away"}

Work == [stage : {"download", "distribute", "publish"},
         status : {"none", "open", "claimed", "done", "cancelled"}]
Terminal == {"done", "cancelled"}

Idle == [pc |-> "idle"]
Tx == {Idle}
      \cup [pc : {"forced"}, req : Requests, stage : Stages, second : BOOLEAN,
            pref : Preferred]
      \cup [pc : {"ladder"}, req : Requests, stage : Stages, second : BOOLEAN,
            held : SUBSET Admins]   \* availability rows locked FOR UPDATE
      \cup [pc : {"insert"}, pick : Row, held : SUBSET Admins]
      \cup [pc : {"reread"}, req : Requests, stage : Stages, held : SUBSET Admins]
      \cup [pc : {"update"}, sel : Nat \ {0}, req : Requests, stage : Stages,
            admin : Admins, seen : Work]
      \cup [pc : {"sync"}, req : Requests, stage : Stages, seen : Work]

TypeOK ==
  /\ rows \in Seq(Row)
  /\ done \in [Admins -> Nat]
  /\ work \in [Requests -> Work]
  /\ tx \in [Callers -> Tx]
  /\ sweep \subseteq DOMAIN rows
  /\ faults \subseteq {"assign", "reassign"}

-----------------------------------------------------------------------------
(* Queries the engine runs; rs is the table one transaction sees *)

\* The open row of a stage, as the partial unique index keys it.
OpenAt(rs, r, s) ==
  {i \in DOMAIN rs : rs[i].req = r /\ rs[i].stage = s /\ rs[i].status \in Open}

ActiveAt(rs, r, s) == {i \in OpenAt(rs, r, s) : rs[i].status \in Active}

Load(rs, a) ==
  Cardinality({i \in DOMAIN rs : rs[i].admin = a /\ rs[i].status \in Active})

\* A silent skip blocks the first pass; a refusal blocks for the local day,
\* except that one given in quiet hours blocks only while they last.
Blocks(row, second, presence) ==
  \/ row.status = "skipped" /\ ~second
  \/ row.status = "rejected" /\ (row.reason = "quiet_reject" => presence \in Quiet)

Blocked(rs, s, second, p) ==
  {a \in Admins : \E i \in DOMAIN rs :
      /\ rs[i].admin = a /\ rs[i].stage = s /\ rs[i].today
      /\ Blocks(rs[i], second, p[a])}

Candidates(rs, s, second, excluded, p) ==
  {a \in Admins \ (Blocked(rs, s, second, p) \cup excluded) :
      p[a] # "off" /\ s \in Bots[a]}

\* Least active / weight.  Ties go to slot distance and career total: any.
BestByLoad(rs, S) ==
  {a \in S : \A b \in S : Load(rs, a) * Weight[b] <= Load(rs, b) * Weight[a]}

NextOfferAttempt(rs, r, s, a) ==
  1 + Cardinality({i \in DOMAIN rs :
        /\ rs[i].req = r /\ rs[i].stage = s /\ rs[i].admin = a
        /\ rs[i].status \in {"offered", "skipped", "rejected"}})

AssignedRow(r, s, a) ==
  [req |-> r, stage |-> s, admin |-> a, status |-> "assigned", attempt |-> 0,
   reason |-> "none", lapsed |-> FALSE, today |-> TRUE]

OfferedRow(rs, r, s, a, p) ==
  [req |-> r, stage |-> s, admin |-> a, status |-> "offered",
   attempt |-> NextOfferAttempt(rs, r, s, a),
   reason |-> IF p[a] \in Quiet THEN "quiet_offer" ELSE "slot_offer",
   lapsed |-> FALSE, today |-> TRUE]

\* The ladder: whoever is on duty gets the task; else whoever was seen in the
\* last 15 minutes is asked; else whoever is not in quiet hours gets it.
Ladder(rs, r, s, second, excluded, p) ==
  LET fit    == Candidates(rs, s, second, excluded, p)
      onDuty == {a \in fit : p[a] = "duty"}
      seen   == {a \in fit : p[a] \in {"online", "quiet_online"}}
      awake  == fit \ {a \in fit : p[a] \in Quiet}
  IN  IF onDuty # {} THEN {AssignedRow(r, s, a) : a \in BestByLoad(rs, onDuty)}
      ELSE IF seen # {} THEN {OfferedRow(rs, r, s, a, p) : a \in BestByLoad(rs, seen)}
      ELSE {AssignedRow(r, s, a) : a \in BestByLoad(rs, awake)}

-----------------------------------------------------------------------------
Init ==
  /\ rows = <<>>
  /\ done = [a \in Admins |-> 0]
  /\ work = [r \in Requests |->
       [stage |-> "download", status |-> IF r \in Claimed THEN "claimed"
                                         ELSE IF r \in Linked THEN "open" ELSE "none"]]
  /\ tx = [c \in Callers |-> Idle]
  /\ sweep = {}
  /\ faults = {}

\* Rows still to come: running transactions, the sweep, and one per lapsed
\* offer, so that the bound never stops the sweep from re-placing a task.
Reserved == Cardinality({c \in Callers : tx[c].pc # "idle"}) + Cardinality(sweep)
            + Cardinality({i \in DOMAIN rows : rows[i].status = "offered" /\ rows[i].lapsed})

Room == Len(rows) + Reserved < MaxRows

\* Row locks on admin_availability held by the other transactions.
LockedByOthers(c) ==
  UNION {tx[d].held : d \in {e \in Callers \ {c} :
            tx[e].pc \in {"ladder", "insert", "reread"}}}

-----------------------------------------------------------------------------
(* assign *)

\* A call that finds an open row returns it and changes nothing.
AssignStart(c, r, s, second, pref) ==
  /\ tx[c] = Idle /\ Room
  /\ OpenAt(rows, r, s) = {}
  /\ \/ /\ pref = Nobody
        /\ tx' = [tx EXCEPT ![c] = [pc |-> "ladder", req |-> r, stage |-> s,
                                    second |-> second, held |-> {}]]
     \/ /\ pref # Nobody
        /\ tx' = [tx EXCEPT ![c] = [pc |-> "forced", req |-> r, stage |-> s,
                                    second |-> second, pref |-> pref]]
  /\ UNCHANGED <<rows, done, work, sweep, faults>>

\* The preferred admin's row is locked first, fit for the task or not.
AssignForced(c, presence) ==
  LET t == tx[c]
      fit == presence \notin Quiet \cup {"off"} /\ t.stage \in Bots[t.pref]
  IN  /\ t.pc = "forced"
      /\ t.pref \notin LockedByOthers(c)
      /\ \/ /\ fit
            /\ tx' = [tx EXCEPT ![c] =
                  [pc |-> "insert", pick |-> AssignedRow(t.req, t.stage, t.pref),
                   held |-> {t.pref}]]
         \/ /\ ~fit
            /\ tx' = [tx EXCEPT ![c] = [pc |-> "ladder", req |-> t.req,
                  stage |-> t.stage, second |-> t.second, held |-> {t.pref}]]
      /\ UNCHANGED <<rows, done, work, sweep, faults>>

\* SELECT admin_availability ... FOR UPDATE, then the three rungs.
AssignLadder(c, p) ==
  LET t == tx[c]
      picks == Ladder(rows, t.req, t.stage, t.second, {}, p)
  IN  /\ t.pc = "ladder"
      /\ LockedByOthers(c) = {}
      /\ \/ /\ picks = {}
            /\ tx' = [tx EXCEPT ![c] = Idle]
         \/ \E row \in picks :
              tx' = [tx EXCEPT ![c] = [pc |-> "insert", pick |-> row, held |-> Admins]]
      /\ UNCHANGED <<rows, done, work, sweep, faults>>

\* Two transactions of which one locked its preferred admin first can each
\* want a row the other has: PostgreSQL aborts one of them.
AssignDeadlock(c) ==
  /\ tx[c].pc = "ladder"
  /\ \E d \in Callers \ {c} : tx[d].pc = "ladder" /\ tx[c].held \cup tx[d].held # {}
  /\ tx' = [tx EXCEPT ![c] = Idle]
  /\ faults' = faults \cup {"assign"}
  /\ UNCHANGED <<rows, done, work, sweep>>

\* (mutant) The index covers ACTIVE_STATUSES only.
IndexIgnoresOffers(r, s) == ActiveAt(rows, r, s) = {}

\* The partial unique index admits one open row per (request, stage).
IndexAdmits(r, s) == OpenAt(rows, r, s) = {}

AssignInsert(c) ==
  LET t == tx[c]
  IN  /\ t.pc = "insert"
      /\ \/ /\ IndexAdmits(t.pick.req, t.pick.stage)
            /\ rows' = Append(rows, t.pick)
            /\ tx' = [tx EXCEPT ![c] = Idle]
         \/ /\ ~IndexAdmits(t.pick.req, t.pick.stage)
            /\ tx' = [tx EXCEPT ![c] = [pc |-> "reread", req |-> t.pick.req,
                                        stage |-> t.pick.stage, held |-> t.held]]
            /\ UNCHANGED rows
      /\ UNCHANGED <<done, work, sweep, faults>>

\* The loser of the race returns the winner's row, or re-raises if that row
\* has been closed since.
AssignReread(c) ==
  /\ tx[c].pc = "reread"
  /\ tx' = [tx EXCEPT ![c] = Idle]
  /\ faults' = IF OpenAt(rows, tx[c].req, tx[c].stage) = {}
               THEN faults \cup {"assign"} ELSE faults
  /\ UNCHANGED <<rows, done, work, sweep>>

-----------------------------------------------------------------------------
(* The admin answers *)

\* (mutant) A stale Accept button works.
AcceptAnyRow(i) ==
  /\ ~rows[i].lapsed
  /\ rows' = [rows EXCEPT ![i].status = "assigned", ![i].reason = "accepted_offer"]
  /\ UNCHANGED <<done, work, tx, sweep, faults>>

AcceptOffer(i) ==
  /\ rows[i].status = "offered" /\ ~rows[i].lapsed
  /\ rows' = [rows EXCEPT ![i].status = "assigned", ![i].reason = "accepted_offer"]
  /\ UNCHANGED <<done, work, tx, sweep, faults>>

\* (mutant) A Reject button works after the offer was accepted.
RejectOpenRow(i) ==
  /\ rows[i].status \in Open
  /\ rows' = [rows EXCEPT ![i].status = "rejected", ![i].lapsed = FALSE,
                ![i].reason = "manual_reject"]
  /\ UNCHANGED <<done, work, tx, sweep, faults>>

\* (mutant) A status the table's CHECK constraint does not know.
RejectAsDeclined(i) ==
  /\ rows[i].status = "offered"
  /\ rows' = [rows EXCEPT ![i].status = "declined", ![i].lapsed = FALSE]
  /\ UNCHANGED <<done, work, tx, sweep, faults>>

RejectOffer(i) ==
  /\ rows[i].status = "offered"
  /\ rows' = [rows EXCEPT ![i].status = "rejected", ![i].lapsed = FALSE,
                ![i].reason = IF @ = "quiet_offer" THEN "quiet_reject" ELSE "manual_reject"]
  /\ UNCHANGED <<done, work, tx, sweep, faults>>

-----------------------------------------------------------------------------
(* complete_task *)

\* What a finished stage makes of the linked work item.
AfterStage(s, w) ==
  CASE s = "levi"  -> [stage |-> "distribute", status |-> "open"]
    [] s = "senku" -> [stage |-> "publish", status |-> "open"]
    [] s = "gojo"  -> [w EXCEPT !.status = "done"]

\* (mutant) A late completion reopens a cancelled item.
SyncAnyWork(r, s, seen) ==
  work' = IF seen.status = "none" THEN work
          ELSE [work EXCEPT ![r] = AfterStage(s, seen)]

\* _sync_work_item leaves an item alone that it SAW cancelled or done; the flush
\* writes only the columns that differ from what it saw.
SyncWork(r, s, seen) ==
  LET after == AfterStage(s, seen)
      written(w) == [stage  |-> IF after.stage = seen.stage THEN w.stage ELSE after.stage,
                     status |-> IF after.status = seen.status THEN w.status ELSE after.status]
  IN  work' = IF seen.status \in {"none"} \cup Terminal THEN work
              ELSE [work EXCEPT ![r] = written(work[r])]

\* The active row is read without a lock, and so is the work item.  (The code
\* reads the item later, behind the row's UPDATE; reading it here allows every
\* staleness the code has.)
CompleteSelect(c, i) ==
  /\ tx[c] = Idle
  /\ rows[i].status \in Active
  /\ tx' = [tx EXCEPT ![c] = [pc |-> "update", sel |-> i, req |-> rows[i].req,
                              stage |-> rows[i].stage, admin |-> rows[i].admin,
                              seen |-> work[rows[i].req]]]
  /\ UNCHANGED <<rows, done, work, sweep, faults>>

\* UPDATE by primary key, counter + 1 for the admin that was read, commit.
CompleteUpdate(c) ==
  LET t == tx[c]
  IN  /\ t.pc = "update"
      /\ rows' = [rows EXCEPT ![t.sel].status = "completed"]
      /\ done' = [done EXCEPT ![t.admin] = @ + 1]
      /\ SyncWork(t.req, t.stage, t.seen)
      /\ tx' = [tx EXCEPT ![c] = Idle]
      /\ UNCHANGED <<sweep, faults>>

\* Without an active row only the work item moves.
CompleteNothing(c, r, s) ==
  /\ tx[c] = Idle
  /\ r \in Linked /\ ActiveAt(rows, r, s) = {}
  /\ tx' = [tx EXCEPT ![c] = [pc |-> "sync", req |-> r, stage |-> s, seen |-> work[r]]]
  /\ UNCHANGED <<rows, done, work, sweep, faults>>

CompleteSync(c) ==
  /\ tx[c].pc = "sync"
  /\ SyncWork(tx[c].req, tx[c].stage, tx[c].seen)
  /\ tx' = [tx EXCEPT ![c] = Idle]
  /\ UNCHANGED <<rows, done, sweep, faults>>

-----------------------------------------------------------------------------
(* ManagementService.reassign: the owner points the task at an admin *)

Reassign(r, s, a) ==
  LET active == ActiveAt(rows, r, s)
  IN  /\ \/ \E i \in active :
              /\ rows' = [rows EXCEPT ![i].admin = a, ![i].status = "assigned",
                            ![i].attempt = 0, ![i].reason = "none",
                            ![i].lapsed = FALSE]
              /\ UNCHANGED faults
         \/ /\ active = {} /\ IndexAdmits(r, s) /\ Room
            /\ rows' = Append(rows, AssignedRow(r, s, a))
            /\ UNCHANGED faults
         \/ /\ active = {} /\ ~IndexAdmits(r, s)
            /\ faults' = faults \cup {"reassign"}
            /\ UNCHANGED rows
      /\ UNCHANGED <<done, work, tx, sweep>>

-----------------------------------------------------------------------------
(* expire_offers, one transaction every 60 seconds *)

SecondSilence(row) == row.attempt >= 2

\* (mutant) Only a first silence is swept.
ExpireFirstOffers ==
  LET stale == {i \in DOMAIN rows : rows[i].status = "offered" /\ rows[i].lapsed
                                     /\ ~SecondSilence(rows[i])}
  IN  /\ stale # {}
      /\ rows' = [i \in DOMAIN rows |->
            IF i \notin stale THEN rows[i]
            ELSE [rows[i] EXCEPT !.status = "skipped", !.lapsed = FALSE,
                                 !.reason = "silent_timeout"]]
      /\ sweep' = stale
      /\ UNCHANGED <<done, work, tx, faults>>

ExpireOffers ==
  LET stale == {i \in DOMAIN rows : rows[i].status = "offered" /\ rows[i].lapsed}
  IN  /\ stale # {}
      /\ rows' = [i \in DOMAIN rows |->
            IF i \notin stale THEN rows[i]
            ELSE IF SecondSilence(rows[i])
            THEN [rows[i] EXCEPT !.status = "rejected", !.lapsed = FALSE,
                                 !.reason = "second_silent_timeout"]
            ELSE [rows[i] EXCEPT !.status = "skipped", !.lapsed = FALSE,
                                 !.reason = "silent_timeout"]]
      /\ sweep' = stale
      /\ UNCHANGED <<done, work, tx, faults>>

\* Nobody if the stage has an open row; else someone else; failing that, and
\* after a first silence only, anyone again.
Replacements(i, p) ==
  LET row   == rows[i]
      first == Ladder(rows, row.req, row.stage, FALSE, {row.admin}, p)
      again == Ladder(rows, row.req, row.stage, TRUE, {}, p)
  IN  IF ~IndexAdmits(row.req, row.stage) THEN {}
      ELSE IF first = {} /\ row.status = "skipped" THEN again ELSE first

ReplaceExpired(i, p) ==
  LET picks == Replacements(i, p)
  IN  /\ i \in sweep
      /\ sweep' = sweep \ {i}
      /\ \/ picks = {} /\ UNCHANGED rows
         \/ \E row \in picks : rows' = Append(rows, row)
      /\ UNCHANGED <<done, work, tx, faults>>

-----------------------------------------------------------------------------
(* Time and the owner's board *)

\* OFFER_TIMEOUT_MINUTES pass.
Lapse(i) ==
  /\ rows[i].status = "offered" /\ ~rows[i].lapsed /\ Room
  /\ rows' = [rows EXCEPT ![i].lapsed = TRUE]
  /\ UNCHANGED <<done, work, tx, sweep, faults>>

\* Midnight in the admin's timezone.
NewDay(a) ==
  /\ rows' = [i \in DOMAIN rows |->
                IF rows[i].admin = a THEN [rows[i] EXCEPT !.today = FALSE] ELSE rows[i]]
  /\ UNCHANGED <<done, work, tx, sweep, faults>>

\* WorkService.cancel
CancelWork(r) ==
  /\ work[r].status \in {"open", "claimed"}
  /\ work' = [work EXCEPT ![r].status = "cancelled"]
  /\ UNCHANGED <<rows, done, tx, sweep, faults>>

-----------------------------------------------------------------------------
Presences == [Admins -> Presence]

CallerStep(c) ==
  \/ \E r \in Requests, s \in Stages, second \in BOOLEAN, pref \in Preferred \cup {Nobody} :
        AssignStart(c, r, s, second, pref)
  \/ \E presence \in Presence : AssignForced(c, presence)
  \/ \E p \in Presences : AssignLadder(c, p)
  \/ AssignDeadlock(c) \/ AssignInsert(c) \/ AssignReread(c)
  \/ \E i \in DOMAIN rows : CompleteSelect(c, i)
  \/ CompleteUpdate(c)
  \/ \E r \in Requests, s \in Stages : CompleteNothing(c, r, s)
  \/ CompleteSync(c)

SweepStep == \E i \in sweep, p \in Presences : ReplaceExpired(i, p)

Next ==
  \/ SweepStep
  \/ /\ sweep = {}
     /\ \/ \E c \in Callers : CallerStep(c)
        \/ \E i \in DOMAIN rows : AcceptOffer(i) \/ RejectOffer(i) \/ Lapse(i)
        \/ \E r \in Requests, s \in Stages, a \in Admins : Reassign(r, s, a)
        \/ ExpireOffers
        \/ \E a \in Admins : NewDay(a)
        \/ \E r \in Requests : CancelWork(r)

\* The scheduler runs the sweep every 60 seconds.
Fairness ==
  /\ WF_vars(SweepStep)
  /\ WF_vars(sweep = {} /\ ExpireOffers)

Spec == Init /\ [][Next]_vars
FairSpec == Spec /\ Fairness

-----------------------------------------------------------------------------
(* Properties *)

\* However the recovery job, the handlers and the owner's board interleave, a
\* stage of a request has at most one offered or assigned row
\* (uq_admin_assignments_open_request_stage, and the savepoint around the insert).
OneOpenPerStage ==
  \A r \in Requests, s \in Stages : \A i, j \in OpenAt(rows, r, s) : i = j

\* A closed row is history: no later tap, sweep, completion or reassignment
\* reopens it or gives it to someone else.
ClosedRowsFrozen ==
  [][\A i \in DOMAIN rows : rows[i].status \notin Open =>
        /\ rows'[i].status = rows[i].status
        /\ rows'[i].admin = rows[i].admin]_vars

\* A finished read of complete_task points at a row that was active, and whatever
\* ran since (a reassign, the sweep, another completion) can only have completed
\* it: the blind UPDATE never completes a row that was given up.
UpdatesAreCurrent ==
  \A c \in Callers : tx[c].pc = "update" =>
    /\ tx[c].sel \in DOMAIN rows
    /\ rows[tx[c].sel].status \in {"assigned", "completed"}

\* A completion of r that read the item while an admin had it claimed: an open item it
\* leaves behind differs from what it saw, and is written whatever the item says by now.
StaleClaim(r) ==
  \E c \in Callers :
    /\ tx[c].pc \in {"update", "sync"}
    /\ tx[c].req = r /\ tx[c].seen.status = "claimed"

\* "Never resurrect a terminal work item ... the 'deleted WRK rows keep coming
\* back' bug" (_sync_work_item): however late or often its stages are completed, an item
\* that is cancelled or done counts as open work again only by a completion that read
\* it claimed.
TerminalWorkStaysClosed ==
  [][\A r \in Requests :
       work[r].status \in Terminal => work'[r].status \in Terminal \/ StaleClaim(r)]_vars

\* Offers whose hour ran out do not stay open: all are answered or swept.
OfferLapsed == \E i \in DOMAIN rows : rows[i].status = "offered" /\ rows[i].lapsed

SilentOffersAreSwept == OfferLapsed ~> ~OfferLapsed

\* The engine implements the slots its callers believe in.
SlotOf(r, s) ==
  IF OpenAt(rows, r, s) = {} THEN [state |-> "free"]
  ELSE LET row == rows[CHOOSE i \in OpenAt(rows, r, s) : TRUE]
       IN  [state |-> IF row.status = "offered" THEN "on_offer" ELSE "held",
            admin |-> row.admin]

Slots == INSTANCE AssignmentSlots
           WITH slot <- [k \in Requests \X Stages |-> SlotOf(k[1], k[2])]
ImplementsSlots == Slots!SlotSpec

\* "Creates the assignment if none existed for that stage yet": pointing a
\* task at an admin does not end in a database error.
ReassignSucceeds == "reassign" \notin faults

=============================================================================
