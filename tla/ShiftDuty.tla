----------------------------- MODULE ShiftDuty -----------------------------
(***************************************************************************)
(* ShiftService (nekofetch/services/shift_service.py): who is on duty in   *)
(* one operational channel.  The record is one JSON value in Redis, which  *)
(* every operation reads, changes and writes back with no lock; a second   *)
(* key holds the time of the worker's last action and expires by itself.   *)
(* The callers are the buttons of shift_handlers.py, the gate in front of  *)
(* the admin actions (can_act) and, where a scheduler runs it, a check     *)
(* every five minutes that frees the shift of an idle worker.              *)
(*                                                                         *)
(* A task is one running call: it reads the record, decides, saves, and    *)
(* then refreshes or deletes the activity key, and other tasks run in      *)
(* between.  Buttons are never withdrawn, so anyone may press any of them  *)
(* at any time.                                                            *)
(***************************************************************************)
EXTENDS Integers, FiniteSets

CONSTANTS Staff,      \* admins who work in shifts
          Owner,      \* always let through
          Nobody,
          Handlers,   \* running button handlers and gates
          AfkCheck,   \* the scheduler's AFK check: one instance
          MaxRestarts \* bound: process restarts

DutyConstants ==
  /\ Owner \notin Staff /\ Nobody \notin Staff \cup {Owner}
  /\ AfkCheck \notin Handlers
  /\ MaxRestarts \in Nat

ASSUME DutyAssumption == DutyConstants

VARIABLES shift,     \* nf:shift:<channel>
          activity,  \* nf:shift_activity:<channel>: written less than 45 minutes
                     \* ago, longer ago, or expired or deleted
          task,      \* where each call is
          restarts,
          \* history
          resting,   \* nobody has come on duty or acted for 45 minutes
          met,       \* the last AFK check and another call were under way together
          cut        \* a restart came between a save and the note of the activity

dutyHistory == <<resting, met, cut>>
dutyVars == <<shift, activity, task, restarts, dutyHistory>>

-----------------------------------------------------------------------------
Users == Staff \cup {Owner}
Tasks == Handlers \cup {AfkCheck}
ShiftStatus == {"available", "active", "takeover_pending", "relief_sought"}
ShiftState == [worker : Users \cup {Nobody}, status : ShiftStatus,
               asker : Users \cup {Nobody},
               of : Users \cup {Nobody}]  \* history: the worker whom asker asked

Available == [worker |-> Nobody, status |-> "available", asker |-> Nobody, of |-> Nobody]
\* (mutant) A word ShiftStatus does not have.
OnDutyWord(u) == [worker |-> u, status |-> "on_duty", asker |-> Nobody, of |-> Nobody]
OnDuty(u) == [worker |-> u, status |-> "active", asker |-> Nobody, of |-> Nobody]

Ops == {"gate", "take", "relief", "accept", "takeover", "approve", "deny", "afk"}
AtEase == [pc |-> "idle"]
Task == {AtEase}
        \cup [pc : {"save"}, new : ShiftState, next : {"idle", "touch", "forget"}]
        \cup [pc : {"touch", "forget"}]

DutyTypeOK ==
  /\ shift \in ShiftState
  /\ activity \in {"fresh", "stale", "gone"}
  /\ task \in [Tasks -> Task]
  /\ restarts \in 0..MaxRestarts
  /\ resting \in BOOLEAN /\ met \in BOOLEAN /\ cut \in BOOLEAN

DutyInit ==
  /\ shift = Available /\ activity = "gone"
  /\ task = [t \in Tasks |-> AtEase]
  /\ restarts = 0
  /\ resting = TRUE /\ met = FALSE /\ cut = FALSE

-----------------------------------------------------------------------------
(* What each operation writes, from the record s it read *)

\* (mutant) The owner takes over the request with the shift.
OwnerKeepsRequest(u, s) == [s EXCEPT !.worker = u]

\* The owner's branch of can_act.
OwnerTakes(u, s) == OnDuty(u)

Written(op, u, s) ==
  CASE op = "gate" /\ u = Owner -> OwnerTakes(u, s)
    [] op = "gate" /\ u # Owner -> [s EXCEPT !.worker = u, !.status = "active"]
    [] op \in {"take", "accept"} -> OnDuty(u)
    [] op = "relief"   -> [s EXCEPT !.status = "relief_sought"]
    [] op = "takeover" -> [s EXCEPT !.status = "takeover_pending",
                                         !.asker = u, !.of = s.worker]
    [] op = "approve"  -> OnDuty(s.asker)
    [] op = "deny"     -> [s EXCEPT !.status = "active", !.asker = Nobody, !.of = Nobody]
    [] op = "afk"      -> Available

\* Whoever begins to work is active now; a release deletes the activity.
After(op) ==
  CASE op \in {"gate", "take", "accept", "approve"} -> "touch"
    [] op \in {"relief", "takeover", "deny"} -> "idle"
    [] op = "afk" -> "forget"

MayAsk(u) == shift.worker \notin {Nobody, u}

\* (mutant) No note of an activity counts as none.
IsAfkWithoutKey == activity # "fresh"

\* A missing key says no.
IsAfk == activity = "stale"

\* The early returns of each operation.
Admitted(op, u) ==
  CASE op = "gate"     -> shift.worker = Nobody \/ (u = Owner /\ shift.worker # u)
    [] op = "take"     -> TRUE
    [] op = "relief"   -> shift.worker = u
    [] op = "accept"   -> shift.status = "relief_sought" /\ shift.worker # u
    [] op = "takeover" -> MayAsk(u)
    [] op = "approve"  -> /\ shift.worker = u /\ shift.status = "takeover_pending"
                          /\ shift.asker # Nobody
    [] op = "deny"     -> shift.worker = u /\ shift.status = "takeover_pending"
    [] op = "afk"      -> shift.worker # Nobody /\ IsAfk

-----------------------------------------------------------------------------
(* Actions *)

At(t, pc) == task[t].pc = pc
AtRest == \A t \in Tasks : At(t, "idle")
Moves(t, to) == task' = [task EXCEPT ![t] = to]
HandlersRest == \A t \in Handlers : At(t, "idle")

\* GET, the checks on what it returned, and the record to write.
Begin(t, op, u) ==
  /\ At(t, "idle") /\ Admitted(op, u)
  /\ Moves(t, [pc |-> "save", new |-> Written(op, u, shift), next |-> After(op)])
  /\ met' = IF t = AfkCheck THEN ~HandlersRest ELSE met \/ ~At(AfkCheck, "idle")
  /\ UNCHANGED <<shift, activity, restarts, resting, cut>>

\* The gate lets the worker through.
GateOnDuty(t, u) ==
  /\ At(t, "idle") /\ shift.worker = u
  /\ Moves(t, [pc |-> "touch"])
  /\ resting' = FALSE /\ met' = (met \/ ~At(AfkCheck, "idle"))
  /\ UNCHANGED <<shift, activity, restarts, cut>>

\* SET of the whole record.
Save(t) ==
  /\ At(t, "save")
  /\ shift' = task[t].new
  /\ Moves(t, [pc |-> task[t].next])
  /\ resting' = (resting /\ task[t].next # "touch")
  /\ UNCHANGED <<activity, restarts, met, cut>>

\* touch_activity
Touch(t) ==
  /\ At(t, "touch")
  /\ activity' = "fresh" /\ Moves(t, AtEase)
  /\ UNCHANGED <<shift, restarts, dutyHistory>>

\* release deletes the key after the save.
Forget(t) ==
  /\ At(t, "forget")
  /\ activity' = "gone" /\ Moves(t, AtEase)
  /\ UNCHANGED <<shift, restarts, dutyHistory>>

\* 45 minutes without an action, longer than any call takes.
Quiet ==
  /\ AtRest
  /\ activity = "fresh" /\ activity' = "stale"
  /\ resting' = TRUE
  /\ UNCHANGED <<shift, task, restarts, met, cut>>

\* Five more, and Redis drops the key: is_afk then says no, for ever.
Expire ==
  /\ activity = "stale" /\ activity' = "gone"
  /\ UNCHANGED <<shift, task, restarts, dutyHistory>>

\* Redis survives a restart, the calls under way do not.
Restart ==
  /\ restarts < MaxRestarts /\ restarts' = restarts + 1
  /\ task' = [t \in Tasks |-> AtEase]
  /\ cut' = (cut \/ \E t \in Handlers : At(t, "touch"))
  /\ UNCHANGED <<shift, activity, resting, met>>

AfkStep == Begin(AfkCheck, "afk", Nobody) \/ Save(AfkCheck) \/ Forget(AfkCheck)
Finish(t) == Save(t) \/ Touch(t)

DutyNext ==
  \/ \E t \in Handlers, u \in Users :
       \/ GateOnDuty(t, u)
       \/ \E op \in Ops \ {"afk"} : Begin(t, op, u)
  \/ \E t \in Handlers : Finish(t)
  \/ AfkStep \/ Quiet \/ Expire \/ Restart

DutySpec == DutyInit /\ [][DutyNext]_dutyVars

-----------------------------------------------------------------------------
(* Properties *)

\* However the calls interleave, and also with records saved over one another: nobody
\* works exactly when the shift is available, a pending takeover has somebody else
\* waiting for it, and the request a worker can approve was made to that very worker.
WellFormed ==
  /\ shift.worker = Nobody <=> shift.status = "available"
  /\ shift.status = "takeover_pending" =>
       shift.asker \notin {Nobody, shift.worker} /\ shift.of = shift.worker

\* "Check if the current worker has been inactive too long" (is_afk): the AFK check is
\* about to free a shift only if for 45 minutes nobody has come on duty and the worker
\* has not acted.  The activity is noted after the record, under a key of its own, so
\* the exceptions are a call under way together with the check and one that a restart
\* cut between the two.
AfkFreesTheIdle == At(AfkCheck, "save") => resting \/ met \/ cut
=============================================================================
