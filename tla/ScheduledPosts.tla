--------------------------- MODULE ScheduledPosts ---------------------------
(***************************************************************************)
(* ScheduleService (nekofetch/services/schedule_service.py) and the        *)
(* buttons of Gojo's schedule screen.  A row of scheduled_posts is the     *)
(* only memory of a deferred publish; a sweep every 60 seconds claims the  *)
(* rows that are due and publishes them one after the other, while admins  *)
(* cancel, replace and send posts.                                         *)
(*                                                                         *)
(* No transaction takes a row lock.  Each reads rows, decides, and writes  *)
(* their status at commit; between the two, and between one transaction of *)
(* a handler and its next, others may commit.  What that can do is not     *)
(* assumed away but written down: off, crossed, anyhow and raced remember  *)
(* it, and the properties say that nothing else goes wrong.                *)
(***************************************************************************)
EXTENDS Integers, FiniteSets, Sequences

CONSTANTS Requests,   \* request codes
          Taps,       \* running handlers of Gojo's buttons
          Sweep,      \* the scheduler's job: one instance at a time
          MaxPosts,   \* bound: rows ever inserted
          MaxFires,   \* bound: publishes counted for one row
          MaxCrashes  \* bound: process restarts

ASSUME PostsAssumption ==
  /\ Sweep \notin Taps /\ IsFiniteSet(Taps)
  /\ MaxPosts \in Nat /\ MaxFires \in Nat /\ MaxCrashes \in Nat

VARIABLES posts,    \* scheduled_posts, in insertion order
          actor,    \* where each handler and the sweep are
          claimed,  \* rows the sweep has claimed and must still publish
          crashes,
          \* history
          off,      \* rows that a transaction has cancelled
          crossed,  \* rows written for being pending, after another write had changed that
          anyhow,   \* rows a Send button published although cancel said no
          raced     \* requests that two calls of schedule were at together

history == <<off, crossed, anyhow, raced>>
vars == <<posts, actor, claimed, crashes, history>>

-----------------------------------------------------------------------------
Actors  == Taps \cup {Sweep}
Settled == {"published", "failed", "cancelled"}
Post == [req : Requests, status : Settled \cup {"pending", "publishing"},
         due : BOOLEAN,         \* scheduled_at has come
         swept : 0..MaxFires,   \* publishes by the sweep for this row
         sent : 0..MaxFires]    \* publishes by "Send now" / "Send silent"

Idle == [pc |-> "idle"]
Actor == {Idle}
         \cup [pc : {"schedule"}, req : Requests, seen : SUBSET (1..MaxPosts)]
         \cup [pc : {"now"}, post : 1..MaxPosts]
         \cup [pc : {"cancel"}, post : 1..MaxPosts, send : BOOLEAN]
         \cup [pc : {"publish", "clean"}, req : Requests, post : 0..MaxPosts]
         \cup [pc : {"clear"}, req : Requests, post : 0..MaxPosts, seen : SUBSET (1..MaxPosts)]
         \cup [pc : {"claim"}, seen : SUBSET (1..MaxPosts)]
         \cup [pc : {"next"}]
         \cup [pc : {"record"}, post : 1..MaxPosts, outcome : {"published", "failed"}]

TypeOK ==
  /\ posts \in Seq(Post) /\ Len(posts) <= MaxPosts
  /\ actor \in [Actors -> Actor]
  /\ claimed \subseteq DOMAIN posts
  /\ crashes \in 0..MaxCrashes
  /\ off \cup crossed \cup anyhow \subseteq DOMAIN posts /\ raced \subseteq Requests

Init ==
  /\ posts = <<>>
  /\ actor = [a \in Actors |-> Idle]
  /\ claimed = {} /\ crashes = 0
  /\ off = {} /\ crossed = {} /\ anyhow = {} /\ raced = {}

-----------------------------------------------------------------------------
(* Building blocks *)

Pending(r) == {i \in DOMAIN posts : posts[i].req = r /\ posts[i].status = "pending"}
Due == {i \in DOMAIN posts : posts[i].due /\ posts[i].status = "pending"}

\* UPDATE ... WHERE id = ..., whatever the status has become since it was read.
Marked(S, new) ==
  [i \in DOMAIN posts |-> IF i \in S THEN [posts[i] EXCEPT !.status = new] ELSE posts[i]]

Goes(a, from, to) ==
  /\ actor[a].pc = from
  /\ actor' = [actor EXCEPT ![a] = to]
  /\ UNCHANGED crashes

\* The rows that were read as pending and no longer are.
Overtaken(S) == {i \in S : posts[i].status # "pending"}

\* A commit that cancels the rows S, which it has read as pending.
CallsOff(S) ==
  /\ off' = off \cup S
  /\ crossed' = crossed \cup Overtaken(S)
  /\ UNCHANGED <<anyhow, raced>>

\* Whoever else is at schedule for the request.
AtSchedule(r) == {b \in Taps : actor[b].pc = "schedule" /\ actor[b].req = r}

\* What follows a publish: the sweep records the outcome on the row it claimed.
AfterPublish(a, i, outcome) ==
  IF a = Sweep THEN [pc |-> "record", post |-> i, outcome |-> outcome] ELSE Idle

-----------------------------------------------------------------------------
(* ScheduleService.schedule *)

ScheduleRead(t, r) ==
  /\ Len(posts) + Cardinality({b \in Taps : actor[b].pc = "schedule"}) < MaxPosts
  /\ Goes(t, "idle", [pc |-> "schedule", req |-> r, seen |-> Pending(r)])
  /\ raced' = IF AtSchedule(r) = {} THEN raced ELSE raced \cup {r}
  /\ UNCHANGED <<posts, claimed, off, crossed, anyhow>>

\* (mutant) The earlier schedule stays.
ScheduleWithoutSupersede(t) ==
  /\ Goes(t, "schedule", Idle)
  /\ posts' = Append(posts, [req |-> actor[t].req, status |-> "pending", due |-> FALSE,
                             swept |-> 0, sent |-> 0])
  /\ UNCHANGED <<claimed, history>>

\* Earlier pending rows of the request are cancelled, the new one is pending.
ScheduleWrite(t) ==
  /\ Goes(t, "schedule", Idle)
  /\ posts' = Append(Marked(actor[t].seen, "cancelled"),
                     [req |-> actor[t].req, status |-> "pending", due |-> FALSE,
                      swept |-> 0, sent |-> 0])
  /\ CallsOff(actor[t].seen)
  /\ UNCHANGED claimed

-----------------------------------------------------------------------------
(* ScheduleService.cancel, and the buttons that call it *)

\* "Cancel"
CancelRead(t, i) ==
  /\ posts[i].status = "pending"
  /\ Goes(t, "idle", [pc |-> "cancel", post |-> i, send |-> FALSE])
  /\ UNCHANGED <<posts, claimed, history>>

\* "Send now", "Send silent": the row is looked at in a transaction of its own.
SendLook(t, i) ==
  /\ posts[i].status = "pending"
  /\ Goes(t, "idle", [pc |-> "now", post |-> i])
  /\ UNCHANGED <<posts, claimed, history>>

\* (mutant) The post is sent first, its schedule left for the cleanup.
SendFirst(t) ==
  LET i == actor[t].post
  IN  /\ Goes(t, "now", [pc |-> "publish", req |-> posts[i].req, post |-> i])
      /\ UNCHANGED <<posts, claimed, history>>

\* They ignore what cancel returns, and publish in either case.
SendCancelRead(t) ==
  LET i == actor[t].post
  IN  /\ Goes(t, "now", IF posts[i].status = "pending"
                        THEN [pc |-> "cancel", post |-> i, send |-> TRUE]
                        ELSE [pc |-> "publish", req |-> posts[i].req, post |-> i])
      /\ anyhow' = anyhow \cup Overtaken({i})
      /\ UNCHANGED <<posts, claimed, off, crossed, raced>>

CancelWrite(t) ==
  LET i == actor[t].post
  IN  /\ Goes(t, "cancel", IF actor[t].send
                           THEN [pc |-> "publish", req |-> posts[i].req, post |-> i]
                           ELSE Idle)
      /\ posts' = Marked({i}, "cancelled")
      /\ CallsOff({i})
      /\ UNCHANGED claimed

-----------------------------------------------------------------------------
(* PublishingService.publish, as far as it touches schedules *)

\* The review card's button publishes without a schedule.
PublishButton(t, r) ==
  /\ Goes(t, "idle", [pc |-> "publish", req |-> r, post |-> 0])
  /\ UNCHANGED <<posts, claimed, history>>

PublishOk(a) ==
  LET i == actor[a].post
      counter == IF a = Sweep THEN "swept" ELSE "sent"
  IN  /\ Goes(a, "publish", [actor[a] EXCEPT !.pc = "clean"])
      /\ i # 0 => posts[i][counter] < MaxFires
      /\ posts' = IF i = 0 THEN posts ELSE [posts EXCEPT ![i][counter] = @ + 1]
      /\ UNCHANGED <<claimed, history>>

\* It raises, before the main post or after it; the buttons say so, the sweep
\* records it.
PublishFails(a) ==
  /\ \E pc \in {"publish", "clean"} : Goes(a, pc, AfterPublish(a, actor[a].post, "failed"))
  /\ UNCHANGED <<posts, claimed, history>>

\* cancel_for_request, best effort.
CleanRead(a) ==
  /\ Goes(a, "clean", [pc |-> "clear", req |-> actor[a].req, post |-> actor[a].post,
                       seen |-> Pending(actor[a].req)])
  /\ UNCHANGED <<posts, claimed, history>>

CleanWrite(a) ==
  /\ Goes(a, "clear", AfterPublish(a, actor[a].post, "published"))
  /\ posts' = Marked(actor[a].seen, "cancelled")
  /\ CallsOff(actor[a].seen)
  /\ UNCHANGED claimed

CleanFails(a) ==
  /\ \E pc \in {"clean", "clear"} : Goes(a, pc, AfterPublish(a, actor[a].post, "published"))
  /\ UNCHANGED <<posts, claimed, history>>

-----------------------------------------------------------------------------
(* ScheduleService.sweep_due *)

SweepSelect ==
  /\ Due # {}
  /\ Goes(Sweep, "idle", [pc |-> "claim", seen |-> Due])
  /\ UNCHANGED <<posts, claimed, history>>

\* (mutant) The rows are read, and claimed only when they are published.
ClaimNothing ==
  /\ Goes(Sweep, "claim", [pc |-> "next"])
  /\ claimed' = actor[Sweep].seen
  /\ UNCHANGED <<posts, history>>

SweepClaim ==
  /\ Goes(Sweep, "claim", [pc |-> "next"])
  /\ posts' = Marked(actor[Sweep].seen, "publishing")
  /\ claimed' = actor[Sweep].seen
  /\ crossed' = crossed \cup Overtaken(actor[Sweep].seen)
  /\ UNCHANGED <<off, anyhow, raced>>

SweepNext(i) ==
  /\ i \in claimed
  /\ Goes(Sweep, "next", [pc |-> "publish", req |-> posts[i].req, post |-> i])
  /\ claimed' = claimed \ {i}
  /\ UNCHANGED <<posts, history>>

\* (mutant) A word that nothing else knows.
RecordError ==
  /\ Goes(Sweep, "record", [pc |-> "next"])
  /\ posts' = Marked({actor[Sweep].post},
                     IF actor[Sweep].outcome = "failed" THEN "error" ELSE "published")
  /\ UNCHANGED <<claimed, history>>

\* (mutant) A failed post is put back for the next sweep.
RecordForRetry ==
  /\ Goes(Sweep, "record", [pc |-> "next"])
  /\ posts' = Marked({actor[Sweep].post},
                     IF actor[Sweep].outcome = "failed" THEN "pending" ELSE "published")
  /\ UNCHANGED <<claimed, history>>

SweepRecord ==
  /\ Goes(Sweep, "record", [pc |-> "next"])
  /\ posts' = Marked({actor[Sweep].post}, actor[Sweep].outcome)
  /\ UNCHANGED <<claimed, history>>

\* The transaction that records is outside the try: its error ends the sweep, and
\* the row and those still claimed stay at publishing.
RecordFails ==
  /\ Goes(Sweep, "record", Idle)
  /\ claimed' = {}
  /\ UNCHANGED <<posts, history>>

SweepEnd ==
  /\ claimed = {}
  /\ Goes(Sweep, "next", Idle)
  /\ UNCHANGED <<posts, claimed, history>>

-----------------------------------------------------------------------------
(* Errors, time, restarts *)

\* A transaction's error rolls it back and ends the handler, or this sweep.
RollsBack(a) ==
  /\ \E pc \in {"schedule", "now", "cancel", "claim"} : Goes(a, pc, Idle)
  /\ UNCHANGED <<posts, claimed, history>>

ComesDue(i) ==
  /\ ~posts[i].due
  /\ posts' = [posts EXCEPT ![i].due = TRUE]
  /\ UNCHANGED <<actor, claimed, crashes, history>>

\* The process restarts: only the table is left.
Crash ==
  /\ crashes < MaxCrashes /\ crashes' = crashes + 1
  /\ actor' = [a \in Actors |-> Idle] /\ claimed' = {}
  /\ UNCHANGED <<posts, history>>

PublishStep(a) ==
  PublishOk(a) \/ PublishFails(a) \/ CleanRead(a) \/ CleanWrite(a) \/ CleanFails(a)

TapStep(t) ==
  \/ \E r \in Requests : ScheduleRead(t, r) \/ PublishButton(t, r)
  \/ ScheduleWrite(t)
  \/ \E i \in DOMAIN posts : CancelRead(t, i) \/ SendLook(t, i)
  \/ SendCancelRead(t) \/ CancelWrite(t)
  \/ PublishStep(t) \/ RollsBack(t)

SweepStep ==
  \/ SweepSelect \/ SweepClaim \/ SweepRecord \/ RecordFails \/ SweepEnd
  \/ \E i \in claimed : SweepNext(i)
  \/ PublishStep(Sweep) \/ RollsBack(Sweep)

Next ==
  \/ \E t \in Taps : TapStep(t)
  \/ SweepStep
  \/ \E i \in DOMAIN posts : ComesDue(i)
  \/ Crash

Spec == Init /\ [][Next]_vars

-----------------------------------------------------------------------------
(* Properties *)

\* "Claim first so a concurrent/next sweep won't double-fire" (sweep_due): across
\* failing publishes, late buttons and restarts, the sweep publishes a row once.
SweepFiresOnce == \A i \in DOMAIN posts : posts[i].swept <= 1

\* "Supersede any earlier pending schedule for the same request so a re-schedule
\* doesn't fire twice" (schedule): a request waits for two times only if two calls of
\* schedule for it were under way together.
OnePendingPerRequest ==
  \A r \in Requests \ raced : Cardinality(Pending(r)) <= 1

\* A schedule that was cancelled, replaced or dropped after a publish is not fired by
\* the sweep: it is only where that transaction and another one, each having read the
\* row as pending, both wrote it.
CalledOffStaysOff == \A i \in off : posts[i].swept > 0 => i \in crossed

\* "... and is never double-fired" (module docstring), by the sweep and a button or
\* by two taps: the exceptions are such crossings, and the Send buttons, which publish
\* also when cancel has told them that the row is no longer pending.
FiredOnce ==
  \A i \in DOMAIN posts : posts[i].swept + posts[i].sent > 1 => i \in crossed \cup anyhow

=============================================================================
