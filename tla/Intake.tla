------------------------------- MODULE Intake -------------------------------
(***************************************************************************)
(* How requests come in, and the work items (WRK-N) that stand for them:   *)
(* Lelouch's search and confirmation (bots/lelouch/handlers/requests.py),  *)
(* the duplicate check (shared/dedup.py), batches, redos, the bridge from  *)
(* a work item to a request (shared/work_bridge.py) and the reconciliation *)
(* of the two (shared/work_service.py).                                    *)
(*                                                                         *)
(* Nothing in the database keeps two requests of one title apart.  What is *)
(* checked is checked when somebody types, or opens a work item, and the   *)
(* row comes later: a request remembers how much its check has seen.       *)
(*                                                                         *)
(* A request's stages are in StageRelay and its task rows in               *)
(* AdminAssignment; here it is live, over or deleted.                      *)
(***************************************************************************)
EXTENDS Integers, FiniteSets, Sequences, FiniteSetsExt

CONSTANTS Users, Staff,  \* who talks to Lelouch; staff skip the one-at-a-time limit
          Titles,        \* AniList ids
          MaxReqs,       \* bound: requests ever inserted
          MaxWorks,      \* bound: work items
          MaxTasks,      \* bound: handlers under way at a time
          MaxTurns       \* bound: retries, deletions, cancellations and lost steps

ASSUME IntakeAssumption ==
  /\ Staff \subseteq Users
  /\ MaxReqs \in Nat /\ MaxWorks \in Nat /\ MaxTasks \in Nat /\ MaxTurns \in Nat

VARIABLES reqs,   \* table requests, in order of their ids
          works,  \* table works
          chat,   \* the FSM of each user, with the card of the title found
          tasks,  \* handlers under way
          turns

vars == <<reqs, works, chat, tasks, turns>>

-----------------------------------------------------------------------------
Anime == "Anime"      \* what is submitted when the FSM has nothing: no AniList id
NoCheck == 0          \* no row was looked at

\* "live" is any of _IN_PROGRESS_STATUSES, "over" any of _TERMINAL_STATUSES.
RequestStatus == {"live", "over", "deleted"}
OpenWork == {"open", "claimed"}

Request == [title : Titles \cup {Anime}, by : Users, status : RequestStatus,
            seen : Nat, back : BOOLEAN]
Work == [title : Titles, link : Nat, status : OpenWork \cup {"done", "cancelled"}]

Idle == [at |-> "idle"]
Card(d, seen) == [at |-> "card", title |-> d, seen |-> seen]

\* Writes of a reconciliation: the work, its link and its status.
Task ==
  [do : {"tap"}, by : Users] \cup [do : {"clear"}, by : Users, req : Nat]
  \cup [do : {"queue"}, req : Nat]
  \cup [do : {"redo", "open"}, by : Users, work : Nat, link : Nat]
  \cup [do : {"bridge"}, by : Users, work : Nat, found : Nat, seen : Nat]
  \cup [do : {"reconcile"}, writes : SUBSET [work : Nat, link : Nat, status : OpenWork \cup {"done"}]]

TypeOK ==
  /\ reqs \in Seq(Request) /\ Len(reqs) <= MaxReqs
  /\ works \in Seq(Work) /\ Len(works) <= MaxWorks
  /\ \A r \in DOMAIN reqs : reqs[r].seen < r
  /\ \A u \in Users : chat[u] = Idle \/ chat[u] \in [at : {"card"}, title : Titles, seen : Nat]
  /\ \A t \in tasks : t.do # "reconcile" => t \in Task

Init ==
  /\ reqs = <<>> /\ works = <<>>
  /\ chat = [u \in Users |-> Idle] /\ tasks = {} /\ turns = 0

-----------------------------------------------------------------------------
LiveReqs(d) == {r \in DOMAIN reqs : reqs[r].title = d /\ reqs[r].status = "live"}
Newest(S) == IF S = {} THEN 0 ELSE Max(S)

New(d, u, status, seen) ==
  [title |-> d, by |-> u, status |-> status, seen |-> seen, back |-> FALSE]
Gone(r) == New(reqs[r].title, reqs[r].by, "deleted", NoCheck)
Insert(req) == Len(reqs) < MaxReqs /\ reqs' = Append(reqs, req)

Start(t) == Cardinality(tasks) < MaxTasks /\ tasks' = tasks \cup {t}
Swap(old, new) == tasks' = (tasks \ {old}) \cup new
Turn == turns < MaxTurns /\ turns' = turns + 1

-----------------------------------------------------------------------------
(* bots/lelouch/handlers/requests.py *)

\* _has_pending_request looks at the user's five newest requests.
HasPending(u) ==
  \E r \in DOMAIN reqs :
    /\ reqs[r].by = u /\ reqs[r].status = "live"
    /\ Cardinality({s \in DOMAIN reqs : s > r /\ reqs[s].by = u /\ reqs[s].status # "deleted"}) < 5

\* DedupService.check.  Lelouch passes no id, so the main channel and the distribution
\* bots are never looked at, and the typed text is looked for in the stored titles.
InProgress(d) == LiveReqs(d) # {}

\* _search_with_dedup, and picking the series: the card to confirm.  The text is
\* compared before AniList, or the version picked, names the title that is stored:
\* with a name that is no part of it (a synonym) the check misses a live request.
Search(u, d, named) ==
  /\ u \in Staff \/ ~HasPending(u)
  /\ named => ~InProgress(d)
  /\ chat' = [chat EXCEPT ![u] = Card(d, IF InProgress(d) THEN NoCheck ELSE Len(reqs))]
  /\ UNCHANGED <<reqs, works, tasks, turns>>

\* "Yes" on the card.  Its buttons are removed first, but a second tap may be on
\* its way already.
Tap(u) ==
  /\ chat[u].at = "card"
  /\ Start([do |-> "tap", by |-> u])
  /\ UNCHANGED <<reqs, works, chat, turns>>

\* _confirm, _finalize up to RequestService.submit: the state is read, not taken.
Submit(u) ==
  /\ [do |-> "tap", by |-> u] \in tasks
  /\ IF chat[u].at = "card" THEN Insert(New(chat[u].title, u, "live", chat[u].seen))
     ELSE Insert(New(Anime, u, "live", NoCheck))
  /\ Swap([do |-> "tap", by |-> u], {[do |-> "clear", by |-> u, req |-> Len(reqs) + 1]})
  /\ UNCHANGED <<works, chat, turns>>

Clear(u, r) ==
  /\ [do |-> "clear", by |-> u, req |-> r] \in tasks
  /\ chat' = [chat EXCEPT ![u] = Idle]
  /\ Swap([do |-> "clear", by |-> u, req |-> r], {[do |-> "queue", req |-> r]})
  /\ UNCHANGED <<reqs, works, turns>>

\* Once a levi task was assigned: QUEUED, whatever has become of the row.
Queue(r) ==
  /\ [do |-> "queue", req |-> r] \in tasks
  /\ reqs' = IF reqs[r].status = "deleted" THEN reqs
             ELSE [reqs EXCEPT ![r].status = "live", ![r].back = @ \/ reqs[r].status = "over"]
  /\ Swap([do |-> "queue", req |-> r], {})
  /\ UNCHANGED <<works, chat, turns>>

\* _commit_batch_requests: no check.
Batch(u, d) ==
  /\ u \in Staff
  /\ Insert(New(d, u, "live", NoCheck))
  /\ UNCHANGED <<works, chat, tasks, turns>>

-----------------------------------------------------------------------------
(* RedoService: a work item, a request and the link, one transaction each *)

RedoWork(u, d) ==
  /\ u \in Staff /\ Len(works) < MaxWorks
  /\ works' = Append(works, [title |-> d, link |-> 0, status |-> "open"])
  /\ Start([do |-> "redo", by |-> u, work |-> Len(works) + 1, link |-> 0])
  /\ UNCHANGED <<reqs, chat, turns>>

RedoRequest(t) ==
  /\ t.do = "redo" /\ t.link = 0
  /\ Insert(New(works[t.work].title, t.by, "live", NoCheck))
  /\ Swap(t, {[t EXCEPT !.link = Len(reqs) + 1]})
  /\ UNCHANGED <<works, chat, turns>>

RedoLink(t) ==
  /\ t.do = "redo" /\ t.link # 0
  /\ works' = [works EXCEPT ![t.work].link = t.link]
  /\ Swap(t, {})
  /\ UNCHANGED <<reqs, chat, turns>>

-----------------------------------------------------------------------------
(* work_bridge.ensure_work_request *)

\* The work item is read, detached, in a transaction of its own.
Open(u, w) ==
  /\ u \in Staff /\ works[w].status \in OpenWork
  /\ Start([do |-> "open", by |-> u, work |-> w, link |-> works[w].link])
  /\ UNCHANGED <<reqs, works, chat, turns>>

\* (mutant) Only a request the board was told of counts.
ExistingLinked(d) == Newest({r \in LiveReqs(d) : \E w \in DOMAIN works : works[w].link = r})

Existing(d) == Newest(LiveReqs(d))

\* It had a link: that request, or "Work item not found".  Otherwise the newest
\* live request of the title, if there is one.
Find(t) ==
  /\ t.do = "open"
  /\ Swap(t, IF t.link # 0 THEN {}
             ELSE {[do |-> "bridge", by |-> t.by, work |-> t.work, seen |-> Len(reqs),
                    found |-> Existing(works[t.work].title)]})
  /\ UNCHANGED <<reqs, works, chat, turns>>

\* (mutant) The status of the request's task row is written into the work.
ClaimedAsTask(w) == IF works[w].status = "open" THEN "in_progress" ELSE works[w].status

Claimed(w) == IF works[w].status = "open" THEN "claimed" ELSE works[w].status

Reuse(t) ==
  /\ t.do = "bridge" /\ t.found # 0
  /\ works' = [works EXCEPT ![t.work] = [@ EXCEPT !.link = t.found, !.status = Claimed(t.work)]]
  /\ Swap(t, {})
  /\ UNCHANGED <<reqs, chat, turns>>

Bridge(t) ==
  /\ t.do = "bridge" /\ t.found = 0
  /\ Insert(New(works[t.work].title, t.by, "live", t.seen))
  /\ works' = [works EXCEPT ![t.work] =
                 [@ EXCEPT !.link = Len(reqs) + 1, !.status = Claimed(t.work)]]
  /\ Swap(t, {})
  /\ UNCHANGED <<chat, turns>>

-----------------------------------------------------------------------------
(* WorkService *)

LinkOf(w) ==
  IF works[w].link # 0 THEN works[w].link ELSE Newest(LiveReqs(works[w].title))

\* _stage_from_assignments: done with its request; otherwise open ("claimed" needs a
\* task row with a status that no task row has), or done if the request has come
\* back and its finished gojo task is still there.
Derived(w, r) ==
  IF r = 0 \/ reqs[r].status = "deleted" THEN {works[w].status}
  ELSE IF reqs[r].status = "over" THEN {"done"}
  ELSE {"open"} \cup (IF reqs[r].back THEN {"done"} ELSE {})

\* (mutant) Only works without a link are looked at.
OpenWorksUnlinked == {w \in DOMAIN works : works[w].status \in OpenWork /\ works[w].link = 0}

OpenWorks == {w \in DOMAIN works : works[w].status \in OpenWork}

\* reconcile_links reads every open work and its request, and writes what has
\* changed at its commit.  One at a time (levi's board, the idle reminder).
ReconcileRead ==
  /\ ~\E t \in tasks : t.do = "reconcile"
  /\ \E status \in [OpenWorks -> OpenWork \cup {"done"}] :
       LET new(w) == [works[w] EXCEPT !.link = LinkOf(w), !.status = status[w]]
           changed == {w \in OpenWorks : new(w) # works[w]}
       IN  /\ \A w \in OpenWorks : status[w] \in Derived(w, LinkOf(w))
           /\ changed # {}
           /\ tasks' = tasks \cup
                {[do |-> "reconcile",
                  writes |-> {[work |-> w, link |-> LinkOf(w), status |-> status[w]] : w \in changed}]}
  /\ UNCHANGED <<reqs, works, chat, turns>>

ReconcileWrite(t) ==
  /\ t.do = "reconcile"
  /\ works' = [w \in DOMAIN works |->
                 IF \E x \in t.writes : x.work = w
                 THEN LET x == CHOOSE x \in t.writes : x.work = w
                      IN  [works[w] EXCEPT !.link = x.link, !.status = x.status]
                 ELSE works[w]]
  /\ Swap(t, {})
  /\ UNCHANGED <<reqs, chat, turns>>

\* The owner's console.
CancelWork(w) ==
  /\ works[w].status \in OpenWork /\ Turn
  /\ works' = [works EXCEPT ![w].status = "cancelled"]
  /\ UNCHANGED <<reqs, chat, tasks>>

-----------------------------------------------------------------------------
(* What becomes of a request (external to this module, but for its status) *)

Conclude(r) ==
  /\ reqs[r].status = "live"
  /\ reqs' = [reqs EXCEPT ![r].status = "over"]
  /\ UNCHANGED <<works, chat, tasks, turns>>

\* retry_episodes, a new source, "change source": live again.
Revive(r) ==
  /\ reqs[r].status = "over" /\ Turn
  /\ reqs' = [reqs EXCEPT ![r].status = "live", ![r].back = TRUE]
  /\ UNCHANGED <<works, chat, tasks>>

DeleteRequest(r) ==
  /\ reqs[r].status # "deleted" /\ Turn
  /\ reqs' = [reqs EXCEPT ![r] = Gone(r)]
  /\ UNCHANGED <<works, chat, tasks>>

\* The row is deleted and a new one inserted, in one transaction.
ReassignFresh(r) ==
  /\ reqs[r].status # "deleted" /\ Len(reqs) < MaxReqs /\ Turn
  /\ reqs' = Append([reqs EXCEPT ![r] = Gone(r)],
                    New(reqs[r].title, reqs[r].by, "live", NoCheck))
  /\ UNCHANGED <<works, chat, tasks>>

\* A restart or a caught error: a handler goes no further.
Lost(t) == Turn /\ Swap(t, {}) /\ UNCHANGED <<reqs, works, chat>>

-----------------------------------------------------------------------------
Next ==
  \/ \E u \in Users :
       \/ \E d \in Titles : \/ \E named \in BOOLEAN : Search(u, d, named)
                            \/ Batch(u, d) \/ RedoWork(u, d)
       \/ Tap(u) \/ Submit(u)
       \/ \E r \in DOMAIN reqs : Clear(u, r)
       \/ \E w \in DOMAIN works : Open(u, w)
  \/ \E t \in tasks :
       \/ RedoRequest(t) \/ RedoLink(t) \/ Find(t) \/ Reuse(t) \/ Bridge(t)
       \/ ReconcileWrite(t) \/ Lost(t)
  \/ ReconcileRead
  \/ \E w \in DOMAIN works : CancelWork(w)
  \/ \E r \in DOMAIN reqs : Queue(r) \/ Conclude(r) \/ Revive(r) \/ DeleteRequest(r) \/ ReassignFresh(r)

Spec == Init /\ [][Next]_vars

\* The board and the idle reminder reconcile again and again.
Fairness ==
  /\ WF_vars(ReconcileRead)
  /\ WF_vars(\E t \in tasks : ReconcileWrite(t))

FairSpec == Spec /\ Fairness

-----------------------------------------------------------------------------
(* Properties *)

\* "Checks whether an anime already exists or is being processed" (DedupService):
\* when two requests of a title are live, the later one was not checked at all (a
\* batch, a redo, a fresh ticket), or missed a live one under another name, or was
\* checked before the earlier one existed, or the earlier one has come back to life.
DuplicatesExplained ==
  \A i, j \in DOMAIN reqs :
    i < j /\ reqs[i].title = reqs[j].title /\ reqs[i].status = "live" /\ reqs[j].status = "live"
      => reqs[j].seen < i \/ reqs[i].back

\* "Self-heal legacy works + keep stage/status honest" (reconcile_links): a work
\* item whose request is over is closed, and one without a request is linked once
\* its title has a live one, or that changes first.
WorksConverge ==
  LET stale ==
        \E w \in DOMAIN works : works[w].status \in OpenWork /\
          IF works[w].link # 0 THEN reqs[works[w].link].status = "over"
          ELSE LiveReqs(works[w].title) # {}
  IN  stale ~> ~stale

=============================================================================
