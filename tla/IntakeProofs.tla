---------------------------- MODULE IntakeProofs ----------------------------
(***************************************************************************)
(* Intake for every set of users and titles and without any of its bounds  *)
(* playing a part: the types, and where two live requests of one title can *)
(* come from.                                                              *)
(*                                                                         *)
(* DuplicatesExplained speaks of rows; what makes it true is a promise     *)
(* made earlier and kept in three places: a card in a chat, a handler that *)
(* is about to bridge a work item, and the row they become.  Each has seen *)
(* that no request of its title up to some id was live, and a request that *)
(* is live again after that is marked.                                     *)
(***************************************************************************)
EXTENDS Intake, SequenceTheorems, WellFoundedInduction, TLAPS

\* No request of title d up to number k is live, unless it has come back.
Clean(rs, d, k) ==
  \A i \in DOMAIN rs : i <= k /\ rs[i].title = d /\ rs[i].status = "live" => rs[i].back

RowsOK(rs) ==
  /\ rs \in Seq(Request) /\ Len(rs) <= MaxReqs
  /\ \A r \in DOMAIN rs : rs[r].seen < r /\ Clean(rs, rs[r].title, rs[r].seen)

WorksOK(ws) == ws \in Seq(Work) /\ Len(ws) <= MaxWorks

CardOK(rs, c) ==
  c = Idle \/ /\ c \in [at : {"card"}, title : Titles, seen : Nat]
              /\ c.seen <= Len(rs) /\ Clean(rs, c.title, c.seen)

TaskOK(rs, ws, t) ==
  /\ t \in Task
  /\ t.do \in {"redo", "open", "bridge"} => t.work \in DOMAIN ws
  /\ t.do = "bridge" => t.seen <= Len(rs)
  /\ t.do = "bridge" /\ t.found = 0 => Clean(rs, ws[t.work].title, t.seen)

\* The inductive invariant.
IInv ==
  /\ RowsOK(reqs) /\ WorksOK(works)
  /\ chat = [u \in Users |-> chat[u]] /\ \A u \in Users : CardOK(reqs, chat[u])
  /\ \A t \in tasks : TaskOK(reqs, works, t)

-----------------------------------------------------------------------------
(* The newest of a set of rows *)

LessNat == {p \in Nat \X Nat : p[1] < p[2]}

LEMMA LessWellFounded == IsWellFoundedOn(LessNat, Nat)
BY NatLessThanWellFounded, Zenon DEF OpToRel, LessNat

\* A set of row numbers has a largest one.
LEMMA MaxIsOneOf ==
  ASSUME NEW n \in Nat, NEW S \in SUBSET (1..n), S # {}
  PROVE  Max(S) \in S
<1> DEFINE T == {n - x : x \in S}
<1>0. \A x \in S : n - x \in Nat OBVIOUS
<1>1. T \subseteq Nat BY <1>0
<1>2. T # {} OBVIOUS
<1>3. \A x, y \in Nat : y < x => <<y, x>> \in LessNat BY DEF LessNat
<1>4. PICK t \in T : \A y \in T : ~(<<y, t>> \in LessNat) BY <1>1, <1>2, LessWellFounded, WFMin
<1>5. \A y \in T : ~(y < t) BY <1>1, <1>3, <1>4
<1>6. PICK x \in S : t = n - x OBVIOUS
<1>7. \A y \in S : x >= y
  <2> TAKE y \in S
  <2>1. n - y \in T OBVIOUS
  <2> QED BY <1>5, <1>6, <2>1
<1> QED BY <1>7 DEF Max

\* Newest is 0 exactly when there is none.
LEMMA NewestIs ==
  ASSUME RowsOK(reqs), NEW d
  PROVE  /\ Newest(LiveReqs(d)) \in Nat
         /\ Newest(LiveReqs(d)) = 0 => LiveReqs(d) = {}
<1>1. Len(reqs) \in Nat /\ DOMAIN reqs = 1..Len(reqs) BY DEF RowsOK
<1>2. LiveReqs(d) \in SUBSET (1..Len(reqs)) BY <1>1 DEF LiveReqs
<1>3. CASE LiveReqs(d) = {} BY <1>3 DEF Newest
<1>4. CASE LiveReqs(d) # {}
  <2>1. Max(LiveReqs(d)) \in LiveReqs(d) BY <1>1, <1>2, <1>4, MaxIsOneOf
  <2> QED BY <1>1, <1>2, <1>4, <2>1 DEF Newest
<1> QED BY <1>3, <1>4

-----------------------------------------------------------------------------
(* What every step does to the tables *)

\* No request of the table comes to life unmarked, and none is forgotten.
Grows(rs, new) ==
  /\ rs \in Seq(Request) /\ new \in Seq(Request) /\ Len(rs) <= Len(new)
  /\ \A i \in DOMAIN rs :
       /\ new[i].title = rs[i].title
       /\ new[i].status = "live" /\ ~new[i].back => rs[i].status = "live" /\ ~rs[i].back

TitlesKept(ws, new) ==
  DOMAIN ws \subseteq DOMAIN new /\ \A w \in DOMAIN ws : new[w].title = ws[w].title

\* A promise about rows that exist is kept.
LEMMA CleanKept ==
  ASSUME NEW rs, NEW new, Grows(rs, new), NEW d, NEW k \in Int, k <= Len(rs), Clean(rs, d, k)
  PROVE  Clean(new, d, k)
<1> SUFFICES ASSUME NEW i \in DOMAIN new, i <= k, new[i].title = d, new[i].status = "live"
             PROVE  new[i].back
  BY DEF Clean
<1>1. i \in DOMAIN rs BY DEF Grows
<1>2. rs[i].title = d BY <1>1 DEF Grows
<1>3. CASE new[i].back BY <1>3
<1>4. CASE ~new[i].back
  <2>1. rs[i].status = "live" /\ ~rs[i].back BY <1>1, <1>4 DEF Grows
  <2> QED BY <1>1, <1>2, <2>1 DEF Clean
<1> QED BY <1>3, <1>4

\* A change of the tables leaves cards and tasks good.
LEMMA CardKept ==
  ASSUME NEW rs, NEW new, Grows(rs, new), NEW c, CardOK(rs, c)
  PROVE  CardOK(new, c)
<1>1. CASE c = Idle BY <1>1 DEF CardOK
<1>2. CASE c # Idle
  <2>1. c.seen \in Nat /\ c.seen <= Len(rs) /\ Clean(rs, c.title, c.seen) BY <1>2 DEF CardOK, NoCheck
  <2>2. Clean(new, c.title, c.seen) BY <2>1, CleanKept
  <2>3. c.seen <= Len(new) BY <2>1 DEF Grows
  <2> QED BY <1>2, <2>2, <2>3 DEF CardOK
<1> QED BY <1>1, <1>2

LEMMA TaskKept ==
  ASSUME NEW rs, NEW new, Grows(rs, new), NEW ws, NEW wn, TitlesKept(ws, wn),
         NEW t, TaskOK(rs, ws, t)
  PROVE  TaskOK(new, wn, t)
<1>1. t \in Task BY DEF TaskOK
<1>2. t.do \in {"redo", "open", "bridge"} => t.work \in DOMAIN wn
  BY DEF TaskOK, TitlesKept
<1>3. t.do = "bridge" => t.seen \in Nat BY <1>1 DEF Task
<1>4. t.do = "bridge" => t.seen <= Len(new)
  BY <1>3 DEF TaskOK, Grows
<1>5. ASSUME t.do = "bridge", t.found = 0
      PROVE  Clean(new, wn[t.work].title, t.seen)
  <2>1. wn[t.work].title = ws[t.work].title BY <1>5 DEF TaskOK, TitlesKept
  <2>2. Clean(rs, ws[t.work].title, t.seen) /\ t.seen <= Len(rs) BY <1>5 DEF TaskOK
  <2>3. Clean(new, ws[t.work].title, t.seen) BY <1>3, <1>5, <2>2, CleanKept
  <2> QED BY <2>1, <2>3
<1> QED BY <1>1, <1>2, <1>4, <1>5 DEF TaskOK

\* What one row says.
LEMMA RowSays ==
  ASSUME NEW rs, RowsOK(rs), NEW i \in DOMAIN rs
  PROVE  /\ rs[i] \in Request /\ rs[i].seen \in Int
         /\ rs[i].seen < i /\ Clean(rs, rs[i].title, rs[i].seen)
<1>1. rs[i] \in Request BY DEF RowsOK
<1>2. rs[i].seen \in Int BY <1>1 DEF Request
<1>3. rs[i].seen < i /\ Clean(rs, rs[i].title, rs[i].seen) BY DEF RowsOK
<1> QED BY <1>1, <1>2, <1>3

\* A row is added whose check has seen what it says.
LEMMA RowAdded ==
  ASSUME NEW rs, RowsOK(rs), Len(rs) < MaxReqs, NEW q \in Request,
         q.seen <= Len(rs), Clean(rs, q.title, q.seen)
  PROVE  RowsOK(Append(rs, q)) /\ Grows(rs, Append(rs, q))
<1> DEFINE new == Append(rs, q)
<1>1. rs \in Seq(Request) /\ Len(rs) \in Nat /\ q.seen \in Int BY DEF RowsOK, Request
<1>2. new \in Seq(Request) /\ Len(new) = Len(rs) + 1
      /\ new[Len(rs) + 1] = q /\ \A i \in 1..Len(rs) : new[i] = rs[i]
  BY <1>1
<1> HIDE DEF new
<1>3. Grows(rs, new) BY <1>1, <1>2 DEF Grows
<1>4. Len(new) <= MaxReqs BY <1>1, <1>2, IntakeAssumption
<1>5. ASSUME NEW r \in DOMAIN new PROVE new[r].seen < r /\ Clean(new, new[r].title, new[r].seen)
  <2>1. CASE r = Len(rs) + 1
    <3>1. Clean(new, q.title, q.seen) BY <1>1, <1>3, CleanKept
    <3> QED BY <1>1, <1>2, <2>1, <3>1
  <2>2. CASE r # Len(rs) + 1
    <3>1. r \in DOMAIN rs /\ new[r] = rs[r] BY <1>1, <1>2, <2>2
    <3>2. rs[r].seen < r /\ Clean(rs, rs[r].title, rs[r].seen) /\ rs[r].seen \in Int
      BY <3>1, RowSays
    <3>3. rs[r].seen <= Len(rs) BY <1>1, <3>1, <3>2
    <3>4. Clean(new, rs[r].title, rs[r].seen) BY <1>3, <3>2, <3>3, CleanKept
    <3> QED BY <3>1, <3>2, <3>4
  <2> QED BY <2>1, <2>2
<1>6. RowsOK(new) BY <1>2, <1>4, <1>5 DEF RowsOK
<1> QED BY <1>3, <1>6 DEF new

\* A row changes, and comes to life only marked.
LEMMA RowChanged ==
  ASSUME NEW rs, RowsOK(rs), NEW r \in DOMAIN rs, NEW q \in Request,
         q.title = rs[r].title, q.seen \in {NoCheck, rs[r].seen},
         q.status = "live" /\ ~q.back => rs[r].status = "live" /\ ~rs[r].back
  PROVE  RowsOK([rs EXCEPT ![r] = q]) /\ Grows(rs, [rs EXCEPT ![r] = q])
<1> DEFINE new == [rs EXCEPT ![r] = q]
<1>1. rs \in Seq(Request) /\ Len(rs) \in Nat /\ r \in 1..Len(rs) BY DEF RowsOK
<1>2. new \in Seq(Request) /\ Len(new) = Len(rs)
      /\ \A i \in 1..Len(rs) : new[i] = IF i = r THEN q ELSE rs[i]
  BY <1>1, ExceptSeq
<1> HIDE DEF new
<1>3. Grows(rs, new) BY <1>1, <1>2 DEF Grows
<1>5. ASSUME NEW i \in DOMAIN new PROVE new[i].seen < i /\ Clean(new, new[i].title, new[i].seen)
  <2>1. i \in DOMAIN rs /\ i \in 1..Len(rs) BY <1>1, <1>2
  <2>2. rs[i].seen < i /\ Clean(rs, rs[i].title, rs[i].seen) /\ rs[i].seen \in Int
    BY <2>1, RowSays
  <2>3. rs[i].seen <= Len(rs) BY <1>1, <2>1, <2>2
  <2>4. Clean(new, rs[i].title, rs[i].seen) BY <1>3, <2>2, <2>3, CleanKept
  <2>5. new[i].title = rs[i].title BY <1>2, <2>1
  <2>6. new[i].seen \in {NoCheck, rs[i].seen} BY <1>2, <2>1
  <2>7. CASE new[i].seen = NoCheck BY <1>1, <1>2, <2>1, <2>7 DEF NoCheck, Clean
  <2>8. CASE new[i].seen = rs[i].seen BY <2>2, <2>4, <2>5, <2>8
  <2> QED BY <2>6, <2>7, <2>8
<1>6. RowsOK(new) BY <1>1, <1>2, <1>5 DEF RowsOK
<1> QED BY <1>3, <1>6 DEF new

-----------------------------------------------------------------------------
(* One lemma per action *)

LEMMA SameRows == RowsOK(reqs) => Grows(reqs, reqs)
BY DEF RowsOK, Grows

LEMMA SameTitles == TitlesKept(works, works)
BY DEF TitlesKept

\* What it takes to keep the invariant.
LEMMA Keeps ==
  ASSUME IInv, RowsOK(reqs'), Grows(reqs, reqs'), WorksOK(works'), TitlesKept(works, works'),
         chat' = [u \in Users |-> chat'[u]],
         \A u \in Users : chat'[u] = chat[u] \/ CardOK(reqs', chat'[u]),
         \A t \in tasks' : t \in tasks \/ TaskOK(reqs', works', t)
  PROVE  IInv'
<1>1. \A u \in Users : CardOK(reqs', chat'[u])
  <2> TAKE u \in Users
  <2>1. CASE chat'[u] = chat[u]
    <3>1. CardOK(reqs, chat[u]) BY DEF IInv
    <3>2. CardOK(reqs', chat[u]) BY <3>1, CardKept
    <3> QED BY <2>1, <3>2
  <2> QED BY <2>1
<1>2. \A t \in tasks' : TaskOK(reqs', works', t)
  <2> TAKE t \in tasks'
  <2>1. CASE t \in tasks
    <3>1. TaskOK(reqs, works, t) BY <2>1 DEF IInv
    <3> QED BY <3>1, TaskKept
  <2> QED BY <2>1
<1> QED BY <1>1, <1>2 DEF IInv

\* A handler goes on with tasks that are good, and no table has changed.
LEMMA OnlyTasks ==
  ASSUME IInv, UNCHANGED <<reqs, works, chat>>,
         \A t \in tasks' : t \in tasks \/ TaskOK(reqs, works, t)
  PROVE  IInv'
<1>1. RowsOK(reqs) /\ WorksOK(works) BY DEF IInv
<1>2. Grows(reqs, reqs') BY <1>1, SameRows
<1>3. TitlesKept(works, works') BY SameTitles
<1>4. chat' = [u \in Users |-> chat'[u]] BY DEF IInv
<1> QED BY <1>1, <1>2, <1>3, <1>4, Keeps

\* Works change without forgetting a title.
LEMMA OnlyWorks ==
  ASSUME IInv, UNCHANGED <<reqs, chat>>, WorksOK(works'), TitlesKept(works, works'),
         \A t \in tasks' : t \in tasks \/ TaskOK(reqs, works', t)
  PROVE  IInv'
<1>1. RowsOK(reqs) BY DEF IInv
<1>2. Grows(reqs, reqs') BY <1>1, SameRows
<1>4. chat' = [u \in Users |-> chat'[u]] BY DEF IInv
<1> QED BY <1>1, <1>2, <1>4, Keeps

\* Requests change.
LEMMA OnlyRows ==
  ASSUME IInv, UNCHANGED <<works, chat>>, RowsOK(reqs'), Grows(reqs, reqs'),
         \A t \in tasks' : t \in tasks \/ TaskOK(reqs', works, t)
  PROVE  IInv'
<1>1. WorksOK(works) BY DEF IInv
<1>3. TitlesKept(works, works') BY SameTitles
<1>4. chat' = [u \in Users |-> chat'[u]] BY DEF IInv
<1> QED BY <1>1, <1>3, <1>4, Keeps

\* A work item changes its link and status.
LEMMA WorkChanged ==
  ASSUME WorksOK(works), NEW w \in DOMAIN works, NEW l \in Nat,
         NEW st \in OpenWork \cup {"done", "cancelled"},
         works' = [works EXCEPT ![w] = [@ EXCEPT !.link = l, !.status = st]]
  PROVE  WorksOK(works') /\ TitlesKept(works, works')
<1> DEFINE x == [works[w] EXCEPT !.link = l, !.status = st]
<1>1. works \in Seq(Work) /\ w \in 1..Len(works) BY DEF WorksOK
<1>2. works[w] \in Work BY <1>1
<1>3. x \in Work /\ x.title = works[w].title BY <1>2 DEF Work
<1>4. works' = [works EXCEPT ![w] = x] OBVIOUS
<1> HIDE DEF x
<1>5. works' \in Seq(Work) /\ Len(works') = Len(works)
      /\ \A i \in 1..Len(works) : works'[i] = IF i = w THEN x ELSE works[i]
  BY <1>1, <1>3, <1>4, ExceptSeq
<1> QED BY <1>1, <1>3, <1>5 DEF WorksOK, TitlesKept

LEMMA SearchKeeps ==
  ASSUME IInv, NEW u \in Users, NEW d \in Titles, NEW named \in BOOLEAN, Search(u, d, named)
  PROVE  IInv'
<1> DEFINE k == IF InProgress(d) THEN NoCheck ELSE Len(reqs)
<1>1. RowsOK(reqs) /\ WorksOK(works) /\ Len(reqs) \in Nat /\ DOMAIN reqs = 1..Len(reqs)
  BY DEF IInv, RowsOK
<1>2. Clean(reqs, d, k)
  <2>1. CASE ~InProgress(d) BY <2>1 DEF InProgress, LiveReqs, Clean
  <2>2. CASE InProgress(d) BY <1>1, <2>2 DEF Clean, NoCheck
  <2> QED BY <2>1, <2>2
<1>7. k \in Nat /\ k <= Len(reqs) BY <1>1 DEF NoCheck
<1>8. chat' = [chat EXCEPT ![u] = Card(d, k)] BY DEF Search
<1> HIDE DEF k
<1>3. CardOK(reqs, Card(d, k)) BY <1>1, <1>2, <1>7 DEF CardOK, Card
<1>4. Grows(reqs, reqs') BY <1>1, SameRows DEF Search
<1>5. TitlesKept(works, works') BY SameTitles DEF Search
<1>6. chat' = [v \in Users |-> chat'[v]] /\ \A v \in Users : chat'[v] = chat[v] \/ CardOK(reqs', chat'[v])
  BY <1>3, <1>8 DEF Search, IInv
<1> QED BY <1>1, <1>4, <1>5, <1>6, Keeps DEF Search

LEMMA TapKeeps ==
  ASSUME IInv, NEW u \in Users, Tap(u)
  PROVE  IInv'
<1>1. TaskOK(reqs, works, [do |-> "tap", by |-> u]) BY DEF TaskOK, Task
<1> QED BY <1>1, OnlyTasks DEF Tap, Start

\* What a submitted row has seen is what its card says.
LEMMA SubmitKeeps ==
  ASSUME IInv, NEW u \in Users, Submit(u)
  PROVE  IInv'
<1>1. RowsOK(reqs) /\ Len(reqs) \in Nat /\ CardOK(reqs, chat[u]) BY DEF IInv, RowsOK
<1>2. RowsOK(reqs') /\ Grows(reqs, reqs')
  <2>1. CASE chat[u].at = "card"
    <3> DEFINE q == New(chat[u].title, u, "live", chat[u].seen)
    <3>1. chat[u] # Idle BY <2>1 DEF Idle
    <3>2. chat[u].title \in Titles /\ chat[u].seen \in Nat /\ chat[u].seen <= Len(reqs)
          /\ Clean(reqs, chat[u].title, chat[u].seen)
      BY <1>1, <3>1 DEF CardOK, NoCheck
    <3>3. q \in Request /\ q.title = chat[u].title /\ q.seen = chat[u].seen
      BY <3>2 DEF New, Request, RequestStatus
    <3>4. Len(reqs) < MaxReqs /\ reqs' = Append(reqs, q) BY <2>1 DEF Submit, Insert
    <3> HIDE DEF q
    <3> QED BY <1>1, <3>2, <3>3, <3>4, RowAdded
  <2>2. CASE chat[u].at # "card"
    <3> DEFINE q == New(Anime, u, "live", NoCheck)
    <3>1. q \in Request /\ q.seen = 0 BY DEF New, Request, RequestStatus, NoCheck
    <3>2. Len(reqs) < MaxReqs /\ reqs' = Append(reqs, q) BY <2>2 DEF Submit, Insert
    <3> HIDE DEF q
    <3>3. q.seen <= Len(reqs) /\ Clean(reqs, q.title, q.seen) BY <1>1, <3>1 DEF Clean, RowsOK
    <3> QED BY <1>1, <3>1, <3>2, <3>3, RowAdded
  <2> QED BY <2>1, <2>2
<1>3. TaskOK(reqs', works, [do |-> "clear", by |-> u, req |-> Len(reqs) + 1])
  BY <1>1 DEF TaskOK, Task
<1> QED BY <1>2, <1>3, OnlyRows DEF Submit, Swap

LEMMA ClearKeeps ==
  ASSUME IInv, NEW u \in Users, NEW r \in DOMAIN reqs, Clear(u, r)
  PROVE  IInv'
<1>1. RowsOK(reqs) /\ WorksOK(works) /\ r \in Nat BY DEF IInv, RowsOK
<1>2. TaskOK(reqs, works, [do |-> "queue", req |-> r]) BY <1>1 DEF TaskOK, Task
<1>3. Grows(reqs, reqs') BY <1>1, SameRows DEF Clear
<1>4. TitlesKept(works, works') BY SameTitles DEF Clear
<1>5. chat' = [v \in Users |-> chat'[v]] /\ \A v \in Users : chat'[v] = chat[v] \/ CardOK(reqs', chat'[v])
  BY DEF Clear, IInv, CardOK
<1> QED BY <1>1, <1>2, <1>3, <1>4, <1>5, Keeps DEF Clear, Swap

\* QUEUED, whatever has become of the row: live again means marked.
LEMMA QueueKeeps ==
  ASSUME IInv, NEW r \in DOMAIN reqs, Queue(r)
  PROVE  IInv'
<1>1. RowsOK(reqs) /\ reqs[r] \in Request BY RowSays DEF IInv
<1>2. RowsOK(reqs') /\ Grows(reqs, reqs')
  <2>1. CASE reqs[r].status = "deleted" BY <1>1, <2>1, SameRows DEF Queue
  <2>2. CASE reqs[r].status # "deleted"
    <3> DEFINE b == reqs[r].back \/ reqs[r].status = "over"
               q == [reqs[r] EXCEPT !.status = "live", !.back = b]
    <3>1. b \in BOOLEAN OBVIOUS
    <3>2. ~b => reqs[r].status = "live" /\ ~reqs[r].back
      BY <1>1, <2>2 DEF Request, RequestStatus
    <3>3. reqs' = [reqs EXCEPT ![r] = q] BY <2>2, Zenon DEF Queue
    <3> HIDE DEF b
    <3>4. q \in Request /\ q.title = reqs[r].title /\ q.seen = reqs[r].seen /\ (q.back <=> b)
      BY <1>1, <3>1 DEF Request, RequestStatus
    <3> HIDE DEF q
    <3> QED BY <1>1, <3>2, <3>3, <3>4, RowChanged
  <2> QED BY <2>1, <2>2
<1> QED BY <1>2, OnlyRows DEF Queue, Swap

\* A row whose insertion no check precedes.
LEMMA Unchecked ==
  ASSUME NEW rs, RowsOK(rs), Len(rs) < MaxReqs, NEW d \in Titles \cup {Anime}, NEW u \in Users
  PROVE  /\ RowsOK(Append(rs, New(d, u, "live", NoCheck)))
         /\ Grows(rs, Append(rs, New(d, u, "live", NoCheck)))
<1> DEFINE q == New(d, u, "live", NoCheck)
<1>1. q \in Request /\ q.seen = 0 BY DEF New, Request, RequestStatus, NoCheck
<1> HIDE DEF q
<1>2. Len(rs) \in Nat BY DEF RowsOK
<1>3. q.seen <= Len(rs) /\ Clean(rs, q.title, q.seen) BY <1>1, <1>2 DEF Clean, RowsOK
<1>4. RowsOK(Append(rs, q)) /\ Grows(rs, Append(rs, q)) BY <1>1, <1>3, RowAdded
<1> QED BY <1>4 DEF q

LEMMA BatchKeeps ==
  ASSUME IInv, NEW u \in Users, NEW d \in Titles, Batch(u, d)
  PROVE  IInv'
<1>1. RowsOK(reqs') /\ Grows(reqs, reqs') BY Unchecked DEF IInv, Batch, Insert
<1> QED BY <1>1, OnlyRows DEF Batch

LEMMA RedoWorkKeeps ==
  ASSUME IInv, NEW u \in Users, NEW d \in Titles, RedoWork(u, d)
  PROVE  IInv'
<1> DEFINE w == [title |-> d, link |-> 0, status |-> "open"]
<1>1. WorksOK(works) /\ works \in Seq(Work) /\ Len(works) \in Nat /\ Len(works) < MaxWorks
      /\ works' = Append(works, w)
  BY DEF IInv, WorksOK, RedoWork
<1>2. w \in Work BY DEF Work, OpenWork
<1> HIDE DEF w
<1>3. works' \in Seq(Work) /\ Len(works') = Len(works) + 1
      /\ \A i \in 1..Len(works) : works'[i] = works[i]
  BY <1>1, <1>2
<1>4. WorksOK(works') BY <1>1, <1>3, IntakeAssumption DEF WorksOK
<1>5. TitlesKept(works, works') BY <1>1, <1>3 DEF TitlesKept
<1>6. TaskOK(reqs, works', [do |-> "redo", by |-> u, work |-> Len(works) + 1, link |-> 0])
  BY <1>1, <1>3 DEF TaskOK, Task
<1> QED BY <1>4, <1>5, <1>6, OnlyWorks DEF RedoWork, Start

LEMMA RedoRequestKeeps ==
  ASSUME IInv, NEW t \in tasks, RedoRequest(t)
  PROVE  IInv'
<1>1. TaskOK(reqs, works, t) /\ RowsOK(reqs) /\ WorksOK(works) /\ Len(reqs) \in Nat
  BY DEF IInv, RowsOK
<1>2. t.do = "redo" /\ t.work \in DOMAIN works BY <1>1 DEF RedoRequest, TaskOK
<1>3. t \in [do : {"redo", "open"}, by : Users, work : Nat, link : Nat]
  BY <1>1, <1>2 DEF TaskOK, Task
<1>4. works[t.work] \in Work BY <1>1, <1>2 DEF WorksOK
<1>5. works[t.work].title \in Titles BY <1>4 DEF Work
<1>6. RowsOK(reqs') /\ Grows(reqs, reqs')
  BY <1>1, <1>3, <1>5, Unchecked DEF RedoRequest, Insert
<1> DEFINE x == [t EXCEPT !.link = Len(reqs) + 1]
<1>7. x \in Task /\ x.do = "redo" /\ x.work = t.work BY <1>1, <1>2, <1>3 DEF Task
<1>8. TaskOK(reqs', works, x) BY <1>2, <1>7 DEF TaskOK
<1> QED BY <1>6, <1>8, OnlyRows DEF RedoRequest, Swap

LEMMA RedoLinkKeeps ==
  ASSUME IInv, NEW t \in tasks, RedoLink(t)
  PROVE  IInv'
<1>1. TaskOK(reqs, works, t) /\ WorksOK(works) BY DEF IInv
<1>2. t.do = "redo" /\ t.work \in DOMAIN works BY <1>1 DEF RedoLink, TaskOK
<1>3. t.link \in Nat BY <1>1, <1>2 DEF TaskOK, Task
<1>4. works[t.work] \in Work BY <1>1, <1>2 DEF WorksOK
<1>5. works[t.work].status \in OpenWork \cup {"done", "cancelled"} BY <1>4 DEF Work
<1>6. works' = [works EXCEPT ![t.work] = [@ EXCEPT !.link = t.link, !.status = works[t.work].status]]
  <2>1. works' = [works EXCEPT ![t.work] = [works[t.work] EXCEPT !.link = t.link]]
    BY DEF RedoLink
  <2>2. [works[t.work] EXCEPT !.link = t.link]
          = [works[t.work] EXCEPT !.link = t.link, !.status = works[t.work].status]
    BY <1>4 DEF Work
  <2> QED BY <2>1, <2>2
<1>7. WorksOK(works') /\ TitlesKept(works, works') BY <1>1, <1>2, <1>3, <1>5, <1>6, WorkChanged
<1> QED BY <1>7, OnlyWorks DEF RedoLink, Swap

LEMMA OpenKeeps ==
  ASSUME IInv, NEW u \in Users, NEW w \in DOMAIN works, Open(u, w)
  PROVE  IInv'
<1>1. WorksOK(works) /\ works[w] \in Work /\ w \in Nat BY DEF IInv, WorksOK
<1>2. works[w].link \in Nat BY <1>1 DEF Work
<1>3. TaskOK(reqs, works, [do |-> "open", by |-> u, work |-> w, link |-> works[w].link])
  BY <1>1, <1>2 DEF TaskOK, Task
<1> QED BY <1>3, OnlyTasks DEF Open, Start

\* A bridge that found no live request of its title promises so.
LEMMA FindKeeps ==
  ASSUME IInv, NEW t \in tasks, Find(t)
  PROVE  IInv'
<1>1. TaskOK(reqs, works, t) /\ RowsOK(reqs) /\ WorksOK(works) /\ Len(reqs) \in Nat
  BY DEF IInv, RowsOK
<1>2. t.do = "open" /\ t.work \in DOMAIN works BY <1>1 DEF Find, TaskOK
<1>3. t \in [do : {"redo", "open"}, by : Users, work : Nat, link : Nat]
  BY <1>1, <1>2 DEF TaskOK, Task
<1>4. CASE t.link # 0 BY <1>4, OnlyTasks DEF Find, Swap
<1>5. CASE t.link = 0
  <2> DEFINE d == works[t.work].title
             n == Existing(d)
             x == [do |-> "bridge", by |-> t.by, work |-> t.work, seen |-> Len(reqs), found |-> n]
  <2>1. n \in Nat /\ (n = 0 => LiveReqs(d) = {}) BY <1>1, NewestIs DEF Existing
  <2>2. n = 0 => Clean(reqs, d, Len(reqs)) BY <2>1 DEF LiveReqs, Clean
  <2>3. tasks' = (tasks \ {t}) \cup {x} BY <1>5 DEF Find, Swap
  <2> HIDE DEF n
  <2>4. x \in Task BY <1>1, <1>3, <2>1 DEF Task
  <2>5. TaskOK(reqs, works, x) BY <1>1, <1>2, <2>2, <2>4 DEF TaskOK
  <2> QED BY <2>3, <2>5, OnlyTasks DEF Find
<1> QED BY <1>4, <1>5

\* Opening a work item claims it.
LEMMA ClaimedIs ==
  ASSUME WorksOK(works), NEW w \in DOMAIN works
  PROVE  Claimed(w) \in OpenWork \cup {"done", "cancelled"}
<1>1. works[w] \in Work BY DEF WorksOK
<1> QED BY <1>1 DEF Claimed, Work, OpenWork

LEMMA ReuseKeeps ==
  ASSUME IInv, NEW t \in tasks, Reuse(t)
  PROVE  IInv'
<1>1. TaskOK(reqs, works, t) /\ WorksOK(works) BY DEF IInv
<1>2. t.do = "bridge" /\ t.work \in DOMAIN works BY <1>1 DEF Reuse, TaskOK
<1>3. t.found \in Nat BY <1>1, <1>2 DEF TaskOK, Task
<1>4. Claimed(t.work) \in OpenWork \cup {"done", "cancelled"} BY <1>1, <1>2, ClaimedIs
<1>5. works' = [works EXCEPT ![t.work] = [@ EXCEPT !.link = t.found, !.status = Claimed(t.work)]]
  BY DEF Reuse
<1>6. WorksOK(works') /\ TitlesKept(works, works') BY <1>1, <1>2, <1>3, <1>4, <1>5, WorkChanged
<1> QED BY <1>6, OnlyWorks DEF Reuse, Swap

\* What a bridged row has seen is what its handler saw.
LEMMA BridgeKeeps ==
  ASSUME IInv, NEW t \in tasks, Bridge(t)
  PROVE  IInv'
<1>1. TaskOK(reqs, works, t) /\ RowsOK(reqs) /\ WorksOK(works) /\ Len(reqs) \in Nat
  BY DEF IInv, RowsOK
<1>2. t.do = "bridge" /\ t.found = 0 /\ t.work \in DOMAIN works BY <1>1 DEF Bridge, TaskOK
<1>3. t \in [do : {"bridge"}, by : Users, work : Nat, found : Nat, seen : Nat]
  BY <1>1, <1>2 DEF TaskOK, Task
<1> DEFINE d == works[t.work].title
           q == New(d, t.by, "live", t.seen)
<1>4. d \in Titles
  <2>1. works[t.work] \in Work BY <1>1, <1>2 DEF WorksOK
  <2> QED BY <2>1 DEF Work
<1>5. t.seen \in Nat /\ t.seen <= Len(reqs) /\ Clean(reqs, d, t.seen)
  BY <1>1, <1>2, <1>3 DEF TaskOK
<1>6. Len(reqs) < MaxReqs /\ reqs' = Append(reqs, q) BY DEF Bridge, Insert
<1>7. RowsOK(reqs') /\ Grows(reqs, reqs')
  <2>1. t.by \in Users BY <1>3
  <2> HIDE DEF d
  <2>2. q \in Request /\ q.title = d /\ q.seen = t.seen
    BY <1>4, <1>5, <2>1 DEF New, Request, RequestStatus
  <2> HIDE DEF q
  <2> QED BY <1>1, <1>5, <1>6, <2>2, RowAdded
<1>8. Claimed(t.work) \in OpenWork \cup {"done", "cancelled"} BY <1>1, <1>2, ClaimedIs
<1>9. works' = [works EXCEPT ![t.work] = [@ EXCEPT !.link = Len(reqs) + 1, !.status = Claimed(t.work)]]
  BY DEF Bridge
<1>10. Len(reqs) + 1 \in Nat BY <1>1
<1>11. WorksOK(works') /\ TitlesKept(works, works') BY <1>1, <1>2, <1>8, <1>9, <1>10, WorkChanged
<1>12. chat' = [u \in Users |-> chat'[u]] BY DEF IInv, Bridge
<1> QED BY <1>7, <1>11, <1>12, Keeps DEF Bridge, Swap

\* A reconciliation writes links to requests, and statuses a work item can have.
LEMMA ReconcileReadKeeps ==
  ASSUME IInv, ReconcileRead
  PROVE  IInv'
<1>1. RowsOK(reqs) /\ WorksOK(works) BY DEF IInv
<1>2. \A w \in OpenWorks : w \in Nat /\ LinkOf(w) \in Nat
  <2> TAKE w \in OpenWorks
  <2>1. w \in DOMAIN works BY DEF OpenWorks
  <2>2. works[w] \in Work /\ w \in Nat BY <1>1, <2>1 DEF WorksOK
  <2>3. works[w].link \in Nat BY <2>2 DEF Work
  <2>4. Newest(LiveReqs(works[w].title)) \in Nat BY <1>1, NewestIs
  <2> QED BY <2>2, <2>3, <2>4 DEF LinkOf
<1>3. PICK status \in [OpenWorks -> OpenWork \cup {"done"}] :
        \E changed \in SUBSET OpenWorks :
          tasks' = tasks \cup
            {[do |-> "reconcile",
              writes |-> {[work |-> w, link |-> LinkOf(w), status |-> status[w]] : w \in changed}]}
  <2>1. PICK status \in [OpenWorks -> OpenWork \cup {"done"}] :
          LET new(w) == [works[w] EXCEPT !.link = LinkOf(w), !.status = status[w]]
              changed == {w \in OpenWorks : new(w) # works[w]}
          IN  tasks' = tasks \cup
                {[do |-> "reconcile",
                  writes |-> {[work |-> w, link |-> LinkOf(w), status |-> status[w]] : w \in changed}]}
    BY Zenon DEF ReconcileRead
  <2>2. {w \in OpenWorks : [works[w] EXCEPT !.link = LinkOf(w), !.status = status[w]] # works[w]}
          \in SUBSET OpenWorks
    OBVIOUS
  <2> QED BY <2>1, <2>2, Zenon
<1>4. PICK changed \in SUBSET OpenWorks :
        tasks' = tasks \cup
          {[do |-> "reconcile",
            writes |-> {[work |-> w, link |-> LinkOf(w), status |-> status[w]] : w \in changed}]}
  BY <1>3
<1> DEFINE writes == {[work |-> w, link |-> LinkOf(w), status |-> status[w]] : w \in changed}
<1>5. writes \in SUBSET [work : Nat, link : Nat, status : OpenWork \cup {"done"}]
  BY <1>2, <1>3, <1>4
<1> HIDE DEF writes
<1>6. TaskOK(reqs, works, [do |-> "reconcile", writes |-> writes]) BY <1>5 DEF TaskOK, Task
<1>7. tasks' = tasks \cup {[do |-> "reconcile", writes |-> writes]} BY <1>4 DEF writes
<1> QED BY <1>6, <1>7, OnlyTasks DEF ReconcileRead

LEMMA ReconcileWriteKeeps ==
  ASSUME IInv, NEW t \in tasks, ReconcileWrite(t)
  PROVE  IInv'
<1>1. TaskOK(reqs, works, t) /\ WorksOK(works) BY DEF IInv
<1>2. t.do = "reconcile" BY DEF ReconcileWrite
<1>3. t.writes \in SUBSET [work : Nat, link : Nat, status : OpenWork \cup {"done"}]
  BY <1>1, <1>2 DEF TaskOK, Task
<1> DEFINE hit(w) == \E x \in t.writes : x.work = w
           pick(w) == CHOOSE x \in t.writes : x.work = w
           new(w) == IF hit(w) THEN [works[w] EXCEPT !.link = pick(w).link, !.status = pick(w).status]
                     ELSE works[w]
<1>4. works' = [w \in DOMAIN works |-> new(w)] BY Zenon DEF ReconcileWrite
<1>5. ASSUME NEW w \in DOMAIN works PROVE new(w) \in Work /\ new(w).title = works[w].title
  <2>1. works[w] \in Work BY <1>1 DEF WorksOK
  <2>2. CASE ~hit(w) BY <2>1, <2>2
  <2>3. CASE hit(w)
    <3>1. pick(w) \in t.writes BY <2>3, Zenon
    <3>2. pick(w) \in [work : Nat, link : Nat, status : OpenWork \cup {"done"}] BY <1>3, <3>1
    <3>3. new(w) = [works[w] EXCEPT !.link = pick(w).link, !.status = pick(w).status] BY <2>3
    <3> HIDE DEF pick, hit, new
    <3> QED BY <2>1, <3>2, <3>3 DEF Work
  <2> QED BY <2>2, <2>3
<1> HIDE DEF new
<1>6. works \in Seq(Work) /\ Len(works) \in Nat /\ DOMAIN works = 1..Len(works) BY <1>1 DEF WorksOK
<1>7. works' \in Seq(Work) /\ Len(works') = Len(works)
  BY <1>4, <1>5, <1>6
<1>8. WorksOK(works') BY <1>1, <1>7 DEF WorksOK
<1>9. TitlesKept(works, works') BY <1>4, <1>5 DEF TitlesKept
<1> QED BY <1>8, <1>9, OnlyWorks DEF ReconcileWrite, Swap

LEMMA CancelWorkKeeps ==
  ASSUME IInv, NEW w \in DOMAIN works, CancelWork(w)
  PROVE  IInv'
<1>1. WorksOK(works) /\ works[w] \in Work BY DEF IInv, WorksOK
<1>2. works[w].link \in Nat BY <1>1 DEF Work
<1>3. works' = [works EXCEPT ![w] = [@ EXCEPT !.link = works[w].link, !.status = "cancelled"]]
  <2>1. works' = [works EXCEPT ![w] = [works[w] EXCEPT !.status = "cancelled"]] BY DEF CancelWork
  <2>2. [works[w] EXCEPT !.status = "cancelled"]
          = [works[w] EXCEPT !.link = works[w].link, !.status = "cancelled"]
    BY <1>1 DEF Work
  <2> QED BY <2>1, <2>2
<1>4. WorksOK(works') /\ TitlesKept(works, works') BY <1>1, <1>2, <1>3, WorkChanged
<1> QED BY <1>4, OnlyWorks DEF CancelWork

LEMMA ConcludeKeeps ==
  ASSUME IInv, NEW r \in DOMAIN reqs, Conclude(r)
  PROVE  IInv'
<1>1. RowsOK(reqs) /\ reqs[r] \in Request BY RowSays DEF IInv
<1> DEFINE q == [reqs[r] EXCEPT !.status = "over"]
<1>2. q \in Request /\ q.title = reqs[r].title /\ q.seen = reqs[r].seen /\ q.status = "over"
  BY <1>1 DEF Request, RequestStatus
<1>3. reqs' = [reqs EXCEPT ![r] = q] BY DEF Conclude
<1> HIDE DEF q
<1>4. RowsOK(reqs') /\ Grows(reqs, reqs') BY <1>1, <1>2, <1>3, RowChanged
<1> QED BY <1>4, OnlyRows DEF Conclude

LEMMA ReviveKeeps ==
  ASSUME IInv, NEW r \in DOMAIN reqs, Revive(r)
  PROVE  IInv'
<1>1. RowsOK(reqs) /\ reqs[r] \in Request BY RowSays DEF IInv
<1> DEFINE q == [reqs[r] EXCEPT !.status = "live", !.back = TRUE]
<1>2. q \in Request /\ q.title = reqs[r].title /\ q.seen = reqs[r].seen /\ q.back
  BY <1>1 DEF Request, RequestStatus
<1>3. reqs' = [reqs EXCEPT ![r] = q] BY DEF Revive
<1> HIDE DEF q
<1>4. RowsOK(reqs') /\ Grows(reqs, reqs') BY <1>1, <1>2, <1>3, RowChanged
<1> QED BY <1>4, OnlyRows DEF Revive

LEMMA GoneKept ==
  ASSUME RowsOK(reqs), NEW r \in DOMAIN reqs
  PROVE  RowsOK([reqs EXCEPT ![r] = Gone(r)]) /\ Grows(reqs, [reqs EXCEPT ![r] = Gone(r)])
<1>1. reqs[r] \in Request BY RowSays
<1>2. Gone(r) \in Request /\ Gone(r).title = reqs[r].title /\ Gone(r).seen = NoCheck
      /\ Gone(r).status = "deleted"
  BY <1>1 DEF Gone, New, Request, RequestStatus, NoCheck
<1> QED BY <1>2, RowChanged

LEMMA DeleteKeeps ==
  ASSUME IInv, NEW r \in DOMAIN reqs, DeleteRequest(r)
  PROVE  IInv'
<1>1. RowsOK(reqs') /\ Grows(reqs, reqs') BY GoneKept DEF DeleteRequest, IInv
<1> QED BY <1>1, OnlyRows DEF DeleteRequest

LEMMA GrowsFurther ==
  ASSUME NEW rs, NEW mid, NEW new, Grows(rs, mid), Grows(mid, new)
  PROVE  Grows(rs, new)
<1>1. rs \in Seq(Request) /\ mid \in Seq(Request) /\ new \in Seq(Request)
      /\ Len(rs) <= Len(mid) /\ Len(mid) <= Len(new)
  BY DEF Grows
<1>2. \A i \in DOMAIN rs : i \in DOMAIN mid BY <1>1
<1>3. \A i \in DOMAIN rs :
        /\ new[i].title = rs[i].title
        /\ new[i].status = "live" /\ ~new[i].back => rs[i].status = "live" /\ ~rs[i].back
  BY <1>2 DEF Grows
<1> QED BY <1>1, <1>3 DEF Grows

LEMMA ReassignFreshKeeps ==
  ASSUME IInv, NEW r \in DOMAIN reqs, ReassignFresh(r)
  PROVE  IInv'
<1> DEFINE mid == [reqs EXCEPT ![r] = Gone(r)]
<1>1. RowsOK(mid) /\ Grows(reqs, mid) BY GoneKept DEF IInv
<1>2. reqs[r] \in Request /\ Len(mid) = Len(reqs) BY RowSays DEF IInv, RowsOK
<1>3. reqs[r].title \in Titles \cup {Anime} /\ reqs[r].by \in Users BY <1>2 DEF Request
<1>4. Len(mid) < MaxReqs /\ reqs' = Append(mid, New(reqs[r].title, reqs[r].by, "live", NoCheck))
  BY <1>2 DEF ReassignFresh
<1> HIDE DEF mid
<1>5. RowsOK(reqs') /\ Grows(mid, reqs') BY <1>1, <1>3, <1>4, Unchecked
<1>6. Grows(reqs, reqs') BY <1>1, <1>5, GrowsFurther
<1> QED BY <1>5, <1>6, OnlyRows DEF ReassignFresh

LEMMA LostKeeps ==
  ASSUME IInv, NEW t \in tasks, Lost(t)
  PROVE  IInv'
BY OnlyTasks DEF Lost, Swap

-----------------------------------------------------------------------------
(* The invariant *)

LEMMA InitIInv == Init => IInv
BY IntakeAssumption DEF Init, IInv, RowsOK, WorksOK, CardOK, Idle

LEMMA NextIInv == IInv /\ [Next]_vars => IInv'
<1> SUFFICES ASSUME IInv, [Next]_vars PROVE IInv'
  OBVIOUS
<1>1. CASE UNCHANGED vars BY <1>1, OnlyTasks DEF vars
<1>2. ASSUME NEW u \in Users, NEW d \in Titles,
             (\E named \in BOOLEAN : Search(u, d, named)) \/ Batch(u, d) \/ RedoWork(u, d)
      PROVE  IInv'
  BY <1>2, SearchKeeps, BatchKeeps, RedoWorkKeeps
<1>3. ASSUME NEW u \in Users, Tap(u) \/ Submit(u) PROVE IInv'
  BY <1>3, TapKeeps, SubmitKeeps
<1>4. ASSUME NEW u \in Users, NEW r \in DOMAIN reqs, Clear(u, r) PROVE IInv'
  BY <1>4, ClearKeeps
<1>5. ASSUME NEW u \in Users, NEW w \in DOMAIN works, Open(u, w) PROVE IInv'
  BY <1>5, OpenKeeps
<1>6. ASSUME NEW t \in tasks,
             \/ RedoRequest(t) \/ RedoLink(t) \/ Find(t) \/ Reuse(t) \/ Bridge(t)
             \/ ReconcileWrite(t) \/ Lost(t)
      PROVE  IInv'
  BY <1>6, RedoRequestKeeps, RedoLinkKeeps, FindKeeps, ReuseKeeps, BridgeKeeps,
     ReconcileWriteKeeps, LostKeeps
<1>7. ASSUME NEW w \in DOMAIN works, CancelWork(w) PROVE IInv'
  BY <1>7, CancelWorkKeeps
<1>8. ASSUME NEW r \in DOMAIN reqs,
             Queue(r) \/ Conclude(r) \/ Revive(r) \/ DeleteRequest(r) \/ ReassignFresh(r)
      PROVE  IInv'
  BY <1>8, QueueKeeps, ConcludeKeeps, ReviveKeeps, DeleteKeeps, ReassignFreshKeeps
<1> QED
  BY <1>1, <1>2, <1>3, <1>4, <1>5, <1>6, <1>7, <1>8, ReconcileReadKeeps, Zenon DEF Next

LEMMA Inductive == Spec => []IInv
BY InitIInv, NextIInv, PTL DEF Spec

-----------------------------------------------------------------------------
(* Theorems *)

\* Tables, chats and handlers have their types, and no request claims to have seen
\* itself or a later one.
THEOREM IntakeTypeCorrect == Spec => []TypeOK
<1>1. IInv => TypeOK
  BY DEF IInv, RowsOK, WorksOK, CardOK, TaskOK, TypeOK
<1> QED BY <1>1, Inductive, PTL

\* Two live requests of one title: the later was unchecked, or checked before the
\* earlier existed, or had missed a live one, or the earlier has come back.
THEOREM DuplicatesAreExplained == Spec => []DuplicatesExplained
<1>1. IInv => DuplicatesExplained
  <2> SUFFICES ASSUME IInv, NEW i \in DOMAIN reqs, NEW j \in DOMAIN reqs,
                      i < j, reqs[i].title = reqs[j].title, reqs[i].status = "live",
                      ~(reqs[j].seen < i)
               PROVE  reqs[i].back
    BY DEF DuplicatesExplained
  <2>1. Clean(reqs, reqs[j].title, reqs[j].seen) /\ reqs[j].seen \in Int
    BY RowSays DEF IInv
  <2>2. i \in Nat /\ i <= reqs[j].seen BY <2>1 DEF IInv, RowsOK
  <2> QED BY <2>1, <2>2 DEF Clean
<1> QED BY <1>1, Inductive, PTL

=============================================================================
