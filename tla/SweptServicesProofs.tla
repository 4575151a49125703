------------------------ MODULE SweptServicesProofs ------------------------
(***************************************************************************)
(* The two services that a sweep of the scheduler and the buttons of the   *)
(* staff work on at the same time: scheduled posts and shifts.             *)
(*                                                                         *)
(* ScheduledPosts for every set of requests and handlers and any number of *)
(* restarts: its types, that the sweep publishes a row once, whatever      *)
(* overlaps with it, that a request waits for one time unless two calls of *)
(* schedule met, and that a row that was called off is not swept, and none *)
(* is published twice, but for the crossings its history names.            *)
(*                                                                         *)
(* None of these is inductive.  A row is swept once because a row the      *)
(* sweep has selected, claimed or is publishing was not yet swept, and one *)
(* that was claimed is never pending again.  A schedule replaces the       *)
(* earlier one because what it has read is still all there is.  A row is   *)
(* published once because whoever holds it has taken it from pending, and  *)
(* no other writer did: that is FInv, kept relative to IInv.               *)
(***************************************************************************)
EXTENDS ScheduledPosts, ShiftDuty, FiniteSetTheorems, SequenceTheorems, TLAPS

-----------------------------------------------------------------------------
(* The invariant, of given rows ps, handlers act, claims cl *)

Scheduling(act) == {b \in Taps : act[b].pc = "schedule"}
Room(ps, act) == Len(ps) + Cardinality(Scheduling(act)) <= MaxPosts

\* The rows an actor speaks of exist; the sweep publishes rows only.
Sound(a, s, ps) ==
  /\ s \in Actor
  /\ s.pc \in {"now", "cancel", "record"} => s.post \in DOMAIN ps
  /\ s.pc \in {"publish", "clean", "clear"} => s.post \in DOMAIN ps \/ (s.post = 0 /\ a # Sweep)
  /\ s.pc \in {"schedule", "clear"} => s.seen \subseteq DOMAIN ps

Once(ps) == \A i \in DOMAIN ps : ps[i].swept <= 1 /\ (ps[i].status = "pending" => ps[i].swept = 0)

\* What the sweep, being at s, is going to publish was not published by it.
Ahead(s, ps, cl) ==
  /\ s.pc = "claim" => \A i \in s.seen : i \in DOMAIN ps /\ ps[i].swept = 0
  /\ cl \subseteq DOMAIN ps
  /\ \A i \in cl : ps[i].swept = 0 /\ ps[i].status # "pending"
  /\ s.pc = "publish" => ps[s.post].swept = 0 /\ s.post \notin cl
  /\ s.pc \in {"publish", "clean", "clear", "record"} => ps[s.post].status # "pending"

\* One row per request waits, and who is about to schedule has seen it and is alone,
\* but for the requests rc.
OneWaits(ps, rc) == \A i, j \in DOMAIN ps :
  (/\ ps[i].req = ps[j].req /\ ps[i].req \notin rc
   /\ ps[i].status = "pending" /\ ps[j].status = "pending") => i = j
HasSeen(s, ps, rc) == (s.pc = "schedule" /\ s.req \notin rc) =>
  \A i \in DOMAIN ps : (ps[i].req = s.req /\ ps[i].status = "pending") => i \in s.seen
Alone(act, rc) == \A t, u \in Taps :
  (/\ act[t].pc = "schedule" /\ act[u].pc = "schedule"
   /\ act[t].req = act[u].req /\ act[t].req \notin rc) => t = u

\* What a step may do to the history while no row is inserted.
HistOK == /\ off' \cup crossed' \cup anyhow' \subseteq DOMAIN posts
          /\ raced \subseteq raced' /\ raced' \subseteq Requests

\* The inductive invariant.
IInv ==
  /\ posts \in Seq(Post) /\ Room(posts, actor)
  /\ actor = [a \in Actors |-> actor[a]]
  /\ \A a \in Actors : Sound(a, actor[a], posts)
  /\ Once(posts) /\ Ahead(actor[Sweep], posts, claimed)
  /\ OneWaits(posts, raced) /\ Alone(actor, raced)
  /\ \A t \in Taps : HasSeen(actor[t], posts, raced)
  /\ off \cup crossed \cup anyhow \subseteq DOMAIN posts /\ raced \subseteq Requests
  /\ crashes \in 0..MaxCrashes

-----------------------------------------------------------------------------
(* Counting the handlers about to insert *)

LEMMA SchedulingFinite ==
  ASSUME NEW act
  PROVE  IsFiniteSet(Scheduling(act)) /\ Cardinality(Scheduling(act)) \in Nat
<1>1. Scheduling(act) \subseteq Taps BY DEF Scheduling
<1> QED BY <1>1, PostsAssumption, FS_Subset, FS_CardinalityType

\* One handler moves: the count changes by what it does.
LEMMA Counted ==
  ASSUME NEW act, act = [b \in Actors |-> act[b]], NEW a \in Actors, NEW to
  PROVE  LET new == [act EXCEPT ![a] = to]
             n == Cardinality(Scheduling(act))
             k == Cardinality(Scheduling(new))
         IN  /\ to.pc # "schedule" => k <= n
             /\ k <= n + 1
             /\ (to.pc # "schedule" /\ act[a].pc = "schedule" /\ a \in Taps) => k = n - 1
<1> DEFINE new == [act EXCEPT ![a] = to]
           S == Scheduling(act)
           T == Scheduling(new)
<1>1. new[a] = to /\ \A b \in Actors \ {a} : new[b] = act[b] OBVIOUS
<1> HIDE DEF new
<1>2. \A b \in Taps : b \in Actors BY DEF Actors
<1>3. T \subseteq S \cup {a} BY <1>1, <1>2 DEF Scheduling
<1>4. to.pc # "schedule" => T \subseteq S BY <1>1, <1>2 DEF Scheduling
<1>5. (to.pc # "schedule" /\ act[a].pc = "schedule" /\ a \in Taps) => T = S \ {a} /\ a \in S
  BY <1>1, <1>2 DEF Scheduling
<1>6. IsFiniteSet(S) /\ IsFiniteSet(T) /\ Cardinality(S) \in Nat /\ Cardinality(T) \in Nat
  BY SchedulingFinite
<1> HIDE DEF S, T
<1>7. IsFiniteSet(S \cup {a}) /\ Cardinality(S \cup {a}) <= Cardinality(S) + 1
      /\ Cardinality(S \cup {a}) \in Nat
  <2>1. /\ IsFiniteSet(S \cup {a})
        /\ Cardinality(S \cup {a}) = IF a \in S THEN Cardinality(S) ELSE Cardinality(S) + 1
    BY <1>6, FS_AddElement, Zenon
  <2> QED BY <2>1, <1>6
<1>8. Cardinality(T) <= Cardinality(S \cup {a}) BY <1>3, <1>7, FS_Subset
<1>9. Cardinality(T) <= Cardinality(S) + 1 BY <1>6, <1>7, <1>8
<1>10. to.pc # "schedule" => Cardinality(T) <= Cardinality(S) BY <1>4, <1>6, FS_Subset
<1>11. (to.pc # "schedule" /\ act[a].pc = "schedule" /\ a \in Taps)
          => Cardinality(T) = Cardinality(S) - 1
  BY <1>5, <1>6, FS_RemoveElement
<1> QED BY <1>9, <1>10, <1>11 DEF new, S, T

-----------------------------------------------------------------------------
(* How rows change *)

\* No row comes, goes or waits again.
Same(ps, qs) ==
  /\ qs \in Seq(Post) /\ DOMAIN qs = DOMAIN ps /\ Len(qs) = Len(ps)
  /\ \A i \in DOMAIN ps : /\ qs[i].req = ps[i].req
                          /\ qs[i].status = "pending" => ps[i].status = "pending"

Unswept(ps, qs) == \A i \in DOMAIN ps : qs[i].swept = ps[i].swept

LEMMA MarkedSame ==
  ASSUME posts \in Seq(Post), NEW S, NEW new \in Settled \cup {"publishing"}
  PROVE  /\ Same(posts, Marked(S, new)) /\ Unswept(posts, Marked(S, new))
         /\ \A i \in DOMAIN posts : i \in S => Marked(S, new)[i].status = new
<1>1. \A i \in DOMAIN posts : posts[i] \in Post OBVIOUS
<1>2. \A i \in DOMAIN posts : /\ Marked(S, new)[i] \in Post
                             /\ Marked(S, new)[i].req = posts[i].req
                             /\ Marked(S, new)[i].swept = posts[i].swept
                             /\ Marked(S, new)[i].status = IF i \in S THEN new ELSE posts[i].status
  BY <1>1 DEF Marked, Post, Settled
<1>3. Marked(S, new) \in Seq(Post) /\ Len(Marked(S, new)) = Len(posts)
      /\ DOMAIN Marked(S, new) = DOMAIN posts
  <2>1. Marked(S, new) \in [1..Len(posts) -> Post] BY <1>2 DEF Marked
  <2> QED BY <2>1
<1>4. new # "pending" BY DEF Settled
<1> QED BY <1>2, <1>3, <1>4 DEF Same, Unswept

LEMMA SameKeepsOne ==
  ASSUME NEW ps, NEW qs, Same(ps, qs)
  PROVE  /\ \A rc : OneWaits(ps, rc) => OneWaits(qs, rc)
         /\ \A s, rc : HasSeen(s, ps, rc) => HasSeen(s, qs, rc)
         /\ \A a, s : Sound(a, s, ps) => Sound(a, s, qs)
<1>1. \A rc : OneWaits(ps, rc) => OneWaits(qs, rc) BY DEF Same, OneWaits
<1>2. \A s, rc : HasSeen(s, ps, rc) => HasSeen(s, qs, rc) BY DEF Same, HasSeen
<1>3. \A a, s : Sound(a, s, ps) => Sound(a, s, qs) BY DEF Same, Sound
<1> QED BY <1>1, <1>2, <1>3

\* Rows not swept meanwhile stay unpublished by the sweep.
LEMMA UnsweptKeepsAhead ==
  ASSUME NEW ps, NEW qs, Same(ps, qs), Unswept(ps, qs)
  PROVE  /\ Once(ps) => Once(qs)
         /\ \A s, cl : (Sound(Sweep, s, ps) /\ Ahead(s, ps, cl)) => Ahead(s, qs, cl)
<1>1. Once(ps) => Once(qs) BY DEF Same, Unswept, Once
<1>2. ASSUME NEW s, NEW cl, Sound(Sweep, s, ps), Ahead(s, ps, cl)
      PROVE Ahead(s, qs, cl)
  BY <1>2 DEF Same, Unswept, Ahead, Sound
<1> QED BY <1>1, <1>2

-----------------------------------------------------------------------------
(* One actor moves and no row is inserted *)

LEMMA Moved ==
  ASSUME IInv, NEW a \in Actors, NEW to,
         actor' = [actor EXCEPT ![a] = to], crashes' = crashes,
         Same(posts, posts'), Sound(a, to, posts),
         Once(posts'),
         a = Sweep => Ahead(to, posts', claimed'),
         a # Sweep => claimed' = claimed /\ Unswept(posts, posts'),
         HistOK,
         to.pc = "schedule" => /\ a \in Taps /\ HasSeen(to, posts, raced')
                               /\ \A b \in Taps : (actor[b].pc = "schedule" /\ actor[b].req = to.req)
                                                    => to.req \in raced'
                               /\ Len(posts) + Cardinality(Scheduling(actor)) < MaxPosts
  PROVE  IInv'
<1>1. actor'[a] = to /\ \A b \in Actors \ {a} : actor'[b] = actor[b] BY DEF IInv
<1>2. actor' = [b \in Actors |-> actor'[b]] BY DEF IInv
<1>3. \A b \in Actors : Sound(b, actor'[b], posts')
  BY <1>1, SameKeepsOne DEF IInv
<1>4. Ahead(actor'[Sweep], posts', claimed')
  <2>1. Sweep \in Actors BY DEF Actors
  <2>2. CASE a = Sweep BY <2>2, <1>1
  <2>3. CASE a # Sweep
    <3>1. Ahead(actor[Sweep], posts, claimed) /\ Sound(Sweep, actor[Sweep], posts)
      BY <2>1 DEF IInv
    <3>2. Ahead(actor[Sweep], posts', claimed)
      BY <3>1, <2>3, UnsweptKeepsAhead
    <3> QED BY <3>2, <2>1, <2>3, <1>1
  <2> QED BY <2>2, <2>3
<1>5. /\ OneWaits(posts', raced') /\ Alone(actor', raced')
      /\ \A t \in Taps : HasSeen(actor'[t], posts', raced')
  <2>1. OneWaits(posts, raced') BY DEF IInv, HistOK, OneWaits
  <2>2. ASSUME NEW t \in Taps PROVE HasSeen(actor'[t], posts, raced')
    <3>1. t \in Actors BY DEF Actors
    <3>2. CASE t # a
      <4>1. HasSeen(actor[t], posts, raced) BY DEF IInv
      <4>2. actor'[t] = actor[t] BY <3>1, <3>2, <1>1
      <4> QED BY <4>1, <4>2 DEF HasSeen, HistOK
    <3>3. CASE t = a BY <3>1, <3>3, <1>1 DEF HasSeen
    <3> QED BY <3>2, <3>3
  <2>3. Alone(actor', raced')
    <3>1. Alone(actor, raced') BY DEF IInv, HistOK, Alone
    <3>2. \A t \in Taps : t \in Actors BY DEF Actors
    <3> QED BY <3>1, <3>2, <1>1 DEF Alone
  <2> QED BY <2>1, <2>2, <2>3, SameKeepsOne
<1>6. Room(posts', actor')
  <2> DEFINE n == Cardinality(Scheduling(actor))
             k == Cardinality(Scheduling(actor'))
  <2>1. /\ to.pc # "schedule" => k <= n
        /\ k <= n + 1
    BY Counted DEF IInv
  <2>2. n \in Nat /\ k \in Nat BY SchedulingFinite
  <2>3. Len(posts) + n <= MaxPosts /\ Len(posts') = Len(posts) /\ Len(posts) \in Nat
    BY DEF IInv, Room, Same
  <2> HIDE DEF n, k
  <2>4. Len(posts) + k <= MaxPosts
    <3>0. to.pc = "schedule" => Len(posts) + n < MaxPosts BY DEF n
    <3>1. MaxPosts \in Nat BY PostsAssumption
    <3>2. CASE to.pc = "schedule" BY <3>0, <3>1, <3>2, <2>1, <2>2, <2>3
    <3>3. CASE to.pc # "schedule" BY <3>1, <3>3, <2>1, <2>2, <2>3
    <3> QED BY <3>2, <3>3
  <2> QED BY <2>3, <2>4 DEF k, Room
<1>7. posts' \in Seq(Post) BY DEF Same
<1>8. off' \cup crossed' \cup anyhow' \subseteq DOMAIN posts' /\ raced' \subseteq Requests
  BY DEF HistOK, Same
<1> QED BY <1>2, <1>3, <1>4, <1>5, <1>6, <1>7, <1>8 DEF IInv

\* The history is as it was, or a commit has cancelled rows that there are.
LEMMA Untouched == ASSUME IInv, UNCHANGED history PROVE HistOK
BY DEF IInv, HistOK, history

LEMMA Called ==
  ASSUME IInv, NEW S, S \subseteq DOMAIN posts, CallsOff(S)
  PROVE  HistOK
BY DEF IInv, HistOK, CallsOff, Overtaken

-----------------------------------------------------------------------------
(* What an actor's place says about its record *)

LEMMA Reads ==
  ASSUME NEW s \in Actor
  PROVE  /\ s.pc = "schedule" => s.req \in Requests /\ s.seen \in SUBSET (1..MaxPosts)
         /\ s.pc = "now" => s.post \in 1..MaxPosts
         /\ s.pc = "cancel" => s.post \in 1..MaxPosts /\ s.send \in BOOLEAN
         /\ s.pc = "publish" => /\ s.req \in Requests /\ s.post \in 0..MaxPosts
                               /\ [s EXCEPT !.pc = "clean"] = [pc |-> "clean", req |-> s.req, post |-> s.post]
         /\ s.pc = "clean" => s.req \in Requests /\ s.post \in 0..MaxPosts
         /\ s.pc = "clear" => s.req \in Requests /\ s.post \in 0..MaxPosts
         /\ s.pc = "claim" => s.seen \in SUBSET (1..MaxPosts)
         /\ s.pc = "record" => s.post \in 1..MaxPosts /\ s.outcome \in {"published", "failed"}
BY DEF Actor, Idle

LEMMA Rows ==
  ASSUME IInv
  PROVE  /\ posts \in Seq(Post) /\ Len(posts) \in Nat /\ Len(posts) <= MaxPosts
         /\ DOMAIN posts = 1..Len(posts) /\ DOMAIN posts \subseteq 1..MaxPosts
         /\ \A i \in DOMAIN posts : posts[i] \in Post
         /\ Same(posts, posts) /\ Unswept(posts, posts) /\ Once(posts)
         /\ MaxPosts \in Nat
<1>1. posts \in Seq(Post) /\ Len(posts) \in Nat /\ DOMAIN posts = 1..Len(posts)
      /\ MaxPosts \in Nat
  BY PostsAssumption DEF IInv
<1>2. Len(posts) <= MaxPosts
  <2> DEFINE n == Cardinality(Scheduling(actor))
  <2>1. n \in Nat /\ Len(posts) + n <= MaxPosts BY SchedulingFinite DEF IInv, Room
  <2> HIDE DEF n
  <2> QED BY <2>1, <1>1
<1>3. \A i \in DOMAIN posts : posts[i] \in Post BY <1>1
<1>4. Same(posts, posts) /\ Unswept(posts, posts) BY <1>1 DEF Same, Unswept
<1> QED BY <1>1, <1>2, <1>3, <1>4 DEF IInv

LEMMA IdleSound == \A a : Sound(a, Idle, posts)
BY DEF Sound, Idle, Actor

LEMMA IdleAhead ==
  ASSUME IInv PROVE Ahead(Idle, posts, claimed)
BY DEF IInv, Ahead, Idle

LEMMA Present == Sweep \in Actors /\ Taps \subseteq Actors /\ Sweep \notin Taps
BY PostsAssumption DEF Actors

LEMMA Places ==
  ASSUME IInv, NEW a \in Actors
  PROVE  /\ Sound(a, actor[a], posts) /\ actor[a] \in Actor
         /\ Ahead(actor[Sweep], posts, claimed)
BY DEF IInv, Sound

-----------------------------------------------------------------------------
(* The handlers *)

LEMMA ScheduleReadKeeps ==
  ASSUME IInv, NEW t \in Taps, NEW r \in Requests, ScheduleRead(t, r) PROVE IInv'
<1> DEFINE to == [pc |-> "schedule", req |-> r, seen |-> Pending(r)]
<1>0. t \in Actors /\ t # Sweep BY Places, Present DEF Actors
<1>1. actor' = [actor EXCEPT ![t] = to] /\ posts' = posts /\ claimed' = claimed /\ crashes' = crashes
      /\ Len(posts) + Cardinality(Scheduling(actor)) < MaxPosts
  BY DEF ScheduleRead, Goes, Scheduling
<1>h. HistOK BY DEF ScheduleRead, IInv, HistOK
<1>m. \A b \in Taps : (actor[b].pc = "schedule" /\ actor[b].req = r) => r \in raced'
  BY DEF ScheduleRead, AtSchedule
<1>2. Pending(r) \in SUBSET (1..MaxPosts) BY Rows DEF Pending
<1>3. to \in Actor BY <1>2 DEF Actor
<1>4. Sound(t, to, posts) BY <1>3 DEF Sound, Pending
<1>5. HasSeen(to, posts, raced') BY DEF HasSeen, Pending
<1>6. to.req = r /\ to.pc = "schedule" OBVIOUS
<1> HIDE DEF to
<1> QED BY <1>0, <1>1, <1>4, <1>5, <1>6, <1>h, <1>m, Rows, Moved

LEMMA ScheduleWriteKeeps ==
  ASSUME IInv, NEW t \in Taps, ScheduleWrite(t) PROVE IInv'
<1> DEFINE s  == actor[t]
           ps == Marked(s.seen, "cancelled")
           x  == [req |-> s.req, status |-> "pending", due |-> FALSE, swept |-> 0, sent |-> 0]
<1>0. t \in Actors /\ t # Sweep BY Places, Present DEF Actors
<1>1. /\ actor' = [actor EXCEPT ![t] = Idle] /\ posts' = Append(ps, x)
      /\ claimed' = claimed /\ crashes' = crashes /\ s.pc = "schedule"
      /\ CallsOff(s.seen)
  BY DEF ScheduleWrite, Goes
<1>2. Same(posts, ps) /\ Unswept(posts, ps)
      /\ \A i \in DOMAIN posts : i \in s.seen => ps[i].status = "cancelled"
  BY Rows, MarkedSame DEF Settled
<1>3. x \in Post
  <2>1. s.req \in Requests BY <1>0, <1>1, Places, Present, Reads
  <2>2. 0 \in 0..MaxFires BY PostsAssumption
  <2> QED BY <2>1, <2>2 DEF Post
<1>4. ps \in Seq(Post) /\ Len(ps) = Len(posts) /\ DOMAIN ps = DOMAIN posts BY <1>2 DEF Same
<1>5. x.status = "pending" /\ x.req = s.req /\ x.swept = 0 OBVIOUS
<1> HIDE DEF ps, x
<1>6. /\ posts' \in Seq(Post) /\ Len(posts') = Len(posts) + 1
      /\ DOMAIN posts' = DOMAIN ps \cup {Len(posts) + 1}
      /\ \A i \in DOMAIN ps : posts'[i] = ps[i]
      /\ posts'[Len(posts) + 1] = x
  <2>1. posts' \in Seq(Post) /\ Len(posts') = Len(ps) + 1
        /\ (\A i \in 1..Len(ps) : posts'[i] = ps[i])
        /\ posts'[Len(ps) + 1] = x
    BY <1>1, <1>3, <1>4
  <2>2. DOMAIN posts' = 1..(Len(posts) + 1)
    <3>1. DOMAIN posts' = 1..Len(posts') BY <2>1
    <3> QED BY <3>1, <2>1, <1>4
  <2>3. DOMAIN ps = 1..Len(ps) /\ DOMAIN ps = 1..Len(posts) BY <1>4, Rows
  <2>4. 1..(Len(posts) + 1) = 1..Len(posts) \cup {Len(posts) + 1} BY Rows
  <2>5. DOMAIN posts' = DOMAIN ps \cup {Len(posts) + 1} BY <2>2, <2>3, <2>4, Zenon
  <2>6. \A i \in DOMAIN ps : posts'[i] = ps[i] BY <2>1, <2>3
  <2> QED BY <2>1, <2>5, <2>6, <1>4
<1>7. actor'[t] = Idle /\ (\A b \in Actors \ {t} : actor'[b] = actor[b])
      /\ actor' = [b \in Actors |-> actor'[b]]
  BY <1>0, <1>1 DEF IInv
<1>8. Room(posts', actor')
  <2> DEFINE n == Cardinality(Scheduling(actor))
             k == Cardinality(Scheduling(actor'))
  <2>1. k = n - 1
    BY Counted, <1>0, <1>1 DEF IInv, Idle
  <2>2. n \in Nat /\ Len(posts) + n <= MaxPosts /\ Len(posts) \in Nat
    BY SchedulingFinite, Rows DEF IInv, Room
  <2> HIDE DEF n, k
  <2>3. Len(posts) + 1 + k <= MaxPosts BY <2>1, <2>2, Rows
  <2> QED BY <2>3, <1>6 DEF k, Room
<1>9. \A b \in Actors : Sound(b, actor'[b], posts')
  <2>1. \A b \in Actors : Sound(b, actor'[b], posts)
    BY <1>7, IdleSound DEF IInv
  <2> QED BY <2>1, <1>4, <1>6 DEF Sound
<1>10. Once(posts') /\ Ahead(actor'[Sweep], posts', claimed')
  <2>1. Sweep \in Actors /\ Once(posts) BY Rows DEF Actors
  <2>2. Once(ps) /\ Ahead(actor[Sweep], ps, claimed) /\ Sound(Sweep, actor[Sweep], ps)
    BY <1>2, <2>1, UnsweptKeepsAhead, SameKeepsOne DEF IInv
  <2>3. Once(posts') BY <2>2, <1>5, <1>6 DEF Once
  <2>4. Ahead(actor[Sweep], posts', claimed) /\ actor'[Sweep] = actor[Sweep]
    <3>1. Ahead(actor[Sweep], posts', claimed)
      <4>1. Sweep \in Actors /\ (actor[Sweep].pc \in {"publish", "clean", "clear", "record"}
                                         => actor[Sweep].post \in DOMAIN ps)
        <5>1. \A i \in DOMAIN ps : i # 0 BY <1>4, Rows
        <5> QED BY <2>1, <2>2, <5>1 DEF Sound
      <4> QED BY <4>1, <2>2, <1>6 DEF Ahead
    <3> QED BY <3>1, <2>1, <1>0, <1>7
  <2> QED BY <2>3, <2>4, <1>1
<1>11. /\ OneWaits(posts', raced') /\ Alone(actor', raced')
       /\ \A b \in Taps : HasSeen(actor'[b], posts', raced')
  <2>0. raced' = raced BY <1>1 DEF CallsOff
  <2>1. \A b \in Taps : b # t => actor'[b] = actor[b] BY <1>7, Present
  <2>2. OneWaits(ps, raced) BY <1>2, SameKeepsOne DEF IInv
  <2>3. s.req \notin raced => \A i \in DOMAIN ps : ~(ps[i].req = s.req /\ ps[i].status = "pending")
    BY <1>1, <1>2 DEF IInv, HasSeen, Same
  <2>4. OneWaits(posts', raced)
    BY <2>2, <2>3, <1>5, <1>6 DEF OneWaits
  <2>5. Alone(actor', raced)
    <3>1. Alone(actor, raced) BY DEF IInv
    <3>2. actor'[t].pc # "schedule" BY <1>7 DEF Idle
    <3> QED BY <3>1, <3>2, <2>1 DEF Alone
  <2>6. ASSUME NEW b \in Taps PROVE HasSeen(actor'[b], posts', raced)
    <3>1. CASE b = t BY <3>1, <1>7 DEF HasSeen, Idle
    <3>2. CASE b # t
      <4>1. actor'[b] = actor[b] BY <3>2, <2>1
      <4>2. HasSeen(actor[b], ps, raced) BY <1>2, SameKeepsOne DEF IInv
      <4>3. actor[b].pc = "schedule" /\ actor[b].req \notin raced => actor[b].req # s.req
        BY <3>2, <1>1 DEF IInv, Alone
      <4> QED BY <4>1, <4>2, <4>3, <1>5, <1>6 DEF HasSeen
    <3> QED BY <3>1, <3>2
  <2> QED BY <2>0, <2>4, <2>5, <2>6
<1>12. off' \cup crossed' \cup anyhow' \subseteq DOMAIN posts' /\ raced' \subseteq Requests
  <2>1. s.seen \subseteq DOMAIN posts BY <1>0, <1>1, Places, Present DEF Sound
  <2> QED BY <2>1, <1>1, <1>4, <1>6 DEF CallsOff, Overtaken, IInv
<1> QED BY <1>1, <1>6, <1>7, <1>8, <1>9, <1>10, <1>11, <1>12 DEF IInv

\* A button's handler that writes no schedule: any outcome that is no place of the sweep.
LEMMA TapMoves ==
  ASSUME IInv, NEW t \in Taps, NEW to, Sound(t, to, posts), to.pc # "schedule",
         actor' = [actor EXCEPT ![t] = to], claimed' = claimed, crashes' = crashes,
         Same(posts, posts'), Unswept(posts, posts'), HistOK
  PROVE  IInv'
<1>1. t \in Actors /\ t # Sweep BY Places, Present DEF Actors
<1>2. Once(posts') BY UnsweptKeepsAhead, Rows
<1> QED BY <1>1, <1>2, Moved

LEMMA CancelReadKeeps ==
  ASSUME IInv, NEW t \in Taps, NEW i \in DOMAIN posts, CancelRead(t, i) PROVE IInv'
<1> DEFINE to == [pc |-> "cancel", post |-> i, send |-> FALSE]
<1>1. actor' = [actor EXCEPT ![t] = to] /\ posts' = posts /\ claimed' = claimed /\ crashes' = crashes
  BY DEF CancelRead, Goes
<1>2. i \in 1..MaxPosts BY Rows
<1>3. to \in Actor BY <1>2 DEF Actor
<1>4. Sound(t, to, posts) /\ to.pc # "schedule" BY <1>3 DEF Sound
<1> HIDE DEF to
<1>h. HistOK BY Untouched DEF CancelRead
<1> QED BY <1>h, <1>1, <1>4, Rows, TapMoves

LEMMA SendLookKeeps ==
  ASSUME IInv, NEW t \in Taps, NEW i \in DOMAIN posts, SendLook(t, i) PROVE IInv'
<1> DEFINE to == [pc |-> "now", post |-> i]
<1>1. actor' = [actor EXCEPT ![t] = to] /\ posts' = posts /\ claimed' = claimed /\ crashes' = crashes
  BY DEF SendLook, Goes
<1>2. i \in 1..MaxPosts BY Rows
<1>3. to \in Actor BY <1>2 DEF Actor
<1>4. Sound(t, to, posts) /\ to.pc # "schedule" BY <1>3 DEF Sound
<1> HIDE DEF to
<1>h. HistOK BY Untouched DEF SendLook
<1> QED BY <1>h, <1>1, <1>4, Rows, TapMoves

\* On the way to a publish of an existing row.
LEMMA ToPublish ==
  ASSUME IInv, NEW a, NEW i \in DOMAIN posts
  PROVE  Sound(a, [pc |-> "publish", req |-> posts[i].req, post |-> i], posts)
<1>1. posts[i].req \in Requests /\ i \in 0..MaxPosts BY Rows DEF Post
<1>2. [pc |-> "publish", req |-> posts[i].req, post |-> i] \in Actor BY <1>1 DEF Actor
<1> QED BY <1>2 DEF Sound

LEMMA SendCancelReadKeeps ==
  ASSUME IInv, NEW t \in Taps, SendCancelRead(t) PROVE IInv'
<1> DEFINE i  == actor[t].post
           to == IF posts[i].status = "pending"
                 THEN [pc |-> "cancel", post |-> i, send |-> TRUE]
                 ELSE [pc |-> "publish", req |-> posts[i].req, post |-> i]
<1>1. /\ actor' = [actor EXCEPT ![t] = to] /\ posts' = posts /\ claimed' = claimed
      /\ crashes' = crashes /\ actor[t].pc = "now"
  BY DEF SendCancelRead, Goes
<1>2. i \in DOMAIN posts /\ i \in 1..MaxPosts BY <1>1, Places, Present, Reads, Rows DEF Sound, Actors
<1>3. [pc |-> "cancel", post |-> i, send |-> TRUE] \in Actor BY <1>2 DEF Actor
<1>4. Sound(t, [pc |-> "cancel", post |-> i, send |-> TRUE], posts) BY <1>2, <1>3 DEF Sound
<1>5. Sound(t, to, posts) /\ to.pc # "schedule" BY <1>2, <1>4, ToPublish
<1>h. HistOK BY <1>2 DEF SendCancelRead, IInv, HistOK, Overtaken
<1> HIDE DEF to
<1> QED BY <1>1, <1>5, <1>h, Rows, TapMoves

LEMMA CancelWriteKeeps ==
  ASSUME IInv, NEW t \in Taps, CancelWrite(t) PROVE IInv'
<1> DEFINE i  == actor[t].post
           to == IF actor[t].send
                 THEN [pc |-> "publish", req |-> posts[i].req, post |-> i]
                 ELSE Idle
<1>1. /\ actor' = [actor EXCEPT ![t] = to] /\ posts' = Marked({i}, "cancelled") /\ claimed' = claimed
      /\ crashes' = crashes /\ actor[t].pc = "cancel"
  BY DEF CancelWrite, Goes
<1>2. i \in DOMAIN posts BY <1>1, Places, Present DEF Sound, Actors
<1>3. Sound(t, to, posts) /\ to.pc # "schedule" BY <1>2, ToPublish, IdleSound DEF Idle
<1>4. Same(posts, posts') /\ Unswept(posts, posts')
  BY <1>1, Rows, MarkedSame DEF Settled
<1>h. HistOK
  <2>1. CallsOff({i}) /\ {i} \subseteq DOMAIN posts BY <1>2 DEF CancelWrite
  <2> QED BY <2>1, Called
<1> HIDE DEF to
<1> QED BY <1>1, <1>3, <1>4, <1>h, TapMoves

LEMMA PublishButtonKeeps ==
  ASSUME IInv, NEW t \in Taps, NEW r \in Requests, PublishButton(t, r) PROVE IInv'
<1> DEFINE to == [pc |-> "publish", req |-> r, post |-> 0]
<1>1. actor' = [actor EXCEPT ![t] = to] /\ posts' = posts /\ claimed' = claimed /\ crashes' = crashes
  BY DEF PublishButton, Goes
<1>2. 0 \in 0..MaxPosts /\ t # Sweep BY PostsAssumption
<1>3. to \in Actor BY <1>2 DEF Actor
<1>4. Sound(t, to, posts) /\ to.pc # "schedule" BY <1>2, <1>3 DEF Sound
<1> HIDE DEF to
<1>h. HistOK BY Untouched DEF PublishButton
<1> QED BY <1>h, <1>1, <1>4, Rows, TapMoves

-----------------------------------------------------------------------------
(* A publish, by a handler or by the sweep *)

\* An actor at an outcome of a publish: nothing is ahead of it but what is claimed.
LEMMA Outcome ==
  ASSUME IInv, NEW a \in Actors, NEW to, Sound(a, to, posts),
         to.pc \notin {"schedule", "claim", "publish"},
         to.pc \in {"clean", "clear", "record"} /\ a = Sweep =>
           actor[a].pc \in {"publish", "clean", "clear", "record"} /\ to.post = actor[a].post,
         actor' = [actor EXCEPT ![a] = to], claimed' = claimed, crashes' = crashes,
         Same(posts, posts'), Unswept(posts, posts'), HistOK
  PROVE  IInv'
<1>1. Once(posts') BY UnsweptKeepsAhead, Rows
<1>2. a = Sweep => Ahead(to, posts', claimed')
  <2> SUFFICES ASSUME a = Sweep PROVE Ahead(to, posts', claimed') OBVIOUS
  <2>1. Ahead(actor[Sweep], posts', claimed) BY Places, Present, UnsweptKeepsAhead
  <2> QED BY <2>1 DEF Ahead
<1> QED BY <1>1, <1>2, Moved

LEMMA AfterPublishSound ==
  ASSUME IInv, NEW a \in Actors, actor[a].pc \in {"publish", "clean", "clear"},
         NEW outcome \in {"published", "failed"}
  PROVE  LET to == AfterPublish(a, actor[a].post, outcome)
         IN  /\ Sound(a, to, posts) /\ to.pc \notin {"schedule", "claim", "publish"}
             /\ to.pc \in {"clean", "clear", "record"} => to.post = actor[a].post
<1> DEFINE i == actor[a].post
<1>1. CASE a = Sweep
  <2>1. i \in DOMAIN posts /\ i \in 1..MaxPosts BY <1>1, Places, Present, Rows DEF Sound
  <2>2. [pc |-> "record", post |-> i, outcome |-> outcome] \in Actor BY <2>1 DEF Actor
  <2>3. Sound(a, [pc |-> "record", post |-> i, outcome |-> outcome], posts)
    BY <2>1, <2>2 DEF Sound
  <2> QED BY <1>1, <2>3 DEF AfterPublish
<1>2. CASE a # Sweep BY <1>2, IdleSound DEF AfterPublish, Idle
<1> QED BY <1>1, <1>2

LEMMA PublishFailsKeeps ==
  ASSUME IInv, NEW a \in Actors, PublishFails(a) PROVE IInv'
<1>1. /\ actor' = [actor EXCEPT ![a] = AfterPublish(a, actor[a].post, "failed")]
      /\ posts' = posts /\ claimed' = claimed /\ crashes' = crashes /\ actor[a].pc \in {"publish", "clean"}
  BY DEF PublishFails, Goes
<1>h. HistOK BY Untouched DEF PublishFails
<1> QED BY <1>h, <1>1, AfterPublishSound, Rows, Outcome

LEMMA CleanFailsKeeps ==
  ASSUME IInv, NEW a \in Actors, CleanFails(a) PROVE IInv'
<1>1. /\ actor' = [actor EXCEPT ![a] = AfterPublish(a, actor[a].post, "published")]
      /\ posts' = posts /\ claimed' = claimed /\ crashes' = crashes /\ actor[a].pc \in {"clean", "clear"}
  BY DEF CleanFails, Goes
<1>h. HistOK BY Untouched DEF CleanFails
<1> QED BY <1>h, <1>1, AfterPublishSound, Rows, Outcome

LEMMA CleanReadKeeps ==
  ASSUME IInv, NEW a \in Actors, CleanRead(a) PROVE IInv'
<1> DEFINE s  == actor[a]
           to == [pc |-> "clear", req |-> s.req, post |-> s.post, seen |-> Pending(s.req)]
<1>1. /\ actor' = [actor EXCEPT ![a] = to]
      /\ posts' = posts /\ claimed' = claimed /\ crashes' = crashes /\ s.pc = "clean"
  BY DEF CleanRead, Goes
<1>2. Pending(s.req) \in SUBSET (1..MaxPosts) BY Rows DEF Pending
<1>3. s.req \in Requests /\ s.post \in 0..MaxPosts BY <1>1, Places, Present, Reads
<1>4. to \in Actor BY <1>2, <1>3 DEF Actor
<1>5. Sound(a, to, posts) /\ to.pc = "clear" /\ to.post = s.post BY <1>1, <1>4, Places, Present DEF Sound, Pending
<1> HIDE DEF to
<1>h. HistOK BY Untouched DEF CleanRead
<1> QED BY <1>h, <1>1, <1>5, Rows, Outcome

LEMMA CleanWriteKeeps ==
  ASSUME IInv, NEW a \in Actors, CleanWrite(a) PROVE IInv'
<1>1. /\ actor' = [actor EXCEPT ![a] = AfterPublish(a, actor[a].post, "published")]
      /\ posts' = Marked(actor[a].seen, "cancelled") /\ claimed' = claimed /\ crashes' = crashes
      /\ actor[a].pc = "clear"
  BY DEF CleanWrite, Goes
<1>2. Same(posts, posts') /\ Unswept(posts, posts') BY <1>1, Rows, MarkedSame DEF Settled
<1>h. HistOK
  <2>1. CallsOff(actor[a].seen) /\ actor[a].seen \subseteq DOMAIN posts
    BY <1>1, Places DEF CleanWrite, Sound
  <2> QED BY <2>1, Called
<1> QED BY <1>h, <1>1, <1>2, AfterPublishSound, Outcome

LEMMA CountedRow ==
  ASSUME NEW x \in Post
  PROVE  /\ x.swept < MaxFires => [x EXCEPT !.swept = x.swept + 1] \in Post
         /\ x.sent < MaxFires => [x EXCEPT !.sent = x.sent + 1] \in Post
<1>1. x.swept < MaxFires => x.swept + 1 \in 0..MaxFires BY PostsAssumption DEF Post
<1>2. x.sent < MaxFires => x.sent + 1 \in 0..MaxFires BY PostsAssumption DEF Post
<1>3. \A k \in 0..MaxFires : [x EXCEPT !.swept = k] \in Post /\ [x EXCEPT !.sent = k] \in Post
  BY DEF Post
<1> QED BY <1>1, <1>2, <1>3

\* The publish itself: the row is counted, and only the sweep's count matters.
LEMMA PublishOkKeeps ==
  ASSUME IInv, NEW a \in Actors, PublishOk(a) PROVE IInv'
<1> DEFINE s  == actor[a]
           i  == s.post
           to == [s EXCEPT !.pc = "clean"]
<1>1. /\ actor' = [actor EXCEPT ![a] = to] /\ claimed' = claimed /\ crashes' = crashes
      /\ s.pc = "publish"
      /\ i # 0 => IF a = Sweep THEN posts[i].swept < MaxFires ELSE posts[i].sent < MaxFires
      /\ posts' = IF i = 0 THEN posts
                  ELSE IF a = Sweep THEN [posts EXCEPT ![i].swept = @ + 1]
                  ELSE [posts EXCEPT ![i].sent = @ + 1]
  BY DEF PublishOk, Goes
<1>2. to = [pc |-> "clean", req |-> s.req, post |-> s.post] /\ s.req \in Requests
      /\ i \in 0..MaxPosts
  BY <1>1, Places, Present, Reads
<1>3. i \in DOMAIN posts \/ (i = 0 /\ a # Sweep) BY <1>1, Places, Present DEF Sound
<1>4. to \in Actor BY <1>2 DEF Actor
<1>5. Sound(a, to, posts) /\ to.pc = "clean" BY <1>2, <1>3, <1>4 DEF Sound
<1>p. to.post = i BY <1>2
<1>h. HistOK BY Untouched DEF PublishOk
<1> HIDE DEF to
<1>6. CASE i = 0
  <2>1. posts' = posts BY <1>1, <1>6
  <2> QED BY <1>1, <1>5, <2>1, <1>h, <1>p, Rows, Outcome
<1>7. CASE i # 0 /\ a # Sweep
  <2>1. posts' = [posts EXCEPT ![i].sent = @ + 1] /\ i \in DOMAIN posts /\ posts[i].sent < MaxFires
    BY <1>1, <1>3, <1>7
  <2>2. MaxFires \in Nat BY PostsAssumption
  <2>3. [posts[i] EXCEPT !.sent = @ + 1] \in Post BY <2>1, Rows, CountedRow
  <2>4. posts' \in Seq(Post) /\ Len(posts') = Len(posts) /\ DOMAIN posts' = DOMAIN posts
    BY <2>1, <2>3, Rows, ExceptSeq
  <2>5. \A k \in DOMAIN posts : posts'[k].req = posts[k].req /\ posts'[k].status = posts[k].status
                               /\ posts'[k].swept = posts[k].swept
    BY <2>1, Rows DEF Post
  <2>6. Same(posts, posts') /\ Unswept(posts, posts') BY <2>4, <2>5 DEF Same, Unswept
  <2> QED BY <1>1, <1>5, <1>h, <1>p, <2>6, Outcome
<1>8. CASE i # 0 /\ a = Sweep
  <2>1. posts' = [posts EXCEPT ![i].swept = @ + 1] /\ i \in DOMAIN posts /\ posts[i].swept < MaxFires
    BY <1>1, <1>3, <1>8
  <2>2. MaxFires \in Nat BY PostsAssumption
  <2>3. [posts[i] EXCEPT !.swept = @ + 1] \in Post BY <2>1, Rows, CountedRow
  <2>4. posts' \in Seq(Post) /\ Len(posts') = Len(posts) /\ DOMAIN posts' = DOMAIN posts
    BY <2>1, <2>3, Rows, ExceptSeq
  <2>5. \A k \in DOMAIN posts : posts'[k].req = posts[k].req /\ posts'[k].status = posts[k].status
                               /\ posts'[k].swept = IF k = i THEN posts[k].swept + 1 ELSE posts[k].swept
    BY <2>1, Rows DEF Post
  <2>6. Same(posts, posts') BY <2>4, <2>5 DEF Same
  <2>7. Ahead(s, posts, claimed) BY <1>8, Places, Present
  <2>8. posts[i].swept = 0 /\ posts[i].status # "pending" /\ i \notin claimed
    BY <2>7, <1>1 DEF Ahead
  <2>9. Once(posts') BY <2>4, <2>5, <2>8, Rows DEF Once
  <2>10. Ahead(to, posts', claimed')
    <3>1. to.post = i BY <1>p
    <3> QED BY <3>1, <2>1, <2>4, <2>5, <2>7, <2>8, <1>1, <1>5 DEF Ahead
  <2> QED BY <1>1, <1>5, <2>6, <2>9, <2>10, <1>h, <1>p, <1>8, Moved
<1> QED BY <1>6, <1>7, <1>8

-----------------------------------------------------------------------------
(* The sweep *)

LEMMA SweepSelectKeeps ==
  ASSUME IInv, SweepSelect PROVE IInv'
<1> DEFINE to == [pc |-> "claim", seen |-> Due]
<1>1. actor' = [actor EXCEPT ![Sweep] = to] /\ posts' = posts /\ claimed' = claimed /\ crashes' = crashes
  BY DEF SweepSelect, Goes
<1>2. Due \in SUBSET (1..MaxPosts) /\ Due \subseteq DOMAIN posts BY Rows DEF Due
<1>3. to \in Actor BY <1>2 DEF Actor
<1>4. Sound(Sweep, to, posts) /\ to.pc = "claim" BY <1>3 DEF Sound
<1>5. Ahead(to, posts, claimed)
  <2>1. \A i \in Due : i \in DOMAIN posts /\ posts[i].swept = 0 BY Rows DEF Due, Once
  <2> QED BY <2>1, Places, Present DEF Ahead
<1> HIDE DEF to
<1>h. HistOK BY Untouched DEF SweepSelect
<1> QED BY <1>h, <1>1, <1>4, <1>5, Rows, Places, Present, Moved

LEMMA SweepClaimKeeps ==
  ASSUME IInv, SweepClaim PROVE IInv'
<1> DEFINE seen == actor[Sweep].seen
           to   == [pc |-> "next"]
<1>1. /\ actor' = [actor EXCEPT ![Sweep] = to] /\ posts' = Marked(seen, "publishing")
      /\ claimed' = seen /\ crashes' = crashes /\ actor[Sweep].pc = "claim"
  BY DEF SweepClaim, Goes
<1>2. \A i \in seen : i \in DOMAIN posts /\ posts[i].swept = 0 BY <1>1, Places, Present DEF Ahead
<1>3. /\ Same(posts, posts') /\ Unswept(posts, posts')
      /\ \A i \in DOMAIN posts : i \in seen => posts'[i].status = "publishing"
  BY <1>1, Rows, MarkedSame
<1>4. Once(posts') BY <1>3, UnsweptKeepsAhead, Rows
<1>h. HistOK BY <1>2 DEF SweepClaim, IInv, HistOK, Overtaken
<1>5. to \in Actor BY DEF Actor
<1>6. Sound(Sweep, to, posts) /\ to.pc = "next" BY <1>5 DEF Sound
<1>7. Ahead(to, posts', claimed') BY <1>1, <1>2, <1>3, <1>6 DEF Ahead, Same, Unswept
<1> HIDE DEF to
<1> QED BY <1>1, <1>3, <1>4, <1>6, <1>7, <1>h, Places, Present, Moved

LEMMA SweepNextKeeps ==
  ASSUME IInv, NEW i \in claimed, SweepNext(i) PROVE IInv'
<1> DEFINE to == [pc |-> "publish", req |-> posts[i].req, post |-> i]
<1>1. /\ actor' = [actor EXCEPT ![Sweep] = to] /\ posts' = posts
      /\ claimed' = claimed \ {i} /\ crashes' = crashes
  BY DEF SweepNext, Goes
<1>2. /\ claimed \subseteq DOMAIN posts
      /\ \A k \in claimed : posts[k].swept = 0 /\ posts[k].status # "pending"
  BY Places, Present DEF Ahead
<1>3. Sound(Sweep, to, posts) BY <1>2, ToPublish
<1>4. Ahead(to, posts, claimed') BY <1>1, <1>2 DEF Ahead
<1>5. to.pc # "schedule" OBVIOUS
<1> HIDE DEF to
<1>h. HistOK BY Untouched DEF SweepNext
<1> QED BY <1>h, <1>1, <1>3, <1>4, <1>5, Rows, Places, Present, Moved

LEMMA SweepRecordKeeps ==
  ASSUME IInv, SweepRecord PROVE IInv'
<1> DEFINE s == actor[Sweep]
           to == [pc |-> "next"]
<1>1. /\ actor' = [actor EXCEPT ![Sweep] = to] /\ posts' = Marked({s.post}, s.outcome)
      /\ claimed' = claimed /\ crashes' = crashes /\ s.pc = "record"
  BY DEF SweepRecord, Goes
<1>2. s.outcome \in {"published", "failed"} BY <1>1, Places, Present, Reads
<1>3. Same(posts, posts') /\ Unswept(posts, posts') BY <1>1, <1>2, Rows, MarkedSame DEF Settled
<1>4. to \in Actor BY DEF Actor
<1>5. Sound(Sweep, to, posts) /\ to.pc = "next" BY <1>4 DEF Sound
<1> HIDE DEF to
<1>h. HistOK BY Untouched DEF SweepRecord
<1> QED BY <1>h, <1>1, <1>3, <1>5, Places, Present, Outcome

LEMMA RecordFailsKeeps ==
  ASSUME IInv, RecordFails PROVE IInv'
<1>1. actor' = [actor EXCEPT ![Sweep] = Idle] /\ posts' = posts /\ claimed' = {} /\ crashes' = crashes
  BY DEF RecordFails, Goes
<1>2. Sound(Sweep, Idle, posts) /\ Idle.pc = "idle" BY IdleSound DEF Idle
<1>3. Ahead(Idle, posts, {}) BY DEF Ahead, Idle
<1>h. HistOK BY Untouched DEF RecordFails
<1> QED BY <1>1, <1>2, <1>3, <1>h, Rows, Places, Present, Moved

LEMMA RollsBackKeeps ==
  ASSUME IInv, NEW a \in Actors, RollsBack(a) PROVE IInv'
<1>1. actor' = [actor EXCEPT ![a] = Idle] /\ posts' = posts /\ claimed' = claimed /\ crashes' = crashes
  BY DEF RollsBack, Goes
<1>2. Sound(a, Idle, posts) /\ Idle.pc = "idle" BY IdleSound DEF Idle
<1>h. HistOK BY Untouched DEF RollsBack
<1> QED BY <1>1, <1>2, <1>h, Rows, Outcome

LEMMA SweepEndKeeps ==
  ASSUME IInv, SweepEnd PROVE IInv'
<1>1. actor' = [actor EXCEPT ![Sweep] = Idle] /\ posts' = posts /\ claimed' = claimed /\ crashes' = crashes
  BY DEF SweepEnd, Goes
<1>2. Sound(Sweep, Idle, posts) /\ Idle.pc = "idle" BY IdleSound DEF Idle
<1>h. HistOK BY Untouched DEF SweepEnd
<1> QED BY <1>h, <1>1, <1>2, Rows, Places, Present, Outcome

-----------------------------------------------------------------------------
(* Time, and restarts *)

LEMMA ComesDueKeeps ==
  ASSUME IInv, NEW i \in DOMAIN posts, ComesDue(i) PROVE IInv'
<1>1. posts' = [posts EXCEPT ![i].due = TRUE] /\ actor' = actor /\ claimed' = claimed
      /\ crashes' = crashes
  BY DEF ComesDue
<1>2. [posts[i] EXCEPT !.due = TRUE] \in Post BY Rows DEF Post
<1>3. posts' \in Seq(Post) /\ Len(posts') = Len(posts) /\ DOMAIN posts' = DOMAIN posts
  BY <1>1, <1>2, Rows, ExceptSeq
<1>4. \A k \in DOMAIN posts : posts'[k].req = posts[k].req /\ posts'[k].status = posts[k].status
                             /\ posts'[k].swept = posts[k].swept
  BY <1>1, Rows DEF Post
<1>5. Same(posts, posts') /\ Unswept(posts, posts') BY <1>3, <1>4 DEF Same, Unswept
<1>6. \A a \in Actors : Sound(a, actor[a], posts') BY <1>5, SameKeepsOne DEF IInv
<1>7. Once(posts') /\ Ahead(actor[Sweep], posts', claimed)
  BY <1>5, Places, Present, Rows, UnsweptKeepsAhead
<1>8. /\ OneWaits(posts', raced) /\ Alone(actor, raced)
      /\ \A t \in Taps : HasSeen(actor[t], posts', raced)
  BY <1>5, SameKeepsOne DEF IInv
<1>h. UNCHANGED <<off, crossed, anyhow, raced>> BY DEF ComesDue, history
<1>11. off \cup crossed \cup anyhow \subseteq DOMAIN posts' /\ raced \subseteq Requests
  BY <1>3 DEF IInv
<1>9. Room(posts', actor) BY <1>3 DEF IInv, Room
<1>10. actor = [a \in Actors |-> actor[a]] /\ crashes \in 0..MaxCrashes BY DEF IInv
<1> QED BY <1>1, <1>3, <1>6, <1>7, <1>8, <1>9, <1>10, <1>11, <1>h DEF IInv

LEMMA NobodySchedules ==
  ASSUME NEW act, act = [a \in Actors |-> Idle]
  PROVE  Cardinality(Scheduling(act)) = 0
<1>1. Scheduling(act) = {} BY DEF Scheduling, Actors, Idle
<1> QED BY <1>1, FS_EmptySet

LEMMA CrashKeeps ==
  ASSUME IInv, Crash PROVE IInv'
<1>1. /\ actor' = [a \in Actors |-> Idle] /\ claimed' = {} /\ posts' = posts
      /\ crashes' \in 0..MaxCrashes
  BY PostsAssumption DEF Crash, IInv
<1>2. \A a \in Actors : actor'[a] = Idle /\ Sound(a, Idle, posts) BY <1>1, IdleSound
<1>3. Ahead(Idle, posts, {}) BY DEF Ahead, Idle
<1>4. Room(posts', actor') BY <1>1, NobodySchedules, Rows DEF Room
<1>5. OneWaits(posts, raced) /\ HasSeen(Idle, posts, raced)
      /\ off \cup crossed \cup anyhow \subseteq DOMAIN posts /\ raced \subseteq Requests
  BY DEF IInv, HasSeen, Idle
<1>h. UNCHANGED <<off, crossed, anyhow, raced>> BY DEF Crash, history
<1>6. \A t \in Taps : actor'[t] = Idle BY <1>2, Places, Present
<1>7. actor' = [a \in Actors |-> actor'[a]] BY <1>1
<1>8. Sweep \in Actors /\ posts' \in Seq(Post) /\ Once(posts') BY <1>1, Rows, Places, Present
<1>9. Alone(actor', raced) BY <1>6 DEF Alone, Idle
<1> QED BY <1>1, <1>2, <1>3, <1>4, <1>5, <1>6, <1>7, <1>8, <1>9, <1>h DEF IInv

-----------------------------------------------------------------------------
(* The invariant holds *)

LEMMA InitIInv == Init => IInv
<1> SUFFICES ASSUME Init PROVE IInv OBVIOUS
<1>1. /\ posts = <<>> /\ actor = [a \in Actors |-> Idle] /\ claimed = {} /\ crashes \in 0..MaxCrashes
  BY PostsAssumption DEF Init
<1>2. posts \in Seq(Post) /\ Len(posts) = 0 /\ DOMAIN posts = {} BY <1>1
<1>3. Room(posts, actor) BY <1>1, <1>2, NobodySchedules, PostsAssumption DEF Room
<1>4. \A a \in Actors : actor[a] = Idle /\ Sound(a, Idle, posts) BY <1>1, IdleSound
<1>5. Sweep \in Actors /\ Taps \subseteq Actors BY DEF Actors
<1>6. Ahead(Idle, posts, {}) BY DEF Ahead, Idle
<1>7. /\ Once(posts) /\ OneWaits(posts, raced) /\ HasSeen(Idle, posts, raced)
      /\ \A t \in Taps : actor[t] = Idle
  BY <1>2, <1>4, <1>5 DEF Once, OneWaits, HasSeen, Idle
<1>8. actor = [a \in Actors |-> actor[a]] /\ Alone(actor, raced) BY <1>1, <1>7 DEF Alone, Idle
<1>9. off \cup crossed \cup anyhow \subseteq DOMAIN posts /\ raced \subseteq Requests BY DEF Init
<1> QED BY <1>1, <1>2, <1>3, <1>4, <1>5, <1>6, <1>7, <1>8, <1>9 DEF IInv

LEMMA PublishStepKeeps ==
  ASSUME IInv, NEW a \in Actors, PublishStep(a) PROVE IInv'
BY PublishOkKeeps, PublishFailsKeeps, CleanReadKeeps, CleanWriteKeeps, CleanFailsKeeps
   DEF PublishStep

LEMMA NextIInv == IInv /\ [Next]_vars => IInv'
<1> SUFFICES ASSUME IInv, [Next]_vars PROVE IInv' OBVIOUS
<1>1. CASE UNCHANGED vars
  BY <1>1 DEF vars, history, IInv
<1>2. ASSUME NEW t \in Taps, TapStep(t) PROVE IInv'
  <2>1. t \in Actors BY Places, Present
  <2> QED BY <1>2, <2>1, ScheduleReadKeeps, PublishButtonKeeps, ScheduleWriteKeeps, CancelReadKeeps,
             SendLookKeeps, SendCancelReadKeeps, CancelWriteKeeps, PublishStepKeeps, RollsBackKeeps DEF TapStep
<1>3. CASE SweepStep
  <2>1. Sweep \in Actors BY Places, Present
  <2> QED BY <1>3, <2>1, SweepSelectKeeps, SweepClaimKeeps, SweepRecordKeeps, SweepEndKeeps,
             RecordFailsKeeps, SweepNextKeeps, PublishStepKeeps, RollsBackKeeps DEF SweepStep
<1>4. ASSUME NEW i \in DOMAIN posts, ComesDue(i) PROVE IInv'
  BY <1>4, ComesDueKeeps
<1> QED BY <1>1, <1>2, <1>3, <1>4, CrashKeeps DEF Next

LEMMA Inductive == Spec => []IInv
BY InitIInv, NextIInv, PTL DEF Spec

-----------------------------------------------------------------------------
(* Who is going to publish a row, and who has called it off *)

\* a is going to publish row i; the sweep has row i in hand.
Holds(act, cl, a, i) == \/ act[a].pc = "publish" /\ act[a].post = i
                        \/ a = Sweep /\ i \in cl
InHand(act, cl, i) == \/ i \in cl
                      \/ /\ act[Sweep].pc \in {"publish", "clean", "clear", "record"}
                         /\ act[Sweep].post = i

Fires(x) == x.swept + x.sent

\* At most one publishes the row, and it has taken it from pending.
HeldOnce(ps, act, cl, i) ==
  /\ Fires(ps[i]) <= 1
  /\ ps[i].status = "pending" => Fires(ps[i]) = 0
  /\ \A a \in Actors : Holds(act, cl, a, i) => Fires(ps[i]) = 0 /\ ps[i].status # "pending"
  /\ \A a, b \in Actors : Holds(act, cl, a, i) /\ Holds(act, cl, b, i) => a = b

LetGo(ps, act, cl, i) ==
  ps[i].status = "cancelled" /\ ps[i].swept = 0 /\ ~InHand(act, cl, i)

FInv ==
  /\ \A i \in DOMAIN posts \ (crossed \cup anyhow) : HeldOnce(posts, actor, claimed, i)
  /\ \A i \in off \ crossed : LetGo(posts, actor, claimed, i)

\* The counts stay, no row waits again, and whoever comes to hold a row finds it pending.
LEMMA FStep ==
  ASSUME IInv, FInv, NEW b \in Actors,
         DOMAIN posts \subseteq DOMAIN posts',
         \A i \in DOMAIN posts : /\ posts'[i].swept = posts[i].swept /\ posts'[i].sent = posts[i].sent
                                 /\ posts'[i].status = "pending" => posts[i].status = "pending",
         \A i \in DOMAIN posts' \ DOMAIN posts :
            posts'[i].swept = 0 /\ posts'[i].sent = 0 /\ \A a \in Actors : ~Holds(actor', claimed', a, i),
         crossed \subseteq crossed', anyhow \subseteq anyhow',
         \A i \in DOMAIN posts \ (crossed' \cup anyhow'), a \in Actors :
            Holds(actor', claimed', a, i) =>
              \/ Holds(actor, claimed, a, i)
              \/ a = b /\ posts[i].status = "pending" /\ posts'[i].status # "pending",
         off' \subseteq DOMAIN posts,
         \A i \in off' \ crossed' : /\ posts'[i].status = "cancelled" /\ ~InHand(actor', claimed', i)
                                    /\ i \in off \/ posts[i].status = "pending"
  PROVE  FInv'
<1>1. ASSUME NEW i \in DOMAIN posts' \ (crossed' \cup anyhow')
      PROVE  HeldOnce(posts', actor', claimed', i)
  <2>1. CASE i \notin DOMAIN posts BY <2>1 DEF HeldOnce, Fires
  <2>2. CASE i \in DOMAIN posts
    <3>1. HeldOnce(posts, actor, claimed, i) BY <2>2 DEF FInv
    <3>2. Fires(posts'[i]) = Fires(posts[i]) BY <2>2 DEF Fires
    <3> QED BY <2>2, <3>1, <3>2 DEF HeldOnce
  <2> QED BY <2>1, <2>2
<1>2. ASSUME NEW i \in off' \ crossed' PROVE LetGo(posts', actor', claimed', i)
  <2>1. i \in DOMAIN posts OBVIOUS
  <2>2. posts[i].swept = 0
    <3>1. CASE i \in off BY <3>1 DEF FInv, LetGo
    <3>2. CASE posts[i].status = "pending" BY <2>1, <3>2 DEF IInv, Once
    <3> QED BY <3>1, <3>2
  <2> QED BY <2>1, <2>2 DEF LetGo
<1> QED BY <1>1, <1>2 DEF FInv

\* Nobody comes to hold anything, and the rows are as they were.
LEMMA FQuiet ==
  ASSUME IInv, FInv, UNCHANGED <<off, crossed, anyhow>>,
         DOMAIN posts' = DOMAIN posts,
         \A i \in DOMAIN posts : /\ posts'[i].swept = posts[i].swept /\ posts'[i].sent = posts[i].sent
                                 /\ posts'[i].status = posts[i].status,
         \A i \in DOMAIN posts, a \in Actors : Holds(actor', claimed', a, i) => Holds(actor, claimed, a, i),
         \A i \in DOMAIN posts : InHand(actor', claimed', i) => InHand(actor, claimed, i)
  PROVE  FInv'
<1>1. Sweep \in Actors /\ off \subseteq DOMAIN posts BY Present DEF IInv
<1>2. \A i \in off \ crossed : LetGo(posts, actor, claimed, i) BY DEF FInv
<1> QED BY <1>1, <1>2, FStep DEF LetGo

\* One actor goes to a place where it publishes nothing.
LEMMA FMoves ==
  ASSUME IInv, FInv, NEW a \in Actors, NEW to, actor' = [actor EXCEPT ![a] = to],
         to.pc = "publish" => to.post \notin DOMAIN posts /\ a # Sweep,
         to.pc \in {"clean", "clear", "record"} /\ a = Sweep =>
           actor[a].pc \in {"publish", "clean", "clear", "record"} /\ to.post = actor[a].post,
         claimed' \subseteq claimed, posts' = posts, UNCHANGED <<off, crossed, anyhow>>
  PROVE  FInv'
<1>1. actor'[a] = to /\ \A b \in Actors \ {a} : actor'[b] = actor[b] BY DEF IInv
<1>2. Sweep \in Actors BY Present
<1>3. \A i \in DOMAIN posts, b \in Actors : Holds(actor', claimed', b, i) => Holds(actor, claimed, b, i)
  BY <1>1 DEF Holds
<1>4. \A i \in DOMAIN posts : InHand(actor', claimed', i) => InHand(actor, claimed, i)
  BY <1>1, <1>2 DEF InHand
<1> QED BY <1>3, <1>4, FQuiet

\* A commit that cancels rows; who is at to afterwards publishes none it did not cancel.
LEMMA FCancels ==
  ASSUME IInv, FInv, NEW a \in Actors, NEW to, NEW S, S \subseteq DOMAIN posts,
         actor' = [actor EXCEPT ![a] = to], claimed' = claimed, CallsOff(S),
         DOMAIN posts \subseteq DOMAIN posts', 0 \notin DOMAIN posts',
         \A i \in DOMAIN posts : posts'[i] = Marked(S, "cancelled")[i],
         \A i \in DOMAIN posts' \ DOMAIN posts : posts'[i].swept = 0 /\ posts'[i].sent = 0,
         to.pc = "publish" => to.post \in S /\ a # Sweep,
         to.pc \in {"clean", "clear", "record"} /\ a = Sweep =>
           actor[a].pc \in {"publish", "clean", "clear", "record"} /\ to.post = actor[a].post
  PROVE  FInv'
<1>1. actor'[a] = to /\ \A b \in Actors \ {a} : actor'[b] = actor[b] BY DEF IInv
<1>2. Sweep \in Actors BY Present
<1>3. /\ off' = off \cup S /\ crossed' = crossed \cup {i \in S : posts[i].status # "pending"}
      /\ anyhow' = anyhow
  BY DEF CallsOff, Overtaken
<1>4. \A i \in DOMAIN posts : /\ posts'[i].swept = posts[i].swept /\ posts'[i].sent = posts[i].sent
                              /\ posts'[i].status = IF i \in S THEN "cancelled" ELSE posts[i].status
  <2>1. \A i \in DOMAIN posts : posts[i] \in Post BY Rows
  <2> QED BY <2>1 DEF Marked, Post
<1>5. ASSUME NEW i \in DOMAIN posts' \ DOMAIN posts, NEW b \in Actors
      PROVE  ~Holds(actor', claimed', b, i)
  <2>1. claimed \subseteq DOMAIN posts BY Places, Present DEF Ahead
  <2>2. actor[b].pc = "publish" => actor[b].post \in DOMAIN posts \/ actor[b].post = 0
    BY Places DEF Sound
  <2>3. i # 0 OBVIOUS
  <2> QED BY <1>1, <2>1, <2>2, <2>3 DEF Holds
<1>6. ASSUME NEW i \in DOMAIN posts \ (crossed' \cup anyhow'), NEW b \in Actors,
             Holds(actor', claimed', b, i)
      PROVE  \/ Holds(actor, claimed, b, i)
             \/ b = a /\ posts[i].status = "pending" /\ posts'[i].status # "pending"
  BY <1>1, <1>3, <1>4, <1>6 DEF Holds
<1>7. ASSUME NEW i \in off' \ crossed'
      PROVE  /\ posts'[i].status = "cancelled" /\ ~InHand(actor', claimed', i)
             /\ i \in off \/ posts[i].status = "pending"
  <2>1. i \in DOMAIN posts BY <1>3 DEF IInv
  <2>2. CASE i \in S
    <3>1. posts[i].status = "pending" BY <2>2, <1>3
    <3>2. ~InHand(actor, claimed, i) BY <3>1, Places, Present DEF Ahead, InHand
    <3>3. ~InHand(actor', claimed', i) BY <3>2, <1>1, <1>2 DEF InHand
    <3> QED BY <2>1, <2>2, <3>1, <3>3, <1>4
  <2>3. CASE i \notin S
    <3>1. i \in off \ crossed BY <2>3, <1>3
    <3>2. LetGo(posts, actor, claimed, i) BY <3>1 DEF FInv
    <3>3. ~InHand(actor', claimed', i) BY <3>2, <1>1, <1>2 DEF InHand, LetGo
    <3> QED BY <2>1, <2>3, <3>1, <3>2, <3>3, <1>4 DEF LetGo
  <2> QED BY <2>2, <2>3
<1>8. off' \subseteq DOMAIN posts /\ crossed \subseteq crossed' /\ anyhow \subseteq anyhow'
  BY <1>3 DEF IInv
<1>9. \A i \in DOMAIN posts : /\ posts'[i].swept = posts[i].swept /\ posts'[i].sent = posts[i].sent
                              /\ posts'[i].status = "pending" => posts[i].status = "pending"
  BY <1>4
<1>10. \A i \in DOMAIN posts' \ DOMAIN posts :
         posts'[i].swept = 0 /\ posts'[i].sent = 0 /\ \A b \in Actors : ~Holds(actor', claimed', b, i)
  BY <1>5
<1> QED BY <1>6, <1>7, <1>8, <1>9, <1>10, FStep

LEMMA FScheduleRead ==
  ASSUME IInv, FInv, NEW t \in Taps, NEW r \in Requests, ScheduleRead(t, r) PROVE FInv'
<1> DEFINE to == [pc |-> "schedule", req |-> r, seen |-> Pending(r)]
<1>1. /\ actor' = [actor EXCEPT ![t] = to] /\ posts' = posts /\ claimed' \subseteq claimed
      /\ UNCHANGED <<off, crossed, anyhow>>
  BY DEF ScheduleRead, Goes, history
<1>2. to.pc = "schedule" OBVIOUS
<1> HIDE DEF to
<1> QED BY <1>1, <1>2, Present, FMoves

LEMMA FCancelRead ==
  ASSUME IInv, FInv, NEW t \in Taps, NEW i \in DOMAIN posts, CancelRead(t, i) PROVE FInv'
<1> DEFINE to == [pc |-> "cancel", post |-> i, send |-> FALSE]
<1>1. /\ actor' = [actor EXCEPT ![t] = to] /\ posts' = posts /\ claimed' \subseteq claimed
      /\ UNCHANGED <<off, crossed, anyhow>>
  BY DEF CancelRead, Goes, history
<1>2. to.pc = "cancel" OBVIOUS
<1> HIDE DEF to
<1> QED BY <1>1, <1>2, Present, FMoves

LEMMA FSendLook ==
  ASSUME IInv, FInv, NEW t \in Taps, NEW i \in DOMAIN posts, SendLook(t, i) PROVE FInv'
<1> DEFINE to == [pc |-> "now", post |-> i]
<1>1. /\ actor' = [actor EXCEPT ![t] = to] /\ posts' = posts /\ claimed' \subseteq claimed
      /\ UNCHANGED <<off, crossed, anyhow>>
  BY DEF SendLook, Goes, history
<1>2. to.pc = "now" OBVIOUS
<1> HIDE DEF to
<1> QED BY <1>1, <1>2, Present, FMoves

LEMMA FPublishButton ==
  ASSUME IInv, FInv, NEW t \in Taps, NEW r \in Requests, PublishButton(t, r) PROVE FInv'
<1> DEFINE to == [pc |-> "publish", req |-> r, post |-> 0]
<1>1. /\ actor' = [actor EXCEPT ![t] = to] /\ posts' = posts /\ claimed' \subseteq claimed
      /\ UNCHANGED <<off, crossed, anyhow>>
  BY DEF PublishButton, Goes, history
<1>2. to.pc = "publish" /\ to.post = 0 /\ 0 \notin DOMAIN posts BY Rows
<1> HIDE DEF to
<1> QED BY <1>1, <1>2, Present, FMoves

LEMMA FPublishFails ==
  ASSUME IInv, FInv, NEW a \in Actors, PublishFails(a) PROVE FInv'
<1> DEFINE to == AfterPublish(a, actor[a].post, "failed")
<1>1. /\ actor' = [actor EXCEPT ![a] = to] /\ posts' = posts /\ claimed' \subseteq claimed
      /\ UNCHANGED <<off, crossed, anyhow>>
  BY DEF PublishFails, Goes, history
<1>2. /\ to.pc \in {"idle", "record"}
      /\ a = Sweep /\ to.pc = "record" =>
           actor[a].pc \in {"publish", "clean", "clear", "record"} /\ to.post = actor[a].post
  BY DEF PublishFails, Goes, AfterPublish, Idle
<1> HIDE DEF to
<1> QED BY <1>1, <1>2, Present, FMoves

LEMMA FCleanFails ==
  ASSUME IInv, FInv, NEW a \in Actors, CleanFails(a) PROVE FInv'
<1> DEFINE to == AfterPublish(a, actor[a].post, "published")
<1>1. /\ actor' = [actor EXCEPT ![a] = to] /\ posts' = posts /\ claimed' \subseteq claimed
      /\ UNCHANGED <<off, crossed, anyhow>>
  BY DEF CleanFails, Goes, history
<1>2. /\ to.pc \in {"idle", "record"}
      /\ a = Sweep /\ to.pc = "record" =>
           actor[a].pc \in {"publish", "clean", "clear", "record"} /\ to.post = actor[a].post
  BY DEF CleanFails, Goes, AfterPublish, Idle
<1> HIDE DEF to
<1> QED BY <1>1, <1>2, Present, FMoves

LEMMA FCleanRead ==
  ASSUME IInv, FInv, NEW a \in Actors, CleanRead(a) PROVE FInv'
<1> DEFINE to == [pc |-> "clear", req |-> actor[a].req, post |-> actor[a].post, seen |-> Pending(actor[a].req)]
<1>1. /\ actor' = [actor EXCEPT ![a] = to] /\ posts' = posts /\ claimed' \subseteq claimed
      /\ UNCHANGED <<off, crossed, anyhow>>
  BY DEF CleanRead, Goes, history
<1>2. to.pc = "clear" /\ to.post = actor[a].post /\ actor[a].pc = "clean" BY DEF CleanRead, Goes
<1> HIDE DEF to
<1> QED BY <1>1, <1>2, Present, FMoves

LEMMA FSweepSelect ==
  ASSUME IInv, FInv, SweepSelect PROVE FInv'
<1> DEFINE to == [pc |-> "claim", seen |-> Due]
<1>1. /\ actor' = [actor EXCEPT ![Sweep] = to] /\ posts' = posts /\ claimed' \subseteq claimed
      /\ UNCHANGED <<off, crossed, anyhow>>
  BY DEF SweepSelect, Goes, history
<1>2. to.pc = "claim" OBVIOUS
<1> HIDE DEF to
<1> QED BY <1>1, <1>2, Present, FMoves

LEMMA FRecordFails ==
  ASSUME IInv, FInv, RecordFails PROVE FInv'
<1> DEFINE to == Idle
<1>1. /\ actor' = [actor EXCEPT ![Sweep] = to] /\ posts' = posts /\ claimed' \subseteq claimed
      /\ UNCHANGED <<off, crossed, anyhow>>
  BY DEF RecordFails, Goes, history
<1>2. to.pc = "idle" BY DEF Idle
<1> HIDE DEF to
<1> QED BY <1>1, <1>2, Present, FMoves

LEMMA FSweepEnd ==
  ASSUME IInv, FInv, SweepEnd PROVE FInv'
<1> DEFINE to == Idle
<1>1. /\ actor' = [actor EXCEPT ![Sweep] = to] /\ posts' = posts /\ claimed' \subseteq claimed
      /\ UNCHANGED <<off, crossed, anyhow>>
  BY DEF SweepEnd, Goes, history
<1>2. to.pc = "idle" BY DEF Idle
<1> HIDE DEF to
<1> QED BY <1>1, <1>2, Present, FMoves

LEMMA FRollsBack ==
  ASSUME IInv, FInv, NEW a \in Actors, RollsBack(a) PROVE FInv'
<1> DEFINE to == Idle
<1>1. /\ actor' = [actor EXCEPT ![a] = to] /\ posts' = posts /\ claimed' \subseteq claimed
      /\ UNCHANGED <<off, crossed, anyhow>>
  BY DEF RollsBack, Goes, history
<1>2. to.pc = "idle" BY DEF Idle
<1> HIDE DEF to
<1> QED BY <1>1, <1>2, Present, FMoves

LEMMA FSendCancelRead ==
  ASSUME IInv, FInv, NEW t \in Taps, SendCancelRead(t) PROVE FInv'
<1> DEFINE i == actor[t].post
<1>0. t \in Actors /\ t # Sweep /\ Sweep \in Actors BY Present
<1>1. /\ posts' = posts /\ claimed' = claimed /\ UNCHANGED <<off, crossed>>
      /\ anyhow' = anyhow \cup {k \in {i} : posts[k].status # "pending"}
      /\ \A b \in Actors \ {t} : actor'[b] = actor[b]
      /\ actor'[t].pc = "publish" => posts[i].status # "pending" /\ actor'[t].post = i
  BY <1>0 DEF SendCancelRead, Goes, Overtaken, IInv
<1>2. \A k \in DOMAIN posts \ (crossed' \cup anyhow'), a \in Actors :
         Holds(actor', claimed', a, k) => Holds(actor, claimed, a, k)
  BY <1>0, <1>1 DEF Holds
<1>3. \A k \in off \ crossed : posts[k].status = "cancelled" /\ ~InHand(actor', claimed', k)
  BY <1>0, <1>1 DEF FInv, LetGo, InHand
<1>4. off \subseteq DOMAIN posts BY DEF IInv
<1> QED BY <1>0, <1>1, <1>2, <1>3, <1>4, FStep

LEMMA FCancelWrite ==
  ASSUME IInv, FInv, NEW t \in Taps, CancelWrite(t) PROVE FInv'
<1> DEFINE i  == actor[t].post
           to == IF actor[t].send
                 THEN [pc |-> "publish", req |-> posts[i].req, post |-> i]
                 ELSE Idle
<1>0. t \in Actors /\ t # Sweep BY Present
<1>1. /\ actor' = [actor EXCEPT ![t] = to] /\ posts' = Marked({i}, "cancelled") /\ claimed' = claimed
      /\ CallsOff({i}) /\ actor[t].pc = "cancel"
  BY DEF CancelWrite, Goes
<1>2. {i} \subseteq DOMAIN posts BY <1>0, <1>1, Places DEF Sound
<1>3. to.pc \in {"publish", "idle"} /\ (to.pc = "publish" => to.post \in {i}) BY DEF Idle
<1>4. DOMAIN posts' = DOMAIN posts /\ 0 \notin DOMAIN posts BY <1>1, Rows DEF Marked
<1> HIDE DEF to, i
<1> QED BY <1>0, <1>1, <1>2, <1>3, <1>4, FCancels

LEMMA FCleanWrite ==
  ASSUME IInv, FInv, NEW a \in Actors, CleanWrite(a) PROVE FInv'
<1> DEFINE S  == actor[a].seen
           to == AfterPublish(a, actor[a].post, "published")
<1>1. /\ actor' = [actor EXCEPT ![a] = to] /\ posts' = Marked(S, "cancelled") /\ claimed' = claimed
      /\ CallsOff(S) /\ actor[a].pc = "clear"
  BY DEF CleanWrite, Goes
<1>2. S \subseteq DOMAIN posts BY <1>1, Places DEF Sound
<1>3. /\ to.pc \in {"idle", "record"}
      /\ a = Sweep /\ to.pc = "record" => to.post = actor[a].post
  BY DEF AfterPublish, Idle
<1>4. DOMAIN posts' = DOMAIN posts /\ 0 \notin DOMAIN posts BY <1>1, Rows DEF Marked
<1> HIDE DEF to, S
<1> QED BY <1>1, <1>2, <1>3, <1>4, FCancels

LEMMA FScheduleWrite ==
  ASSUME IInv, FInv, NEW t \in Taps, ScheduleWrite(t) PROVE FInv'
<1> DEFINE S  == actor[t].seen
           ps == Marked(S, "cancelled")
           x  == [req |-> actor[t].req, status |-> "pending", due |-> FALSE, swept |-> 0, sent |-> 0]
<1>0. t \in Actors /\ t # Sweep BY Present
<1>1. /\ actor' = [actor EXCEPT ![t] = Idle] /\ posts' = Append(ps, x) /\ claimed' = claimed
      /\ CallsOff(S) /\ actor[t].pc = "schedule"
  BY DEF ScheduleWrite, Goes
<1>2. S \subseteq DOMAIN posts BY <1>0, <1>1, Places DEF Sound
<1>3. Len(ps) = Len(posts) /\ ps \in Seq(Post)
  BY Rows, MarkedSame DEF Same, Settled
<1>4. Idle.pc = "idle" /\ x.swept = 0 /\ x.sent = 0 BY DEF Idle
<1> HIDE DEF ps, x, S
<1>5. /\ DOMAIN posts' = 1..(Len(posts) + 1) /\ posts'[Len(posts) + 1] = x
      /\ \A i \in DOMAIN posts : posts'[i] = ps[i]
  BY <1>1, <1>3, Rows
<1>6. /\ DOMAIN posts \subseteq DOMAIN posts' /\ 0 \notin DOMAIN posts'
      /\ \A i \in DOMAIN posts' \ DOMAIN posts : posts'[i].swept = 0 /\ posts'[i].sent = 0
  BY <1>4, <1>5, Rows
<1> QED BY <1>0, <1>1, <1>2, <1>4, <1>5, <1>6, FCancels DEF ps

LEMMA FSweepClaim ==
  ASSUME IInv, FInv, SweepClaim PROVE FInv'
<1> DEFINE seen == actor[Sweep].seen
<1>0. Sweep \in Actors BY Present
<1>1. /\ posts' = Marked(seen, "publishing") /\ claimed' = seen /\ off' = off /\ anyhow' = anyhow
      /\ crossed' = crossed \cup {i \in seen : posts[i].status # "pending"}
      /\ actor'[Sweep].pc = "next" /\ \A b \in Actors \ {Sweep} : actor'[b] = actor[b]
  BY <1>0 DEF SweepClaim, Goes, Overtaken, IInv
<1> HIDE DEF seen
<1>2. /\ DOMAIN posts' = DOMAIN posts
      /\ \A i \in DOMAIN posts : /\ posts'[i].swept = posts[i].swept /\ posts'[i].sent = posts[i].sent
                                 /\ posts'[i].status = IF i \in seen THEN "publishing" ELSE posts[i].status
  <2>1. \A i \in DOMAIN posts : posts[i] \in Post BY Rows
  <2> QED BY <2>1, <1>1 DEF Marked, Post
<1>3. ASSUME NEW i \in DOMAIN posts \ (crossed' \cup anyhow'), NEW a \in Actors,
             Holds(actor', claimed', a, i)
      PROVE  \/ Holds(actor, claimed, a, i)
             \/ a = Sweep /\ posts[i].status = "pending" /\ posts'[i].status # "pending"
  BY <1>0, <1>1, <1>2, <1>3 DEF Holds
<1>4. ASSUME NEW i \in off \ crossed'
      PROVE  posts'[i].status = "cancelled" /\ ~InHand(actor', claimed', i) /\ i \in DOMAIN posts
  <2>1. posts[i].status = "cancelled" /\ i \in DOMAIN posts BY <1>1 DEF FInv, LetGo, IInv
  <2>2. i \notin seen BY <2>1, <1>1
  <2> QED BY <2>1, <2>2, <1>1, <1>2 DEF InHand
<1>5. off \subseteq DOMAIN posts BY DEF IInv
<1> QED BY <1>0, <1>1, <1>2, <1>3, <1>4, <1>5, FStep

LEMMA FSweepNext ==
  ASSUME IInv, FInv, NEW i \in claimed, SweepNext(i) PROVE FInv'
<1>0. Sweep \in Actors BY Present
<1>1. /\ posts' = posts /\ claimed' = claimed \ {i} /\ UNCHANGED <<off, crossed, anyhow>>
      /\ actor'[Sweep].pc = "publish" /\ actor'[Sweep].post = i
      /\ \A b \in Actors \ {Sweep} : actor'[b] = actor[b]
  BY <1>0 DEF SweepNext, Goes, history, IInv
<1>2. \A k \in DOMAIN posts, a \in Actors : Holds(actor', claimed', a, k) => Holds(actor, claimed, a, k)
  BY <1>0, <1>1 DEF Holds
<1>3. \A k \in DOMAIN posts : InHand(actor', claimed', k) => InHand(actor, claimed, k)
  BY <1>0, <1>1 DEF InHand
<1> QED BY <1>1, <1>2, <1>3, FQuiet

LEMMA FSweepRecord ==
  ASSUME IInv, FInv, SweepRecord PROVE FInv'
<1> DEFINE k == actor[Sweep].post
           new == actor[Sweep].outcome
<1>0. Sweep \in Actors BY Present
<1>1. /\ posts' = Marked({k}, new) /\ claimed' = claimed /\ UNCHANGED <<off, crossed, anyhow>>
      /\ actor[Sweep].pc = "record"
      /\ actor'[Sweep].pc = "next" /\ \A b \in Actors \ {Sweep} : actor'[b] = actor[b]
  BY <1>0 DEF SweepRecord, Goes, history, IInv
<1>2. new # "pending" BY <1>0, <1>1, Places, Reads
<1>3. InHand(actor, claimed, k) BY <1>1 DEF InHand
<1> HIDE DEF k, new
<1>4. /\ DOMAIN posts' = DOMAIN posts
      /\ \A i \in DOMAIN posts : /\ posts'[i].swept = posts[i].swept /\ posts'[i].sent = posts[i].sent
                                 /\ posts'[i].status = IF i = k THEN new ELSE posts[i].status
  <2>1. \A i \in DOMAIN posts : posts[i] \in Post BY Rows
  <2> QED BY <2>1, <1>1 DEF Marked, Post
<1>5. \A i \in DOMAIN posts, a \in Actors : Holds(actor', claimed', a, i) => Holds(actor, claimed, a, i)
  BY <1>0, <1>1 DEF Holds
<1>6. off \subseteq DOMAIN posts BY DEF IInv
<1>7. ASSUME NEW i \in off \ crossed PROVE posts'[i].status = "cancelled" /\ ~InHand(actor', claimed', i)
  <2>1. LetGo(posts, actor, claimed, i) BY DEF FInv
  <2>2. i # k BY <2>1, <1>3 DEF LetGo
  <2> QED BY <2>1, <2>2, <1>1, <1>4, <1>6 DEF LetGo, InHand
<1> QED BY <1>0, <1>1, <1>2, <1>4, <1>5, <1>6, <1>7, FStep

LEMMA FComesDue ==
  ASSUME IInv, FInv, NEW k \in DOMAIN posts, ComesDue(k) PROVE FInv'
<1>1. /\ posts' = [posts EXCEPT ![k].due = TRUE] /\ actor' = actor /\ claimed' = claimed
      /\ UNCHANGED <<off, crossed, anyhow>>
  BY DEF ComesDue, history
<1>2. /\ DOMAIN posts' = DOMAIN posts
      /\ \A i \in DOMAIN posts : /\ posts'[i].swept = posts[i].swept /\ posts'[i].sent = posts[i].sent
                                 /\ posts'[i].status = posts[i].status
  <2>1. \A i \in DOMAIN posts : posts[i] \in Post BY Rows
  <2> QED BY <2>1, <1>1 DEF Post
<1> QED BY <1>1, <1>2, FQuiet

LEMMA FCrash ==
  ASSUME IInv, FInv, Crash PROVE FInv'
<1>1. /\ actor' = [a \in Actors |-> Idle] /\ claimed' = {} /\ posts' = posts
      /\ UNCHANGED <<off, crossed, anyhow>>
  BY DEF Crash, history
<1>2. \A a \in Actors : actor'[a].pc = "idle" BY <1>1 DEF Idle
<1>3. Sweep \in Actors BY Present
<1> QED BY <1>1, <1>2, <1>3, FQuiet DEF Holds, InHand

\* Who publishes held the row alone, and holds it no more.
LEMMA FPublishOk ==
  ASSUME IInv, FInv, NEW a \in Actors, PublishOk(a) PROVE FInv'
<1> DEFINE k == actor[a].post
<1>0. Sweep \in Actors /\ actor[a] \in Actor BY Present, Places
<1>1. /\ actor[a].pc = "publish" /\ claimed' = claimed /\ UNCHANGED <<off, crossed, anyhow>>
      /\ actor' = [actor EXCEPT ![a] = [actor[a] EXCEPT !.pc = "clean"]]
      /\ posts' = IF k = 0 THEN posts
                  ELSE IF a = Sweep THEN [posts EXCEPT ![k].swept = @ + 1]
                  ELSE [posts EXCEPT ![k].sent = @ + 1]
  BY DEF PublishOk, Goes, history
<1>2. /\ actor'[a].pc = "clean" /\ actor'[a].post = k
      /\ \A b \in Actors \ {a} : actor'[b] = actor[b]
  <2>1. [actor[a] EXCEPT !.pc = "clean"] = [pc |-> "clean", req |-> actor[a].req, post |-> k]
    BY <1>0, <1>1, Reads
  <2> QED BY <2>1, <1>1 DEF IInv
<1>3. k \in DOMAIN posts \/ k = 0 BY <1>1, Places DEF Sound
<1> HIDE DEF k
<1>4. /\ DOMAIN posts' = DOMAIN posts
      /\ \A i \in DOMAIN posts :
            /\ posts'[i].status = posts[i].status
            /\ posts'[i].swept = IF i = k /\ a = Sweep THEN posts[i].swept + 1 ELSE posts[i].swept
            /\ posts'[i].sent = IF i = k /\ a # Sweep THEN posts[i].sent + 1 ELSE posts[i].sent
  <2>1. /\ \A i \in DOMAIN posts : posts[i] \in Post
        /\ 0 \notin DOMAIN posts
    BY Rows
  <2>2. CASE k = 0 BY <2>1, <2>2, <1>1
  <2>3. CASE k # 0 /\ a = Sweep BY <2>1, <2>3, <1>1, <1>3 DEF Post
  <2>4. CASE k # 0 /\ a # Sweep BY <2>1, <2>4, <1>1, <1>3 DEF Post
  <2> QED BY <2>2, <2>3, <2>4
<1>5. \A i \in DOMAIN posts : posts[i].swept \in Nat /\ posts[i].sent \in Nat
  <2>1. \A i \in DOMAIN posts : posts[i] \in Post BY Rows
  <2> QED BY <2>1, PostsAssumption DEF Post
<1>6. a = Sweep => k \notin claimed BY <1>1, Places DEF Ahead, k
<1>7. ASSUME NEW i \in DOMAIN posts \ (crossed \cup anyhow)
      PROVE  HeldOnce(posts', actor', claimed', i)
  <2>1. HeldOnce(posts, actor, claimed, i) BY DEF FInv
  <2>2. \A b \in Actors : Holds(actor', claimed', b, i) => Holds(actor, claimed, b, i)
    BY <1>1, <1>2 DEF Holds
  <2>3. CASE i # k
    <3>1. Fires(posts'[i]) = Fires(posts[i]) /\ posts'[i].status = posts[i].status
      BY <2>3, <1>4 DEF Fires
    <3> QED BY <2>1, <2>2, <3>1 DEF HeldOnce
  <2>4. CASE i = k
    <3>1. Holds(actor, claimed, a, i) BY <2>4, <1>1 DEF Holds, k
    <3>2. Fires(posts[i]) = 0 /\ posts[i].status # "pending" /\ \A b \in Actors : Holds(actor, claimed, b, i) => b = a
      BY <2>1, <3>1 DEF HeldOnce
    <3>3. ~Holds(actor', claimed', a, i) BY <2>4, <1>1, <1>2, <1>6 DEF Holds
    <3>4. Fires(posts'[i]) = 1 /\ posts'[i].status # "pending"
      <4>1. Fires(posts'[i]) = Fires(posts[i]) + 1 BY <2>4, <1>4, <1>5 DEF Fires
      <4> QED BY <4>1, <3>2, <1>4
    <3> QED BY <2>2, <3>2, <3>3, <3>4 DEF HeldOnce
  <2> QED BY <2>3, <2>4
<1>8. ASSUME NEW i \in off \ crossed PROVE LetGo(posts', actor', claimed', i)
  <2>1. LetGo(posts, actor, claimed, i) /\ i \in DOMAIN posts BY DEF FInv, IInv
  <2>2. a = Sweep => i # k BY <2>1, <1>1 DEF LetGo, InHand, k
  <2>3. ~InHand(actor', claimed', i) BY <2>1, <2>2, <1>0, <1>1, <1>2 DEF LetGo, InHand
  <2>4. posts'[i].status = "cancelled" /\ posts'[i].swept = 0 BY <2>1, <2>2, <1>4 DEF LetGo
  <2> QED BY <2>3, <2>4 DEF LetGo
<1> QED BY <1>1, <1>4, <1>7, <1>8 DEF FInv

LEMMA NextFInv == IInv /\ FInv /\ [Next]_vars => FInv'
<1> SUFFICES ASSUME IInv, FInv, [Next]_vars PROVE FInv' OBVIOUS
<1>1. CASE UNCHANGED vars BY <1>1 DEF vars, history, FInv
<1>2. ASSUME NEW a \in Actors, PublishStep(a) PROVE FInv'
  BY <1>2, FPublishOk, FPublishFails, FCleanRead, FCleanWrite, FCleanFails DEF PublishStep
<1>3. ASSUME NEW t \in Taps, TapStep(t) PROVE FInv'
  <2>1. t \in Actors BY Present
  <2> QED BY <1>2, <1>3, <2>1, FScheduleRead, FPublishButton, FScheduleWrite, FCancelRead, FSendLook,
             FSendCancelRead, FCancelWrite, FRollsBack DEF TapStep
<1>4. CASE SweepStep
  <2>1. Sweep \in Actors BY Present
  <2> QED BY <1>2, <1>4, <2>1, FSweepSelect, FSweepClaim, FSweepRecord, FRecordFails, FSweepEnd,
             FSweepNext, FRollsBack DEF SweepStep
<1>5. ASSUME NEW i \in DOMAIN posts, ComesDue(i) PROVE FInv' BY <1>5, FComesDue
<1> QED BY <1>1, <1>3, <1>4, <1>5, FCrash DEF Next

LEMMA FInductive == Spec => []FInv
<1>1. Init => FInv
  <2> SUFFICES ASSUME Init PROVE FInv OBVIOUS
  <2>1. DOMAIN posts = {} /\ off = {} BY DEF Init
  <2> QED BY <2>1 DEF FInv
<1> QED BY <1>1, Inductive, NextFInv, PTL DEF Spec

-----------------------------------------------------------------------------
(* Theorems *)

\* Rows, handlers and the sweep have their types, and there are never more rows than
\* the bound, with one kept for each handler that is about to insert.
THEOREM PostsTypeCorrect == Spec => []TypeOK
<1>1. IInv => TypeOK
  <2> SUFFICES ASSUME IInv PROVE TypeOK OBVIOUS
  <2>1. \A a \in Actors : actor[a] \in Actor BY DEF IInv, Sound
  <2>2. actor \in [Actors -> Actor] BY <2>1 DEF IInv
  <2>3. claimed \subseteq DOMAIN posts BY DEF IInv, Ahead
  <2> QED BY <2>2, <2>3, Rows DEF TypeOK, IInv
<1> QED BY <1>1, Inductive, PTL

\* The sweep publishes a row at most once, also when its transactions overlap with
\* those of the buttons.
THEOREM SweepFiresRowsOnce == Spec => []SweepFiresOnce
<1>1. IInv => SweepFiresOnce
  BY DEF IInv, Once, SweepFiresOnce
<1> QED BY <1>1, Inductive, PTL

\* A request has two pending rows only after two calls of schedule for it met.
THEOREM OneTimePerRequest == Spec => []OnePendingPerRequest
<1>1. IInv => OnePendingPerRequest
  <2> SUFFICES ASSUME IInv, NEW r \in Requests \ raced PROVE Cardinality(Pending(r)) <= 1
    BY DEF OnePendingPerRequest
  <2>1. \A i, j \in Pending(r) : i = j BY DEF IInv, OneWaits, Pending
  <2>2. CASE Pending(r) = {} BY <2>2, FS_EmptySet
  <2>3. CASE Pending(r) # {}
    <3>1. PICK i \in Pending(r) : TRUE BY <2>3
    <3>2. Pending(r) = {i} BY <2>1, <3>1
    <3>3. Cardinality(Pending(r)) = 1 BY <3>2, FS_Singleton, Zenon
    <3> QED BY <3>3
  <2> QED BY <2>2, <2>3
<1> QED BY <1>1, Inductive, PTL

\* The sweep publishes a cancelled row only where the cancelling commit and another one
\* crossed, for any number of handlers, errors and restarts.
THEOREM CancelledPostsStayOff == Spec => []CalledOffStaysOff
<1>1. IInv /\ FInv => CalledOffStaysOff BY DEF FInv, LetGo, CalledOffStaysOff
<1> QED BY <1>1, Inductive, FInductive, PTL

\* A row is published twice only after such a crossing, or by a Send button that went on
\* although the row was no longer pending.
THEOREM PostsFireOnce == Spec => []FiredOnce
<1>1. IInv /\ FInv => FiredOnce
  <2> SUFFICES ASSUME FInv, NEW i \in DOMAIN posts \ (crossed \cup anyhow)
               PROVE  ~(posts[i].swept + posts[i].sent > 1) \/ ~IInv
    BY DEF FiredOnce
  <2>1. IInv => posts[i] \in Post BY Rows
  <2>2. IInv => posts[i].swept \in Nat /\ posts[i].sent \in Nat BY <2>1, PostsAssumption DEF Post
  <2>3. posts[i].swept + posts[i].sent <= 1 BY DEF FInv, HeldOnce, Fires
  <2> QED BY <2>2, <2>3
<1> QED BY <1>1, Inductive, FInductive, PTL

-----------------------------------------------------------------------------
(***************************************************************************)
(* ShiftDuty for every staff, any number of running calls and restarts:    *)
(* the types, a record that is always one the screens can act on, and an   *)
(* AFK check that frees only who has rested, but for the calls it met.     *)
(*                                                                         *)
(* WellFormed is not inductive alone: a call saves what it computed from a *)
(* record that has since been replaced.  What makes it hold is that every  *)
(* record on its way to Redis is well formed by itself, so that whichever  *)
(* of two saves comes last, the result is.                                 *)
(***************************************************************************)
\* WellFormed, of any record.
Formed(s) ==
  /\ s.worker = Nobody <=> s.status = "available"
  /\ s.status = "takeover_pending" => s.asker \notin {Nobody, s.worker} /\ s.of = s.worker

Saving == [pc : {"save"}, new : {s \in ShiftState : Formed(s)}, next : {"idle", "touch", "forget"}]
Ending == [pc : {"touch", "forget"}]

\* The inductive invariant.  It carries the assumption about ShiftDuty's constants.
DutyInv ==
  /\ DutyConstants
  /\ shift \in ShiftState /\ Formed(shift)
  /\ activity \in {"fresh", "stale", "gone"}
  /\ task \in [Tasks -> {AtEase} \cup Saving \cup Ending]
  /\ restarts \in 0..MaxRestarts
  /\ resting \in BOOLEAN /\ met \in BOOLEAN /\ cut \in BOOLEAN

-----------------------------------------------------------------------------
(* Shifts: the records a call may write *)

\* Nobody is neither the owner nor on the staff.
LEMMA UserIsSomebody ==
  ASSUME DutyConstants, NEW u \in Users
  PROVE  u # Nobody
BY DEF DutyConstants, Users

LEMMA AvailableFormed == Available \in ShiftState /\ Formed(Available)
BY DEF Available, ShiftState, ShiftStatus, Formed

LEMMA OnDutyFormed ==
  ASSUME DutyConstants, NEW u \in Users
  PROVE  OnDuty(u) \in ShiftState /\ Formed(OnDuty(u))
BY UserIsSomebody DEF OnDuty, ShiftState, ShiftStatus, Formed

\* What a person's call writes from a well-formed record that admits it.
LEMMA WrittenFormed ==
  ASSUME DutyConstants, NEW op \in Ops \ {"afk"}, NEW u \in Users,
         shift \in ShiftState, Formed(shift), Admitted(op, u)
  PROVE  Written(op, u, shift) \in ShiftState /\ Formed(Written(op, u, shift))
<1>0. u # Nobody BY UserIsSomebody
<1>1. CASE op = "gate" /\ u = Owner
  <2>1. Written(op, u, shift) = OnDuty(u) BY <1>1 DEF Written, OwnerTakes
  <2> QED BY <2>1, OnDutyFormed
<1>2. CASE op = "gate" /\ u # Owner
  <2>1. Written(op, u, shift) = [shift EXCEPT !.worker = u, !.status = "active"]
    BY <1>2 DEF Written
  <2>2. [shift EXCEPT !.worker = u, !.status = "active"] \in ShiftState
    BY DEF ShiftState, ShiftStatus
  <2>3. Formed([shift EXCEPT !.worker = u, !.status = "active"])
    BY <1>0 DEF ShiftState, Formed
  <2> QED BY <2>1, <2>2, <2>3
<1>3. CASE op \in {"take", "accept"}
  <2>1. Written(op, u, shift) = OnDuty(u) BY <1>3 DEF Written
  <2> QED BY <2>1, OnDutyFormed
<1>4. CASE op = "relief"
  <2>1. Written(op, u, shift) = [shift EXCEPT !.status = "relief_sought"]
    BY <1>4 DEF Written
  <2>2. [shift EXCEPT !.status = "relief_sought"] \in ShiftState
    BY DEF ShiftState, ShiftStatus
  <2>3. shift.worker = u BY <1>4 DEF Admitted
  <2>4. Formed([shift EXCEPT !.status = "relief_sought"])
    BY <1>0, <2>3 DEF ShiftState, Formed
  <2> QED BY <2>1, <2>2, <2>4
<1>5. CASE op = "takeover"
  <2> DEFINE s == [shift EXCEPT !.status = "takeover_pending", !.asker = u, !.of = shift.worker]
  <2>1. Written(op, u, shift) = s BY <1>5 DEF Written
  <2>2. shift.worker \notin {Nobody, u} BY <1>5 DEF Admitted, MayAsk
  <2>3. s \in ShiftState BY DEF ShiftState, ShiftStatus
  <2>4. Formed(s) BY <1>0, <2>2 DEF ShiftState, Formed
  <2> QED BY <2>1, <2>3, <2>4
<1>6. CASE op = "approve"
  <2>1. Written(op, u, shift) = OnDuty(shift.asker) BY <1>6 DEF Written
  <2>2. shift.asker \in Users BY <1>6 DEF Admitted, ShiftState
  <2> QED BY <2>1, <2>2, OnDutyFormed
<1>7. CASE op = "deny"
  <2> DEFINE s == [shift EXCEPT !.status = "active", !.asker = Nobody, !.of = Nobody]
  <2>1. Written(op, u, shift) = s BY <1>7 DEF Written
  <2>2. shift.worker = u BY <1>7 DEF Admitted
  <2>3. s \in ShiftState BY DEF ShiftState, ShiftStatus
  <2>4. Formed(s) BY <1>0, <2>2 DEF ShiftState, Formed
  <2> QED BY <2>1, <2>3, <2>4
<1> QED BY <1>1, <1>2, <1>3, <1>4, <1>5, <1>6, <1>7 DEF Ops

-----------------------------------------------------------------------------
(* Shifts: every step keeps the invariant *)

\* Replacing one call's entry by one of its kind.
LEMMA TaskKept ==
  ASSUME NEW t \in Tasks, NEW x \in {AtEase} \cup Saving \cup Ending,
         task \in [Tasks -> {AtEase} \cup Saving \cup Ending], Moves(t, x)
  PROVE  task' \in [Tasks -> {AtEase} \cup Saving \cup Ending]
BY DEF Moves

LEMMA SavingIs ==
  ASSUME NEW s \in ShiftState, Formed(s), NEW n \in {"idle", "touch", "forget"}
  PROVE  [pc |-> "save", new |-> s, next |-> n] \in Saving
BY DEF Saving

\* A person's call begins.
LEMMA BeginKeeps ==
  ASSUME DutyInv, NEW t \in Handlers, NEW op \in Ops \ {"afk"}, NEW u \in Users, Begin(t, op, u)
  PROVE  DutyInv'
<1>1. Written(op, u, shift) \in ShiftState /\ Formed(Written(op, u, shift))
  BY WrittenFormed DEF DutyInv, Begin
<1>2. After(op) \in {"idle", "touch", "forget"} BY DEF After, Ops
<1>3. [pc |-> "save", new |-> Written(op, u, shift), next |-> After(op)] \in Saving
  BY <1>1, <1>2, SavingIs
<1>4. task' \in [Tasks -> {AtEase} \cup Saving \cup Ending]
  BY <1>3, TaskKept DEF DutyInv, Begin, Tasks
<1> QED BY <1>4 DEF DutyInv, Begin, Formed, HandlersRest, At

\* The AFK check begins.
LEMMA AfkKeeps ==
  ASSUME DutyInv, Begin(AfkCheck, "afk", Nobody)
  PROVE  DutyInv'
<1>1. Written("afk", Nobody, shift) = Available /\ After("afk") = "forget"
  BY DEF Written, After
<1>2. [pc |-> "save", new |-> Available, next |-> "forget"] \in Saving
  BY AvailableFormed, SavingIs
<1>3. task' \in [Tasks -> {AtEase} \cup Saving \cup Ending]
  BY <1>1, <1>2, TaskKept DEF DutyInv, Begin, Tasks
<1> QED BY <1>3 DEF DutyInv, Begin, Formed, HandlersRest, At

\* The record that is saved was well formed when it was computed.
LEMMA SaveKeeps ==
  ASSUME DutyInv, NEW t \in Tasks, Save(t)
  PROVE  DutyInv'
<1>1. task[t] \in Saving BY DEF DutyInv, Save, At, AtEase, Ending, Saving
<1>2. shift' \in ShiftState /\ Formed(shift') BY <1>1 DEF Save, Saving
<1>3. [pc |-> task[t].next] \in {AtEase} \cup Ending BY <1>1 DEF Saving, Ending, AtEase
<1>4. task' \in [Tasks -> {AtEase} \cup Saving \cup Ending]
  BY <1>3, TaskKept DEF DutyInv, Save
<1> QED BY <1>2, <1>4 DEF DutyInv, Save, Formed

LEMMA EndKeeps ==
  ASSUME DutyInv, NEW t \in Tasks, Touch(t) \/ Forget(t)
  PROVE  DutyInv'
<1>1. task' \in [Tasks -> {AtEase} \cup Saving \cup Ending]
  BY TaskKept DEF DutyInv, Touch, Forget
<1> QED BY <1>1 DEF DutyInv, Touch, Forget, Formed, dutyHistory

LEMMA GateKeeps ==
  ASSUME DutyInv, NEW t \in Handlers, NEW u \in Users, GateOnDuty(t, u)
  PROVE  DutyInv'
<1>1. [pc |-> "touch"] \in Ending BY DEF Ending
<1>2. task' \in [Tasks -> {AtEase} \cup Saving \cup Ending]
  BY <1>1, TaskKept DEF DutyInv, GateOnDuty, Tasks
<1> QED BY <1>2 DEF DutyInv, GateOnDuty, Formed, At

LEMMA WorldKeeps ==
  ASSUME DutyInv, Quiet \/ Expire \/ Restart
  PROVE  DutyInv'
<1>1. CASE Quiet BY <1>1 DEF DutyInv, Quiet, Formed
<1>2. CASE Expire BY <1>2 DEF DutyInv, Expire, Formed, dutyHistory
<1>3. CASE Restart
  <2>1. restarts' \in 0..MaxRestarts BY <1>3 DEF DutyInv, DutyConstants, Restart
  <2>2. task' \in [Tasks -> {AtEase} \cup Saving \cup Ending] BY <1>3 DEF Restart
  <2> QED BY <1>3, <2>1, <2>2 DEF DutyInv, Restart, Formed
<1> QED BY <1>1, <1>2, <1>3

LEMMA InitDutyInv ==
  ASSUME DutyConstants, DutyInit
  PROVE  DutyInv
<1>1. shift \in ShiftState /\ Formed(shift) BY AvailableFormed DEF DutyInit
<1>2. restarts \in 0..MaxRestarts BY DEF DutyInit, DutyConstants
<1> QED BY <1>1, <1>2 DEF DutyInit, DutyInv

LEMMA NextDutyInv == DutyInv /\ [DutyNext]_dutyVars => DutyInv'
<1> SUFFICES ASSUME DutyInv, [DutyNext]_dutyVars PROVE DutyInv' OBVIOUS
<1>1. CASE UNCHANGED dutyVars BY <1>1 DEF DutyInv, dutyVars, dutyHistory, Formed
<1>2. CASE \E t \in Handlers, u \in Users : GateOnDuty(t, u) BY <1>2, GateKeeps
<1>3. CASE \E t \in Handlers, u \in Users : \E op \in Ops \ {"afk"} : Begin(t, op, u)
  BY <1>3, BeginKeeps
<1>4. CASE \E t \in Handlers : Finish(t)
  BY <1>4, SaveKeeps, EndKeeps DEF Finish, Tasks
<1>5. CASE AfkStep
  BY <1>5, AfkKeeps, SaveKeeps, EndKeeps DEF AfkStep, Tasks
<1>6. CASE Quiet \/ Expire \/ Restart BY <1>6, WorldKeeps
<1> QED BY <1>1, <1>2, <1>3, <1>4, <1>5, <1>6 DEF DutyNext

LEMMA DutyInductive == DutySpec => []DutyInv
<1>1. DutyInit => DutyInv BY InitDutyInv, DutyAssumption
<1> QED BY <1>1, NextDutyInv, PTL DEF DutySpec

-----------------------------------------------------------------------------
(* Shifts: theorems *)

\* Every record in Redis, and every record a call is about to write, has its types.
THEOREM DutyTypeCorrect == DutySpec => []DutyTypeOK
<1>1. DutyInv => DutyTypeOK BY DEF DutyInv, DutyTypeOK, Task, Saving, Ending
<1> QED BY <1>1, DutyInductive, PTL

\* Why the check is fair: a stale note of a worker who has acted means that a call is
\* about to renew it, or was cut; and a check that met nobody is alone until it saves.
FairInv ==
  /\ (activity = "stale" /\ ~resting /\ ~cut) => \E t \in Handlers : At(t, "touch")
  /\ At(AfkCheck, "save") => task[AfkCheck].next = "forget"
  /\ (At(AfkCheck, "save") /\ ~met) => HandlersRest /\ (resting \/ cut)

LEMMA NextFairInv == DutyInv /\ FairInv /\ [DutyNext]_dutyVars => FairInv'
<1> SUFFICES ASSUME DutyInv, FairInv, [DutyNext]_dutyVars PROVE FairInv' OBVIOUS
<1>0. /\ AfkCheck \notin Handlers /\ AfkCheck \in Tasks /\ Handlers \subseteq Tasks
      /\ task = [t \in Tasks |-> task[t]]
  BY DEF DutyInv, DutyConstants, Tasks
<1>1. CASE UNCHANGED dutyVars BY <1>1 DEF FairInv, dutyVars, dutyHistory, At, HandlersRest
<1>2. ASSUME NEW t \in Handlers, NEW u \in Users, GateOnDuty(t, u) PROVE FairInv'
  <2>1. task'[t].pc = "touch" /\ \A b \in Tasks \ {t} : task'[b] = task[b]
    BY <1>0, <1>2 DEF GateOnDuty, Moves
  <2> QED BY <1>0, <1>2, <2>1 DEF FairInv, GateOnDuty, At, HandlersRest
<1>3. ASSUME NEW t \in Handlers, NEW u \in Users, NEW op \in Ops \ {"afk"}, Begin(t, op, u)
      PROVE  FairInv'
  <2>1. /\ task[t].pc = "idle" /\ task'[t].pc = "save"
        /\ \A b \in Tasks \ {t} : task'[b] = task[b]
    BY <1>0, <1>3 DEF Begin, Moves, At
  <2>2. UNCHANGED <<activity, resting, cut>> /\ met' = (met \/ ~At(AfkCheck, "idle"))
    BY <1>0, <1>3 DEF Begin
  <2>3. (\E b \in Handlers : At(b, "touch")) => (\E b \in Handlers : At(b, "touch"))'
    BY <1>0, <2>1 DEF At
  <2>4. At(AfkCheck, "save")' => At(AfkCheck, "save") /\ met'
    BY <1>0, <2>1, <2>2 DEF At
  <2>5. task'[AfkCheck] = task[AfkCheck] BY <1>0, <2>1
  <2> QED BY <2>2, <2>3, <2>4, <2>5 DEF FairInv
<1>4. ASSUME NEW t \in Tasks, Save(t), t # AfkCheck => t \in Handlers PROVE FairInv'
  <2>1. /\ task[t].pc = "save" /\ task'[t].pc = task[t].next
        /\ \A b \in Tasks \ {t} : task'[b] = task[b]
    BY <1>0, <1>4 DEF Save, Moves, At
  <2>2. UNCHANGED <<activity, met, cut>> /\ resting' = (resting /\ task[t].next # "touch")
    BY <1>4 DEF Save
  <2>3. task[t].next \in {"idle", "touch", "forget"}
    BY <2>1 DEF DutyInv, Saving, Ending, AtEase
  <2>4. CASE t = AfkCheck
    <3>0. task[t].next = "forget" BY <2>1, <2>4 DEF FairInv, At
    <3>1. task'[t].pc = "forget" /\ resting' = resting BY <3>0, <2>1, <2>2 DEF DutyInv
    <3>2. (\E b \in Handlers : At(b, "touch")) => (\E b \in Handlers : At(b, "touch"))'
      BY <1>0, <2>1, <2>4 DEF At
    <3> QED BY <2>2, <2>4, <3>1, <3>2 DEF FairInv, At
  <2>5. CASE t # AfkCheck
    <3>1. t \in Handlers /\ task'[AfkCheck] = task[AfkCheck] BY <1>0, <1>4, <2>1, <2>5
    <3>2. At(AfkCheck, "save") => met
      BY <2>1, <3>1 DEF FairInv, HandlersRest, At
    <3>3. (activity = "stale" /\ ~resting' /\ ~cut) => (\E b \in Handlers : At(b, "touch"))'
      <4>1. CASE task[t].next = "touch" BY <4>1, <2>1, <3>1 DEF At
      <4>2. CASE task[t].next # "touch"
        <5>1. resting' = resting BY <4>2, <2>2 DEF DutyInv
        <5> QED BY <5>1, <1>0, <2>1 DEF FairInv, At
      <4> QED BY <4>1, <4>2
    <3> QED BY <2>2, <3>1, <3>2, <3>3 DEF FairInv, At
  <2> QED BY <2>4, <2>5
<1>5. ASSUME NEW t \in Tasks, Touch(t) \/ Forget(t) PROVE FairInv'
  <2>1. /\ activity' # "stale" /\ UNCHANGED dutyHistory
        /\ task[t].pc \in {"touch", "forget"} /\ task'[t].pc = "idle"
        /\ \A b \in Tasks \ {t} : task'[b] = task[b]
    BY <1>0, <1>5 DEF Touch, Forget, Moves, At, AtEase
  <2> QED BY <1>0, <2>1 DEF FairInv, At, HandlersRest, dutyHistory
<1>6. ASSUME Begin(AfkCheck, "afk", Nobody) PROVE FairInv'
  <2>1. /\ task'[AfkCheck].next = "forget"
        /\ \A b \in Tasks \ {AfkCheck} : task'[b] = task[b]
    BY <1>0, <1>6 DEF Begin, Moves, After
  <2>2. /\ UNCHANGED <<activity, resting, cut>> /\ met' = ~HandlersRest
        /\ activity = "stale"
    BY <1>6 DEF Begin, Admitted, IsAfk
  <2>3. \A b \in Handlers : task'[b] = task[b] BY <1>0, <2>1
  <2>4. HandlersRest => resting \/ cut BY <2>2 DEF FairInv, HandlersRest, At
  <2> QED BY <2>1, <2>2, <2>3, <2>4 DEF FairInv, HandlersRest, At
<1>7. CASE Quiet BY <1>7 DEF FairInv, Quiet, At, HandlersRest
<1>8. CASE Expire BY <1>8 DEF FairInv, Expire, At, HandlersRest, dutyHistory
<1>9. CASE Restart
  <2>1. \A t \in Tasks : task'[t].pc = "idle" BY <1>9 DEF Restart, AtEase
  <2> QED BY <1>0, <1>9, <2>1 DEF FairInv, Restart, At
<1> QED BY <1>0, <1>1, <1>2, <1>3, <1>4, <1>5, <1>6, <1>7, <1>8, <1>9 DEF DutyNext, AfkStep, Finish

\* The check frees a shift only after 45 minutes of rest, for any staff and any number
\* of calls and restarts; a call it met and one cut short are the exceptions.
THEOREM OnlyTheIdleAreFreed == DutySpec => []AfkFreesTheIdle
<1>1. DutyInit => FairInv BY DutyAssumption DEF DutyInit, DutyConstants, FairInv, At, AtEase, Tasks
<1>2. FairInv => AfkFreesTheIdle BY DEF FairInv, AfkFreesTheIdle
<1> QED BY <1>1, <1>2, DutyInductive, NextFairInv, PTL DEF DutySpec

\* Whatever calls interleave, restart or overwrite each other, the record in Redis has
\* a worker unless the shift is free, and a pending takeover that the worker was asked.
THEOREM DutyWellFormed == DutySpec => []WellFormed
<1>1. DutyInv => WellFormed BY DEF DutyInv, Formed, WellFormed
<1> QED BY <1>1, DutyInductive, PTL
=============================================================================
