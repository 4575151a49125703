------------------------- MODULE ChannelRecoveryProofs -------------------------
(***************************************************************************)
(* ChannelRecovery for any chats, cards and admins, any number of bans,    *)
(* attempts, failed calls, failed transactions and restarts.               *)
(*                                                                         *)
(* Until two attempts get in each other's way, or a recovery begins when   *)
(* the original has gone, a title is in one of two states (Safe).  Either  *)
(* the row of the original is on (Standing): being the only one that no    *)
(* person made it is what every capture reads, however many attempts are   *)
(* under way, and these are on different chats.  Or a replacement has      *)
(* taken over whole, alone, and no attempt is at work (Landed).            *)
(*                                                                         *)
(* For the cards, every attempt knows which messages are its own: they     *)
(* carry its number.  What a chat shows is in its posts or its journal, or *)
(* is the message just sent, or lost its journal entry (Tracked).          *)
(***************************************************************************)
EXTENDS ChannelRecovery, FiniteSetTheorems, WellFoundedInduction, TLAPS

Shown(S) == {m[1] : m \in S}

\* The types, and what they rest on.
TypeInv ==
  /\ TypeOK
  /\ \A r \in Admins : /\ At(r, "track") => task[r].todo # {}
                       /\ AtWork(r) => task[r].row \in DOMAIN rows

-----------------------------------------------------------------------------
(* Sets *)

LEMMA MinIn == ASSUME NEW S \in SUBSET Nat, S # {} PROVE Min(S) \in S
<1>1. IsWellFoundedOn({ss \in Nat \X Nat : ss[1] < ss[2]}, Nat)
  BY NatLessThanWellFounded DEF OpToRel
<1>2. PICK x \in S : \A y \in S : <<y, x>> \notin {ss \in Nat \X Nat : ss[1] < ss[2]}
  BY <1>1, WFMin, Zenon
<1>3. ASSUME NEW y \in S PROVE x =< y
  <2>1. <<y, x>> \in Nat \X Nat /\ ~(y < x) BY <1>2
  <2> QED BY <2>1
<1> QED BY <1>3 DEF Min

LEMMA MaxIn == ASSUME NEW n \in Nat, NEW S \in SUBSET (1..n), S # {} PROVE Max(S) \in S
<1> DEFINE T == {n - y : y \in S}
<1>1. T \in SUBSET Nat /\ T # {}
  <2>1. \A y \in S : n - y \in Nat OBVIOUS
  <2> QED BY <2>1
<1>2. Min(T) \in T BY <1>1, MinIn
<1>3. IsWellFoundedOn({ss \in Nat \X Nat : ss[1] < ss[2]}, Nat)
  BY NatLessThanWellFounded DEF OpToRel
<1>4. PICK t \in T : \A y \in T : <<y, t>> \notin {ss \in Nat \X Nat : ss[1] < ss[2]}
  BY <1>1, <1>3, WFMin, Zenon
<1>5. PICK x \in S : t = n - x OBVIOUS
<1>6. ASSUME NEW y \in S PROVE x >= y
  <2>1. <<n - y, t>> \in Nat \X Nat /\ ~(n - y < t) BY <1>4
  <2> QED BY <1>5, <2>1
<1> QED BY <1>6 DEF Max

LEMMA MaxOfOne == ASSUME NEW n \in Int PROVE Max({n}) = n
BY DEF Max

LEMMA MsgFinite == ASSUME NEW S \in SUBSET Msg PROVE IsFiniteSet(S) /\ Cardinality(S) \in Nat
<1>1. IsFiniteSet(0..MaxTries) BY FS_Interval, RecoveryAssumption
<1>2. IsFiniteSet(Msg) BY <1>1, FS_Product, RecoveryAssumption DEF Msg
<1> QED BY <1>2, FS_Subset, FS_CardinalityType

-----------------------------------------------------------------------------
(* What a capture reads *)

LEMMA CapturedOf ==
  ASSUME NEW c, Source # {}, rows[Max(Source)].chat = c, Shown(posts[c]) = Cards
  PROVE  Captured = Cards
<1>1. posts[c] # {}
  <2>1. PICK k \in Cards : TRUE BY RecoveryAssumption
  <2> QED BY <2>1 DEF Shown
<1>2. posts[rows[Max(Source)].chat] = posts[c] OBVIOUS
<1>3. Captured = IF posts[c] = {} THEN backup ELSE Shown(posts[c])
  BY <1>2, Zenon DEF Captured, Shown
<1> QED BY <1>1, <1>3

LEMMA ShownFirst == Shown(Cards \X {0}) = Cards
<1>1. Shown(Cards \X {0}) \subseteq Cards BY DEF Shown
<1>2. ASSUME NEW k \in Cards PROVE k \in Shown(Cards \X {0})
  <2>1. <<k, 0>> \in Cards \X {0} /\ <<k, 0>>[1] = k OBVIOUS
  <2> QED BY <2>1, Zenon DEF Shown
<1> QED BY <1>1, <1>2

-----------------------------------------------------------------------------
(* Types *)

LEMMA RowAt == TypeOK => /\ Len(rows) \in Nat /\ DOMAIN rows = 1..Len(rows)
                         /\ \A i \in DOMAIN rows : rows[i] \in Row
BY DEF TypeOK

LEMMA RowIsId == TypeOK => DOMAIN rows \subseteq Ids
<1> SUFFICES ASSUME TypeOK, NEW i \in DOMAIN rows PROVE i \in Ids OBVIOUS
<1>1. i \in 1..Len(rows) /\ Len(rows) \in Nat BY RowAt
<1>2. Len(rows) <= tries + 1 /\ tries \in 0..MaxTries BY DEF TypeOK
<1> QED BY <1>1, <1>2, RecoveryAssumption DEF Ids

LEMMA LinkedIsChat == TypeOK => Linked \in Chats
<1> SUFFICES ASSUME TypeOK, Enabled # {} PROVE rows[Max(Enabled)].chat \in Chats
  BY DEF Linked, TypeOK
<1>1. Enabled \in SUBSET (1..Len(rows)) BY RowAt DEF Enabled
<1>2. Max(Enabled) \in DOMAIN rows BY <1>1, MaxIn, RowAt
<1> QED BY <1>2, RowAt DEF Row

LEMMA CapturedIsCards == TypeOK => Captured \subseteq Cards
<1> SUFFICES ASSUME TypeOK, Source # {} PROVE {m[1] : m \in posts[rows[Max(Source)].chat]} \subseteq Cards
  BY DEF Captured, TypeOK
<1>1. Source \in SUBSET (1..Len(rows)) BY RowAt DEF Source, Originals, Enabled
<1>2. Max(Source) \in DOMAIN rows BY <1>1, MaxIn, RowAt
<1>3. rows[Max(Source)].chat \in Chats BY <1>2, RowAt DEF Row
<1>4. posts[rows[Max(Source)].chat] \subseteq Msg BY <1>3 DEF TypeOK
<1> QED BY <1>4 DEF Msg

LEMMA IdleTask == Idle \in Task /\ Idle.pc = "idle" /\ Idle.sent = {} /\ Idle.failed = FALSE
BY RecoveryAssumption DEF Idle, Task, Ids

LEMMA TargetIsChat == TypeOK => \A r \in Admins : Target(r) \in Chats /\ task[r] \in Task
BY DEF TypeOK, Target, Task

LEMMA TypeInit == Init => TypeInv
<1> SUFFICES ASSUME Init PROVE TypeInv OBVIOUS
<1>1. Published \in [Chats -> SUBSET Msg] BY RecoveryAssumption DEF Published, Msg
<1>2. rows \in Seq(Row) /\ Len(rows) = 1 BY RecoveryAssumption DEF Init, Row
<1>3. task \in [Admins -> Task] /\ \A r \in Admins : task[r].pc = "idle" BY IdleTask DEF Init
<1>4. banned \subseteq Chats /\ public \in Chats /\ backup \subseteq Cards
  BY RecoveryAssumption DEF Init
<1>5. tries = 0 /\ faults \in 0..MaxFaults /\ breaks \in 0..MaxBreaks /\ tries \in 0..MaxTries
  BY RecoveryAssumption DEF Init
<1>6. posts = Published /\ journal = Published /\ shown = Published BY DEF Init
<1>7. {again, crossed, cut} \subseteq BOOLEAN /\ unlogged \subseteq Msg BY DEF Init
<1> QED BY <1>1, <1>2, <1>3, <1>4, <1>5, <1>6, <1>7 DEF TypeInv, TypeOK, At, AtWork

\* One attempt's turn: what it must keep for the types.
LEMMA Turn ==
  ASSUME TypeInv, NEW r \in Admins, NEW t \in Task, Becomes(r, t),
         rows' \in Seq(Row), Len(rows') <= tries' + 1, DOMAIN rows \subseteq DOMAIN rows',
         t.pc = "track" => t.todo # {},
         t.pc \notin {"idle", "register"} => t.row \in DOMAIN rows',
         banned' \subseteq Chats, public' \in Chats, backup' \subseteq Cards,
         posts' \in [Chats -> SUBSET Msg], journal' \in [Chats -> SUBSET Msg],
         shown' \in [Chats -> SUBSET Msg],
         tries' \in 0..MaxTries, faults' \in 0..MaxFaults, breaks' \in 0..MaxBreaks,
         {again', crossed', cut'} \subseteq BOOLEAN, unlogged' \subseteq Msg
  PROVE  TypeInv'
<1>1. task' \in [Admins -> Task] BY DEF Becomes, TypeInv, TypeOK
<1>2. ASSUME NEW s \in Admins
      PROVE  /\ task'[s].pc = "track" => task'[s].todo # {}
             /\ task'[s].pc \notin {"idle", "register"} => task'[s].row \in DOMAIN rows'
  <2>1. CASE s = r
    <3>1. task'[s] = t BY <2>1 DEF Becomes, TypeInv, TypeOK
    <3> QED BY <3>1
  <2>2. CASE s # r
    <3>1. task'[s] = task[s] BY <2>2 DEF Becomes, TypeInv, TypeOK
    <3> QED BY <3>1 DEF TypeInv, At, AtWork
  <2> QED BY <2>1, <2>2
<1>3. TypeOK' BY <1>1 DEF TypeOK
<1> QED BY <1>2, <1>3 DEF TypeInv, At, AtWork

LEMMA TypeBegin == ASSUME TypeInv, NEW r \in Admins, NEW c \in Chats, Begin(r, c) PROVE TypeInv'
<1> DEFINE t == [Idle EXCEPT !.pc = "register", !.chat = c]
<1>1. t \in Task /\ t.pc = "register" BY IdleTask DEF Task
<1>2. backup' \subseteq Cards BY CapturedIsCards DEF Begin, TypeInv
<1>3. Becomes(r, t) BY DEF Begin
<1>4. UNCHANGED <<rows, posts, journal, shown, public, faults, outside>> BY DEF Begin
<1> HIDE DEF t
<1> QED BY <1>1, <1>2, <1>3, <1>4, Turn DEF TypeInv, TypeOK, outside, history

LEMMA TypeRefuse == ASSUME TypeInv, NEW r \in Admins, Refuse(r) PROVE TypeInv'
<1>1. UNCHANGED <<stored, shown, public, faults, outside>> /\ Becomes(r, Idle) BY DEF Refuse
<1> QED BY <1>1, IdleTask, Turn DEF TypeInv, TypeOK, stored, outside, history

LEMMA FreshRow == \A c \in Chats : Fresh(c) \in Row
BY DEF Fresh, Row

\* The row a registration takes.
LEMMA TakenRow ==
  ASSUME TypeOK, NEW c \in Chats,
         NEW i, i = IF RowsOf(c) = {} THEN Len(rows) + 1 ELSE Max(RowsOf(c))
  PROVE  /\ RowsOf(c) # {} => i \in RowsOf(c) /\ i \in DOMAIN rows /\ ~(i > Len(rows))
         /\ RowsOf(c) = {} => i = Len(rows) + 1 /\ i > Len(rows)
<1>1. RowsOf(c) \in SUBSET (1..Len(rows)) /\ Len(rows) \in Nat BY RowAt DEF RowsOf
<1>2. RowsOf(c) # {} => Max(RowsOf(c)) \in RowsOf(c) BY <1>1, MaxIn
<1> QED BY <1>1, <1>2, RowAt

RowsTaken(c, i) ==
  /\ rows' \in Seq(Row) /\ DOMAIN rows \subseteq DOMAIN rows' /\ i \in DOMAIN rows'
  /\ Len(rows') <= Len(rows) + 1 /\ Len(rows') \in Nat
  /\ rows'[i] = Fresh(c)
  /\ \A j \in DOMAIN rows' : j # i => j \in DOMAIN rows /\ rows'[j] = rows[j]
  /\ i \in DOMAIN rows => rows[i].chat = c

LEMMA TakenRows ==
  ASSUME TypeOK, NEW c \in Chats,
         NEW i, i = IF RowsOf(c) = {} THEN Len(rows) + 1 ELSE Max(RowsOf(c)),
         rows' = IF i > Len(rows) THEN Append(rows, Fresh(c)) ELSE [rows EXCEPT ![i] = Fresh(c)]
  PROVE  RowsTaken(c, i)
<1>1. rows \in Seq(Row) /\ Fresh(c) \in Row BY FreshRow DEF TypeOK
<1>2. CASE RowsOf(c) = {}
  <2>1. i = Len(rows) + 1 /\ i > Len(rows) BY <1>2, TakenRow
  <2>2. rows' = Append(rows, Fresh(c)) BY <2>1
  <2> HIDE DEF Fresh
  <2> QED BY <1>1, <2>1, <2>2 DEF RowsTaken
<1>3. CASE RowsOf(c) # {}
  <2>1. i \in RowsOf(c) /\ i \in DOMAIN rows /\ ~(i > Len(rows)) BY <1>3, TakenRow
  <2>2. rows' = [rows EXCEPT ![i] = Fresh(c)] BY <2>1
  <2>3. rows[i].chat = c BY <2>1 DEF RowsOf
  <2> QED BY <1>1, <2>1, <2>2, <2>3 DEF RowsTaken
<1> QED BY <1>2, <1>3

LEMMA RegisteredTask ==
  ASSUME TypeOK, NEW r \in Admins, NEW i \in Ids, NEW n \in 0..MaxTries
  PROVE  /\ Registered(r, i, n) \in Task /\ Registered(r, i, n).pc = "olds"
         /\ Registered(r, i, n).row = i /\ Registered(r, i, n).no = n
         /\ Registered(r, i, n).chat = Target(r)
         /\ Registered(r, i, n).sent = task[r].sent /\ Registered(r, i, n).failed = task[r].failed
<1>1. task[r] \in Task BY DEF TypeOK
<1> QED BY <1>1 DEF Registered, Task, Target

LEMMA TypeRegister == ASSUME TypeInv, NEW r \in Admins, Register(r) PROVE TypeInv'
<1> DEFINE c == Target(r)
           i == IF RowsOf(c) = {} THEN Len(rows) + 1 ELSE Max(RowsOf(c))
           t == Registered(r, i, tries + 1)
<1>1. c \in Chats BY TargetIsChat DEF TypeInv
<1>2. /\ rows' = IF i > Len(rows) THEN Append(rows, Fresh(c)) ELSE [rows EXCEPT ![i] = Fresh(c)]
      /\ tries' = tries + 1 /\ tries < MaxTries /\ Becomes(r, t)
      /\ again' = (again \/ Originals = {})
      /\ UNCHANGED <<posts, journal, backup, shown, public, faults, banned, breaks, crossed, unlogged, cut>>
  BY DEF Register
<1>3. TypeOK BY DEF TypeInv
<1> HIDE DEF i, c
<1>4. /\ rows' \in Seq(Row) /\ DOMAIN rows \subseteq DOMAIN rows' /\ i \in DOMAIN rows'
      /\ Len(rows') <= Len(rows) + 1 /\ Len(rows') \in Nat
  <2>1. RowsTaken(c, i) BY <1>1, <1>2, <1>3, TakenRows DEF i
  <2> QED BY <2>1 DEF RowsTaken
<1>5. tries' \in 0..MaxTries BY <1>2, <1>3, RecoveryAssumption DEF TypeOK
<1>6. Len(rows') <= tries' + 1 BY <1>2, <1>3, <1>4, RowAt DEF TypeOK
<1>7. i \in Ids BY <1>4, <1>5, <1>6, RecoveryAssumption DEF Ids
<1>8. t \in Task /\ t.pc = "olds" /\ t.row = i BY <1>2, <1>3, <1>5, <1>7, RegisteredTask
<1> HIDE DEF t
<1>9. {again', crossed', cut'} \subseteq BOOLEAN BY <1>2, <1>3 DEF TypeOK
<1> QED BY <1>2, <1>3, <1>4, <1>5, <1>6, <1>8, <1>9, Turn DEF TypeOK

LEMMA TypeBoth == ASSUME TypeInv, NEW r \in Admins, NEW s \in Admins, RegisterBoth(r, s) PROVE TypeInv'
<1> DEFINE c == Target(r)
           i == IF RowsOf(c) = {} THEN Len(rows) + 1 ELSE Max(RowsOf(c))
           j == IF RowsOf(c) = {} THEN Len(rows) + 2 ELSE i
           t == Registered(r, i, tries + 1)
           u == Registered(s, j, tries + 2)
<1>1. c \in Chats /\ Fresh(c) \in Row BY TargetIsChat, FreshRow DEF TypeInv
<1>2. /\ rows' = IF i > Len(rows) THEN rows \o <<Fresh(c), Fresh(c)>> ELSE [rows EXCEPT ![i] = Fresh(c)]
      /\ tries' = tries + 2 /\ tries + 2 <= MaxTries /\ r # s
      /\ task' = [task EXCEPT ![r] = t, ![s] = u]
      /\ again' = (again \/ Originals = {}) /\ crossed' = TRUE
      /\ UNCHANGED <<posts, journal, backup, shown, public, faults, banned, breaks, unlogged, cut>>
  BY DEF RegisterBoth
<1>3. TypeOK BY DEF TypeInv
<1>a. rows \in Seq(Row) BY <1>3 DEF TypeOK
<1> HIDE DEF i, c
<1>4. /\ rows' \in Seq(Row) /\ DOMAIN rows \subseteq DOMAIN rows' /\ i \in DOMAIN rows' /\ j \in DOMAIN rows'
      /\ Len(rows') <= Len(rows) + 2 /\ Len(rows') \in Nat
  <2>1. CASE RowsOf(c) = {}
    <3>1. i = Len(rows) + 1 /\ i > Len(rows) /\ j = Len(rows) + 2 BY <1>1, <1>3, <2>1, TakenRow DEF i
    <3>2. rows' = rows \o <<Fresh(c), Fresh(c)>> BY <1>2, <3>1
    <3>3. <<Fresh(c), Fresh(c)>> \in Seq(Row) /\ Len(<<Fresh(c), Fresh(c)>>) = 2 BY <1>1
    <3> QED BY <1>a, <3>1, <3>2, <3>3
  <2>2. CASE RowsOf(c) # {}
    <3>1. i \in DOMAIN rows /\ ~(i > Len(rows)) /\ j = i BY <1>1, <1>3, <2>2, TakenRow DEF i
    <3>2. rows' = [rows EXCEPT ![i] = Fresh(c)] BY <1>2, <3>1
    <3> QED BY <1>1, <1>a, <3>1, <3>2
  <2> QED BY <2>1, <2>2
<1>5. tries' \in 0..MaxTries /\ tries + 1 \in 0..MaxTries BY <1>2, <1>3, RecoveryAssumption DEF TypeOK
<1>6. Len(rows') <= tries' + 1 BY <1>2, <1>3, <1>4, RowAt DEF TypeOK
<1>7. i \in Ids /\ j \in Ids BY <1>4, <1>5, <1>6, RecoveryAssumption DEF Ids
<1> HIDE DEF j
<1>8. t \in Task /\ t.pc = "olds" /\ t.row = i /\ u \in Task /\ u.pc = "olds" /\ u.row = j
  BY <1>2, <1>3, <1>5, <1>7, RegisteredTask
<1> HIDE DEF t, u
<1>9. {again', crossed', cut'} \subseteq BOOLEAN BY <1>2, <1>3 DEF TypeOK
<1>10. task' \in [Admins -> Task] BY <1>2, <1>3, <1>8 DEF TypeOK
<1>11. TypeOK' BY <1>2, <1>3, <1>4, <1>5, <1>6, <1>9, <1>10 DEF TypeOK
<1>12. ASSUME NEW a \in Admins
       PROVE  /\ task'[a].pc = "track" => task'[a].todo # {}
              /\ task'[a].pc \notin {"idle", "register"} => task'[a].row \in DOMAIN rows'
  <2>1. CASE a = r \/ a = s BY <1>2, <1>3, <1>4, <1>8, <2>1 DEF TypeOK
  <2>2. CASE a # r /\ a # s
    <3>1. task'[a] = task[a] BY <1>2, <1>3, <2>2 DEF TypeOK
    <3> QED BY <1>4, <3>1 DEF TypeInv, At, AtWork
  <2> QED BY <2>1, <2>2
<1> QED BY <1>11, <1>12 DEF TypeInv, At, AtWork

LEMMA TypeReadOlds == ASSUME TypeInv, NEW r \in Admins, ReadOlds(r) PROVE TypeInv'
<1> DEFINE t == [task[r] EXCEPT !.pc = "cleanup", !.olds = Enabled \ {task[r].row}]
<1>1. task[r] \in Task /\ Enabled \subseteq Ids /\ task[r].row \in DOMAIN rows
  BY RowIsId DEF Enabled, TypeInv, TypeOK, ReadOlds, At, AtWork
<1>2. t \in Task /\ t.pc = "cleanup" /\ t.row = task[r].row BY <1>1 DEF Task
<1>3. UNCHANGED <<stored, shown, public, faults, outside>> /\ Becomes(r, t) BY DEF ReadOlds
<1> HIDE DEF t
<1> QED BY <1>1, <1>2, <1>3, Turn DEF TypeInv, TypeOK, stored, outside, history

LEMMA TypeCleanup == ASSUME TypeInv, NEW r \in Admins, Cleanup(r) PROVE TypeInv'
<1> DEFINE c == Target(r)  tracked == posts[c] \cup journal[c]
<1>1. PICK failed \in SUBSET tracked :
        /\ c \notin banned => faults + Cardinality(failed) <= MaxFaults
        /\ faults' = IF c \in banned THEN faults ELSE faults + Cardinality(failed)
        /\ shown' = [shown EXCEPT ![c] = @ \ (tracked \ failed)]
        /\ posts' = [posts EXCEPT ![c] = @ \cap failed]
        /\ journal' = [journal EXCEPT ![c] = @ \cap failed]
        /\ Goes(r, IF failed = {} THEN "read" ELSE "rollback")
  BY DEF Cleanup
<1> DEFINE t == [task[r] EXCEPT !.pc = IF failed = {} THEN "read" ELSE "rollback"]
<1>2. c \in Chats /\ task[r] \in Task BY TargetIsChat DEF TypeInv
<1>3. failed \in SUBSET Msg BY <1>2 DEF TypeInv, TypeOK
<1>4. faults' \in 0..MaxFaults BY <1>1, <1>3, MsgFinite, RecoveryAssumption DEF TypeInv, TypeOK
<1>5. shown' \in [Chats -> SUBSET Msg] /\ posts' \in [Chats -> SUBSET Msg] /\ journal' \in [Chats -> SUBSET Msg]
  BY <1>1, <1>2 DEF TypeInv, TypeOK
<1>6. t \in Task /\ t.pc \in {"read", "rollback"} /\ t.row = task[r].row BY <1>2 DEF Task
<1>7. UNCHANGED <<rows, backup, public, outside>> /\ At(r, "cleanup") /\ Becomes(r, t)
  BY <1>1 DEF Cleanup, Goes
<1>8. task[r].row \in DOMAIN rows BY <1>7 DEF TypeInv, At, AtWork
<1> HIDE DEF t, c
<1> QED BY <1>4, <1>5, <1>6, <1>7, <1>8, Turn DEF TypeInv, TypeOK, outside, history

LEMMA TypeRead == ASSUME TypeInv, NEW r \in Admins, Read(r) PROVE TypeInv'
<1> DEFINE t == [task[r] EXCEPT !.pc = IF backup = {} THEN "rollback" ELSE "send", !.todo = backup]
<1>1. task[r] \in Task /\ task[r].row \in DOMAIN rows BY DEF TypeInv, TypeOK, Read, At, AtWork
<1>2. t \in Task /\ t.pc \in {"rollback", "send"} /\ t.row = task[r].row BY <1>1 DEF Task, TypeInv, TypeOK
<1>3. UNCHANGED <<stored, shown, public, faults, outside>> /\ Becomes(r, t) BY DEF Read
<1> HIDE DEF t
<1> QED BY <1>1, <1>2, <1>3, Turn DEF TypeInv, TypeOK, stored, outside, history

\* The call a step makes, whatever comes of it.
LEMMA Calls == ASSUME TypeOK, NEW r \in Admins, Works(r) \/ Fails(r) PROVE faults' \in 0..MaxFaults
BY RecoveryAssumption DEF TypeOK, Works, Fails

LEMMA FirstToDo ==
  ASSUME TypeInv, NEW r \in Admins, task[r].todo # {}
  PROVE  /\ Min(task[r].todo) \in task[r].todo /\ Min(task[r].todo) \in Cards
         /\ Current(r) \in Msg /\ Current(r) = <<Min(task[r].todo), task[r].no>>
<1>1. task[r].todo \in SUBSET Cards /\ task[r].no \in 0..MaxTries BY DEF TypeInv, TypeOK, Task
<1>2. Min(task[r].todo) \in task[r].todo BY <1>1, MinIn, RecoveryAssumption
<1> QED BY <1>1, <1>2 DEF Current, Msg

LEMMA TypeSend == ASSUME TypeInv, NEW r \in Admins, Send(r) PROVE TypeInv'
<1> DEFINE m == Current(r)
           t == [task[r] EXCEPT !.pc = "track", !.sent = @ \cup {m}]
           u == [task[r] EXCEPT !.todo = @ \ {Min(@)}, !.failed = TRUE]
<1>1. m \in Msg /\ task[r].todo # {} /\ task[r].pc = "send" BY FirstToDo DEF Send, At
<1>2. task[r] \in Task /\ Target(r) \in Chats /\ task[r].row \in DOMAIN rows
  BY <1>1, TargetIsChat DEF TypeInv, AtWork
<1>3. faults' \in 0..MaxFaults BY Calls DEF Send, TypeInv
<1>4. shown' \in [Chats -> SUBSET Msg] BY <1>1, <1>2 DEF Send, TypeInv, TypeOK
<1> HIDE DEF m
<1>5. t \in Task /\ t.pc = "track" /\ t.todo # {} /\ t.row = task[r].row BY <1>1, <1>2 DEF Task
<1>6. u \in Task /\ u.pc = "send" /\ u.row = task[r].row BY <1>1, <1>2 DEF Task
<1>7. Becomes(r, t) \/ Becomes(r, u) BY DEF Send, m
<1>8. UNCHANGED <<stored, public, outside>> BY DEF Send
<1> HIDE DEF t, u
<1> QED BY <1>2, <1>3, <1>4, <1>5, <1>6, <1>7, <1>8, Turn DEF TypeInv, TypeOK, stored, outside, history

LEMMA TypeTrack == ASSUME TypeInv, NEW r \in Admins, Track(r) PROVE TypeInv'
<1> DEFINE t == [task[r] EXCEPT !.pc = "send", !.todo = @ \ {Min(@)}]
<1>1. task[r].pc = "track" /\ task[r].todo # {} BY DEF Track, At, TypeInv
<1>2. Current(r) \in Msg BY <1>1, FirstToDo
<1>3. task[r] \in Task /\ Target(r) \in Chats /\ task[r].row \in DOMAIN rows
  BY <1>1, TargetIsChat DEF TypeInv, AtWork
<1>4. journal' \in [Chats -> SUBSET Msg] BY <1>2, <1>3 DEF Track, TypeInv, TypeOK
<1>5. t \in Task /\ t.pc = "send" /\ t.row = task[r].row BY <1>3 DEF Task
<1>6. UNCHANGED <<rows, posts, backup, shown, public, faults, outside>> /\ Becomes(r, t) BY DEF Track
<1> HIDE DEF t
<1> QED BY <1>3, <1>4, <1>5, <1>6, Turn DEF TypeInv, TypeOK, outside, history

LEMMA TypeSettle == ASSUME TypeInv, NEW r \in Admins, Settle(r) PROVE TypeInv'
<1> DEFINE t == [task[r] EXCEPT !.pc = Whole(r), !.sent = {}]
<1>1. task[r] \in Task /\ Target(r) \in Chats /\ task[r].row \in DOMAIN rows /\ task[r].sent \subseteq Msg
  BY TargetIsChat DEF TypeInv, AtWork, Settle, At, Task
<1>2. posts' \in [Chats -> SUBSET Msg] /\ journal' \in [Chats -> SUBSET Msg]
  BY <1>1 DEF Settle, TypeInv, TypeOK
<1>3. t \in Task /\ t.pc \in {"rollback", "invite"} /\ t.row = task[r].row BY <1>1 DEF Task, Whole
<1>4. UNCHANGED <<rows, backup, shown, public, faults, outside>> /\ Becomes(r, t) BY DEF Settle
<1> HIDE DEF t
<1> QED BY <1>1, <1>2, <1>3, <1>4, Turn DEF TypeInv, TypeOK, outside, history

\* What the steps make of the rows.
LEMMA RowsMapped == ASSUME TypeOK, NEW f \in [DOMAIN rows -> Row]
                    PROVE f \in Seq(Row) /\ DOMAIN f = DOMAIN rows /\ Len(f) = Len(rows)
BY RowAt

LEMMA InviteRows ==
  ASSUME TypeOK, NEW i \in DOMAIN rows, NEW v \in BOOLEAN,
         rows' = [rows EXCEPT ![i].invite = v]
  PROVE  /\ rows' \in Seq(Row) /\ DOMAIN rows' = DOMAIN rows /\ Len(rows') = Len(rows)
         /\ \A j \in DOMAIN rows : /\ rows'[j].chat = rows[j].chat
                                   /\ rows'[j].human = rows[j].human
                                   /\ rows'[j].enabled = rows[j].enabled
<1>1. rows[i] \in Row BY RowAt
<1>2. [rows[i] EXCEPT !.invite = v] \in Row BY <1>1 DEF Row
<1>3. rows' \in [DOMAIN rows -> Row] BY <1>2, RowAt
<1>4. LET x == [rows[i] EXCEPT !.invite = v]
      IN  x.chat = rows[i].chat /\ x.human = rows[i].human /\ x.enabled = rows[i].enabled
  BY <1>1 DEF Row
<1>5. \A j \in DOMAIN rows : /\ rows'[j].chat = rows[j].chat
                             /\ rows'[j].human = rows[j].human
                             /\ rows'[j].enabled = rows[j].enabled
  BY <1>4
<1> QED BY <1>3, <1>5, RowsMapped

LEMMA EnabledRows ==
  ASSUME TypeOK, NEW on \in [DOMAIN rows -> BOOLEAN],
         rows' = [i \in DOMAIN rows |-> [rows[i] EXCEPT !.enabled = on[i]]]
  PROVE  /\ rows' \in Seq(Row) /\ DOMAIN rows' = DOMAIN rows /\ Len(rows') = Len(rows)
         /\ \A i \in DOMAIN rows : /\ rows'[i].chat = rows[i].chat
                                   /\ rows'[i].human = rows[i].human
                                   /\ rows'[i].enabled = on[i]
<1>1. \A i \in DOMAIN rows : [rows[i] EXCEPT !.enabled = on[i]] \in Row BY RowAt DEF Row
<1>2. rows' \in [DOMAIN rows -> Row] BY <1>1, RowAt
<1>3. \A i \in DOMAIN rows : LET x == [rows[i] EXCEPT !.enabled = on[i]]
                             IN  x.chat = rows[i].chat /\ x.human = rows[i].human /\ x.enabled = on[i]
  BY RowAt DEF Row
<1> QED BY <1>2, <1>3, RowsMapped

LEMMA SwitchRows ==
  ASSUME TypeOK, NEW r \in Admins, Switch(r)
  PROVE  /\ rows' \in Seq(Row) /\ DOMAIN rows' = DOMAIN rows /\ Len(rows') = Len(rows)
         /\ \A i \in DOMAIN rows : /\ rows'[i].chat = rows[i].chat
                                   /\ rows'[i].human = rows[i].human
                                   /\ rows'[i].enabled = (rows[i].enabled /\ i \notin task[r].olds)
<1> DEFINE on == [i \in DOMAIN rows |-> rows[i].enabled /\ i \notin task[r].olds]
<1>1. on \in [DOMAIN rows -> BOOLEAN] OBVIOUS
<1>2. ASSUME NEW i \in DOMAIN rows
      PROVE (IF i \in task[r].olds THEN [rows[i] EXCEPT !.enabled = FALSE] ELSE rows[i])
              = [rows[i] EXCEPT !.enabled = on[i]]
  <2>1. rows[i] \in Row BY RowAt
  <2>2. CASE i \in task[r].olds
    <3>1. on[i] = FALSE BY <2>2
    <3> QED BY <2>2, <3>1
  <2>3. CASE i \notin task[r].olds
    <3>1. on[i] = rows[i].enabled BY <2>1, <2>3 DEF Row
    <3> HIDE DEF on
    <3> QED BY <2>1, <2>3, <3>1 DEF Row
  <2> QED BY <2>2, <2>3
<1>3. rows' = [i \in DOMAIN rows |-> [rows[i] EXCEPT !.enabled = on[i]]] BY <1>2 DEF Switch
<1>4. \A i \in DOMAIN rows : on[i] = (rows[i].enabled /\ i \notin task[r].olds) OBVIOUS
<1> HIDE DEF on
<1> QED BY <1>1, <1>3, <1>4, EnabledRows

LEMMA RollbackRows ==
  ASSUME TypeOK, NEW r \in Admins, Rollback(r)
  PROVE  /\ rows' \in Seq(Row) /\ DOMAIN rows' = DOMAIN rows /\ Len(rows') = Len(rows)
         /\ \A i \in DOMAIN rows :
              /\ rows'[i].chat = rows[i].chat
              /\ rows'[i].human = rows[i].human
              /\ rows'[i].enabled = ((rows[i].enabled \/ i \in task[r].olds) /\ i # task[r].row)
<1> DEFINE on == [i \in DOMAIN rows |-> (rows[i].enabled \/ i \in task[r].olds) /\ i # task[r].row]
<1>1. on \in [DOMAIN rows -> BOOLEAN] OBVIOUS
<1>2. rows' = [i \in DOMAIN rows |-> [rows[i] EXCEPT !.enabled = on[i]]] BY DEF Rollback
<1>3. \A i \in DOMAIN rows :
        on[i] = ((rows[i].enabled \/ i \in task[r].olds) /\ i # task[r].row) OBVIOUS
<1> HIDE DEF on
<1>4. /\ rows' \in Seq(Row) /\ DOMAIN rows' = DOMAIN rows /\ Len(rows') = Len(rows)
      /\ \A i \in DOMAIN rows : /\ rows'[i].chat = rows[i].chat
                                /\ rows'[i].human = rows[i].human
                                /\ rows'[i].enabled = on[i]
  BY <1>1, <1>2, EnabledRows
<1> QED BY <1>3, <1>4

\* Invite and Republish touch nothing of the rows but the invite.
LEMMA InvitedRows ==
  ASSUME TypeInv, NEW r \in Admins, Invite(r) \/ Republish(r)
  PROVE  /\ rows' \in Seq(Row) /\ DOMAIN rows' = DOMAIN rows /\ Len(rows') = Len(rows)
         /\ \A j \in DOMAIN rows : /\ rows'[j].chat = rows[j].chat
                                   /\ rows'[j].human = rows[j].human
                                   /\ rows'[j].enabled = rows[j].enabled
<1>1. task[r].row \in DOMAIN rows /\ TypeOK BY DEF TypeInv, AtWork, At, Invite, Republish
<1>2. \/ rows' = rows
      \/ \E v \in BOOLEAN : rows' = [rows EXCEPT ![task[r].row].invite = v]
  BY DEF Invite, Republish
<1>3. CASE rows' = rows BY <1>1, <1>3 DEF TypeOK
<1> QED BY <1>1, <1>2, <1>3, InviteRows

LEMMA TypeInvite == ASSUME TypeInv, NEW r \in Admins, Invite(r) PROVE TypeInv'
<1>1. task[r] \in Task /\ task[r].row \in DOMAIN rows BY DEF TypeInv, TypeOK, Invite, At, AtWork
<1>2. rows' \in Seq(Row) /\ DOMAIN rows' = DOMAIN rows /\ Len(rows') = Len(rows) BY InvitedRows
<1>3. faults' \in 0..MaxFaults BY Calls DEF Invite, TypeInv
<1>4. PICK p \in {"relink", "rollback"} : Becomes(r, [task[r] EXCEPT !.pc = p]) BY DEF Invite, Goes
<1> DEFINE t == [task[r] EXCEPT !.pc = p]
<1>5. t \in Task /\ t.pc = p /\ t.row = task[r].row BY <1>1 DEF Task
<1>6. UNCHANGED <<posts, journal, backup, shown, public, outside>> BY DEF Invite
<1> HIDE DEF t
<1> QED BY <1>1, <1>2, <1>3, <1>4, <1>5, <1>6, Turn DEF t, TypeInv, TypeOK, outside, history

LEMMA TypeRelink == ASSUME TypeInv, NEW r \in Admins, Relink(r) PROVE TypeInv'
<1> DEFINE t == [task[r] EXCEPT !.pc = "surfaces"]
<1>1. task[r] \in Task /\ task[r].row \in DOMAIN rows BY DEF TypeInv, TypeOK, Relink, At, AtWork
<1>2. backup' \subseteq Cards BY CapturedIsCards DEF Relink, TypeInv, TypeOK
<1>3. t \in Task /\ t.pc = "surfaces" /\ t.row = task[r].row BY <1>1 DEF Task
<1>4. UNCHANGED <<rows, posts, journal, shown, public, faults, outside>> /\ Becomes(r, t) BY DEF Relink, Goes
<1> HIDE DEF t
<1> QED BY <1>1, <1>2, <1>3, <1>4, Turn DEF TypeInv, TypeOK, outside, history

LEMMA TypeSurfaces == ASSUME TypeInv, NEW r \in Admins, Surfaces(r) PROVE TypeInv'
<1>1. task[r] \in Task /\ task[r].row \in DOMAIN rows BY DEF TypeInv, TypeOK, Surfaces, At, AtWork
<1>2. public' \in Chats BY LinkedIsChat DEF Surfaces, TypeInv, TypeOK
<1>3. faults' \in 0..MaxFaults BY RecoveryAssumption DEF Surfaces, TypeInv, TypeOK
<1>4. PICK p \in {"switch", "rollback"} : Becomes(r, [task[r] EXCEPT !.pc = p]) BY DEF Surfaces, Goes
<1> DEFINE t == [task[r] EXCEPT !.pc = p]
<1>5. t \in Task /\ t.pc = p /\ t.row = task[r].row BY <1>1 DEF Task
<1>6. UNCHANGED <<stored, shown, outside>> BY DEF Surfaces
<1> HIDE DEF t
<1> QED BY <1>1, <1>2, <1>3, <1>4, <1>5, <1>6, Turn DEF t, TypeInv, TypeOK, stored, outside, history

LEMMA TypeSwitch == ASSUME TypeInv, NEW r \in Admins, Switch(r) PROVE TypeInv'
<1>1. rows' \in Seq(Row) /\ DOMAIN rows' = DOMAIN rows /\ Len(rows') = Len(rows) BY SwitchRows DEF TypeInv
<1>2. Becomes(r, Idle) BY DEF Switch
<1>3. UNCHANGED <<posts, journal, backup, shown, public, faults, banned, tries, breaks, again, unlogged, cut>>
  BY DEF Switch
<1>4. crossed' \in BOOLEAN BY DEF Switch, TypeInv, TypeOK
<1> QED BY <1>1, <1>2, <1>3, <1>4, IdleTask, Turn DEF TypeInv, TypeOK

LEMMA TypeRollback == ASSUME TypeInv, NEW r \in Admins, Rollback(r) PROVE TypeInv'
<1> DEFINE t == [task[r] EXCEPT !.pc = "republish"]
<1>1. task[r] \in Task /\ task[r].row \in DOMAIN rows BY DEF TypeInv, TypeOK, Rollback, At, AtWork
<1>2. rows' \in Seq(Row) /\ DOMAIN rows' = DOMAIN rows /\ Len(rows') = Len(rows) BY RollbackRows DEF TypeInv
<1>3. t \in Task /\ t.pc = "republish" /\ t.row = task[r].row BY <1>1 DEF Task
<1>4. UNCHANGED <<posts, journal, backup, shown, public, faults, banned, tries, breaks, again, unlogged, cut>>
  BY DEF Rollback
<1>5. crossed' \in BOOLEAN /\ Becomes(r, t) BY DEF Rollback, Goes, TypeInv, TypeOK
<1> HIDE DEF t
<1> QED BY <1>1, <1>2, <1>3, <1>4, <1>5, Turn DEF TypeInv, TypeOK

LEMMA TypeRepublish == ASSUME TypeInv, NEW r \in Admins, Republish(r) PROVE TypeInv'
<1>1. rows' \in Seq(Row) /\ DOMAIN rows' = DOMAIN rows /\ Len(rows') = Len(rows) BY InvitedRows
<1>2. public' \in Chats /\ faults' \in 0..MaxFaults
  BY LinkedIsChat, RecoveryAssumption DEF Republish, TypeInv, TypeOK
<1>3. UNCHANGED <<posts, journal, backup, shown, banned, tries, breaks, again, unlogged, cut>> BY DEF Republish
<1>4. crossed' \in BOOLEAN /\ Becomes(r, Idle) BY DEF Republish, TypeInv, TypeOK
<1> QED BY <1>1, <1>2, <1>3, <1>4, IdleTask, Turn DEF TypeInv, TypeOK

LEMMA TypeDatabase == ASSUME TypeInv, NEW r \in Admins, DatabaseFails(r) PROVE TypeInv'
<1>1. breaks' \in 0..MaxBreaks BY RecoveryAssumption DEF DatabaseFails, TypeInv, TypeOK
<1>2. UNCHANGED <<stored, public, faults, banned, tries, again, crossed>> BY DEF DatabaseFails
<1>3. shown' \in [Chats -> SUBSET Msg] /\ cut' \in BOOLEAN
  BY TargetIsChat DEF DatabaseFails, TypeInv, TypeOK
<1>4. unlogged' \subseteq Msg BY FirstToDo DEF DatabaseFails, TypeInv, TypeOK
<1>5. \E t \in Task : /\ Becomes(r, t) /\ t.pc \in {"send", "rollback", "idle"}
                      /\ t.pc # "idle" => t.row \in DOMAIN rows
  <2> DEFINE t == [task[r] EXCEPT !.pc = "send", !.todo = @ \ {Min(@)}, !.failed = TRUE]
             u == [task[r] EXCEPT !.pc = "rollback"]
             v == [task[r] EXCEPT !.pc = "rollback", !.todo = {}, !.sent = {}]
  <2>1. task[r] \in Task /\ (task[r].pc \notin {"idle", "register"} => task[r].row \in DOMAIN rows)
    BY DEF TypeInv, TypeOK, AtWork
  <2>2. /\ t \in Task /\ t.pc = "send" /\ t.row = task[r].row
        /\ u \in Task /\ u.pc = "rollback" /\ u.row = task[r].row
        /\ v \in Task /\ v.pc = "rollback" /\ v.row = task[r].row
    BY <2>1 DEF Task
  <2>3. \/ Becomes(r, Idle)
        \/ task[r].pc \notin {"idle", "register"} /\ (Becomes(r, t) \/ Becomes(r, u) \/ Becomes(r, v))
    BY DEF DatabaseFails, Goes, At
  <2> HIDE DEF t, u, v
  <2> QED BY <2>1, <2>2, <2>3, IdleTask
<1> QED BY <1>1, <1>2, <1>3, <1>4, <1>5, Turn DEF TypeInv, TypeOK, stored

LEMMA TypeNext == ASSUME TypeInv, [Next]_vars PROVE TypeInv'
<1>1. CASE UNCHANGED vars BY <1>1 DEF vars, history, TypeInv, TypeOK, At, AtWork
<1>2. ASSUME NEW r \in Admins, Step(r) PROVE TypeInv'
  BY <1>2, TypeRefuse, TypeRegister, TypeBoth, TypeReadOlds, TypeCleanup, TypeRead, TypeSend, TypeTrack,
     TypeSettle, TypeInvite, TypeRelink, TypeSurfaces, TypeSwitch, TypeRollback, TypeRepublish DEF Step
<1>3. ASSUME NEW c \in Chats, Ban(c) PROVE TypeInv'
  BY <1>3 DEF Ban, stored, history, TypeInv, TypeOK, At, AtWork
<1>4. CASE Capture
  BY <1>4, CapturedIsCards DEF Capture, outside, history, TypeInv, TypeOK, At, AtWork
<1>5. CASE Crash
  <2>1. task' = [r \in Admins |-> Idle] BY <1>5 DEF Crash
  <2>2. breaks' \in 0..MaxBreaks BY <1>5, RecoveryAssumption DEF Crash, TypeInv, TypeOK
  <2>3. unlogged' \subseteq Msg BY <1>5, FirstToDo DEF Crash, TypeInv, TypeOK
  <2>4. cut' = TRUE /\ UNCHANGED <<stored, shown, public, faults, banned, tries, again, crossed>>
    BY <1>5 DEF Crash
  <2> QED BY <2>1, <2>2, <2>3, <2>4, IdleTask DEF TypeInv, TypeOK, At, AtWork, stored
<1> QED BY <1>1, <1>2, <1>3, <1>4, <1>5, TypeBegin, TypeDatabase DEF Next

\* The rows, the messages, the journal, the backup and every attempt keep their types.
THEOREM RecoveryTypeCorrect == Spec => []TypeOK
<1>1. TypeInv => TypeOK BY DEF TypeInv
<1> QED BY <1>1, TypeInit, TypeNext, PTL DEF Spec

-----------------------------------------------------------------------------
(* The invariant *)

\* The original's row is the first and the only one no person made; one row per chat.
RowsInOrder ==
  /\ 1 \in DOMAIN rows /\ rows[1].chat = First /\ ~rows[1].human
  /\ \A i \in DOMAIN rows : i # 1 => rows[i].human
  /\ \A i, j \in DOMAIN rows : rows[i].chat = rows[j].chat => i = j

OriginalKept == posts[First] = Cards \X {0}

\* From its registration until its row goes off, an attempt has its chat to itself.
Holding(r) == task[r].pc \notin {"idle", "register", "republish"}

Restored(r) == task[r].pc \in {"invite", "relink", "surfaces", "switch"}

\* What an attempt relies on: its row is on; it has posted the cards it no longer has to
\* post, or counted a failure; the chat shows what it sent and what nobody journaled.
Attempt(r) ==
  /\ task[r].pc \in {"idle", "register", "olds", "cleanup", "read"} => task[r].sent = {} /\ ~task[r].failed
  /\ Holding(r) => /\ task[r].row \in Enabled \ {1} /\ rows[task[r].row].chat = Target(r)
                   /\ task[r].no <= tries
                   /\ ~task[r].failed => \A m \in unlogged : m[2] # task[r].no
  /\ \A m \in task[r].sent : m[2] = task[r].no
  /\ task[r].pc \in {"send", "track"} => task[r].failed \/ task[r].todo \cup Shown(task[r].sent) = Cards
  /\ At(r, "track") => Current(r) \in task[r].sent
  /\ task[r].pc \in {"read", "send", "track"} =>
       task[r].sent \subseteq shown[Target(r)] /\ shown[Target(r)] \ task[r].sent \subseteq unlogged
  /\ Restored(r) => /\ ~task[r].failed /\ Shown(posts[Target(r)]) = Cards
                  /\ posts[Target(r)] \subseteq shown[Target(r)]
                  /\ shown[Target(r)] \ posts[Target(r)] \subseteq unlogged
                  /\ \A m \in posts[Target(r)] : m[2] = task[r].no

\* Attempts are on rows of their own, under numbers of their own.
Apart == \A r, s \in Admins : Holding(r) /\ Holding(s) /\ r # s =>
           task[r].row # task[s].row /\ task[r].no # task[s].no

InHand(c) == {Current(r) : r \in {s \in Admins : At(s, "track") /\ Target(s) = c}}

\* A message that a chat shows has its record, or is in hand, or was never journaled.
Tracked == \A c \in Chats : shown[c] \subseteq posts[c] \cup journal[c] \cup unlogged \cup InHand(c)

Numbered == \A m \in unlogged : m[2] <= tries

Standing == 1 \in Enabled /\ Apart /\ \A r \in Admins : Attempt(r)

Landed ==
  /\ \A r \in Admins : ~AtWork(r) /\ task[r].sent = {} /\ ~task[r].failed
  /\ \E i \in DOMAIN rows : i # 1 /\ Enabled = {i} /\ Shown(posts[rows[i].chat]) = Cards

Safe == /\ RowsInOrder /\ OriginalKept /\ backup = Cards
        /\ Tracked /\ Numbered
        /\ Standing \/ Landed

IInv == TypeInv /\ (Undisturbed => Safe)

-----------------------------------------------------------------------------
(* The steps *)

LEMMA CaptureIsWhole == ASSUME TypeOK, Safe PROVE Captured = Cards
<1>0. \A i \in DOMAIN rows : i \in Int BY DEF TypeOK
<1>1. CASE Standing
  <2>1. Source = {1} BY <1>1 DEF Standing, Source, Originals, Enabled, RowsInOrder, Safe
  <2>2. rows[Max(Source)].chat = First BY <2>1, MaxOfOne DEF RowsInOrder, Safe
  <2> QED BY <2>1, <2>2, ShownFirst, CapturedOf DEF OriginalKept, Safe
<1>2. CASE Landed
  <2>1. PICK i \in DOMAIN rows : i # 1 /\ Enabled = {i} /\ Shown(posts[rows[i].chat]) = Cards
    BY <1>2 DEF Landed
  <2>2. Source = {i} BY <2>1 DEF Source, Originals, RowsInOrder, Enabled, Safe
  <2>3. Max(Source) = i BY <1>0, <2>2, MaxOfOne
  <2> QED BY <2>1, <2>2, <2>3, CapturedOf
<1> QED BY <1>1, <1>2 DEF Safe

LEMMA SafeInit == ASSUME Init PROVE Safe
<1>1. DOMAIN rows = {1} /\ rows[1] = [chat |-> First, enabled |-> TRUE, human |-> FALSE, invite |-> TRUE]
  BY DEF Init
<1>2. 1 \in Enabled /\ RowsInOrder BY <1>1 DEF Enabled, RowsInOrder
<1>3. \A r \in Admins : task[r] = Idle BY DEF Init
<1>4. \A r \in Admins : ~Holding(r) /\ Attempt(r) /\ ~At(r, "track")
  BY <1>3, IdleTask DEF Holding, Attempt, At, Restored
<1>5. OriginalKept /\ backup = Cards /\ unlogged = {} /\ shown = posts
  BY RecoveryAssumption DEF OriginalKept, Init, Published
<1> QED BY <1>2, <1>4, <1>5 DEF Safe, Standing, Apart, Tracked, Numbered

\* What a step of r leaves alone: the other attempts, the rows that are on but its own,
\* the chats but its own; and what it adds to the messages that nobody journaled.
Frame(r) ==
  /\ \A s \in Admins \ {r} : task'[s] = task[s]
  /\ DOMAIN rows \subseteq DOMAIN rows'
  /\ \A i \in DOMAIN rows : /\ rows'[i].chat = rows[i].chat
                            /\ i \in Enabled /\ ~(Holding(r) /\ i = task[r].row) => rows'[i].enabled
  /\ \A c \in Chats : (Holding(r) => c # Target(r)) =>
       posts'[c] = posts[c] /\ journal'[c] = journal[c] /\ shown'[c] = shown[c]
  /\ unlogged \subseteq unlogged'
  /\ \A m \in unlogged' \ unlogged : Holding(r) /\ m[2] = task[r].no
  /\ tries' >= tries

LEMMA OthersChats ==
  ASSUME TypeInv, RowsInOrder, Standing, NEW r \in Admins, NEW s \in Admins, s # r, Holding(r), Holding(s)
  PROVE  Target(s) # Target(r)
BY DEF Standing, Apart, Attempt, RowsInOrder, Enabled

LEMMA OthersGoOn ==
  ASSUME TypeInv, TypeInv', RowsInOrder, Standing, NEW r \in Admins, Frame(r), NEW s \in Admins, s # r
  PROVE  Attempt(s)'
<1>1. task'[s] = task[s] /\ Attempt(s) BY DEF Frame, Standing
<1>2. Target(s)' = Target(s) /\ Target(s) \in Chats /\ Current(s)' = Current(s)
  BY <1>1, TargetIsChat DEF Target, Current, TypeInv
<1>3. CASE ~Holding(s)
  BY <1>1, <1>3 DEF Attempt, Holding, Restored, At
<1>4. CASE Holding(s)
  <2>1. Holding(r) => task[s].row # task[r].row /\ task[s].no # task[r].no
    BY <1>4 DEF Standing, Apart
  <2>2. posts'[Target(s)] = posts[Target(s)] /\ shown'[Target(s)] = shown[Target(s)]
    BY <1>2, <1>4, OthersChats DEF Frame
  <2>3. task[s].row \in Enabled \ {1} /\ rows[task[s].row].chat = Target(s) /\ task[s].row \in DOMAIN rows
    BY <1>1, <1>4 DEF Attempt, Enabled
  <2>4. /\ task[s].row \in Enabled' \ {1} /\ rows'[task[s].row].chat = Target(s)
    BY <2>1, <2>3 DEF Frame, Enabled
  <2>5. task[s].no <= tries' BY <1>1, <1>4 DEF Attempt, Frame, TypeInv, TypeOK, Task
  <2>6. ~task[s].failed => \A m \in unlogged' : m[2] # task[s].no
    BY <1>1, <1>4, <2>1 DEF Attempt, Frame
  <2>7. unlogged \subseteq unlogged' BY DEF Frame
  <2>8. Holding(s)' <=> Holding(s) BY <1>1 DEF Holding
  <2>9. Restored(s)' <=> Restored(s) BY <1>1 DEF Restored
  <2>10. At(s, "track")' <=> At(s, "track") BY <1>1 DEF At
  <2> QED BY <1>1, <1>2, <1>4, <2>2, <2>4, <2>5, <2>6, <2>7, <2>8, <2>9, <2>10 DEF Attempt
<1> QED BY <1>3, <1>4

\* A step of an attempt at work, while the original is on.
LEMMA OneGoesOn ==
  ASSUME TypeInv, TypeInv', Safe, Standing, NEW r \in Admins, Frame(r), Holding(r),
         \A i \in DOMAIN rows : rows'[i].human = rows[i].human, DOMAIN rows' = DOMAIN rows,
         Attempt(r)', Holding(r)' => task'[r].row = task[r].row /\ task'[r].no = task[r].no,
         shown'[Target(r)] \subseteq posts'[Target(r)] \cup journal'[Target(r)] \cup unlogged'
                                      \cup (IF At(r, "track")' THEN {Current(r)'} ELSE {}),
         At(r, "track")' => Target(r)' = Target(r),
         backup' = Cards
  PROVE  Safe'
<1>1. RowsInOrder' BY DEF Safe, RowsInOrder, Frame
<1>2. task[r].row # 1 /\ Target(r) # First
  <2>1. task[r].row \in Enabled \ {1} /\ rows[task[r].row].chat = Target(r) BY DEF Standing, Attempt
  <2> QED BY <2>1 DEF Safe, RowsInOrder, Enabled
<1>3. OriginalKept' BY <1>2, RecoveryAssumption DEF Safe, OriginalKept, Frame
<1>4. 1 \in Enabled' BY <1>2 DEF Standing, Enabled, Frame
<1>5. \A s \in Admins : Attempt(s)' BY OthersGoOn DEF Safe
<1>6. Apart'
  <2>1. \A s \in Admins \ {r} : (Holding(s)' <=> Holding(s)) /\ task'[s].row = task[s].row /\ task'[s].no = task[s].no
    BY DEF Frame, Holding
  <2> QED BY <2>1 DEF Standing, Apart
<1>7. Numbered'
  <2>1. task[r].no <= tries BY DEF Standing, Attempt
  <2>2. \A m \in unlogged' : m[2] <= tries \/ m[2] = task[r].no BY DEF Safe, Numbered, Frame
  <2>3. tries \in Nat /\ tries' \in Nat /\ tries <= tries' /\ \A m \in unlogged' : m[2] \in Nat
    BY DEF TypeInv, TypeOK, Frame, Msg
  <2> QED BY <2>1, <2>2, <2>3 DEF Numbered
<1>8. Tracked'
  <2> SUFFICES ASSUME NEW c \in Chats, NEW m \in shown'[c], m \notin posts'[c] \cup journal'[c] \cup unlogged'
               PROVE  m \in InHand(c)'
    BY DEF Tracked
  <2>1. CASE c = Target(r)
    <3>1. At(r, "track")' /\ m = Current(r)' BY <2>1
    <3>2. r \in {s \in Admins : At(s, "track")' /\ Target(s)' = c} BY <2>1, <3>1
    <3> QED BY <3>1, <3>2 DEF InHand
  <2>2. CASE c # Target(r)
    <3>1. m \in shown[c] /\ m \notin posts[c] \cup journal[c] \cup unlogged BY <2>2 DEF Frame
    <3>2. m \in InHand(c) BY <3>1 DEF Safe, Tracked
    <3>3. PICK s \in Admins : At(s, "track") /\ Target(s) = c /\ m = Current(s) BY <3>2 DEF InHand
    <3>4. s # r BY <2>2, <3>3
    <3>5. task'[s] = task[s] BY <3>4 DEF Frame
    <3>6. At(s, "track")' /\ Target(s)' = c /\ m = Current(s)' BY <3>3, <3>5 DEF At, Target, Current
    <3>7. s \in {q \in Admins : At(q, "track")' /\ Target(q)' = c} BY <3>6
    <3> QED BY <3>6, <3>7 DEF InHand
  <2> QED BY <2>1, <2>2
<1> QED BY <1>1, <1>3, <1>4, <1>5, <1>6, <1>7, <1>8 DEF Safe, Standing

LEMMA Turned ==
  ASSUME TypeInv, NEW r \in Admins, NEW t, Becomes(r, t)
  PROVE  task'[r] = t /\ \A s \in Admins \ {r} : task'[s] = task[s]
BY DEF Becomes, TypeInv, TypeOK

\* What the chat of an attempt shows is recorded, not journaled, or in its own hand.
LEMMA OwnTracked ==
  ASSUME TypeInv, Safe, Standing, NEW r \in Admins, Holding(r)
  PROVE  shown[Target(r)] \subseteq posts[Target(r)] \cup journal[Target(r)] \cup unlogged
                                   \cup (IF At(r, "track") THEN {Current(r)} ELSE {})
<1> DEFINE c == Target(r)
<1>1. c \in Chats BY TargetIsChat DEF TypeInv
<1> SUFFICES ASSUME NEW m \in shown[c], m \notin posts[c] \cup journal[c] \cup unlogged
             PROVE  At(r, "track") /\ m = Current(r)
  OBVIOUS
<1>2. m \in InHand(c) BY <1>1 DEF Safe, Tracked
<1>3. PICK s \in Admins : At(s, "track") /\ Target(s) = c /\ m = Current(s) BY <1>2 DEF InHand
<1>4. Holding(s) BY <1>3 DEF Holding, At
<1>5. s = r BY <1>3, <1>4, OthersChats DEF Safe
<1> QED BY <1>3, <1>5

LEMMA AtWorkStands == ASSUME Safe, NEW r \in Admins, AtWork(r) PROVE Standing
BY DEF Safe, Landed

LEMMA HoldingWorks == \A r : Holding(r) => AtWork(r)
BY DEF Holding, AtWork

\* A step that changes nothing but where its attempt is.
LEMMA QuietStep ==
  ASSUME TypeInv, TypeInv', Safe, NEW r \in Admins, Holding(r), ~At(r, "track"),
         NEW t, Becomes(r, t), t.pc # "track",
         t.pc # "idle" => t.row = task[r].row /\ t.no = task[r].no,
         DOMAIN rows' = DOMAIN rows,
         \A i \in DOMAIN rows : /\ rows'[i].chat = rows[i].chat /\ rows'[i].human = rows[i].human
                                /\ rows'[i].enabled = rows[i].enabled,
         UNCHANGED <<posts, journal, shown, unlogged, tries>>, backup' = Cards,
         Attempt(r)'
  PROVE  Safe'
<1>1. Standing BY AtWorkStands, HoldingWorks
<1>2. task'[r] = t /\ \A s \in Admins \ {r} : task'[s] = task[s] BY Turned
<1>3. tries \in Int BY DEF TypeInv, TypeOK
<1>4. Frame(r) BY <1>2, <1>3 DEF Frame, Enabled
<1>5. ~At(r, "track")' BY <1>2 DEF At
<1>a. Holding(r)' => task'[r].row = task[r].row /\ task'[r].no = task[r].no BY <1>2 DEF Holding
<1>6. shown[Target(r)] \subseteq posts[Target(r)] \cup journal[Target(r)] \cup unlogged
  BY <1>1, OwnTracked
<1>7. UNCHANGED <<posts, journal, shown, unlogged>> OBVIOUS
<1> HIDE DEF Safe, Standing
<1> QED BY <1>1, <1>2, <1>a, <1>4, <1>5, <1>6, <1>7, OneGoesOn

LEMMA SafeReadOlds == ASSUME TypeInv, TypeInv', Safe, NEW r \in Admins, ReadOlds(r) PROVE Safe'
<1> DEFINE t == [task[r] EXCEPT !.pc = "cleanup", !.olds = Enabled \ {task[r].row}]
<1>1. task[r] \in Task /\ task[r].pc = "olds" BY DEF TypeInv, TypeOK, ReadOlds, At
<1>2. /\ t.row = task[r].row /\ t.no = task[r].no /\ t.pc = "cleanup" /\ t.chat = task[r].chat
      /\ t.sent = task[r].sent /\ t.failed = task[r].failed
  BY <1>1 DEF Task
<1>3. Holding(r) /\ ~At(r, "track") BY <1>1 DEF Holding, At
<1>4. Becomes(r, t) /\ UNCHANGED <<rows, posts, journal, backup, shown, tries, unlogged>>
  BY DEF ReadOlds, stored, outside, history
<1> HIDE DEF t
<1>5. task'[r] = t BY <1>4, Turned
<1>6. Attempt(r) BY <1>3, AtWorkStands, HoldingWorks DEF Standing
<1>7. Attempt(r)' BY <1>1, <1>2, <1>4, <1>5, <1>6 DEF Attempt, Holding, Restored, At, Target, Enabled
<1> QED BY <1>2, <1>3, <1>4, <1>7, QuietStep DEF Safe

LEMMA SafeRead == ASSUME TypeInv, TypeInv', Safe, NEW r \in Admins, Read(r) PROVE Safe'
<1> DEFINE t == [task[r] EXCEPT !.pc = IF backup = {} THEN "rollback" ELSE "send", !.todo = backup]
<1>1. task[r] \in Task /\ task[r].pc = "read" BY DEF TypeInv, TypeOK, Read, At
<1>2. /\ t.row = task[r].row /\ t.no = task[r].no /\ t.pc = "send" /\ t.chat = task[r].chat
      /\ t.sent = task[r].sent /\ t.failed = task[r].failed /\ t.todo = Cards
  BY <1>1, RecoveryAssumption DEF Task, Safe
<1>3. Holding(r) /\ ~At(r, "track") BY <1>1 DEF Holding, At
<1>4. Becomes(r, t) /\ UNCHANGED <<rows, posts, journal, backup, shown, tries, unlogged>>
  BY DEF Read, stored, outside, history
<1> HIDE DEF t
<1>5. task'[r] = t BY <1>4, Turned
<1>6. Attempt(r) BY <1>3, AtWorkStands, HoldingWorks DEF Standing
<1>7. Attempt(r)'
  BY <1>1, <1>2, <1>4, <1>5, <1>6 DEF Attempt, Holding, Restored, At, Target, Enabled, Shown
<1> QED BY <1>2, <1>3, <1>4, <1>7, QuietStep DEF Safe

LEMMA SafeInvite == ASSUME TypeInv, TypeInv', Safe, NEW r \in Admins, Invite(r) PROVE Safe'
<1>1. task[r] \in Task /\ task[r].pc = "invite" BY DEF TypeInv, TypeOK, Invite, At
<1>2. PICK p \in {"relink", "rollback"} : Becomes(r, [task[r] EXCEPT !.pc = p]) BY DEF Invite, Goes
<1> DEFINE t == [task[r] EXCEPT !.pc = p]
<1>3. /\ t.row = task[r].row /\ t.no = task[r].no /\ t.pc = p /\ t.chat = task[r].chat
      /\ t.sent = task[r].sent /\ t.failed = task[r].failed
  BY <1>1 DEF Task
<1>4. Holding(r) /\ ~At(r, "track") BY <1>1 DEF Holding, At
<1>5. UNCHANGED <<posts, journal, backup, shown, tries, unlogged>> BY DEF Invite, outside, history
<1>6. DOMAIN rows' = DOMAIN rows /\ \A i \in DOMAIN rows :
        rows'[i].chat = rows[i].chat /\ rows'[i].human = rows[i].human /\ rows'[i].enabled = rows[i].enabled
  BY InvitedRows
<1>7. Becomes(r, t) BY <1>2
<1> HIDE DEF t
<1>8. task'[r] = t BY <1>7, Turned
<1>9. Attempt(r) BY <1>4, AtWorkStands, HoldingWorks DEF Standing
<1>10. Enabled' = Enabled BY <1>6 DEF Enabled
<1>11. Attempt(r)'
  BY <1>1, <1>3, <1>5, <1>6, <1>8, <1>9, <1>10 DEF Attempt, Holding, Restored, At, Target, Enabled
<1> QED BY <1>3, <1>4, <1>5, <1>6, <1>7, <1>11, QuietStep DEF Safe

LEMMA SafeRelink == ASSUME TypeInv, TypeInv', Safe, NEW r \in Admins, Relink(r) PROVE Safe'
<1> DEFINE t == [task[r] EXCEPT !.pc = "surfaces"]
<1>1. task[r] \in Task /\ task[r].pc = "relink" BY DEF TypeInv, TypeOK, Relink, At
<1>2. /\ t.row = task[r].row /\ t.no = task[r].no /\ t.pc = "surfaces" /\ t.chat = task[r].chat
      /\ t.sent = task[r].sent /\ t.failed = task[r].failed
  BY <1>1 DEF Task
<1>3. Holding(r) /\ ~At(r, "track") BY <1>1 DEF Holding, At
<1>4. Becomes(r, t) /\ UNCHANGED <<rows, posts, journal, shown, tries, unlogged>>
  BY DEF Relink, Goes, outside, history
<1>5. backup' = Cards BY CaptureIsWhole DEF Relink, Safe, TypeInv
<1> HIDE DEF t
<1>6. task'[r] = t BY <1>4, Turned
<1>7. Attempt(r) BY <1>3, AtWorkStands, HoldingWorks DEF Standing
<1>8. Attempt(r)' BY <1>1, <1>2, <1>4, <1>6, <1>7 DEF Attempt, Holding, Restored, At, Target, Enabled
<1> QED BY <1>2, <1>3, <1>4, <1>5, <1>8, QuietStep

LEMMA SafeSurfaces == ASSUME TypeInv, TypeInv', Safe, NEW r \in Admins, Surfaces(r) PROVE Safe'
<1>1. task[r] \in Task /\ task[r].pc = "surfaces" BY DEF TypeInv, TypeOK, Surfaces, At
<1>2. PICK p \in {"switch", "rollback"} : Becomes(r, [task[r] EXCEPT !.pc = p]) BY DEF Surfaces, Goes
<1> DEFINE t == [task[r] EXCEPT !.pc = p]
<1>3. /\ t.row = task[r].row /\ t.no = task[r].no /\ t.pc = p /\ t.chat = task[r].chat
      /\ t.sent = task[r].sent /\ t.failed = task[r].failed
  BY <1>1 DEF Task
<1>4. Holding(r) /\ ~At(r, "track") BY <1>1 DEF Holding, At
<1>5. Becomes(r, t) /\ UNCHANGED <<rows, posts, journal, backup, shown, tries, unlogged>>
  BY <1>2 DEF Surfaces, stored, outside, history
<1> HIDE DEF t
<1>6. task'[r] = t BY <1>5, Turned
<1>7. Attempt(r) BY <1>4, AtWorkStands, HoldingWorks DEF Standing
<1>8. Attempt(r)' BY <1>1, <1>3, <1>5, <1>6, <1>7 DEF Attempt, Holding, Restored, At, Target, Enabled
<1> QED BY <1>3, <1>4, <1>5, <1>8, QuietStep DEF Safe

\* A cleanup leaves on record what it could not delete.
LEMMA SafeCleanup == ASSUME TypeInv, TypeInv', Safe, NEW r \in Admins, Cleanup(r) PROVE Safe'
<1> DEFINE c == Target(r)  tracked == posts[c] \cup journal[c]
<1>1. PICK failed \in SUBSET tracked :
        /\ shown' = [shown EXCEPT ![c] = @ \ (tracked \ failed)]
        /\ posts' = [posts EXCEPT ![c] = @ \cap failed]
        /\ journal' = [journal EXCEPT ![c] = @ \cap failed]
        /\ Goes(r, IF failed = {} THEN "read" ELSE "rollback")
  BY DEF Cleanup
<1> DEFINE t == [task[r] EXCEPT !.pc = IF failed = {} THEN "read" ELSE "rollback"]
<1>2. task[r] \in Task /\ task[r].pc = "cleanup" /\ c \in Chats
  BY TargetIsChat DEF TypeInv, TypeOK, Cleanup, At
<1>3. /\ t.row = task[r].row /\ t.no = task[r].no /\ t.pc = IF failed = {} THEN "read" ELSE "rollback"
      /\ t.chat = task[r].chat /\ t.sent = task[r].sent /\ t.failed = task[r].failed
  BY <1>2 DEF Task
<1>4. Holding(r) /\ ~At(r, "track") /\ ~At(r, "track")' BY <1>1, <1>2 DEF Holding, At, Goes, Becomes, TypeInv, TypeOK, Task
<1>5. Becomes(r, t) /\ UNCHANGED <<rows, backup, tries, unlogged>>
  BY <1>1 DEF Cleanup, Goes, outside, history
<1> HIDE DEF t
<1>6. task'[r] = t /\ \A s \in Admins \ {r} : task'[s] = task[s] BY <1>5, Turned
<1>7. Standing /\ Attempt(r) BY <1>4, AtWorkStands, HoldingWorks DEF Standing
<1>8. shown[c] \subseteq tracked \cup unlogged BY <1>4, <1>7, OwnTracked
<1>9. shown'[c] = shown[c] \ (tracked \ failed) /\ posts'[c] = posts[c] \cap failed /\ journal'[c] = journal[c] \cap failed
  BY <1>1, <1>2 DEF TypeInv, TypeOK
<1>10. shown'[c] \subseteq posts'[c] \cup journal'[c] \cup unlogged' BY <1>5, <1>8, <1>9
<1>11. failed = {} => shown'[c] \subseteq unlogged' BY <1>9, <1>10
<1>12. Frame(r)
  <2>1. \A d \in Chats : d # c => posts'[d] = posts[d] /\ journal'[d] = journal[d] /\ shown'[d] = shown[d]
    BY <1>1 DEF TypeInv, TypeOK
  <2>2. tries \in Int BY DEF TypeInv, TypeOK
  <2> QED BY <1>4, <1>5, <1>6, <2>1, <2>2 DEF Frame, Enabled
<1>13. Attempt(r)'
  <2>1. Target(r)' = c BY <1>3, <1>6 DEF Target
  <2>2. task[r].sent = {} /\ ~task[r].failed BY <1>2, <1>7 DEF Attempt
  <2>3. /\ Holding(r)' /\ task[r].row \in Enabled' \ {1} /\ rows'[task[r].row].chat = c
        /\ task[r].no <= tries' /\ \A m \in unlogged' : m[2] # task[r].no
    BY <1>3, <1>4, <1>5, <1>6, <1>7, <2>2 DEF Attempt, Enabled, Holding
  <2>4. ~Restored(r)' /\ ~At(r, "send")' BY <1>3, <1>6 DEF Restored, At
  <2>5. task'[r].pc = "read" => failed = {} BY <1>3, <1>6
  <2>6. task'[r].pc \notin {"send", "track"} BY <1>3, <1>6
  <2> QED BY <1>3, <1>4, <1>6, <1>11, <2>1, <2>2, <2>3, <2>4, <2>5, <2>6 DEF Attempt
<1> HIDE DEF c
<1> QED BY <1>3, <1>4, <1>5, <1>6, <1>7, <1>10, <1>12, <1>13, OneGoesOn DEF Safe, c

LEMMA ShownMore == \A S, m : Shown(S \cup {m}) = Shown(S) \cup {m[1]}
BY DEF Shown

LEMMA SafeSend == ASSUME TypeInv, TypeInv', Safe, NEW r \in Admins, Send(r) PROVE Safe'
<1> DEFINE c == Target(r)  m == Current(r)  k == Min(task[r].todo)
           t == [task[r] EXCEPT !.pc = "track", !.sent = @ \cup {m}]
           u == [task[r] EXCEPT !.todo = @ \ {Min(@)}, !.failed = TRUE]
<1>1. task[r] \in Task /\ task[r].pc = "send" /\ task[r].todo # {} /\ c \in Chats
  BY TargetIsChat DEF TypeInv, TypeOK, Send, At
<1>2. k \in task[r].todo /\ m = <<k, task[r].no>> /\ m[1] = k /\ m[2] = task[r].no BY <1>1, FirstToDo
<1>3. Holding(r) /\ ~At(r, "track") BY <1>1 DEF Holding, At
<1>4. Standing /\ Attempt(r) BY <1>3, AtWorkStands, HoldingWorks DEF Standing
<1>5. shown[c] \subseteq posts[c] \cup journal[c] \cup unlogged BY <1>3, <1>4, OwnTracked
<1>6. UNCHANGED <<rows, posts, journal, backup, tries, unlogged>> BY DEF Send, stored, outside, history
<1>7. CASE Becomes(r, t) /\ shown' = [shown EXCEPT ![c] = @ \cup {m}]
  <2> HIDE DEF m
  <2>1. /\ t.row = task[r].row /\ t.no = task[r].no /\ t.pc = "track" /\ t.chat = task[r].chat
        /\ t.sent = task[r].sent \cup {m} /\ t.failed = task[r].failed /\ t.todo = task[r].todo
    BY <1>1 DEF Task
  <2> HIDE DEF t
  <2>2. task'[r] = t /\ \A s \in Admins \ {r} : task'[s] = task[s] BY <1>7, Turned
  <2>3. At(r, "track")' /\ Target(r)' = c /\ Current(r)' = m /\ Holding(r)' /\ ~Restored(r)'
    BY <2>1, <2>2 DEF At, Target, Current, m, Holding, Restored
  <2>4. shown'[c] = shown[c] \cup {m} BY <1>1, <1>7 DEF TypeInv, TypeOK
  <2>5. Frame(r)
    <3>1. \A d \in Chats : d # c => shown'[d] = shown[d] BY <1>7 DEF TypeInv, TypeOK
    <3>2. tries \in Int BY DEF TypeInv, TypeOK
    <3> QED BY <1>3, <1>6, <2>2, <3>1, <3>2 DEF Frame, Enabled
  <2>6. Attempt(r)'
    <3>1. task'[r].failed \/ task'[r].todo \cup Shown(task'[r].sent) = Cards
      BY <1>1, <1>2, <1>4, <2>1, <2>2, ShownMore DEF Attempt
    <3>2. \A n \in task'[r].sent : n[2] = task'[r].no BY <1>2, <1>4, <2>1, <2>2 DEF Attempt
    <3>3. task'[r].sent \subseteq shown'[c] /\ shown'[c] \ task'[r].sent \subseteq unlogged'
      BY <1>1, <1>4, <1>6, <2>1, <2>2, <2>4 DEF Attempt
    <3>4. /\ task'[r].row \in Enabled' \ {1} /\ rows'[task'[r].row].chat = c /\ task'[r].no <= tries'
          /\ ~task'[r].failed => \A n \in unlogged' : n[2] # task'[r].no
      BY <1>3, <1>4, <1>6, <2>1, <2>2 DEF Attempt, Enabled
    <3>5. task'[r].pc = "track" /\ Current(r)' \in task'[r].sent BY <2>1, <2>2, <2>3
    <3> QED BY <2>3, <3>1, <3>2, <3>3, <3>4, <3>5 DEF Attempt
  <2>7. shown'[c] \subseteq posts'[c] \cup journal'[c] \cup unlogged' \cup {Current(r)'}
    BY <1>5, <1>6, <2>3, <2>4
  <2>8. backup' = Cards BY <1>6 DEF Safe
  <2> HIDE DEF c
  <2> QED BY <1>3, <1>4, <1>6, <2>1, <2>2, <2>3, <2>5, <2>6, <2>7, <2>8, OneGoesOn DEF c
<1>8. CASE Becomes(r, u) /\ UNCHANGED shown
  <2>1. /\ u.row = task[r].row /\ u.no = task[r].no /\ u.pc = "send" /\ u.chat = task[r].chat
        /\ u.sent = task[r].sent /\ u.failed = TRUE
    BY <1>1 DEF Task
  <2> HIDE DEF u
  <2>2. task'[r] = u BY <1>8, Turned
  <2>3. Attempt(r)'
    BY <1>1, <1>3, <1>4, <1>6, <1>8, <2>1, <2>2 DEF Attempt, Holding, Restored, At, Target, Enabled
  <2> QED BY <1>3, <1>6, <1>8, <2>1, <2>3, QuietStep DEF Safe
<1> QED BY <1>7, <1>8 DEF Send

LEMMA SafeTrack == ASSUME TypeInv, TypeInv', Safe, NEW r \in Admins, Track(r) PROVE Safe'
<1> DEFINE c == Target(r)  m == Current(r)  k == Min(task[r].todo)
           t == [task[r] EXCEPT !.pc = "send", !.todo = @ \ {Min(@)}]
<1>1. task[r] \in Task /\ task[r].pc = "track" /\ task[r].todo # {} /\ c \in Chats
  BY TargetIsChat DEF TypeInv, TypeOK, Track, At
<1>2. m = <<k, task[r].no>> /\ m[1] = k BY <1>1, FirstToDo
<1>3. Holding(r) /\ At(r, "track") BY <1>1 DEF Holding, At
<1>4. Standing /\ Attempt(r) BY <1>3, AtWorkStands, HoldingWorks DEF Standing
<1>5. shown[c] \subseteq posts[c] \cup journal[c] \cup unlogged \cup {m} BY <1>3, <1>4, OwnTracked
<1>6. /\ UNCHANGED <<rows, posts, backup, shown, tries, unlogged>> /\ Becomes(r, t)
      /\ journal' = [journal EXCEPT ![c] = @ \cup {m}]
  BY DEF Track, outside, history
<1> HIDE DEF m
<1>7. /\ t.row = task[r].row /\ t.no = task[r].no /\ t.pc = "send" /\ t.chat = task[r].chat
      /\ t.sent = task[r].sent /\ t.failed = task[r].failed /\ t.todo = task[r].todo \ {k}
  BY <1>1 DEF Task
<1> HIDE DEF t
<1>8. task'[r] = t /\ \A s \in Admins \ {r} : task'[s] = task[s] BY <1>6, Turned
<1>9. ~At(r, "track")' /\ Target(r)' = c /\ Holding(r)' /\ ~Restored(r)'
  BY <1>7, <1>8 DEF At, Target, Holding, Restored
<1>10. journal'[c] = journal[c] \cup {m} BY <1>1, <1>6 DEF TypeInv, TypeOK
<1>11. Frame(r)
  <2>1. \A d \in Chats : d # c => journal'[d] = journal[d] BY <1>6 DEF TypeInv, TypeOK
  <2>2. tries \in Int BY DEF TypeInv, TypeOK
  <2> QED BY <1>3, <1>6, <1>8, <2>1, <2>2 DEF Frame, Enabled
<1>12. Attempt(r)'
  <2>1. m \in task[r].sent BY <1>3, <1>4 DEF Attempt, m
  <2>2. k \in Shown(task[r].sent) BY <1>2, <2>1 DEF Shown
  <2>3. task'[r].failed \/ task'[r].todo \cup Shown(task'[r].sent) = Cards
    BY <1>1, <1>4, <1>7, <1>8, <2>2 DEF Attempt
  <2>4. \A n \in task'[r].sent : n[2] = task'[r].no BY <1>4, <1>7, <1>8 DEF Attempt
  <2>5. task'[r].sent \subseteq shown'[c] /\ shown'[c] \ task'[r].sent \subseteq unlogged'
    BY <1>1, <1>4, <1>6, <1>7, <1>8 DEF Attempt
  <2>6. /\ task'[r].row \in Enabled' \ {1} /\ rows'[task'[r].row].chat = c /\ task'[r].no <= tries'
        /\ ~task'[r].failed => \A n \in unlogged' : n[2] # task'[r].no
    BY <1>3, <1>4, <1>6, <1>7, <1>8 DEF Attempt, Enabled
  <2>7. task'[r].pc = "send" BY <1>7, <1>8
  <2> QED BY <1>9, <2>3, <2>4, <2>5, <2>6, <2>7 DEF Attempt
<1>13. shown'[c] \subseteq posts'[c] \cup journal'[c] \cup unlogged'
  BY <1>5, <1>6, <1>10
<1>14. backup' = Cards BY <1>6 DEF Safe
<1> HIDE DEF c
<1> QED BY <1>3, <1>4, <1>6, <1>7, <1>8, <1>9, <1>11, <1>12, <1>13, <1>14, OneGoesOn DEF c

LEMMA SafeSettle == ASSUME TypeInv, TypeInv', Safe, NEW r \in Admins, Settle(r) PROVE Safe'
<1> DEFINE c == Target(r)  S == task[r].sent  t == [task[r] EXCEPT !.pc = Whole(r), !.sent = {}]
<1>1. task[r] \in Task /\ task[r].pc = "send" /\ task[r].todo = {} /\ c \in Chats
  BY TargetIsChat DEF TypeInv, TypeOK, Settle, At
<1>2. Holding(r) /\ ~At(r, "track") BY <1>1 DEF Holding, At
<1>3. Standing /\ Attempt(r) BY <1>2, AtWorkStands, HoldingWorks DEF Standing
<1>4. shown[c] \subseteq posts[c] \cup journal[c] \cup unlogged BY <1>2, <1>3, OwnTracked
<1>5. UNCHANGED <<rows, backup, shown, tries, unlogged>> /\ Becomes(r, t)
  BY DEF Settle, outside, history
<1>6. /\ t.row = task[r].row /\ t.no = task[r].no /\ t.chat = task[r].chat
      /\ t.pc = (IF task[r].failed THEN "rollback" ELSE "invite")
      /\ t.sent = {} /\ t.failed = task[r].failed
  BY <1>1 DEF Task, Whole
<1> HIDE DEF t
<1>7. task'[r] = t /\ \A s \in Admins \ {r} : task'[s] = task[s] BY <1>5, Turned
<1>8. ~At(r, "track")' /\ Target(r)' = c /\ Holding(r)' BY <1>6, <1>7 DEF At, Target, Holding
<1>9. IF S = {} THEN posts' = posts /\ journal' = journal
      ELSE posts' = [posts EXCEPT ![c] = S] /\ journal' = [journal EXCEPT ![c] = S]
  BY DEF Settle
<1>10. S # {} => posts'[c] = S /\ journal'[c] = S BY <1>1, <1>9 DEF TypeInv, TypeOK
<1>11. S \subseteq shown[c] /\ shown[c] \ S \subseteq unlogged /\ (task[r].failed \/ Shown(S) = Cards)
  BY <1>1, <1>3 DEF Attempt
<1>12. ~task[r].failed => S # {}
  <2>1. Shown({}) = {} BY DEF Shown
  <2> QED BY <1>11, <2>1, RecoveryAssumption
<1>13. Frame(r)
  <2>1. \A d \in Chats : d # c => journal'[d] = journal[d] /\ posts'[d] = posts[d]
    BY <1>9 DEF TypeInv, TypeOK
  <2>2. tries \in Int BY DEF TypeInv, TypeOK
  <2> QED BY <1>2, <1>5, <1>7, <2>1, <2>2 DEF Frame, Enabled
<1>14. Attempt(r)'
  <2>1. /\ task'[r].row \in Enabled' \ {1} /\ rows'[task'[r].row].chat = c /\ task'[r].no <= tries'
        /\ ~task'[r].failed => \A n \in unlogged' : n[2] # task'[r].no
    BY <1>2, <1>3, <1>5, <1>6, <1>7 DEF Attempt, Enabled
  <2>2. task'[r].sent = {} /\ task'[r].pc \in {"rollback", "invite"} BY <1>6, <1>7
  <2>3. Restored(r)' => ~task'[r].failed BY <1>6, <1>7 DEF Restored
  <2>4. \A n \in S : n[2] = task[r].no BY <1>3 DEF Attempt
  <2>5. Restored(r)' => /\ Shown(posts'[c]) = Cards /\ posts'[c] \subseteq shown'[c]
                      /\ shown'[c] \ posts'[c] \subseteq unlogged'
                      /\ \A n \in posts'[c] : n[2] = task'[r].no
    BY <1>5, <1>6, <1>7, <1>10, <1>11, <1>12, <2>3, <2>4
  <2> QED BY <1>8, <2>1, <2>2, <2>3, <2>5 DEF Attempt
<1>15. shown'[c] \subseteq posts'[c] \cup journal'[c] \cup unlogged'
  <2>1. CASE S = {} BY <1>4, <1>5, <1>9, <2>1
  <2>2. CASE S # {} BY <1>5, <1>10, <1>11, <2>2
  <2> QED BY <2>1, <2>2
<1>16. backup' = Cards BY <1>5 DEF Safe
<1> HIDE DEF c
<1> QED BY <1>2, <1>3, <1>5, <1>6, <1>7, <1>8, <1>13, <1>14, <1>15, <1>16, OneGoesOn DEF c

LEMMA IdleAttempt == ASSUME NEW r \in Admins, task'[r] = Idle PROVE Attempt(r)' /\ ~Holding(r)' /\ ~At(r, "track")'
BY IdleTask DEF Attempt, Holding, Restored, At

\* The switch leaves the replacement alone.
LEMMA SafeSwitch == ASSUME TypeInv, TypeInv', Safe, NEW r \in Admins, Switch(r), ~crossed' PROVE Safe'
<1>1. task[r].pc = "switch" /\ Holding(r) /\ Restored(r) BY DEF Switch, At, Holding, Restored
<1>2. Standing /\ Attempt(r) BY <1>1, AtWorkStands, HoldingWorks DEF Standing
<1>a. crossed' = \/ crossed
                 \/ \E s \in Admins \ {r} : AtWork(s)
                 \/ Enabled \ task[r].olds # {task[r].row}
  BY DEF Switch
<1>3. /\ \A s \in Admins \ {r} : ~AtWork(s)
      /\ Enabled \ task[r].olds = {task[r].row}
      /\ Becomes(r, Idle)
      /\ UNCHANGED <<posts, journal, backup, shown, tries, unlogged>>
  <2>1. \A s \in Admins \ {r} : ~AtWork(s) BY <1>a, Zenon
  <2>2. Enabled \ task[r].olds = {task[r].row} BY <1>a, Zenon
  <2> QED BY <2>1, <2>2 DEF Switch
<1>4. task'[r] = Idle /\ \A s \in Admins \ {r} : task'[s] = task[s] BY <1>3, Turned
<1>5. /\ DOMAIN rows' = DOMAIN rows
      /\ \A i \in DOMAIN rows : /\ rows'[i].chat = rows[i].chat /\ rows'[i].human = rows[i].human
                                /\ rows'[i].enabled = (rows[i].enabled /\ i \notin task[r].olds)
  BY SwitchRows DEF TypeInv
<1>6. RowsInOrder' BY <1>5 DEF Safe, RowsInOrder
<1>7. Enabled' = {task[r].row} BY <1>3, <1>5 DEF Enabled
<1>8. task[r].row \in DOMAIN rows /\ task[r].row # 1 /\ rows[task[r].row].chat = Target(r)
  BY <1>1, <1>2 DEF Attempt, Enabled
<1>9. Shown(posts'[rows'[task[r].row].chat]) = Cards BY <1>1, <1>2, <1>3, <1>5, <1>8 DEF Attempt
<1>10. \A s \in Admins : ~AtWork(s)' /\ task'[s].sent = {} /\ ~task'[s].failed
  <2>1. \A s \in Admins \ {r} : task[s].sent = {} /\ ~task[s].failed /\ ~AtWork(s)
    BY <1>2, <1>3 DEF Standing, Attempt, AtWork
  <2> QED BY <1>4, <2>1, IdleTask DEF AtWork
<1>11. Landed' BY <1>5, <1>7, <1>8, <1>9, <1>10 DEF Landed
<1>12. \A s \in Admins : ~At(s, "track") BY <1>1, <1>3 DEF At, AtWork
<1>13. Tracked' BY <1>3, <1>12 DEF Safe, Tracked, InHand
<1>14. OriginalKept' /\ backup' = Cards /\ Numbered' BY <1>3 DEF Safe, OriginalKept, Numbered
<1> QED BY <1>6, <1>11, <1>13, <1>14 DEF Safe

\* A rollback turns its own row off, and on none that was off.
LEMMA SafeRollback == ASSUME TypeInv, TypeInv', Safe, NEW r \in Admins, Rollback(r), ~crossed' PROVE Safe'
<1> DEFINE t == [task[r] EXCEPT !.pc = "republish"]
<1>1. task[r] \in Task /\ task[r].pc = "rollback" BY DEF TypeInv, TypeOK, Rollback, At
<1>2. t.pc = "republish" /\ t.sent = task[r].sent /\ t.no = task[r].no BY <1>1 DEF Task
<1>3. Holding(r) /\ ~At(r, "track") BY <1>1 DEF Holding, At
<1>4. Standing /\ Attempt(r) BY <1>3, AtWorkStands, HoldingWorks DEF Standing
<1>5. /\ task[r].olds \subseteq Enabled /\ Becomes(r, t)
      /\ UNCHANGED <<posts, journal, backup, shown, tries, unlogged>>
  BY DEF Rollback, Goes
<1> HIDE DEF t
<1>6. task'[r] = t /\ \A s \in Admins \ {r} : task'[s] = task[s] BY <1>5, Turned
<1>7. /\ DOMAIN rows' = DOMAIN rows
      /\ \A i \in DOMAIN rows :
           /\ rows'[i].chat = rows[i].chat /\ rows'[i].human = rows[i].human
           /\ rows'[i].enabled = ((rows[i].enabled \/ i \in task[r].olds) /\ i # task[r].row)
  BY RollbackRows DEF TypeInv
<1>8. Frame(r)
  <2>1. tries \in Int BY DEF TypeInv, TypeOK
  <2>2. \A i \in DOMAIN rows : rows[i].enabled /\ i # task[r].row => rows'[i].enabled BY <1>7, Zenon
  <2> QED BY <1>3, <1>5, <1>6, <1>7, <2>1, <2>2 DEF Frame, Enabled
<1>9. ~Holding(r)' /\ ~At(r, "track")' /\ ~Restored(r)' BY <1>2, <1>6 DEF Holding, At, Restored
<1>10. Attempt(r)' BY <1>2, <1>4, <1>6, <1>9 DEF Attempt
<1>11. shown'[Target(r)] \subseteq posts'[Target(r)] \cup journal'[Target(r)] \cup unlogged'
  BY <1>3, <1>4, <1>5, OwnTracked
<1> QED BY <1>3, <1>4, <1>5, <1>7, <1>8, <1>9, <1>10, <1>11, OneGoesOn DEF Safe

\* A step of an admin that holds no chat.
LEMMA FreeStep ==
  ASSUME TypeInv, TypeInv', Safe, Standing, NEW r \in Admins, Frame(r), ~Holding(r), RowsInOrder',
         UNCHANGED <<posts, journal, shown, unlogged>>, backup' = Cards,
         Attempt(r)', ~At(r, "track")',
         Holding(r)' => \A s \in Admins \ {r} : Holding(s) =>
                          task'[r].row # task[s].row /\ task'[r].no # task[s].no
  PROVE  Safe'
<1>1. OriginalKept' BY DEF Safe, OriginalKept
<1>2. 1 \in Enabled' BY DEF Standing, Enabled, Frame
<1>3. \A s \in Admins : Attempt(s)' BY OthersGoOn DEF Safe
<1>4. Apart'
  <2>1. \A s \in Admins \ {r} : (Holding(s)' <=> Holding(s)) /\ task'[s].row = task[s].row /\ task'[s].no = task[s].no
    BY DEF Frame, Holding
  <2> QED BY <2>1 DEF Standing, Apart
<1>5. Numbered'
  <2>1. tries \in Nat /\ tries' \in Nat /\ tries <= tries' /\ \A m \in unlogged : m[2] \in Nat
    BY DEF TypeInv, TypeOK, Frame, Msg
  <2> QED BY <2>1 DEF Safe, Numbered
<1>6. Tracked'
  <2>1. ~At(r, "track") BY DEF Holding, At
  <2>2. \A s \in Admins : (At(s, "track")' <=> At(s, "track"))
                          /\ (At(s, "track") => Target(s)' = Target(s) /\ Current(s)' = Current(s))
    BY <2>1 DEF Frame, At, Target, Current
  <2> SUFFICES ASSUME NEW c \in Chats, NEW m \in shown'[c], m \notin posts'[c] \cup journal'[c] \cup unlogged'
               PROVE  m \in InHand(c)'
    BY DEF Tracked
  <2>3. m \in InHand(c) BY DEF Safe, Tracked
  <2>4. PICK s \in Admins : At(s, "track") /\ Target(s) = c /\ m = Current(s) BY <2>3 DEF InHand
  <2>5. At(s, "track")' /\ Target(s)' = c /\ m = Current(s)' BY <2>2, <2>4
  <2>6. s \in {q \in Admins : At(q, "track")' /\ Target(q)' = c} BY <2>5
  <2> QED BY <2>5, <2>6 DEF InHand
<1> QED BY <1>1, <1>2, <1>3, <1>4, <1>5, <1>6 DEF Safe, Standing

LEMMA SafeRepublish == ASSUME TypeInv, TypeInv', Safe, NEW r \in Admins, Republish(r) PROVE Safe'
<1>1. task[r].pc = "republish" /\ ~Holding(r) BY DEF Republish, At, Holding
<1>2. Standing BY <1>1, AtWorkStands DEF AtWork
<1>3. Becomes(r, Idle) /\ UNCHANGED <<posts, journal, backup, shown, tries, unlogged>> BY DEF Republish
<1>4. task'[r] = Idle /\ \A s \in Admins \ {r} : task'[s] = task[s] BY <1>3, Turned
<1>5. /\ DOMAIN rows' = DOMAIN rows
      /\ \A i \in DOMAIN rows : /\ rows'[i].chat = rows[i].chat /\ rows'[i].human = rows[i].human
                                /\ rows'[i].enabled = rows[i].enabled
  BY InvitedRows
<1>6. Frame(r)
  <2>1. tries \in Int BY DEF TypeInv, TypeOK
  <2> QED BY <1>1, <1>3, <1>4, <1>5, <2>1 DEF Frame, Enabled
<1>7. RowsInOrder' BY <1>5 DEF Safe, RowsInOrder
<1>8. Attempt(r)' /\ ~Holding(r)' /\ ~At(r, "track")' BY <1>4, IdleAttempt
<1> QED BY <1>1, <1>2, <1>3, <1>6, <1>7, <1>8, FreeStep DEF Safe

\* An admin takes up a recovery, or is refused the chat.
LEMMA SafeAside ==
  ASSUME TypeInv, TypeInv', Safe, NEW r \in Admins, NEW t, Becomes(r, t), ~AtWork(r),
         t.pc \in {"idle", "register"}, t.sent = {}, ~t.failed,
         UNCHANGED <<rows, posts, journal, shown, unlogged, tries>>, backup' = Cards
  PROVE  Safe'
<1>1. task'[r] = t /\ \A s \in Admins \ {r} : task'[s] = task[s] BY Turned
<1>2. ~Holding(r) /\ ~Holding(r)' /\ ~At(r, "track")' /\ ~AtWork(r)' BY <1>1 DEF Holding, AtWork, At
<1>3. RowsInOrder' /\ Enabled' = Enabled BY DEF Safe, RowsInOrder, Enabled
<1>4. CASE Standing
  <2>1. Frame(r)
    <3>1. tries \in Int BY DEF TypeInv, TypeOK
    <3> QED BY <1>1, <1>2, <3>1 DEF Frame, Enabled
  <2>2. Attempt(r)' BY <1>1, <1>2 DEF Attempt, Restored, At
  <2> QED BY <1>2, <1>3, <1>4, <2>1, <2>2, FreeStep
<1>5. CASE Landed
  <2>1. \A s \in Admins : ~AtWork(s)' /\ task'[s].sent = {} /\ ~task'[s].failed
    BY <1>1, <1>2, <1>5 DEF Landed, AtWork
  <2>2. Landed' BY <1>3, <1>5, <2>1 DEF Landed
  <2>3. \A s \in Admins : ~At(s, "track") /\ ~At(s, "track")' BY <1>5, <2>1 DEF Landed, AtWork, At
  <2>4. Tracked' BY <2>3 DEF Safe, Tracked, InHand
  <2> QED BY <1>3, <2>2, <2>4 DEF Safe, OriginalKept, Numbered
<1> QED BY <1>4, <1>5 DEF Safe

LEMMA SafeBegin == ASSUME TypeInv, TypeInv', Safe, NEW r \in Admins, NEW c \in Chats, Begin(r, c) PROVE Safe'
<1> DEFINE t == [Idle EXCEPT !.pc = "register", !.chat = c]
<1>1. Becomes(r, t) /\ UNCHANGED <<rows, posts, journal, shown, unlogged, tries>> BY DEF Begin, outside, history
<1>2. t.pc = "register" /\ t.sent = {} /\ ~t.failed BY DEF Idle
<1>3. backup' = Cards BY CaptureIsWhole DEF Begin, TypeInv
<1>4. ~AtWork(r) BY DEF Begin, At, AtWork
<1> HIDE DEF t
<1> QED BY <1>1, <1>2, <1>3, <1>4, SafeAside

LEMMA SafeRefuse == ASSUME TypeInv, TypeInv', Safe, NEW r \in Admins, Refuse(r) PROVE Safe'
<1>1. Becomes(r, Idle) /\ UNCHANGED <<rows, posts, journal, backup, shown, unlogged, tries>>
  BY DEF Refuse, stored, outside, history
<1>2. ~AtWork(r) BY DEF Refuse, At, AtWork
<1> QED BY <1>1, <1>2, IdleTask, SafeAside DEF Safe

\* Registered while the original is on: a chat without a row that is on, a number of its own.
LEMMA SafeRegister == ASSUME TypeInv, TypeInv', Safe, NEW r \in Admins, Register(r), ~again' PROVE Safe'
<1> DEFINE c == Target(r)
           i == IF RowsOf(c) = {} THEN Len(rows) + 1 ELSE Max(RowsOf(c))
           t == Registered(r, i, tries + 1)
<1>1. c \in Chats /\ TypeOK /\ task[r] \in Task /\ task[r].pc = "register"
  BY TargetIsChat DEF TypeInv, Register, At
<1>2. /\ rows' = IF i > Len(rows) THEN Append(rows, Fresh(c)) ELSE [rows EXCEPT ![i] = Fresh(c)]
      /\ tries' = tries + 1 /\ tries < MaxTries /\ Becomes(r, t)
      /\ again' = (again \/ Originals = {}) /\ Registrable(c)
      /\ UNCHANGED <<posts, journal, backup, shown, unlogged>>
  BY DEF Register
<1>a. /\ t.pc = "olds" /\ t.row = i /\ t.no = tries + 1 /\ t.chat = c
      /\ t.sent = task[r].sent /\ t.failed = task[r].failed
  BY <1>1 DEF Registered, Task, Target
<1> HIDE DEF i, c
<1>3. /\ DOMAIN rows \subseteq DOMAIN rows' /\ i \in DOMAIN rows' /\ rows'[i] = Fresh(c)
      /\ \A j \in DOMAIN rows' : j # i => j \in DOMAIN rows /\ rows'[j] = rows[j]
      /\ i \in DOMAIN rows => rows[i].chat = c
  <2>1. c \in Chats BY <1>1
  <2>2. rows' = IF i > Len(rows) THEN Append(rows, Fresh(c)) ELSE [rows EXCEPT ![i] = Fresh(c)] BY <1>2
  <2>3. TypeOK BY <1>1
  <2> HIDE DEF t
  <2>4. RowsTaken(c, i) BY <2>1, <2>2, <2>3, TakenRows DEF i
  <2> QED BY <2>4 DEF RowsTaken
<1> HIDE DEF t
<1>4. Standing
  <2>1. CASE Landed
    <3>1. PICK j \in DOMAIN rows : j # 1 /\ Enabled = {j} BY <2>1 DEF Landed
    <3>2. Originals = {} BY <3>1 DEF Originals, Safe, RowsInOrder
    <3> QED BY <1>2, <3>2
  <2> QED BY <2>1 DEF Safe
<1>5. task'[r] = t /\ \A s \in Admins \ {r} : task'[s] = task[s] BY <1>2, Turned
<1>6. i \notin Enabled
  BY <1>2, <1>3 DEF Registrable, RowsOf, Enabled
<1>7. 1 \in Enabled /\ i # 1 /\ c # First
  BY <1>2, <1>4, <1>6 DEF Standing, Registrable, RowsOf, Enabled, Safe, RowsInOrder
<1>8. \A j \in DOMAIN rows : j # i => rows[j].chat # c
  <2>1. CASE RowsOf(c) = {} BY <2>1 DEF RowsOf
  <2>2. CASE RowsOf(c) # {}
    <3>1. i \in DOMAIN rows /\ rows[i].chat = c BY <1>1, <2>2, TakenRow DEF i, RowsOf
    <3> QED BY <3>1 DEF Safe, RowsInOrder
  <2> QED BY <2>1, <2>2
<1>9. rows'[i].chat = c /\ rows'[i].human /\ rows'[i].enabled BY <1>3 DEF Fresh
<1>10. \A j \in DOMAIN rows : j # i => rows'[j] = rows[j] BY <1>3
<1>11. RowsInOrder'
  <2>1. 1 \in DOMAIN rows' /\ rows'[1] = rows[1] BY <1>3, <1>7, <1>10 DEF Enabled
  <2>2. \A j \in DOMAIN rows' : j # 1 => rows'[j].human BY <1>3, <1>9 DEF Safe, RowsInOrder
  <2>3. \A j, k \in DOMAIN rows' : rows'[j].chat = rows'[k].chat => j = k
    BY <1>3, <1>8, <1>9 DEF Safe, RowsInOrder
  <2> QED BY <2>1, <2>2, <2>3 DEF Safe, RowsInOrder
<1>12. tries \in Nat BY <1>1 DEF TypeOK
<1>13. ~Holding(r) BY <1>1 DEF Holding
<1>14. Frame(r)
  <2>1. \A j \in DOMAIN rows : /\ rows'[j].chat = rows[j].chat
                               /\ j \in Enabled => rows'[j].enabled
    BY <1>3, <1>6, <1>9, <1>10 DEF Enabled
  <2> QED BY <1>2, <1>3, <1>5, <1>12, <1>13, <2>1 DEF Frame
<1>15. /\ Attempt(r) /\ task[r].sent = {} /\ ~task[r].failed BY <1>1, <1>4 DEF Standing, Attempt
<1>16. \A m \in unlogged : m[2] # tries + 1
  <2>1. \A m \in unlogged : m[2] <= tries /\ m[2] \in Nat BY <1>1 DEF Safe, Numbered, TypeOK, Msg
  <2> QED BY <1>12, <2>1
<1>17. Attempt(r)' /\ ~At(r, "track")'
  <2>1. task'[r].row \in Enabled' \ {1} BY <1>3, <1>5, <1>7, <1>9, <1>a DEF Enabled
  <2>2. Target(r)' = c /\ rows'[task'[r].row].chat = c BY <1>5, <1>9, <1>a DEF Target
  <2>3. task'[r].no <= tries' /\ \A m \in unlogged' : m[2] # task'[r].no
    BY <1>2, <1>5, <1>12, <1>16, <1>a
  <2> QED BY <1>5, <1>15, <1>a, <2>1, <2>2, <2>3 DEF Attempt, At, Restored
<1>18. \A s \in Admins \ {r} : Holding(s) => task'[r].row # task[s].row /\ task'[r].no # task[s].no
  <2>1. \A s \in Admins : Holding(s) => task[s].row \in Enabled /\ task[s].no <= tries /\ task[s].no \in Nat
    BY <1>1, <1>4 DEF Standing, Attempt, TypeOK, Task
  <2> QED BY <1>5, <1>6, <1>12, <1>a, <2>1
<1> QED BY <1>2, <1>4, <1>11, <1>13, <1>14, <1>17, <1>18, FreeStep DEF Safe

\* Whatever a failed transaction leaves behind.
LEMMA SafeDatabase == ASSUME TypeInv, TypeInv', Safe, NEW r \in Admins, DatabaseFails(r) PROVE Safe'
<1> DEFINE c == Target(r)  m == Current(r)  k == Min(task[r].todo)
<1>1. task[r] \in Task /\ c \in Chats BY TargetIsChat DEF TypeInv
<1>2. UNCHANGED <<rows, posts, journal, backup, tries>> BY DEF DatabaseFails, stored
<1>3. Holding(r) BY DEF DatabaseFails, Holding, At
<1>4. Standing /\ Attempt(r) BY <1>3, AtWorkStands, HoldingWorks DEF Standing
<1>5. tries \in Int BY DEF TypeInv, TypeOK
<1>6. CASE /\ At(r, "track") /\ unlogged' = unlogged \cup {m} /\ UNCHANGED shown
           /\ Becomes(r, [task[r] EXCEPT !.pc = "send", !.todo = @ \ {Min(@)}, !.failed = TRUE])
  <2> DEFINE t == [task[r] EXCEPT !.pc = "send", !.todo = @ \ {Min(@)}, !.failed = TRUE]
  <2>1. /\ t.row = task[r].row /\ t.no = task[r].no /\ t.pc = "send" /\ t.chat = task[r].chat
        /\ t.sent = task[r].sent /\ t.failed = TRUE
    BY <1>1 DEF Task
  <2>2. Becomes(r, t) BY <1>6
  <2> HIDE DEF t
  <2>3. task'[r] = t /\ \A s \in Admins \ {r} : task'[s] = task[s] BY <2>2, Turned
  <2>4. m = <<k, task[r].no>> /\ m[2] = task[r].no BY <1>6, FirstToDo DEF At, TypeInv
  <2>5. m \in task[r].sent BY <1>4, <1>6 DEF Attempt
  <2> HIDE DEF m
  <2>6. Frame(r) BY <1>2, <1>3, <1>5, <1>6, <2>3, <2>4 DEF Frame, Enabled
  <2>7. ~At(r, "track")' /\ Target(r)' = c /\ Holding(r)' /\ ~Restored(r)'
    BY <2>1, <2>3 DEF At, Target, Holding, Restored
  <2>8. Attempt(r)'
    <3>1. task'[r].failed /\ task'[r].pc = "send" BY <2>1, <2>3
    <3>2. \A n \in task'[r].sent : n[2] = task'[r].no BY <1>4, <2>1, <2>3 DEF Attempt
    <3>3. task'[r].sent \subseteq shown'[c] /\ shown'[c] \ task'[r].sent \subseteq unlogged'
      BY <1>4, <1>6, <2>1, <2>3 DEF Attempt, At
    <3>4. /\ task'[r].row \in Enabled' \ {1} /\ rows'[task'[r].row].chat = c /\ task'[r].no <= tries'
      BY <1>2, <1>3, <1>4, <2>1, <2>3 DEF Attempt, Enabled
    <3> QED BY <2>7, <3>1, <3>2, <3>3, <3>4 DEF Attempt
  <2>9. shown'[c] \subseteq posts'[c] \cup journal'[c] \cup unlogged'
    BY <1>2, <1>3, <1>4, <1>6, OwnTracked DEF m
  <2>10. backup' = Cards BY <1>2 DEF Safe
  <2> HIDE DEF c
  <2> QED BY <1>2, <1>3, <1>4, <2>1, <2>3, <2>6, <2>7, <2>8, <2>9, <2>10, OneGoesOn DEF c
<1>7. CASE /\ At(r, "cleanup") /\ UNCHANGED unlogged /\ Goes(r, "rollback")
           /\ \/ UNCHANGED shown
              \/ shown' = [shown EXCEPT ![c] = @ \ (posts[c] \cup journal[c])]
  <2> DEFINE t == [task[r] EXCEPT !.pc = "rollback"]
  <2>1. /\ t.row = task[r].row /\ t.no = task[r].no /\ t.pc = "rollback" /\ t.chat = task[r].chat
        /\ t.sent = task[r].sent /\ t.failed = task[r].failed
    BY <1>1 DEF Task
  <2>2. Becomes(r, t) BY <1>7 DEF Goes
  <2> HIDE DEF t
  <2>3. task'[r] = t /\ \A s \in Admins \ {r} : task'[s] = task[s] BY <2>2, Turned
  <2>4. shown'[c] \subseteq shown[c] /\ \A d \in Chats : d # c => shown'[d] = shown[d]
    BY <1>1, <1>7 DEF TypeInv, TypeOK
  <2>5. Frame(r) BY <1>2, <1>3, <1>5, <1>7, <2>3, <2>4 DEF Frame, Enabled
  <2>6. ~At(r, "track") /\ ~At(r, "track")' /\ Target(r)' = c /\ ~Restored(r)'
    BY <1>7, <2>1, <2>3 DEF At, Target, Restored
  <2>7. Attempt(r)' BY <1>2, <1>3, <1>4, <1>7, <2>1, <2>3, <2>6 DEF Attempt, Enabled, Holding, At
  <2>8. shown'[c] \subseteq posts'[c] \cup journal'[c] \cup unlogged'
    BY <1>2, <1>3, <1>4, <1>7, <2>4, <2>6, OwnTracked
  <2>9. backup' = Cards BY <1>2 DEF Safe
  <2> HIDE DEF c
  <2> QED BY <1>2, <1>3, <1>4, <2>1, <2>3, <2>5, <2>6, <2>7, <2>8, <2>9, OneGoesOn DEF c
<1>8. CASE /\ task[r].pc \in {"read", "invite", "relink", "send"} /\ UNCHANGED <<shown, unlogged>>
           /\ Becomes(r, [task[r] EXCEPT !.pc = "rollback", !.todo = {}, !.sent = {}])
  <2> DEFINE t == [task[r] EXCEPT !.pc = "rollback", !.todo = {}, !.sent = {}]
  <2>1. /\ t.row = task[r].row /\ t.no = task[r].no /\ t.pc = "rollback" /\ t.chat = task[r].chat
        /\ t.sent = {} /\ t.failed = task[r].failed
    BY <1>1 DEF Task
  <2>2. Becomes(r, t) /\ ~At(r, "track") BY <1>8 DEF At
  <2> HIDE DEF t
  <2>3. task'[r] = t BY <2>2, Turned
  <2>4. Attempt(r)' BY <1>2, <1>3, <1>4, <1>8, <2>1, <2>3 DEF Attempt, Enabled, Holding, Restored, At, Target
  <2> QED BY <1>2, <1>3, <1>8, <2>1, <2>2, <2>4, QuietStep DEF Safe
<1>9. CASE /\ task[r].pc \in {"olds", "switch", "rollback"} /\ UNCHANGED <<shown, unlogged>>
           /\ Becomes(r, Idle)
  <2>1. ~At(r, "track") BY <1>9 DEF At
  <2>2. Attempt(r)' BY <1>9, Turned, IdleAttempt
  <2> QED BY <1>2, <1>3, <1>9, <2>1, <2>2, IdleTask, QuietStep DEF Safe
<1> QED BY <1>6, <1>7, <1>8, <1>9 DEF DatabaseFails, At

LEMMA SafeCrash == ASSUME TypeInv, TypeInv', Safe, Crash PROVE Safe'
<1>1. \A s \in Admins : task'[s] = Idle BY DEF Crash
<1>2. UNCHANGED <<rows, posts, journal, backup, shown, tries>> BY DEF Crash, stored
<1>3. unlogged' = unlogged \cup {Current(r) : r \in {s \in Admins : At(s, "track")}} BY DEF Crash
<1>4. \A s \in Admins : Attempt(s)' /\ ~Holding(s)' /\ ~At(s, "track")' BY <1>1, IdleAttempt
<1>5. RowsInOrder' /\ OriginalKept' /\ backup' = Cards /\ Enabled' = Enabled
  BY <1>2 DEF Safe, RowsInOrder, OriginalKept, Enabled
<1>6. Standing \/ Landed BY DEF Safe
<1>7. Standing => Standing' BY <1>4, <1>5 DEF Standing, Apart
<1>8. Landed => Landed' BY <1>1, <1>2, <1>5, IdleTask DEF Landed, AtWork
<1>9. Tracked'
  <2> SUFFICES ASSUME NEW c \in Chats, NEW m \in shown[c], m \notin posts[c] \cup journal[c] \cup unlogged
               PROVE  m \in unlogged'
    BY <1>2, <1>3 DEF Tracked
  <2>1. m \in InHand(c) BY DEF Safe, Tracked
  <2>2. PICK s \in Admins : At(s, "track") /\ m = Current(s) BY <2>1 DEF InHand
  <2>3. s \in {q \in Admins : At(q, "track")} BY <2>2
  <2> QED BY <1>3, <2>2, <2>3
<1>10. Numbered'
  <2> SUFFICES ASSUME NEW s \in Admins, At(s, "track") PROVE Current(s)[2] <= tries
    BY <1>2, <1>3 DEF Numbered, Safe
  <2>1. Holding(s) BY DEF Holding, At
  <2>2. Attempt(s) BY <2>1, AtWorkStands, HoldingWorks DEF Standing
  <2> QED BY <2>1, <2>2 DEF Attempt, Current
<1> QED BY <1>5, <1>6, <1>7, <1>8, <1>9, <1>10 DEF Safe

\* A step that touches neither the rows, the messages nor an attempt.
LEMMA SafeStutter ==
  ASSUME Safe, UNCHANGED <<rows, posts, journal, shown, unlogged, tries, task>>, backup' = Cards PROVE Safe'
<1>1. /\ RowsInOrder' /\ OriginalKept' /\ Enabled' = Enabled /\ Numbered' /\ Tracked'
  BY DEF Safe, RowsInOrder, OriginalKept, Enabled, Numbered, Tracked, InHand, At, Target, Current
<1>2. \A r \in Admins : (Holding(r)' <=> Holding(r)) /\ (Attempt(r) => Attempt(r)')
  BY <1>1 DEF Holding, Attempt, At, Restored, Target, Current
<1>3. Standing => Standing' BY <1>1, <1>2 DEF Standing, Apart
<1>4. Landed => Landed' BY <1>1 DEF Landed, AtWork
<1> QED BY <1>1, <1>3, <1>4 DEF Safe

LEMMA Invariance == ASSUME IInv, [Next]_vars PROVE IInv'
<1>1. TypeInv /\ TypeInv' BY TypeNext DEF IInv
<1> SUFFICES ASSUME Undisturbed' PROVE Safe'
  BY <1>1 DEF IInv
<1>2. ~again' /\ ~crossed' BY DEF Undisturbed
<1>3. Undisturbed
  <2>1. CASE UNCHANGED <<again, crossed>> BY <1>2, <2>1 DEF Undisturbed
  <2>2. ASSUME NEW r \in Admins, Register(r) PROVE Undisturbed
    <3>1. again' = (again \/ Originals = {}) /\ crossed' = crossed BY <2>2 DEF Register
    <3> QED BY <1>2, <3>1 DEF Undisturbed
  <2>3. ASSUME NEW r \in Admins, NEW s \in Admins, RegisterBoth(r, s) PROVE Undisturbed
    BY <1>2, <2>3 DEF RegisterBoth
  <2>4. ASSUME NEW r \in Admins, Switch(r) PROVE Undisturbed
    <3>1. crossed' = \/ crossed
                     \/ \E s \in Admins \ {r} : AtWork(s)
                     \/ Enabled \ task[r].olds # {task[r].row}
      BY <2>4 DEF Switch
    <3>2. ~crossed BY <1>2, <3>1, Zenon
    <3>3. again' = again BY <2>4 DEF Switch
    <3> QED BY <1>2, <3>2, <3>3 DEF Undisturbed
  <2>5. ASSUME NEW r \in Admins, Rollback(r) PROVE Undisturbed
    <3>1. crossed' = (crossed \/ task[r].olds \ Enabled # {}) /\ again' = again BY <2>5 DEF Rollback
    <3> QED BY <1>2, <3>1 DEF Undisturbed
  <2>6. ASSUME NEW r \in Admins, Republish(r) PROVE Undisturbed
    <3>1. again' = again BY <2>6 DEF Republish
    <3>2. CASE crossed' = crossed BY <1>2, <3>1, <3>2 DEF Undisturbed
    <3>3. CASE crossed' = (crossed \/ \E s \in Admins \ {r} : AtWork(s))
      <4>1. ~crossed BY <1>2, <3>3, Zenon
      <4> QED BY <1>2, <3>1, <4>1 DEF Undisturbed
    <3> QED BY <2>6, <3>2, <3>3 DEF Republish
  <2>7. ASSUME NEW r \in Admins, Step(r) PROVE Undisturbed
    BY <2>1, <2>2, <2>3, <2>4, <2>5, <2>6, <2>7
       DEF Step, Refuse, ReadOlds, Cleanup, Read, Send, Track, Settle, Invite, Relink, Surfaces, outside, history
  <2>8. ASSUME NEW r \in Admins, DatabaseFails(r) \/ \E c \in Chats : Begin(r, c) PROVE Undisturbed
    BY <2>1, <2>8 DEF DatabaseFails, Begin, outside, history
  <2> QED BY <2>1, <2>7, <2>8 DEF Next, Ban, Capture, Crash, vars, outside, history
<1>4. Safe BY <1>3 DEF IInv
<1>5. CASE UNCHANGED vars BY <1>4, <1>5, SafeStutter DEF vars, history, Safe
<1>6. ASSUME NEW r \in Admins, Step(r) PROVE Safe'
  <2>1. \A s \in Admins : ~RegisterBoth(r, s) BY <1>2 DEF RegisterBoth
  <2> QED BY <1>1, <1>2, <1>4, <1>6, <2>1, SafeRefuse, SafeRegister, SafeReadOlds, SafeCleanup, SafeRead,
             SafeSend, SafeTrack, SafeSettle, SafeInvite, SafeRelink, SafeSurfaces, SafeSwitch,
             SafeRollback, SafeRepublish DEF Step
<1>7. ASSUME NEW c \in Chats, Ban(c) PROVE Safe'
  BY <1>4, <1>7, SafeStutter DEF Ban, stored, history, Safe
<1>8. CASE Capture
  <2>1. backup' = Cards BY <1>1, <1>4, <1>8, CaptureIsWhole DEF Capture, TypeInv
  <2> QED BY <1>4, <1>8, <2>1, SafeStutter DEF Capture, outside, history
<1>9. CASE Crash BY <1>1, <1>4, <1>9, SafeCrash
<1> QED BY <1>1, <1>4, <1>5, <1>6, <1>7, <1>8, <1>9, SafeBegin, SafeDatabase DEF Next

LEMMA InvariantHolds == Spec => []IInv
<1>1. Init => IInv BY TypeInit, SafeInit DEF IInv
<1> QED BY <1>1, Invariance, PTL DEF Spec

-----------------------------------------------------------------------------
(* The properties *)

\* No capture ever costs the backup a card, until attempts get in each other's way or
\* a recovery begins when the original has gone.
THEOREM BackupIsIntact == Spec => []BackupKept
<1>1. IInv => BackupKept BY DEF IInv, Safe, BackupKept, BackupIntact
<1> QED BY <1>1, InvariantHolds, PTL

\* As long, some row that is on is of a channel whose stored posts are complete: the
\* original's until the switch, the replacement's from then on.
THEOREM CompleteChannelIsKept == Spec => []CompleteChannelKept
<1>1. IInv => CompleteChannelKept
  <2> SUFFICES ASSUME IInv, Undisturbed PROVE \E c \in On : Holds(c)
    BY DEF CompleteChannelKept
  <2>1. Safe BY DEF IInv
  <2>2. CASE Standing
    <3>1. First \in On BY <2>1, <2>2 DEF Standing, Safe, RowsInOrder, On
    <3>2. Shown(posts[First]) = Cards BY <2>1, ShownFirst DEF Safe, OriginalKept
    <3> QED BY <3>1, <3>2 DEF Holds, Shown
  <2>3. CASE Landed
    <3>1. PICK i \in DOMAIN rows : Enabled = {i} /\ Shown(posts[rows[i].chat]) = Cards
      BY <2>3 DEF Landed
    <3>2. rows[i].chat \in On BY <3>1 DEF On
    <3> QED BY <3>1, <3>2 DEF Holds, Shown
  <2> QED BY <2>1, <2>2, <2>3 DEF Safe
<1> QED BY <1>1, InvariantHolds, PTL

\* Messages of one number are as many as their cards.
LEMMA OneEach ==
  ASSUME NEW S, NEW n, \A m \in S : m[2] = n, S \subseteq Msg, Shown(S) = Cards
  PROVE  Cardinality(S) = Cardinality(Cards)
<1> DEFINE f == [k \in Cards |-> <<k, n>>]
<1>1. ASSUME NEW k \in Cards PROVE <<k, n>> \in S
  <2>1. PICK m \in S : m[1] = k BY DEF Shown
  <2>2. m = <<k, n>> BY <2>1 DEF Msg
  <2> QED BY <2>2
<1>2. ASSUME NEW m \in S PROVE m[1] \in Cards /\ m = <<m[1], n>>
  BY DEF Msg
<1>3. f \in Bijection(Cards, S)
  <2>1. f \in [Cards -> S] BY <1>1
  <2>2. \A a, b \in Cards : f[a] = f[b] => a = b OBVIOUS
  <2>3. \A m \in S : \E k \in Cards : f[k] = m
    <3> SUFFICES ASSUME NEW m \in S PROVE f[m[1]] = m /\ m[1] \in Cards
      OBVIOUS
    <3>1. m[1] \in Cards /\ m = <<m[1], n>> BY <1>2
    <3>2. f[m[1]] = <<m[1], n>> BY <3>1
    <3> QED BY <3>1, <3>2
  <2> QED BY <2>1, <2>2, <2>3 DEF Bijection, Injection, Surjection, IsInjective
<1>4. ExistsBijection(Cards, S) BY <1>3 DEF ExistsBijection
<1> QED BY <1>4, FS_Bijection, RecoveryAssumption

\* As long, the channel shows each card once at the switch, by the messages stored,
\* and else only what lost its journal entry.
THEOREM NoCardIsDoubled == Spec => NoDuplicateCards
<1>1. IInv /\ [Next]_vars =>
        [ \A r \in Admins : Switch(r) /\ Undisturbed =>
            LET c == Target(r)
            IN  /\ shown[c] \ unlogged = posts[c]
                /\ Holds(c) /\ Cardinality(posts[c]) = Cardinality(Cards) ]_vars
  <2> SUFFICES ASSUME IInv, NEW r \in Admins, Switch(r), Undisturbed
               PROVE  LET c == Target(r)
                      IN  /\ shown[c] \ unlogged = posts[c]
                          /\ Holds(c) /\ Cardinality(posts[c]) = Cardinality(Cards)
    OBVIOUS
  <2> DEFINE c == Target(r)
  <2>1. Safe /\ TypeInv BY DEF IInv
  <2>2. Holding(r) /\ Restored(r) BY DEF Switch, At, Holding, Restored
  <2>3. Attempt(r) BY <2>1, <2>2, AtWorkStands, HoldingWorks DEF Standing
  <2>4. /\ ~task[r].failed /\ Shown(posts[c]) = Cards /\ posts[c] \subseteq shown[c]
        /\ shown[c] \ posts[c] \subseteq unlogged
        /\ \A m \in posts[c] : m[2] = task[r].no
    BY <2>2, <2>3 DEF Attempt
  <2>5. \A m \in unlogged : m[2] # task[r].no BY <2>2, <2>3, <2>4 DEF Attempt
  <2>6. posts[c] \subseteq Msg BY <2>1, TargetIsChat DEF TypeInv, TypeOK
  <2>7. Holds(c) BY <2>4 DEF Holds, Shown
  <2>8. Cardinality(posts[c]) = Cardinality(Cards) BY <2>4, <2>6, OneEach
  <2> QED BY <2>4, <2>5, <2>7, <2>8
<1> QED BY <1>1, InvariantHolds, PTL DEF NoDuplicateCards, Spec
============================================================================
