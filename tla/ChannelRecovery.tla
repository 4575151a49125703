---------------------------- MODULE ChannelRecovery ----------------------------
(***************************************************************************)
(* The replacement of one title's banned channel by a channel that an      *)
(* admin made (BotOrchestratorService.recover_human_channel): capture the  *)
(* backup, register the replacement beside the old row, remove what an     *)
(* earlier attempt left, re-post the backup card by card with a journal,   *)
(* mint an invite, refresh the public surfaces, and only then switch the   *)
(* old row off.  Any failure before that rolls back.                       *)
(*                                                                         *)
(* The rows of DistributionBot are named by their ids.  A message is the   *)
(* card it shows and the attempt that sent it.  The process may stop       *)
(* between any two steps, and the captures that updates and relinks end    *)
(* with (DistributionChannel) may come at any time.                        *)
(* Admins attempt independently: a claim is of an admin, not of a title,   *)
(* and lapses, so one title may be in the hands of several.                *)
(*                                                                         *)
(* Abstracted: captions, pins and divider stickers; branding; the main     *)
(* post, the recovery reply and the index are one surface (public).        *)
(***************************************************************************)
EXTENDS Integers, FiniteSets, FiniteSetsExt, Sequences

CONSTANTS Chats,       \* chats that can carry the title's channel
          First,       \* the one it was published in
          Cards,       \* the cards of the channel, in the order they were sent
          Admins,      \* those who may run a recovery of the title
          Careful,     \* they cancel the offer while the title has a channel that is up
          MaxBans,     \* bound: chats Telegram takes down
          MaxTries,    \* bound: attempts that get as far as a registered chat
          MaxFaults,   \* bound: Telegram calls that fail though the chat is there
          MaxBreaks    \* bound: transactions that fail, and restarts

ASSUME RecoveryAssumption ==
  /\ First \in Chats /\ Careful \in BOOLEAN
  /\ IsFiniteSet(Admins)
  /\ Cards \subseteq Nat /\ Cards # {} /\ IsFiniteSet(Cards)
  /\ {MaxBans, MaxTries, MaxFaults, MaxBreaks} \subseteq Nat

VARIABLES banned,
          rows,     \* DistributionBot, by id
          posts,    \* chat |-> BotContentPost: its stored messages
          journal,  \* chat |-> ChannelLayout
          shown,    \* chat |-> the messages readers see
          backup,   \* ChannelContentBackup: the cards it holds
          public,   \* the chat the main post, the reply and the index lead to
          task,     \* admin |-> where the attempt is
          tries, faults, breaks,
          again,    \* history: a recovery began with no original row enabled
          crossed,  \* history: two attempts got in each other's way
          unlogged, \* history: messages sent and never journaled
          cut       \* history: an attempt ended without its rollback or its switch

history == <<again, crossed, unlogged, cut>>
vars == <<banned, rows, posts, journal, shown, backup, public, task,
          tries, faults, breaks, history>>

-----------------------------------------------------------------------------
Msg == Cards \X (0..MaxTries)
Row == [chat : Chats, enabled : BOOLEAN, human : BOOLEAN, invite : BOOLEAN]
Ids == 1..(MaxTries + 1)

Idle == [pc |-> "idle", chat |-> First, row |-> 1, no |-> 0, olds |-> {},
         todo |-> {}, sent |-> {}, failed |-> FALSE]
Task == [pc : {"idle", "register", "olds", "cleanup", "read", "send", "track", "invite",
               "relink", "surfaces", "switch", "rollback", "republish"},
         chat : Chats, row : Ids,
         no : 0..MaxTries,      \* which attempt this is
         olds : SUBSET Ids,     \* old_ids
         todo : SUBSET Cards,   \* cards of the snapshot still to post
         sent : SUBSET Msg,     \* restored_layout
         failed : BOOLEAN]      \* stats.failed > 0

TypeOK ==
  /\ banned \subseteq Chats /\ public \in Chats /\ backup \subseteq Cards
  /\ rows \in Seq(Row) /\ Len(rows) <= tries + 1
  /\ posts \in [Chats -> SUBSET Msg] /\ journal \in [Chats -> SUBSET Msg]
  /\ shown \in [Chats -> SUBSET Msg]
  /\ task \in [Admins -> Task]
  /\ tries \in 0..MaxTries /\ faults \in 0..MaxFaults /\ breaks \in 0..MaxBreaks
  /\ {again, crossed, cut} \subseteq BOOLEAN /\ unlogged \subseteq Msg

Published == [c \in Chats |-> IF c = First THEN Cards \X {0} ELSE {}]

Init ==
  /\ banned = {} /\ public = First
  /\ rows = <<[chat |-> First, enabled |-> TRUE, human |-> FALSE, invite |-> TRUE]>>
  /\ posts = Published /\ journal = Published /\ shown = Published
  /\ backup = Cards
  /\ task = [r \in Admins |-> Idle]
  /\ tries = 0 /\ faults = 0 /\ breaks = 0
  /\ again = FALSE /\ crossed = FALSE /\ unlogged = {} /\ cut = FALSE

-----------------------------------------------------------------------------
(* Rows *)

RowsOf(c) == {i \in DOMAIN rows : rows[i].chat = c}
Enabled   == {i \in DOMAIN rows : rows[i].enabled}
Originals == {i \in Enabled : ~rows[i].human}
On        == {rows[i].chat : i \in Enabled}
Target(r) == task[r].chat

\* (mutant) The row's id for the chat's.
LinkedRow == IF Enabled = {} THEN public ELSE Max(Enabled)

\* distribution_link: the newest enabled row.
Linked == IF Enabled = {} THEN public ELSE rows[Max(Enabled)].chat

\* (mutant) The newest enabled row, replacement or not.
SourceNewest == Enabled

\* The rows record_distribution_channel picks the newest of.
Source == IF Originals # {} THEN Originals ELSE Enabled

\* record_distribution_channel on the rows as they are.
Captured ==
  LET stored == IF Source = {} THEN {} ELSE posts[rows[Max(Source)].chat]
  IN  IF stored = {} THEN backup ELSE {m[1] : m \in stored}

At(r, pc) == task[r].pc = pc
Becomes(r, t) == task' = [task EXCEPT ![r] = t]
Goes(r, pc) == Becomes(r, [task[r] EXCEPT !.pc = pc])
AtWork(r) == task[r].pc \notin {"idle", "register"}

\* A call to the target chat: it works, it fails, and in a banned chat it must.
Works(r) == Target(r) \notin banned /\ UNCHANGED faults
Fails(r) ==
  \/ Target(r) \in banned /\ UNCHANGED faults
  \/ Target(r) \notin banned /\ faults < MaxFaults /\ faults' = faults + 1

stored  == <<rows, posts, journal, backup>>
outside == <<banned, tries, breaks, history>>

-----------------------------------------------------------------------------
(* The attempt *)

\* The ban check probes every row, those switched off long ago too, and offers the
\* recovery of each that is down; the admin names a chat Telegram can open, other
\* than the newest enabled one when the prompt was shown: the chat's state is in Redis
\* and outlives a restart, so that may be the first still.
Begin(r, c) ==
  /\ At(r, "idle")
  /\ {rows[i].chat : i \in DOMAIN rows} \cap banned # {}
  /\ Careful => On \cap banned # {}
  /\ c \notin banned /\ (c # Linked \/ c # First)
  /\ tries + Cardinality({s \in Admins : At(s, "register")}) < MaxTries
  /\ backup' = Captured
  /\ Becomes(r, [Idle EXCEPT !.pc = "register", !.chat = c])
  /\ UNCHANGED <<rows, posts, journal, shown, public, faults, outside>>

\* register_channel refuses a chat with an enabled row, and fails on one with two.
Registrable(c) == Cardinality(RowsOf(c)) <= 1 /\ RowsOf(c) \cap Enabled = {}

Refuse(r) ==
  /\ At(r, "register") /\ ~Registrable(Target(r))
  /\ Becomes(r, Idle)
  /\ UNCHANGED <<stored, shown, public, faults, outside>>

Fresh(c) == [chat |-> c, enabled |-> TRUE, human |-> TRUE, invite |-> FALSE]
Registered(r, i, n) == [task[r] EXCEPT !.pc = "olds", !.row = i, !.no = n]

\* It takes over a disabled row of the title, forgetting its invite, or adds one.
Register(r) ==
  LET c == Target(r)
      i == IF RowsOf(c) = {} THEN Len(rows) + 1 ELSE Max(RowsOf(c))
  IN  /\ At(r, "register") /\ Registrable(c) /\ tries < MaxTries
      /\ rows' = IF i > Len(rows) THEN Append(rows, Fresh(c)) ELSE [rows EXCEPT ![i] = Fresh(c)]
      /\ Becomes(r, Registered(r, i, tries + 1))
      /\ tries' = tries + 1
      /\ again' = (again \/ Originals = {})
      /\ UNCHANGED <<posts, journal, backup, shown, public, faults, banned, breaks,
                     crossed, unlogged, cut>>

\* Two registrations of one chat, neither of which sees the other's row.
RegisterBoth(r, s) ==
  LET c == Target(r)
      i == IF RowsOf(c) = {} THEN Len(rows) + 1 ELSE Max(RowsOf(c))
      j == IF RowsOf(c) = {} THEN Len(rows) + 2 ELSE i
  IN  /\ r # s /\ At(r, "register") /\ At(s, "register") /\ Target(s) = c
      /\ Registrable(c) /\ tries + 2 <= MaxTries
      /\ rows' = IF i > Len(rows) THEN rows \o <<Fresh(c), Fresh(c)>>
                                  ELSE [rows EXCEPT ![i] = Fresh(c)]
      /\ task' = [task EXCEPT ![r] = Registered(r, i, tries + 1),
                              ![s] = Registered(s, j, tries + 2)]
      /\ tries' = tries + 2
      /\ again' = (again \/ Originals = {}) /\ crossed' = TRUE
      /\ UNCHANGED <<posts, journal, backup, shown, public, faults, banned, breaks,
                     unlogged, cut>>

\* Which rows to switch off at the end: the enabled ones but the replacement's.
ReadOlds(r) ==
  /\ At(r, "olds")
  /\ Becomes(r, [task[r] EXCEPT !.pc = "cleanup", !.olds = Enabled \ {task[r].row}])
  /\ UNCHANGED <<stored, shown, public, faults, outside>>

\* clear_distribution_channel deletes what is tracked and keeps track of the rest.
Cleanup(r) ==
  LET c       == Target(r)
      tracked == posts[c] \cup journal[c]
  IN  /\ At(r, "cleanup")
      /\ \E failed \in SUBSET tracked :
           /\ IF c \in banned THEN failed = tracked ELSE faults + Cardinality(failed) <= MaxFaults
           /\ faults' = IF c \in banned THEN faults ELSE faults + Cardinality(failed)
           /\ shown' = [shown EXCEPT ![c] = @ \ (tracked \ failed)]
           /\ posts' = [posts EXCEPT ![c] = @ \cap failed]
           /\ journal' = [journal EXCEPT ![c] = @ \cap failed]
           /\ Goes(r, IF failed = {} THEN "read" ELSE "rollback")
      /\ UNCHANGED <<rows, backup, public, outside>>

-----------------------------------------------------------------------------
(* restore_distribution_channel *)

\* The snapshot to post; an empty one restores nothing.
Read(r) ==
  /\ At(r, "read")
  /\ Becomes(r, [task[r] EXCEPT !.pc = IF backup = {} THEN "rollback" ELSE "send", !.todo = backup])
  /\ UNCHANGED <<stored, shown, public, faults, outside>>

\* The card in hand, as the message this attempt makes of it.
Current(r) == <<Min(task[r].todo), task[r].no>>

\* Each card in turn; one that fails is counted and skipped.
Send(r) ==
  /\ At(r, "send") /\ task[r].todo # {}
  /\ \/ /\ Works(r)
        /\ shown' = [shown EXCEPT ![Target(r)] = @ \cup {Current(r)}]
        /\ Becomes(r, [task[r] EXCEPT !.pc = "track", !.sent = @ \cup {Current(r)}])
     \/ /\ Fails(r)
        /\ Becomes(r, [task[r] EXCEPT !.todo = @ \ {Min(@)}, !.failed = TRUE])
        /\ UNCHANGED shown
  /\ UNCHANGED <<stored, public, outside>>

\* (mutant) No journal: the layout is written at the end.
TrackLater(r) ==
  /\ At(r, "track")
  /\ Becomes(r, [task[r] EXCEPT !.pc = "send", !.todo = @ \ {Min(@)}])
  /\ UNCHANGED <<stored, shown, public, faults, outside>>

\* _track_message
Track(r) ==
  /\ At(r, "track")
  /\ journal' = [journal EXCEPT ![Target(r)] = @ \cup {Current(r)}]
  /\ Becomes(r, [task[r] EXCEPT !.pc = "send", !.todo = @ \ {Min(@)}])
  /\ UNCHANGED <<rows, posts, backup, shown, public, faults, outside>>

\* (mutant) Something was restored.
WholeIfAny(r) == "invite"

\* _restore_channel: every card or a rollback.
Whole(r) == IF task[r].failed THEN "rollback" ELSE "invite"

\* The rows of the restored messages replace whatever the channel had.
Settle(r) ==
  /\ At(r, "send") /\ task[r].todo = {}
  /\ IF task[r].sent = {} THEN UNCHANGED <<posts, journal>>
     ELSE /\ posts' = [posts EXCEPT ![Target(r)] = task[r].sent]
          /\ journal' = [journal EXCEPT ![Target(r)] = task[r].sent]
  /\ Becomes(r, [task[r] EXCEPT !.pc = Whole(r), !.sent = {}])
  /\ UNCHANGED <<rows, backup, shown, public, faults, outside>>

-----------------------------------------------------------------------------
(* What follows the restore *)

\* ensure_for_bot
Invite(r) ==
  /\ At(r, "invite")
  /\ \/ Works(r) /\ rows' = [rows EXCEPT ![task[r].row].invite = TRUE] /\ Goes(r, "relink")
     \/ Fails(r) /\ Goes(r, "rollback") /\ UNCHANGED rows
  /\ UNCHANGED <<posts, journal, backup, shown, public, outside>>

\* relink_packs_in_place captures when it edited a card.
Relink(r) ==
  /\ At(r, "relink")
  /\ backup' \in {backup, Captured}
  /\ Goes(r, "surfaces")
  /\ UNCHANGED <<rows, posts, journal, shown, public, faults, outside>>

\* bind_title republishes the main post; then the reply and the index. A call that
\* fails rolls back, with the main post already changed or not.
Surfaces(r) ==
  /\ At(r, "surfaces")
  /\ \/ public' = Linked /\ Goes(r, "switch") /\ UNCHANGED faults
     \/ /\ faults < MaxFaults /\ faults' = faults + 1
        /\ public' \in {public, Linked} /\ Goes(r, "rollback")
  /\ UNCHANGED <<stored, shown, outside>>

\* Only now the old rows go.  History: whether it meets another attempt, or leaves
\* on a row that it had not read.
Switch(r) ==
  /\ At(r, "switch")
  /\ rows' = [i \in DOMAIN rows |->
       IF i \in task[r].olds THEN [rows[i] EXCEPT !.enabled = FALSE] ELSE rows[i]]
  /\ Becomes(r, Idle)
  /\ crossed' = \/ crossed
                \/ \E s \in Admins \ {r} : AtWork(s)
                \/ Enabled \ task[r].olds # {task[r].row}
  /\ UNCHANGED <<posts, journal, backup, shown, public, faults, banned, tries, breaks,
                 again, unlogged, cut>>

\* (mutant) The replacement stays enabled.
RollbackOlds(r) ==
  /\ At(r, "rollback")
  /\ rows' = [i \in DOMAIN rows |->
       [rows[i] EXCEPT !.enabled = @ \/ i \in task[r].olds]]
  /\ Goes(r, "republish")
  /\ UNCHANGED <<posts, journal, backup, shown, public, faults, outside>>

\* _rollback_human_recovery: the rows first.  History: whether it turns on a row that
\* another attempt turned off.
Rollback(r) ==
  /\ At(r, "rollback")
  /\ rows' = [i \in DOMAIN rows |->
       [rows[i] EXCEPT !.enabled = (@ \/ i \in task[r].olds) /\ i # task[r].row]]
  /\ Goes(r, "republish")
  /\ crossed' = (crossed \/ task[r].olds \ Enabled # {})
  /\ UNCHANGED <<posts, journal, backup, shown, public, faults, banned, tries, breaks,
                 again, unlogged, cut>>

\* Then the surfaces, at best, and the invite if anyone can revoke it.
Republish(r) ==
  /\ At(r, "republish")
  /\ \/ public' = Linked /\ UNCHANGED <<faults, crossed>>
     \/ /\ faults < MaxFaults /\ faults' = faults + 1 /\ UNCHANGED public
        /\ crossed' = (crossed \/ \E s \in Admins \ {r} : AtWork(s))
  /\ \E kept \in BOOLEAN : rows' = [rows EXCEPT ![task[r].row].invite = @ /\ kept]
  /\ Becomes(r, Idle)
  /\ UNCHANGED <<posts, journal, backup, shown, banned, tries, breaks, again, unlogged, cut>>

-----------------------------------------------------------------------------
(* The rest of the world *)

Ban(c) ==
  /\ c \in On \ banned /\ Cardinality(banned) < MaxBans
  /\ banned' = banned \cup {c}
  /\ UNCHANGED <<stored, shown, public, task, tries, faults, breaks, history>>

\* An update or a relink of the title captures.
Capture ==
  /\ backup' = Captured
  /\ UNCHANGED <<rows, posts, journal, shown, public, task, faults, outside>>

\* A transaction that fails.  A card that cannot be tracked counts as failed; the
\* cleanup, the restore, the invite and the relink are caught and rolled back; the
\* others end the attempt as it is.
DatabaseFails(r) ==
  /\ breaks < MaxBreaks /\ breaks' = breaks + 1
  /\ \/ /\ At(r, "track")
        /\ Becomes(r, [task[r] EXCEPT !.pc = "send", !.todo = @ \ {Min(@)}, !.failed = TRUE])
        /\ unlogged' = unlogged \cup {Current(r)}
        /\ UNCHANGED <<shown, cut>>
     \/ /\ At(r, "cleanup")  \* after the deletions
        /\ \/ UNCHANGED shown
           \/ /\ Target(r) \notin banned
              /\ shown' = [shown EXCEPT ![Target(r)] = @ \ (posts[Target(r)] \cup journal[Target(r)])]
        /\ Goes(r, "rollback") /\ UNCHANGED <<unlogged, cut>>
     \/ /\ task[r].pc \in {"read", "invite", "relink"} \/ (At(r, "send") /\ task[r].todo = {})
        /\ Becomes(r, [task[r] EXCEPT !.pc = "rollback", !.todo = {}, !.sent = {}])
        /\ UNCHANGED <<shown, unlogged, cut>>
     \/ /\ task[r].pc \in {"olds", "switch", "rollback"}
        /\ Becomes(r, Idle) /\ cut' = TRUE
        /\ UNCHANGED <<shown, unlogged>>
  /\ UNCHANGED <<stored, public, faults, banned, tries, again, crossed>>

\* The process restarts; nothing resumes an attempt.
Crash ==
  /\ \E r \in Admins : ~At(r, "idle")
  /\ breaks < MaxBreaks /\ breaks' = breaks + 1
  /\ task' = [r \in Admins |-> Idle] /\ cut' = TRUE
  /\ unlogged' = unlogged \cup {Current(r) : r \in {s \in Admins : At(s, "track")}}
  /\ UNCHANGED <<stored, shown, public, faults, banned, tries, again, crossed>>

-----------------------------------------------------------------------------
Step(r) ==
  \/ Refuse(r) \/ Register(r) \/ (\E s \in Admins : RegisterBoth(r, s)) \/ ReadOlds(r)
  \/ Cleanup(r) \/ Read(r) \/ Send(r) \/ Track(r) \/ Settle(r)
  \/ Invite(r) \/ Relink(r) \/ Surfaces(r) \/ Switch(r) \/ Rollback(r) \/ Republish(r)

Next ==
  \/ \E r \in Admins : Step(r) \/ DatabaseFails(r) \/ \E c \in Chats : Begin(r, c)
  \/ \E c \in Chats : Ban(c)
  \/ Capture \/ Crash

\* An attempt goes on; the admins try again, and with every chat they have.
Fairness == /\ \A r \in Admins : WF_vars(Step(r))
            /\ \A c \in Chats : SF_vars(\E r \in Admins : Begin(r, c))
Spec     == Init /\ [][Next]_vars
FairSpec == Spec /\ Fairness

-----------------------------------------------------------------------------
(* Properties *)

Undisturbed == ~again /\ ~crossed
Holds(c) == {m[1] : m \in posts[c]} = Cards

\* "A partially restored replacement must never overwrite the durable backup."
BackupIntact == backup = Cards

\* The backup is never replaced by a part of the channel, whatever is captured in the
\* middle of an attempt, after a failed one or after a restart, and with several
\* attempts under way, unless one of them switched over or rolled back what another was
\* at, or a recovery began when the original had gone.
BackupKept == Undisturbed => BackupIntact

\* As long, some enabled row is at every moment of a channel whose stored posts are
\* complete.
CompleteChannelKept == Undisturbed => \E c \in On : Holds(c)

\* A retry on a chat that an earlier attempt filled in part does not repeat a card: at
\* the switch the channel shows each card once, by the very messages that are stored,
\* and else only messages whose journal entry was lost.
NoDuplicateCards ==
  [][ \A r \in Admins : Switch(r) /\ Undisturbed =>
        LET c == Target(r)
        IN  /\ shown[c] \ unlogged = posts[c]
            /\ Holds(c) /\ Cardinality(posts[c]) = Cardinality(Cards) ]_vars

\* A banned channel is replaced in the end: admins who keep trying reach a complete
\* channel that is up, and public if no attempt was cut short, unless they get in each
\* other's way or attempts that were cut short have used up the chats: their rows stay
\* on, and register_channel refuses those chats from then on.
RecoveryLands ==
  (banned # {}) ~> \/ \E c \in On \ banned : Holds(c) /\ (public = c \/ cut)
                   \/ ~Undisturbed
                   \/ cut /\ Chats \ banned \subseteq On
=============================================================================
