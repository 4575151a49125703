------------------------ MODULE DistributionChannel ------------------------
(***************************************************************************)
(* SenkuPublisher (shared/senku_publisher.py) on one title's channel:      *)
(* the wizard's publish, the incremental update that appends the card of a *)
(* newly finished entry, and the relink that re-points the buttons after a *)
(* redo.  All three end by refreshing the wipe-proof backup                *)
(* (BackupService.record_distribution_channel).                            *)
(*                                                                         *)
(* Four memories describe one channel: Telegram itself (msgs, live), the   *)
(* saved ChannelLayout, the BotContentPost rows and the backup.  No lock   *)
(* is held over any of them: a run reads the layout, awaits Telegram many  *)
(* times and replaces the layout at the end.                               *)
(*                                                                         *)
(* Abstracted: captions and images, the info card at the top and the       *)
(* divider stickers; a pack is its generation, 0 when there is none.       *)
(***************************************************************************)
EXTENDS Integers, FiniteSets, Sequences, SequencesExt

CONSTANTS Entries,    \* the franchise: entries numbered in release order
          Confirmed,  \* those the admin confirmed for the first publish
          Runs,       \* tasks running publish, update or relink
          MaxStarts,  \* bound: runs ever started
          MaxPacks,   \* bound: times one entry's packs are made
          MaxStores,  \* bound: times packs are made at all
          MaxTroubles \* bound: Telegram calls and database writes that fail, and crashes

ASSUME ChannelAssumption ==
  /\ Entries \subseteq Nat \ {0} /\ IsFiniteSet(Entries) /\ Confirmed \subseteq Entries
  /\ {MaxStarts, MaxPacks, MaxStores, MaxTroubles} \subseteq Nat

VARIABLES packs,   \* entry |-> generation of its storage packs
          msgs,    \* every message ever sent to the channel
          live,    \* those not deleted
          anchor,  \* the channel's DistributionBot row exists
          layout,  \* its ChannelLayout rows, by seq
          posts,   \* its BotContentPost rows, by order
          backup,  \* the cards of its ChannelContentBackup row
          run,     \* where each task is
          starts, faults, breaks,
          overlapped,  \* history: two runs were under way together
          healed,      \* history: the packs the last finished relink loaded
          orphans      \* history: the cards a later publish put out of the layout

vars == <<packs, msgs, live, anchor, layout, posts, backup, run,
          starts, faults, breaks, overlapped, healed, orphans>>
stored  == <<anchor, layout, posts, backup>>
channel == <<msgs, live>>
history == <<starts, overlapped, healed, orphans>>

-----------------------------------------------------------------------------
None   == 0
Kinds  == {"card", "watch_guide", "footer"}
Post   == [kind : Kinds, entry : Entries \cup {None}, gen : 0..MaxPacks]
Item   == [kind : Kinds, entry : Entries \cup {None}, msg : Nat]
Msg    == [kind : Kinds, entry : Entries \cup {None}, gen : 0..MaxPacks,
           links : SUBSET (Entries \X Nat)]  \* where its deep links lead

\* (mutant) Written under one name, looked for under another.
GuideMisnamed == [kind |-> "guide", entry |-> None, gen |-> 0]
Guide  == [kind |-> "watch_guide", entry |-> None, gen |-> 0]
Footer == [kind |-> "footer", entry |-> None, gen |-> 0]
Card(e, g) == [kind |-> "card", entry |-> e, gen |-> g]
IsCard(x)  == x.kind = "card"

Idle == [pc |-> "idle", op |-> "none", wanted |-> None, body |-> <<>>, known |-> {},
         todo |-> <<>>, new |-> <<>>, rows |-> <<>>, loaded |-> [e \in Entries |-> 0]]
Task == [pc : {"idle", "build", "strip", "send", "anchor", "layout", "posts",
               "load", "edit", "sync", "backup", "write"},
         op : {"none", "publish", "update", "relink"},
         wanted : Entries \cup {None},
         body : Seq(Item),                    \* layout read, then layout to save
         known : SUBSET (Entries \X Nat),     \* msg_by_id
         todo : Seq(Post) \cup Seq(Item),     \* still to send, or to edit
         new : Seq(Post),                     \* cards posted (edited) so far
         rows : Seq(Post),                    \* posts the backup read
         loaded : [Entries -> 0..MaxPacks]]   \* packs the relink read

TypeOK ==
  /\ packs \in [Entries -> 0..MaxPacks] /\ healed \in [Entries -> 0..MaxPacks]
  /\ msgs \in Seq(Msg) /\ live \subseteq DOMAIN msgs /\ orphans \subseteq DOMAIN msgs
  /\ anchor \in BOOLEAN /\ overlapped \in BOOLEAN
  /\ layout \in Seq(Item) /\ posts \in Seq(Post) /\ backup \in Seq(Post)
  /\ run \in [Runs -> Task]
  /\ starts \in 0..MaxStarts /\ faults \in 0..MaxTroubles /\ breaks \in 0..MaxTroubles

Init ==
  /\ packs = [e \in Entries |-> 0] /\ healed = packs
  /\ msgs = <<>> /\ live = {} /\ anchor = FALSE
  /\ layout = <<>> /\ posts = <<>> /\ backup = <<>>
  /\ run = [r \in Runs |-> Idle]
  /\ starts = 0 /\ faults = 0 /\ breaks = 0 /\ overlapped = FALSE /\ orphans = {}

-----------------------------------------------------------------------------
(* Building blocks *)

Cards(l) == {x \in ToSet(l) : IsCard(x)}
Places(l, k) == {i \in DOMAIN l : l[i].kind = k}

\* The n-th smallest of the numbers S, and the members of l at the places I, in order.
Nth(S, n) == CHOOSE x \in S : Cardinality({y \in S : y <= x}) = n
Those(l, I) == [n \in 1..Cardinality(I) |-> l[Nth(I, n)]]
OnlyCards(l) == Those(l, Places(l, "card"))

\* A card for each of the entries S, in release order.
PackCards(S) == [n \in 1..Cardinality(S) |-> Card(Nth(S, n), packs[Nth(S, n)])]

\* (mutant) The card before the guide is taken for the guide's divider.
CutDivider(l) ==
  CASE Places(l, "watch_guide") # {} -> Max({1, Max(Places(l, "watch_guide")) - 1})
    [] Places(l, "watch_guide") = {} /\ Places(l, "footer") # {} -> Max(Places(l, "footer"))
    [] OTHER -> Len(l) + 1

\* Where the tail to strip begins: the last guide, else the last footer.
Cut(l) ==
  CASE Places(l, "watch_guide") # {} -> Max(Places(l, "watch_guide"))
    [] Places(l, "watch_guide") = {} /\ Places(l, "footer") # {} -> Max(Places(l, "footer"))
    [] OTHER -> Len(l) + 1
\* (mutant) The item before the cut is forgotten with the tail.
ShortBody(l) == SubSeq(l, 1, Cut(l) - 2)

Body(l) == SubSeq(l, 1, Cut(l) - 1)
Tail_(l) == SubSeq(l, Cut(l), Len(l))

\* (mutant) Links to the cards of this run only.
KnownNone(l) == {}

\* anilist_id -> message of the cards already in the channel.
Known(l) == {<<x.entry, x.msg>> : x \in Cards(l)}
Already(l) == {x.entry : x \in Cards(l)}

\* (mutant) Only guide and footer are rewritten.
ReconciledTail(rows, new) == OnlyCards(rows) \o <<Guide, Footer>>

\* _reconcile_content_posts: new cards after the kept ones, guide and footer rewritten.
Reconciled(rows, new) ==
  LET kept  == OnlyCards(rows)
      fresh == Those(new, {i \in DOMAIN new : \A x \in Cards(rows) : x.entry # new[i].entry})
  IN  kept \o fresh \o <<Guide, Footer>>

Trouble == faults + breaks < MaxTroubles

At(r, pc) == run[r].pc = pc
Moves(r, t) == run' = [run EXCEPT ![r] = t]
Goes(r, pc) == Moves(r, [run[r] EXCEPT !.pc = pc])

Starts(r, t) ==
  /\ At(r, "idle") /\ starts < MaxStarts
  /\ starts' = starts + 1
  /\ overlapped' = (overlapped \/ \E q \in Runs \ {r} : ~At(q, "idle"))
  /\ Moves(r, t)

-----------------------------------------------------------------------------
(* The pipeline stores a new entry's packs, or a redo replaces them. *)

StorePacks(e) ==
  /\ packs[e] < MaxPacks
  /\ SumFunction(packs) < MaxStores
  /\ packs' = [packs EXCEPT ![e] = @ + 1]
  /\ UNCHANGED <<channel, stored, run, faults, breaks, history>>

-----------------------------------------------------------------------------
(* publish: the wizard's post of the confirmed entries.  Nothing asks what   *)
(* the channel already shows: the failure card offers it again, and after a *)
(* failed handoff the task is still there to open the wizard from.          *)

Publish(r) ==
  /\ Starts(r, [Idle EXCEPT !.pc = "send", !.op = "publish",
                            !.todo = PackCards(Confirmed) \o <<Guide, Footer>>])
  /\ UNCHANGED <<packs, channel, stored, faults, breaks, healed, orphans>>

\* Each post in turn; a send that fails is skipped.
Send(r) ==
  LET t == run[r]
      p == Head(t.todo)
      m == Len(msgs) + 1
      rest == [t EXCEPT !.todo = Tail(@),
                        !.pc = IF Len(t.todo) > 1 THEN "send"
                               ELSE IF t.op = "publish" THEN "anchor" ELSE "layout"]
  IN  /\ At(r, "send")
      /\ \/ /\ msgs' = Append(msgs, [kind |-> p.kind, entry |-> p.entry, gen |-> p.gen,
                                     links |-> IF p.kind = "watch_guide" THEN t.known ELSE {}])
            /\ live' = live \cup {m}
            /\ Moves(r, [rest EXCEPT
                 !.body = Append(@, [kind |-> p.kind, entry |-> p.entry, msg |-> m]),
                 !.known = @ \cup (IF IsCard(p) THEN {<<p.entry, m>>} ELSE {}),
                 !.new = IF IsCard(p) \/ t.op = "publish" THEN Append(@, p) ELSE @])
            /\ UNCHANGED faults
         \/ /\ Trouble /\ faults' = faults + 1
            /\ Moves(r, rest)
            /\ UNCHANGED channel
      /\ UNCHANGED <<packs, stored, breaks, history>>

\* _persist_channel: the anchor, the layout and the content rows, a transaction each.
SaveAnchor(r) ==
  /\ At(r, "anchor")
  /\ anchor' = TRUE
  /\ Goes(r, "layout")
  /\ UNCHANGED <<packs, channel, layout, posts, backup, faults, breaks, history>>

SaveLayout(r) ==
  /\ At(r, "layout")
  /\ layout' = run[r].body
  /\ orphans' = IF run[r].op = "publish" THEN orphans \cup {x.msg : x \in Cards(layout)}
                ELSE orphans
  /\ Goes(r, "posts")
  /\ UNCHANGED <<packs, channel, anchor, posts, backup, faults, breaks, starts,
                 overlapped, healed>>

\* An update that posted no card does not refresh the backup.
AfterPosts(r) ==
  IF run[r].op = "update" /\ run[r].new = <<>>
  THEN Moves(r, Idle)
  ELSE Moves(r, [Idle EXCEPT !.pc = "backup", !.op = run[r].op])

SavePosts(r) ==
  /\ At(r, "posts")
  /\ posts' = IF run[r].op = "publish" THEN run[r].new
              ELSE Reconciled(posts, run[r].new)
  /\ AfterPosts(r)
  /\ UNCHANGED <<packs, channel, anchor, layout, backup, faults, breaks, history>>

-----------------------------------------------------------------------------
(* update_distribution_channel: an entry of the title passed its review. *)

UpdateRead(r) ==
  /\ anchor
  /\ \E e \in Entries :
       /\ packs[e] > 0
       /\ Starts(r, [Idle EXCEPT !.pc = "build", !.op = "update", !.wanted = e, !.body = layout])
  /\ UNCHANGED <<packs, channel, stored, faults, breaks, healed, orphans>>

\* _build_update_cards reads the packs after the layout.
UpdateBuild(r) ==
  LET t == run[r]
      new == {e \in Entries : e = t.wanted /\ e \notin Already(t.body) /\ packs[e] > 0}
  IN  /\ At(r, "build")
      /\ IF new = {} THEN Moves(r, Idle)
         ELSE Moves(r, [t EXCEPT !.pc = "strip", !.known = Known(t.body),
                                 !.todo = PackCards(new) \o <<Guide, Footer>>])
      /\ UNCHANGED <<packs, channel, stored, faults, breaks, history>>

\* The old guide and all after it go; a message Telegram will not delete stays.
UpdateStrip(r) ==
  LET t == run[r]
      tail == {x.msg : x \in ToSet(Tail_(t.body))}
  IN  /\ At(r, "strip")
      /\ \E failed \in SUBSET tail :
           /\ faults + breaks + Cardinality(failed) <= MaxTroubles
           /\ faults' = faults + Cardinality(failed)
           /\ live' = live \ (tail \ failed)
      /\ Moves(r, [t EXCEPT !.pc = "send", !.body = Body(@)])
      /\ UNCHANGED <<packs, msgs, stored, breaks, history>>

-----------------------------------------------------------------------------
(* relink_packs_in_place: after a redo, new buttons on the old cards. *)

RelinkRead(r) ==
  /\ anchor /\ Cards(layout) # {}
  /\ Starts(r, [Idle EXCEPT !.pc = "load", !.op = "relink",
                            !.body = OnlyCards(layout)])
  /\ UNCHANGED <<packs, channel, stored, faults, breaks, healed, orphans>>

RelinkLoad(r) ==
  LET t == run[r]
  IN  /\ At(r, "load")
      /\ Moves(r, [t EXCEPT !.pc = "edit", !.body = <<>>, !.loaded = packs,
                            !.todo = Those(t.body, {i \in DOMAIN t.body : packs[t.body[i].entry] > 0})])
      /\ UNCHANGED <<packs, channel, stored, faults, breaks, history>>

RelinkEdit(r) ==
  LET t == run[r]
      x == Head(t.todo)
  IN  /\ At(r, "edit") /\ t.todo # <<>>
      /\ \/ /\ msgs' = [msgs EXCEPT ![x.msg].gen = t.loaded[x.entry]]
            /\ Goes(r, "sync")
            /\ UNCHANGED faults
         \/ /\ Trouble /\ faults' = faults + 1
            /\ Moves(r, [t EXCEPT !.todo = Tail(@)])
            /\ UNCHANGED msgs
      /\ UNCHANGED <<packs, live, stored, breaks, history>>

NextCard(t) ==
  [t EXCEPT !.pc = "edit", !.todo = Tail(@), !.new = <<Card(Head(t.todo).entry, 0)>>]

\* The same links into the stored rows of that entry.
RelinkSync(r) ==
  LET t == run[r]
      e == Head(t.todo).entry
  IN  /\ At(r, "sync")
      /\ posts' = [i \in DOMAIN posts |->
           IF posts[i].entry = e THEN [posts[i] EXCEPT !.gen = t.loaded[e]] ELSE posts[i]]
      /\ Moves(r, NextCard(t))
      /\ UNCHANGED <<packs, channel, anchor, layout, backup, faults, breaks, history>>

RelinkDone(r) ==
  LET t == run[r]
  IN  /\ At(r, "edit") /\ t.todo = <<>>
      /\ healed' = t.loaded
      /\ Moves(r, IF t.new = <<>> THEN Idle ELSE [Idle EXCEPT !.pc = "backup", !.op = "relink"])
      /\ UNCHANGED <<packs, channel, stored, faults, breaks, starts, overlapped, orphans>>

-----------------------------------------------------------------------------
(* record_distribution_channel: read the rows, mirror their images, upsert. *)

BackupRead(r) ==
  /\ At(r, "backup")
  /\ IF ~anchor \/ posts = <<>> THEN Moves(r, Idle)
     ELSE Moves(r, [run[r] EXCEPT !.pc = "write", !.rows = posts])
  /\ UNCHANGED <<packs, channel, stored, faults, breaks, history>>

BackupWrite(r) ==
  /\ At(r, "write")
  /\ backup' = run[r].rows
  /\ Moves(r, Idle)
  /\ UNCHANGED <<packs, channel, anchor, layout, posts, faults, breaks, history>>

-----------------------------------------------------------------------------
(* A transaction fails: publish goes on to the backup, an update without a  *)
(* saved layout raises to a caller that swallows it, the rest is logged.    *)
DatabaseFails(r) ==
  LET t == run[r]
  IN  /\ Trouble /\ breaks' = breaks + 1
      /\ \/ /\ t.pc \in {"anchor", "layout", "posts"} /\ t.op = "publish"
            /\ Moves(r, [Idle EXCEPT !.pc = "backup", !.op = "publish"])
         \/ At(r, "layout") /\ t.op = "update" /\ Moves(r, Idle)
         \/ At(r, "posts") /\ t.op = "update" /\ AfterPosts(r)
         \/ At(r, "sync") /\ Moves(r, NextCard(t))
         \/ t.pc \in {"backup", "write"} /\ Moves(r, Idle)
      /\ UNCHANGED <<packs, channel, stored, faults, history>>

\* The process restarts; no run is resumed.
Crash ==
  /\ Trouble /\ breaks' = breaks + 1
  /\ \E r \in Runs : ~At(r, "idle")
  /\ run' = [r \in Runs |-> Idle]
  /\ UNCHANGED <<packs, channel, stored, faults, history>>

-----------------------------------------------------------------------------
Step(r) ==
  \/ Publish(r) \/ Send(r) \/ SaveAnchor(r) \/ SaveLayout(r) \/ SavePosts(r)
  \/ UpdateRead(r) \/ UpdateBuild(r) \/ UpdateStrip(r)
  \/ RelinkRead(r) \/ RelinkLoad(r) \/ RelinkEdit(r) \/ RelinkSync(r) \/ RelinkDone(r)
  \/ BackupRead(r) \/ BackupWrite(r) \/ DatabaseFails(r)

Next == Crash \/ (\E e \in Entries : StorePacks(e)) \/ (\E r \in Runs : Step(r))

Spec == Init /\ [][Next]_vars

-----------------------------------------------------------------------------
(* Properties *)

AtRest == \A r \in Runs : At(r, "idle")
Alone  == ~overlapped /\ breaks = 0
LiveCards == {m \in live : IsCard(msgs[m])}

\* No step deletes a content card: an update strips the guide and the footer of the
\* layout it read, whatever was appended, stripped or lost meanwhile.
CardsKept == [][LiveCards \subseteq live']_vars

\* What readers tap leads somewhere.  The saved layout has no two cards of an entry and
\* its guide links every card to the message that is really there, also when updates ran
\* together, sends failed or the process crashed.  And when a relink has seen the packs
\* as they are and no Telegram call failed, no card has links of packs that were replaced.
GuideLinksItsCards ==
  /\ \A x, y \in Cards(layout) : x.entry = y.entry => x = y
  /\ \A x \in Cards(layout) :
       /\ x.msg \in live /\ msgs[x.msg].entry = x.entry
       /\ \A g \in ToSet(layout) :
            g.kind = "watch_guide" => <<x.entry, x.msg>> \in msgs[g.msg].links

NoDeadButtons ==
  (AtRest /\ Alone /\ faults = 0 /\ healed = packs) =>
    \A x \in Cards(layout) : msgs[x.msg].gen = packs[x.entry]

LinksLeadSomewhere == GuideLinksItsCards /\ NoDeadButtons

\* Unless runs overlapped or a write was lost, the layout knows every card the channel
\* shows once nothing is running, though sends and deletions failed: no duplicate and
\* no card that a later update or relink cannot find, but for the cards an earlier
\* publish left behind when the wizard published again.
LayoutIsTheChannel ==
  (AtRest /\ Alone) => {x.msg : x \in Cards(layout)} = LiveCards \ orphans

\* Under the same conditions the backup holds the cards the layout knows, with the
\* links they carry: what a restore after a ban re-posts.  (A publish of which no card
\* is sent leaves the layout without cards, and the backup as it was if nothing is.)
BackupIsCurrent ==
  (AtRest /\ Alone /\ Cards(layout) # {}) =>
    {<<p.entry, p.gen>> : p \in Cards(backup)}
      = {<<x.entry, msgs[x.msg].gen>> : x \in Cards(layout)}

=============================================================================
