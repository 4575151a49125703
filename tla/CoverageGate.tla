---------------------------- MODULE CoverageGate ----------------------------
(***************************************************************************)
(* What a franchise still owes: where a downloaded episode is filed        *)
(* (_map_episode_locator), what is found missing after a round             *)
(* (compute_coverage), and the gate that then pauses the job and asks      *)
(* staff for more links (DownloadWorker._maybe_pause_for_coverage).        *)
(*                                                                         *)
(* Two numberings meet here.  A release numbers a season from 1 on; a row  *)
(* of `files` numbers the episodes of each part of a split season from 1   *)
(* on; the diff numbers the season from 1 on again.  An episode is an      *)
(* entry of the franchise and a number within it, and a row remembers      *)
(* which episode it really holds, which the database does not.             *)
(*                                                                         *)
(* One request with a multi-source plugin (ddl, nyaa), the flag on.        *)
(***************************************************************************)
EXTENDS Integers, FiniteSets, Sequences

CONSTANTS Franchises, \* the franchises a request may be for, see Entry
          Cour,       \* what the locator takes an unknown count for: 12
          Slots,      \* jobs of the request that may exist at a time
          MaxToggles, \* bound: entries switched on or off
          MaxFaults   \* bound: errors and restarts

NoPart == 0

\* A count nobody knows is None in the mapping built from the request alone, and 0
\* in the one built from the franchise walk (`entry.episodes or 0`).
None == -1

\* One entry of the mapping; `aired` is how many episodes there are to fetch.  A
\* movie stands for every extra.
Entry == [kind : {"season", "movie"}, season : Nat, part : Nat,
          episodes : Nat \cup {None}, aired : Nat]

\* What either builder makes: seasons are numbered from 1 and extras have none, the
\* entries that share a season are its parts from 1 on in order, and a known count is
\* that of the episodes.
ASSUME CoverageAssumption ==
  /\ Cour \in Nat \ {0} /\ MaxToggles \in Nat /\ MaxFaults \in Nat
  /\ \A f \in Franchises :
       /\ f \in Seq(Entry)
       /\ \A i \in DOMAIN f : /\ f[i].episodes \in {None, 0, f[i].aired}
                              /\ f[i].kind = "season" <=> f[i].season > 0
       /\ \A i, j \in DOMAIN f :
            i < j /\ f[i].season > 0 /\ f[i].season = f[j].season
              => 0 < f[i].part /\ f[i].part < f[j].part

VARIABLES entries,  \* the franchise, as resolve_franchise_entries returns it
          on,       \* entries the saved mapping includes (Toggle Entry)
          rows,     \* table files: what is on record
          jobs,     \* the request's jobs
          card,     \* nf:missing:<code>, which the "more links" card is drawn from
          bypass,   \* nf:coverage:bypass:<code>
          waiving,  \* whether "publish what we have" is between its two steps
          toggles, faults

vars == <<entries, on, rows, jobs, card, bypass, waiving, toggles, faults>>

Episodes == UNION {{k} \X (1..entries[k].aired) : k \in DOMAIN entries}
Seasons  == {entries[k].season : k \in DOMAIN entries}

\* How a release numbers its files, and whether a confirmed mapping gives their
\* part with them.
Styles == {"continuous", "continuous+part", "per part", "per part+part"}

NoCard == [missing |-> {}, empty |-> {}]
Job(at, left, report) == [at |-> at, left |-> left, report |-> report]
Idle == Job("idle", {}, NoCard)

\* A unit that is reported missing is a season and a number within it.
Report == [missing : SUBSET (Seasons \X (Nat \ {0})), empty : SUBSET Seasons]
\* A row of `files`, and of a download that is to be one: where it is filed, what it
\* really holds, and whether it was filed blind.
File == [of : Episodes, season : Seasons, part : Nat, episode : Nat \ {0}, blind : BOOLEAN]

Places == {"idle", "fetching", "pausing", "paused", "done", "failed"}

TypeOK ==
  /\ entries \in Franchises /\ on \subseteq DOMAIN entries
  /\ rows \subseteq File /\ \A r \in rows : r.season = entries[r.of[1]].season
  /\ jobs \in [Slots -> [at : Places, left : SUBSET File, report : Report]]
  /\ card \in Report /\ bypass \in BOOLEAN /\ waiving \in BOOLEAN
  /\ toggles \in 0..MaxToggles /\ faults \in 0..MaxFaults

Init ==
  /\ entries \in Franchises /\ on = DOMAIN entries
  /\ rows = {} /\ jobs = [j \in Slots |-> Idle]
  /\ card = NoCard /\ bypass = FALSE /\ waiving = FALSE
  /\ toggles = 0 /\ faults = 0

-----------------------------------------------------------------------------
(* _map_episode_locator *)

\* A sum, as the number of pairs it counts.
SumOver(S, f) == Cardinality(UNION {{k} \X (1..f[k]) : k \in S})

Count   == [k \in DOMAIN entries |-> entries[k].episodes]
Aired   == [k \in DOMAIN entries |-> entries[k].aired]
Part    == [k \in DOMAIN entries |-> entries[k].part]
Known(k) == Count[k] > 0

PartsOf(s) == {k \in DOMAIN entries : entries[k].kind = "season" /\ entries[k].season = s}
Length == [k \in DOMAIN entries |-> IF Known(k) THEN Count[k] ELSE Cour]
Before(k) == {i \in PartsOf(entries[k].season) : Part[i] < Part[k]}
Prior(k) == SumOver(Before(k), Length)

\* A season of one entry is not split (nor is one of entries without part numbers,
\* which neither builder makes).
IsSplit(s) == Cardinality(PartsOf(s)) > 1 /\ \E k \in PartsOf(s) : Part[k] # NoPart

\* The number a release gives to the i-th episode of entry k.
Token(k, i, style) ==
  IF style \in {"per part", "per part+part"} THEN i
  ELSE i + SumOver(Before(k), Aired)

\* (mutant) Numbers within a part from 0 on.
InPartFromZero(k, n) ==
  [part |-> Part[k], episode |-> IF n > Prior(k) THEN n - Prior(k) - 1 ELSE 0]

\* The season's number n as one of part k: max(1, n - cumulative).
InPart(k, n) == [part |-> Part[k], episode |-> IF n > Prior(k) THEN n - Prior(k) ELSE 1]

First(S, part) == CHOOSE h \in S : \A i \in S : part[h] <= part[i]
Last(S, part)  == CHOOSE h \in S : \A i \in S : part[i] <= part[h]

\* (mutant) The last episode of a part is taken for the next part's.
WhereUnnamedShort(s, n) ==
  LET reach == {k \in PartsOf(s) : n < Prior(k) + Length[k]}
  IN  IF ~IsSplit(s) THEN [part |-> NoPart, episode |-> n]
      ELSE InPart(IF reach = {} THEN Last(PartsOf(s), Part) ELSE First(reach, Part), n)

\* The source names no part: the first part that reaches up to n, or the last.
WhereUnnamed(s, n) ==
  LET reach == {k \in PartsOf(s) : n <= Prior(k) + Length[k]}
  IN  IF ~IsSplit(s) THEN [part |-> NoPart, episode |-> n]
      ELSE InPart(IF reach = {} THEN Last(PartsOf(s), Part) ELSE First(reach, Part), n)

\* The mapping names the part: n is taken for the season's number when it is more
\* than the part has episodes, and for the part's own otherwise.
WhereNamed(k, n) ==
  IF n > Length[k] /\ Prior(k) > 0 THEN InPart(k, n)
  ELSE [part |-> Part[k], episode |-> n]

Where(k, i, style) ==
  LET n == Token(k, i, style)
  IN  IF style \in {"continuous", "per part"} \/ Part[k] = NoPart
      THEN WhereUnnamed(entries[k].season, n)
      ELSE WhereNamed(k, n)

\* A release that numbers a later part from 1 on, with no mapping to say so: what it
\* holds is filed from the season's first part on.
Blind(k, style) == style = "per part" /\ Before(k) # {}

\* DownloadWorker._record_file
Row(e, style) ==
  LET w == Where(e[1], e[2], style)
  IN  [of |-> e, season |-> entries[e[1]].season, part |-> w.part, episode |-> w.episode,
       blind |-> Blind(e[1], style)]

-----------------------------------------------------------------------------
(* compute_coverage *)

\* The saved selection is laid over the fresh mapping by season number: among the
\* parts of a season, the last one listed decides for all.  An extra goes by its title.
Included(k) ==
  IF entries[k].kind = "movie" THEN k \in on
  ELSE \E l \in on \cap PartsOf(entries[k].season) :
         \A i \in PartsOf(entries[k].season) : i <= l

\* _expected_units: the entries whose count is not None, 0 included.
Expected ==
  {k \in DOMAIN entries : Included(k) /\ entries[k].kind = "season" /\ Count[k] # None}

Resolved == {entries[k].season : k \in Expected}
Total(s) == SumOver(Expected \cap PartsOf(s), Count)
Have(s) == {r.episode : r \in {x \in rows : x.season = s}}

\* (mutant) A season of which something was found is not looked at.
MissingAbsent ==
  UNION {{<<s, n>> : n \in 1..Total(s)} : s \in {x \in Resolved : Have(x) = {}}}

Missing ==
  UNION {{<<s, n>> : n \in (1..Total(s)) \ Have(s)} : s \in Resolved}

Empty == {s \in Resolved : Have(s) = {}}
Complete == Missing = {} /\ Empty = {}

-----------------------------------------------------------------------------
(* The request's jobs *)

\* What the job was about is forgotten with the step.
Put(j, at) == jobs' = [jobs EXCEPT ![j] = [Idle EXCEPT !.at = at]]

\* A job that is over or paused leaves its slot to a new one.
Free(j) == jobs[j].at \in {"idle", "paused", "done", "failed"}

\* Without parts there is but one numbering.
StylesOf(k) == IF Part[k] = NoPart THEN {"continuous"} ELSE Styles

\* Staff send links to a release of an episode, from the card or from scratch.  (What
\* a release of several brings, several jobs bring.)
Enqueue(j, e, style) ==
  /\ Free(j)
  /\ jobs' = [jobs EXCEPT ![j] = Job("fetching", {Row(e, style)}, NoCard)]
  /\ UNCHANGED <<entries, on, rows, card, bypass, waiving, toggles, faults>>

\* Links for one of the units the card shows.
Supply(j, e) ==
  /\ <<entries[e[1]].season, Token(e[1], e[2], "continuous")>> \in card.missing
  /\ Enqueue(j, e, "continuous")

\* _missing_done: "publish what we have" sets the flag, and then enqueues a job that
\* finds everything on record already.
WaiveGaps ==
  /\ ~waiving /\ \E i \in Slots : jobs[i].at = "paused"
  /\ bypass' = TRUE /\ waiving' = TRUE
  /\ UNCHANGED <<entries, on, rows, jobs, card, toggles, faults>>

PublishAnyway(j) ==
  /\ waiving /\ waiving' = FALSE /\ Free(j)
  /\ jobs' = [jobs EXCEPT ![j] = Job("fetching", {}, NoCard)]
  /\ UNCHANGED <<entries, on, rows, card, bypass, toggles, faults>>

\* The enqueue raises: the flag stays.
PublishFails ==
  /\ waiving /\ waiving' = FALSE
  /\ faults < MaxFaults /\ faults' = faults + 1
  /\ UNCHANGED <<entries, on, rows, jobs, card, bypass, toggles>>

\* ex=300 and ex=86400
BypassExpires ==
  /\ bypass /\ bypass' = FALSE
  /\ UNCHANGED <<entries, on, rows, jobs, card, waiving, toggles, faults>>

CardExpires ==
  /\ card # NoCard /\ card' = NoCard
  /\ UNCHANGED <<entries, on, rows, jobs, bypass, waiving, toggles, faults>>

\* Staff flip an entry on the mapping screen, which is saved with a job.
Toggle(k) ==
  /\ toggles < MaxToggles /\ toggles' = toggles + 1
  /\ on' = IF k \in on THEN on \ {k} ELSE on \cup {k}
  /\ UNCHANGED <<entries, rows, jobs, card, bypass, waiving, faults>>

-----------------------------------------------------------------------------
(* DownloadWorker *)

\* The download loop puts it on record.
Fetch(j) ==
  /\ jobs[j].at = "fetching" /\ jobs[j].left # {}
  /\ rows' = rows \cup jobs[j].left
  /\ jobs' = [jobs EXCEPT ![j] = Job("fetching", {}, NoCard)]
  /\ UNCHANGED <<entries, on, card, bypass, waiving, toggles, faults>>

AtGate(j) == jobs[j].at = "fetching" /\ jobs[j].left = {} /\ rows # {}

\* _consume_publish_anyway comes before anything is looked at.
PassWaived(j) ==
  /\ AtGate(j) /\ bypass
  /\ bypass' = FALSE /\ Put(j, "done")
  /\ UNCHANGED <<entries, on, rows, card, waiving, toggles, faults>>

PassComplete(j) ==
  /\ AtGate(j) /\ ~bypass
  /\ Complete \/ \A k \in DOMAIN entries : ~Included(k)
  /\ Put(j, "done")
  /\ UNCHANGED <<entries, on, rows, card, bypass, waiving, toggles, faults>>

\* "Never strand a job on a gate error."
PassOnError(j) ==
  /\ AtGate(j) /\ ~bypass
  /\ faults < MaxFaults /\ faults' = faults + 1
  /\ Put(j, "done")
  /\ UNCHANGED <<entries, on, rows, card, bypass, waiving, toggles>>

Pause(j) ==
  /\ AtGate(j) /\ ~bypass
  /\ ~Complete /\ \E k \in DOMAIN entries : Included(k)
  /\ jobs' = [jobs EXCEPT ![j] =
                Job("pausing", {}, [missing |-> Missing, empty |-> Empty])]
  /\ UNCHANGED <<entries, on, rows, card, bypass, waiving, toggles, faults>>

\* (mutant) The card of an earlier round is kept.
PostCardOnce(j) ==
  /\ jobs[j].at = "pausing" /\ Put(j, "paused")
  /\ card' = IF card = NoCard THEN jobs[j].report ELSE card
  /\ UNCHANGED <<entries, on, rows, bypass, waiving, toggles, faults>>

\* post_missing_source_card, after the pause has been committed.
PostCard(j) ==
  /\ jobs[j].at = "pausing" /\ Put(j, "paused")
  /\ card' = jobs[j].report
  /\ UNCHANGED <<entries, on, rows, bypass, waiving, toggles, faults>>

\* The job fails on the way; a flag that was set for it stays.
Fail(j) ==
  /\ jobs[j].at = "fetching"
  /\ faults < MaxFaults /\ faults' = faults + 1
  /\ Put(j, "failed")
  /\ UNCHANGED <<entries, on, rows, card, bypass, waiving, toggles>>

\* A restart queues again whatever was running or paused.
Restart ==
  /\ faults < MaxFaults /\ faults' = faults + 1
  /\ jobs' = [j \in Slots |->
                IF jobs[j].at \in {"pausing", "paused"}
                THEN Job("fetching", {}, NoCard) ELSE jobs[j]]
  /\ waiving' = FALSE
  /\ UNCHANGED <<entries, on, rows, card, bypass, toggles>>

-----------------------------------------------------------------------------
JobStep(j) ==
  \/ Fetch(j) \/ PassWaived(j) \/ PassComplete(j) \/ PassOnError(j) \/ Pause(j)
  \/ PostCard(j)

Next ==
  \/ \E j \in Slots :
       \/ \E e \in Episodes : \E style \in StylesOf(e[1]) : Enqueue(j, e, style)
       \/ PublishAnyway(j) \/ JobStep(j) \/ Fail(j)
  \/ \E k \in DOMAIN entries : Toggle(k)
  \/ WaiveGaps \/ PublishFails
  \/ BypassExpires \/ CardExpires \/ Restart

Spec == Init /\ [][Next]_vars

\* The worker and a handler go on.  Staff answer a card they can see, and publish
\* what there is when its content has expired.
Fairness ==
  /\ \A j \in Slots : WF_vars(JobStep(j))
  /\ SF_vars(\E j \in Slots, e \in Episodes : Supply(j, e))
  /\ WF_vars(card = NoCard /\ WaiveGaps)
  /\ WF_vars(\E j \in Slots : PublishAnyway(j))

FairSpec == Spec /\ Fairness

-----------------------------------------------------------------------------
(* Properties *)

Split == \E s \in Seasons : IsSplit(s)

\* An entry of the walk without a count.
Uncounted == \E k \in DOMAIN entries : entries[k].kind = "season" /\ Count[k] = 0

\* A season with a part whose count is known, and one whose is not.
PartlyKnown == \E k, l \in DOMAIN entries : l \in PartsOf(entries[k].season) /\ Known(k) /\ ~Known(l)

\* Of a part that follows others: their lengths are known, and it is not longer than
\* they are together.
Legible(k) ==
  Before(k) # {} => /\ Aired[k] <= Length[k] /\ Length[k] <= Prior(k)
                    /\ \A b \in Before(k) : Aired[b] = Length[b]

\* What is really owed: the episodes of the seasons staff kept, of entries that say
\* how many there are, which no row holds.
Owed ==
  {e \in Episodes :
     /\ entries[e[1]].kind = "season" /\ Known(e[1])
     /\ PartsOf(entries[e[1]].season) \subseteq on
     /\ ~\E r \in rows : r.of = e}

Pauses(j) == jobs[j].at = "fetching" /\ jobs'[j].at = "pausing"
Passes(j) == jobs[j].at = "fetching" /\ jobs'[j].at = "done"

\* "Every downstream MediaFile/pack/name must carry S1P2 E01..E12" (_record_file): two
\* episodes are filed under the same locator only if one came blind, from a release
\* that numbers a later part from 1 on without naming it, or the season is not legible.
LocatorsAreDistinct ==
  \A r, x \in rows :
    r.season > 0 /\ <<r.season, r.part, r.episode>> = <<x.season, x.part, x.episode>>
      => \/ r.of = x.of \/ r.blind \/ x.blind
         \/ \E k \in PartsOf(r.season) : ~Legible(k)

\* The same of every season in parts whose counts are known: a row says which part it
\* is of and its number there ("the second entry as S1P2E01..S1P2E12",
\* _map_episode_locator).
FiledInPlace ==
  \A r \in rows :
    IsSplit(r.season) /\ (\A k \in PartsOf(r.season) : Known(k))
      => <<r.part, r.episode>> = <<Part[r.of[1]], r.of[2]>>

\* The gate is exact, whatever rounds, switches, restarts and second jobs came before.
\* A job goes past it with a hole only if staff said so or the gate itself failed
\* (a part without a count can hide the holes of another);
\* and, "a complete franchise ... return[s] False so a normal job is never stranded"
\* (_maybe_pause_for_coverage), a pause has its reason, which is on the card that is
\* posted for it, unit by unit.  (Of a split season the second part does not hold,
\* nor with an entry the walk has no count for.)
HoleIsWaived == Owed = {} \/ bypass \/ faults' # faults
PauseIsOwed(j) ==
  Owed # {} /\ jobs'[j].report.missing = {<<entries[e[1]].season, e[2]>> : e \in Owed}

GateIsExact ==
  [][\A j \in Slots : /\ Passes(j) /\ ~PartlyKnown => HoleIsWaived
                      /\ Pauses(j) /\ ~Split /\ ~Uncounted => PauseIsOwed(j)]_vars

\* That a pause has a reason, of every franchise ("a complete franchise").
CompleteIsNotPaused == [][\A j \in Slots : Pauses(j) => Owed # {}]_vars

\* "Unknown-count seasons never *block* completion on their own" (CoverageReport):
\* a pause names a unit of a season with a count.
UnknownNeverBlocks == [][\A j \in Slots : Pauses(j) => jobs'[j].report.missing # {}]_vars

\* Staff who supply what the card asks for get the request through, or a round that
\* fails: nothing the card does not name keeps the gate shut.
PausedGetsThrough ==
  (~Split /\ ~Uncounted /\ \E j \in Slots : jobs[j].at = "paused")
    ~> \E i \in Slots : jobs[i].at \in {"done", "failed"}

=============================================================================
