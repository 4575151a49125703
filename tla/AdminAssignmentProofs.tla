----------------------- MODULE AdminAssignmentProofs -----------------------
(***************************************************************************)
(* What holds of AdminAssignment for every set of requests, admins and     *)
(* concurrent callers, and without the bound MaxRows playing any part: its *)
(* types and its table first, and then that it implements AssignmentSlots. *)
(* Under the mapping SlotOf every transaction that commits a row is one    *)
(* operation on one slot, the sweep withdraws several offers at once, and  *)
(* everything else, the whole inside of a running transaction included, is *)
(* a stutter.                                                              *)
(***************************************************************************)
EXTENDS AdminAssignment, FiniteSetTheorems, SequenceTheorems, TLAPS

-----------------------------------------------------------------------------
(* Lemmas about the operators *)

\* Counting rows of a table gives a natural number.
LEMMA RowsFinite ==
  ASSUME NEW rs \in Seq(Row), NEW S \in SUBSET (DOMAIN rs)
  PROVE  IsFiniteSet(S) /\ Cardinality(S) \in Nat
<1>1. DOMAIN rs = 1..Len(rs) /\ Len(rs) \in Nat
  OBVIOUS
<1>2. IsFiniteSet(1..Len(rs))
  BY <1>1, FS_Interval
<1>3. IsFiniteSet(S)
  BY <1>1, <1>2, FS_Subset
<1>4. QED
  BY <1>3, FS_CardinalityType

\* The offer attempt recorded with an offer is a positive number.
LEMMA AttemptType ==
  ASSUME NEW rs \in Seq(Row), NEW r, NEW s, NEW a
  PROVE  NextOfferAttempt(rs, r, s, a) \in Nat
<1> DEFINE prior == {i \in DOMAIN rs :
        /\ rs[i].req = r /\ rs[i].stage = s /\ rs[i].admin = a
        /\ rs[i].status \in {"offered", "skipped", "rejected"}}
<1>1. prior \in SUBSET (DOMAIN rs)
  OBVIOUS
<1>2. Cardinality(prior) \in Nat
  BY <1>1, RowsFinite
<1>3. QED
  BY <1>2 DEF NextOfferAttempt

\* A row the ladder picks is an open row of the stage it was asked about.
LEMMA LadderPicksOpenRows ==
  ASSUME NEW rs \in Seq(Row), NEW r \in Requests, NEW s \in Stages,
         NEW second, NEW excluded, NEW p \in Presences,
         NEW row \in Ladder(rs, r, s, second, excluded, p)
  PROVE  row \in Row /\ row.req = r /\ row.stage = s /\ row.status \in Open
<1> DEFINE fit == Candidates(rs, s, second, excluded, p)
<1>1. fit \subseteq Admins
  BY DEF Candidates
<1>2. \A S \in SUBSET Admins : BestByLoad(rs, S) \subseteq Admins
  BY DEF BestByLoad
<1>3. \E a \in Admins : row = AssignedRow(r, s, a) \/ row = OfferedRow(rs, r, s, a, p)
  BY <1>1, <1>2, Zenon DEF Ladder
<1>4. PICK a \in Admins : row = AssignedRow(r, s, a) \/ row = OfferedRow(rs, r, s, a, p)
  BY <1>3
<1>5. NextOfferAttempt(rs, r, s, a) \in Nat
  BY AttemptType
<1>6. CASE row = AssignedRow(r, s, a)
  BY <1>6 DEF AssignedRow, Row, Statuses, Open, Active, Reasons
<1>7. CASE row = OfferedRow(rs, r, s, a, p)
  BY <1>7, <1>5 DEF OfferedRow, Row, Statuses, Open, Active, Reasons
<1>8. QED
  BY <1>4, <1>6, <1>7

-----------------------------------------------------------------------------
(* Type correctness *)

\* Every state has its type: in particular a row never gets a status, reason or
\* holder outside the columns' domains, whatever interleaving produced it.
LEMMA InitTypeOK == Init => TypeOK
<1> SUFFICES ASSUME Init PROVE TypeOK
  OBVIOUS
<1>1. rows \in Seq(Row) /\ sweep \subseteq DOMAIN rows /\ faults \subseteq {"assign", "reassign"}
  BY DEF Init
<1>2. done \in [Admins -> Nat] /\ work \in [Requests -> Work]
  BY DEF Init, Work
<1>3. tx \in [Callers -> Tx]
  BY DEF Init, Tx
<1>4. QED
  BY <1>1, <1>2, <1>3 DEF TypeOK

\* The shapes a transaction record can have.
LEMMA TxShapes ==
  ASSUME NEW t \in Tx
  PROVE  /\ t.pc \in {"idle", "forced", "ladder", "insert", "reread", "update", "sync"}
         /\ t.pc = "forced" =>
              /\ t.req \in Requests /\ t.stage \in Stages
              /\ t.second \in BOOLEAN /\ t.pref \in Preferred
         /\ t.pc = "ladder" =>
              t.req \in Requests /\ t.stage \in Stages /\ t.second \in BOOLEAN
         /\ t.pc = "insert" => t.pick \in Row /\ t.held \in SUBSET Admins
         /\ t.pc = "update" =>
              /\ t.req \in Requests /\ t.stage \in Stages
              /\ t.admin \in Admins /\ t.sel \in Nat \ {0} /\ t.seen \in Work
         /\ t.pc = "sync" =>
              t.req \in Requests /\ t.stage \in Stages /\ t.seen \in Work
  BY DEF Tx, Idle

\* Putting a well-formed record in place of a transaction keeps tx typed.
LEMMA TxStep ==
  ASSUME TypeOK, NEW c \in Callers, NEW t \in Tx, tx' = [tx EXCEPT ![c] = t]
  PROVE  tx' \in [Callers -> Tx]
  BY DEF TypeOK

LEMMA StartTypeOK ==
  ASSUME TypeOK, NEW c \in Callers, NEW r \in Requests, NEW s \in Stages,
         NEW second \in BOOLEAN, NEW pref \in Preferred \cup {Nobody},
         AssignStart(c, r, s, second, pref)
  PROVE  TypeOK'
<1>1. UNCHANGED <<rows, done, work, sweep, faults>>
  BY DEF AssignStart
<1>2. tx' \in [Callers -> Tx]
  <2>1. CASE pref = Nobody
    <3> DEFINE t == [pc |-> "ladder", req |-> r, stage |-> s, second |-> second,
                     held |-> {}]
    <3>1. t \in Tx
      BY DEF Tx
    <3>2. tx' = [tx EXCEPT ![c] = t]
      BY <2>1 DEF AssignStart
    <3>3. QED
      BY <3>1, <3>2, TxStep
  <2>2. CASE pref # Nobody
    <3> DEFINE t == [pc |-> "forced", req |-> r, stage |-> s, second |-> second,
                     pref |-> pref]
    <3>1. t \in Tx
      BY <2>2 DEF Tx
    <3>2. tx' = [tx EXCEPT ![c] = t]
      BY <2>2 DEF AssignStart
    <3>3. QED
      BY <3>1, <3>2, TxStep
  <2>3. QED
    BY <2>1, <2>2
<1>3. QED
  BY <1>1, <1>2 DEF TypeOK

LEMMA ForcedTypeOK ==
  ASSUME TypeOK, NEW c \in Callers, NEW presence, AssignForced(c, presence)
  PROVE  TypeOK'
<1> DEFINE t == tx[c]
<1>1. /\ UNCHANGED <<rows, done, work, sweep, faults>>
      /\ t.pc = "forced"
  BY DEF AssignForced
<1>2. /\ t.req \in Requests /\ t.stage \in Stages
      /\ t.second \in BOOLEAN /\ t.pref \in Admins
  BY <1>1, TxShapes, EngineAssumption DEF TypeOK
<1> DEFINE pick == AssignedRow(t.req, t.stage, t.pref)
           chosen == [pc |-> "insert", pick |-> pick, held |-> {t.pref}]
           climbs == [pc |-> "ladder", req |-> t.req, stage |-> t.stage,
                      second |-> t.second, held |-> {t.pref}]
<1>3. pick \in Row
  BY <1>2 DEF AssignedRow, Row, Statuses, Open, Active, Reasons
<1>4. chosen \in Tx
  <2> HIDE DEF pick
  <2> QED BY <1>2, <1>3 DEF Tx
<1>5. climbs \in Tx
  BY <1>2 DEF Tx
<1>6. tx' = [tx EXCEPT ![c] = chosen] \/ tx' = [tx EXCEPT ![c] = climbs]
  BY DEF AssignForced
<1> HIDE DEF chosen, climbs
<1>7. tx' \in [Callers -> Tx]
  BY <1>4, <1>5, <1>6, TxStep
<1>8. QED
  BY <1>1, <1>7 DEF TypeOK

LEMMA LadderTypeOK ==
  ASSUME TypeOK, NEW c \in Callers, NEW p \in Presences, AssignLadder(c, p)
  PROVE  TypeOK'
<1> DEFINE t == tx[c]
           picks == Ladder(rows, t.req, t.stage, t.second, {}, p)
           insert(row) == [pc |-> "insert", pick |-> row, held |-> Admins]
<1>1. /\ UNCHANGED <<rows, done, work, sweep, faults>>
      /\ t.pc = "ladder"
  BY DEF AssignLadder
<1>2. t.req \in Requests /\ t.stage \in Stages
  BY <1>1, TxShapes DEF TypeOK
<1>3. \A row \in picks : insert(row) \in Tx
  <2> TAKE row \in picks
  <2>1. row \in Row
    BY <1>2, LadderPicksOpenRows DEF TypeOK
  <2>2. QED
    BY <1>2, <2>1 DEF Tx
<1>4. tx' = [tx EXCEPT ![c] = Idle]
      \/ \E row \in picks : tx' = [tx EXCEPT ![c] = insert(row)]
  BY DEF AssignLadder
<1>5. Idle \in Tx
  BY DEF Tx
<1> HIDE DEF insert, picks
<1>6. tx' \in [Callers -> Tx]
  BY <1>3, <1>4, <1>5, TxStep
<1>7. QED
  BY <1>1, <1>6 DEF TypeOK

LEMMA RowAt ==
  ASSUME TypeOK, NEW i \in DOMAIN rows
  PROVE  /\ rows[i] \in Row
         /\ rows[i].req \in Requests /\ rows[i].stage \in Stages
         /\ rows[i].admin \in Admins /\ rows[i].status \in Statuses
<1>1. rows[i] \in Row
  BY DEF TypeOK
<1>2. QED
  BY <1>1 DEF Row

\* Appending a row, or rewriting one in place, keeps the table typed.
LEMMA TableAppend ==
  ASSUME TypeOK, NEW row \in Row, rows' = Append(rows, row), sweep' \subseteq sweep
  PROVE  rows' \in Seq(Row) /\ sweep' \subseteq DOMAIN rows'
  BY DEF TypeOK

LEMMA InsertTypeOK ==
  ASSUME TypeOK, NEW c \in Callers, AssignInsert(c)
  PROVE  TypeOK'
<1> DEFINE t == tx[c]
           lost == [pc |-> "reread", req |-> t.pick.req, stage |-> t.pick.stage,
                    held |-> t.held]
<1>1. UNCHANGED <<done, work, sweep, faults>> /\ t.pc = "insert"
  BY DEF AssignInsert
<1>2. t.pick \in Row /\ t.held \in SUBSET Admins
  BY <1>1, TxShapes DEF TypeOK
<1>3. CASE rows' = Append(rows, t.pick) /\ tx' = [tx EXCEPT ![c] = Idle]
  <2>1. Idle \in Tx
    BY DEF Tx
  <2>2. rows' \in Seq(Row) /\ sweep' \subseteq DOMAIN rows'
    BY <1>1, <1>2, <1>3, TableAppend
  <2>3. QED
    BY <1>1, <1>3, <2>1, <2>2, TxStep DEF TypeOK
<1>4. CASE UNCHANGED rows /\ tx' = [tx EXCEPT ![c] = lost]
  <2>1. lost \in Tx
    BY <1>2 DEF Tx, Row
  <2> HIDE DEF lost
  <2>2. QED
    BY <1>1, <1>4, <2>1, TxStep DEF TypeOK
<1>5. QED
  BY <1>3, <1>4 DEF AssignInsert

LEMMA AbortTypeOK ==
  ASSUME TypeOK, NEW c \in Callers, AssignDeadlock(c) \/ AssignReread(c)
  PROVE  TypeOK'
<1>1. Idle \in Tx
  BY DEF Tx
<1>2. /\ UNCHANGED <<rows, done, work, sweep>>
      /\ tx' = [tx EXCEPT ![c] = Idle]
      /\ faults' \subseteq faults \cup {"assign"}
  BY DEF AssignDeadlock, AssignReread
<1>3. QED
  BY <1>1, <1>2, TxStep DEF TypeOK

LEMMA SyncTypeOK ==
  ASSUME TypeOK, NEW r \in Requests, NEW s \in Stages, NEW seen \in Work,
         SyncWork(r, s, seen)
  PROVE  work' \in [Requests -> Work]
<1> DEFINE finished == [seen EXCEPT !.status = "done"]
           after == AfterStage(s, seen)
<1>1. finished \in Work
  BY DEF Work
<1>2. after \in Work
  <2>1. /\ [stage |-> "distribute", status |-> "open"] \in Work
        /\ [stage |-> "publish", status |-> "open"] \in Work
    BY DEF Work
  <2>2. s \in {"levi", "senku", "gojo"}
    BY EngineAssumption
  <2>3. after = CASE s = "levi"  -> [stage |-> "distribute", status |-> "open"]
                  [] s = "senku" -> [stage |-> "publish", status |-> "open"]
                  [] s = "gojo"  -> finished
    BY DEF AfterStage
  <2> HIDE DEF finished, after
  <2>4. QED
    BY <1>1, <2>1, <2>2, <2>3
<1> DEFINE written(w) ==
      [stage  |-> IF after.stage = seen.stage THEN w.stage ELSE after.stage,
       status |-> IF after.status = seen.status THEN w.status ELSE after.status]
<1>3. work' = work \/ work' = [work EXCEPT ![r] = written(work[r])]
  BY DEF SyncWork
<1> HIDE DEF after
<1>4. \A w \in Work : written(w) \in Work
  BY <1>2 DEF Work
<1> HIDE DEF written
<1>5. QED
  BY <1>3, <1>4 DEF TypeOK

LEMMA CompleteTypeOK ==
  ASSUME TypeOK, NEW c \in Callers,
         \/ \E i \in DOMAIN rows : CompleteSelect(c, i)
         \/ CompleteUpdate(c)
         \/ \E r \in Requests, s \in Stages : CompleteNothing(c, r, s)
         \/ CompleteSync(c)
  PROVE  TypeOK'
<1>0. Idle \in Tx
  BY DEF Tx
<1>1. ASSUME NEW i \in DOMAIN rows, CompleteSelect(c, i)
      PROVE  TypeOK'
  <2> DEFINE t == [pc |-> "update", sel |-> i, req |-> rows[i].req,
                   stage |-> rows[i].stage, admin |-> rows[i].admin,
                   seen |-> work[rows[i].req]]
  <2>1. rows[i] \in Row /\ i \in Nat \ {0} /\ work[rows[i].req] \in Work
    BY RowAt DEF TypeOK
  <2>2. t \in Tx
    BY <2>1 DEF Tx, Row
  <2>3. tx' = [tx EXCEPT ![c] = t] /\ UNCHANGED <<rows, done, work, sweep, faults>>
    BY <1>1 DEF CompleteSelect
  <2> HIDE DEF t
  <2>4. QED
    BY <2>2, <2>3, TxStep DEF TypeOK
<1>2. ASSUME CompleteUpdate(c)
      PROVE  TypeOK'
  <2> DEFINE t == tx[c]
             row == [rows[t.sel] EXCEPT !.status = "completed"]
  <2>1. t.pc = "update" /\ UNCHANGED <<sweep, faults>> /\ SyncWork(t.req, t.stage, t.seen)
    BY <1>2 DEF CompleteUpdate
  <2>2. /\ t.req \in Requests /\ t.stage \in Stages /\ t.admin \in Admins
        /\ t.seen \in Work
    BY <2>1, TxShapes DEF TypeOK
  <2>3. done' \in [Admins -> Nat]
    BY <1>2, <2>2 DEF CompleteUpdate, TypeOK
  <2>4. rows' \in Seq(Row) /\ DOMAIN rows' = DOMAIN rows
    <3>1. rows' = [rows EXCEPT ![t.sel] = row]
      BY <1>2 DEF CompleteUpdate
    <3>2. t.sel \in DOMAIN rows => row \in Row
      BY RowAt DEF Row, Statuses, Open, Active
    <3> HIDE DEF row
    <3>3. rows \in Seq(Row)
      BY DEF TypeOK
    <3>4. rows' = [i \in DOMAIN rows |-> IF i = t.sel THEN row ELSE rows[i]]
      BY <3>1, <3>3
    <3>5. QED
      BY <3>2, <3>3, <3>4
  <2>5. tx' \in [Callers -> Tx]
    BY <1>0, <1>2, TxStep DEF CompleteUpdate
  <2>6. work' \in [Requests -> Work]
    BY <2>1, <2>2, SyncTypeOK
  <2>7. QED
    BY <2>1, <2>3, <2>4, <2>5, <2>6 DEF TypeOK
<1>3. ASSUME NEW r \in Requests, NEW s \in Stages, CompleteNothing(c, r, s)
      PROVE  TypeOK'
  <2> DEFINE t == [pc |-> "sync", req |-> r, stage |-> s, seen |-> work[r]]
  <2>1. work[r] \in Work
    BY DEF TypeOK
  <2>2. t \in Tx
    BY <2>1 DEF Tx
  <2>3. tx' = [tx EXCEPT ![c] = t] /\ UNCHANGED <<rows, done, work, sweep, faults>>
    BY <1>3 DEF CompleteNothing
  <2> HIDE DEF t
  <2>4. QED
    BY <2>2, <2>3, TxStep DEF TypeOK
<1>4. ASSUME CompleteSync(c)
      PROVE  TypeOK'
  <2> DEFINE t == tx[c]
  <2>1. /\ t.pc = "sync" /\ UNCHANGED <<rows, done, sweep, faults>>
        /\ SyncWork(t.req, t.stage, t.seen) /\ tx' = [tx EXCEPT ![c] = Idle]
    BY <1>4 DEF CompleteSync
  <2>2. t.req \in Requests /\ t.stage \in Stages /\ t.seen \in Work
    BY <2>1, TxShapes DEF TypeOK
  <2>3. work' \in [Requests -> Work]
    BY <2>1, <2>2, SyncTypeOK
  <2>4. QED
    BY <1>0, <2>1, <2>3, TxStep DEF TypeOK
<1>5. QED
  BY <1>1, <1>2, <1>3, <1>4

\* Rewriting fields of one open row in place: an answer, a lapse, a hand-over.
LEMMA InPlaceTypeOK ==
  ASSUME TypeOK,
         \/ \E i \in DOMAIN rows : AcceptOffer(i) \/ RejectOffer(i) \/ Lapse(i)
         \/ \E r \in Requests, s \in Stages, a \in Admins : Reassign(r, s, a)
         \/ \E a \in Admins : NewDay(a)
         \/ \E r \in Requests : CancelWork(r)
  PROVE  TypeOK'
<1>1. ASSUME NEW i \in DOMAIN rows, NEW row \in Row, rows' = [rows EXCEPT ![i] = row]
      PROVE  rows' \in Seq(Row) /\ DOMAIN rows' = DOMAIN rows
  BY <1>1 DEF TypeOK
<1>2. ASSUME NEW i \in DOMAIN rows, AcceptOffer(i) \/ RejectOffer(i) \/ Lapse(i)
      PROVE  TypeOK'
  <2>1. UNCHANGED <<done, work, tx, sweep, faults>> /\ rows[i] \in Row
    BY <1>2, RowAt DEF AcceptOffer, RejectOffer, Lapse
  <2>2. \E row \in Row : rows' = [rows EXCEPT ![i] = row]
    <3>1. CASE AcceptOffer(i)
      <4> DEFINE row == [rows[i] EXCEPT !.status = "assigned", !.reason = "accepted_offer"]
      <4>1. row \in Row
        BY <2>1 DEF Row, Statuses, Open, Active, Reasons
      <4>2. rows' = [rows EXCEPT ![i] = row]
        BY <3>1 DEF AcceptOffer
      <4>3. QED
        BY <4>1, <4>2
    <3>2. CASE RejectOffer(i)
      <4> DEFINE row == [rows[i] EXCEPT !.status = "rejected", !.lapsed = FALSE,
            !.reason = IF @ = "quiet_offer" THEN "quiet_reject" ELSE "manual_reject"]
      <4>1. row \in Row
        BY <2>1 DEF Row, Statuses, Open, Active, Reasons
      <4>2. rows' = [rows EXCEPT ![i] = row]
        BY <3>2 DEF RejectOffer
      <4>3. QED
        BY <4>1, <4>2
    <3>3. CASE Lapse(i)
      <4> DEFINE row == [rows[i] EXCEPT !.lapsed = TRUE]
      <4>1. row \in Row
        BY <2>1 DEF Row
      <4>2. rows' = [rows EXCEPT ![i] = row]
        BY <3>3 DEF Lapse
      <4>3. QED
        BY <4>1, <4>2
    <3>4. QED
      BY <1>2, <3>1, <3>2, <3>3
  <2>3. QED
    BY <1>1, <2>1, <2>2 DEF TypeOK
<1>3. ASSUME NEW r \in Requests, NEW s \in Stages, NEW a \in Admins, Reassign(r, s, a)
      PROVE  TypeOK'
  <2>1. UNCHANGED <<done, work, tx, sweep>> /\ faults' \subseteq {"assign", "reassign"}
    BY <1>3 DEF Reassign, TypeOK
  <2>2. ASSUME NEW i \in ActiveAt(rows, r, s),
               rows' = [rows EXCEPT ![i].admin = a, ![i].status = "assigned",
                 ![i].attempt = 0, ![i].reason = "none", ![i].lapsed = FALSE]
        PROVE  rows' \in Seq(Row) /\ DOMAIN rows' = DOMAIN rows
    <3> DEFINE row == [rows[i] EXCEPT !.admin = a, !.status = "assigned",
                         !.attempt = 0, !.reason = "none", !.lapsed = FALSE]
    <3>1. i \in DOMAIN rows
      BY DEF ActiveAt, OpenAt
    <3>2. rows[i] \in Row
      BY <3>1, RowAt
    <3>3. row \in Row
      BY <3>2 DEF Row, Statuses, Open, Active, Reasons
    <3>4. rows' = [rows EXCEPT ![i] = row]
      BY <2>2
    <3> HIDE DEF row
    <3>5. QED
      BY <1>1, <3>1, <3>3, <3>4
  <2>3. AssignedRow(r, s, a) \in Row
    BY DEF AssignedRow, Row, Statuses, Open, Active, Reasons
  <2>4. rows' \in Seq(Row) /\ sweep \subseteq DOMAIN rows'
    <3>1. CASE \E i \in ActiveAt(rows, r, s) :
                 rows' = [rows EXCEPT ![i].admin = a, ![i].status = "assigned",
                   ![i].attempt = 0, ![i].reason = "none", ![i].lapsed = FALSE]
      BY <3>1, <2>2 DEF TypeOK
    <3>2. CASE rows' = Append(rows, AssignedRow(r, s, a))
      BY <3>2, <2>1, <2>3, TableAppend
    <3>3. CASE UNCHANGED rows
      BY <3>3 DEF TypeOK
    <3>4. QED
      BY <1>3, <3>1, <3>2, <3>3 DEF Reassign
  <2>5. QED
    BY <2>1, <2>4 DEF TypeOK
<1>4. ASSUME NEW a \in Admins, NewDay(a)
      PROVE  TypeOK'
  <2> DEFINE new(i) == IF rows[i].admin = a THEN [rows[i] EXCEPT !.today = FALSE]
                       ELSE rows[i]
  <2>1. \A i \in DOMAIN rows : rows[i] \in Row
    BY DEF TypeOK
  <2>2. \A i \in DOMAIN rows : new(i) \in Row
    BY <2>1 DEF Row
  <2>3. rows' = [i \in DOMAIN rows |-> new(i)]
    BY <1>4 DEF NewDay
  <2> HIDE DEF new
  <2>4. rows' \in Seq(Row) /\ DOMAIN rows' = DOMAIN rows
    BY <2>2, <2>3 DEF TypeOK
  <2>5. UNCHANGED <<done, work, tx, sweep, faults>>
    BY <1>4 DEF NewDay
  <2>6. QED
    BY <2>4, <2>5 DEF TypeOK
<1>5. ASSUME NEW r \in Requests, CancelWork(r)
      PROVE  TypeOK'
  <2> DEFINE w == [work[r] EXCEPT !.status = "cancelled"]
  <2>1. work[r] \in Work
    BY DEF TypeOK
  <2>2. w \in Work
    BY <2>1 DEF Work
  <2>3. work' = [work EXCEPT ![r] = w] /\ UNCHANGED <<rows, done, tx, sweep, faults>>
    BY <1>5 DEF CancelWork
  <2> HIDE DEF w
  <2>4. QED
    BY <2>2, <2>3 DEF TypeOK
<1>6. QED
  BY <1>2, <1>3, <1>4, <1>5

LEMMA SweepTypeOK ==
  ASSUME TypeOK, ExpireOffers \/ SweepStep
  PROVE  TypeOK'
<1>1. CASE ExpireOffers
  <2> DEFINE stale == {i \in DOMAIN rows : rows[i].status = "offered" /\ rows[i].lapsed}
             refused(i) == [rows[i] EXCEPT !.status = "rejected", !.lapsed = FALSE,
                                           !.reason = "second_silent_timeout"]
             skipped(i) == [rows[i] EXCEPT !.status = "skipped", !.lapsed = FALSE,
                                           !.reason = "silent_timeout"]
             new(i) == IF i \notin stale THEN rows[i]
                       ELSE IF SecondSilence(rows[i]) THEN refused(i) ELSE skipped(i)
  <2>1. \A i \in DOMAIN rows : rows[i] \in Row
    BY DEF TypeOK
  <2>2. \A i \in DOMAIN rows : refused(i) \in Row /\ skipped(i) \in Row
    BY <2>1 DEF Row, Statuses, Open, Active, Reasons
  <2>3. rows' = [i \in DOMAIN rows |-> new(i)]
    BY <1>1 DEF ExpireOffers
  <2> HIDE DEF refused, skipped
  <2>4. \A i \in DOMAIN rows : new(i) \in Row
    BY <2>1, <2>2
  <2>5. sweep' \subseteq DOMAIN rows /\ UNCHANGED <<done, work, tx, faults>>
    BY <1>1 DEF ExpireOffers
  <2> HIDE DEF new
  <2>6. rows' \in Seq(Row) /\ DOMAIN rows' = DOMAIN rows
    BY <2>3, <2>4 DEF TypeOK
  <2>7. QED
    BY <2>5, <2>6 DEF TypeOK
<1>2. ASSUME NEW i \in sweep, NEW p \in Presences, ReplaceExpired(i, p)
      PROVE  TypeOK'
  <2>1. UNCHANGED <<done, work, tx, faults>> /\ sweep' \subseteq sweep
    BY <1>2 DEF ReplaceExpired
  <2>2. /\ rows[i].req \in Requests /\ rows[i].stage \in Stages
        /\ rows[i].admin \in Admins
    BY RowAt DEF TypeOK
  <2>3. \A row \in Replacements(i, p) : row \in Row
    <3> TAKE row \in Replacements(i, p)
    <3>1. \E second \in BOOLEAN, excluded \in SUBSET Admins :
            row \in Ladder(rows, rows[i].req, rows[i].stage, second, excluded, p)
      <4>1. {rows[i].admin} \in SUBSET Admins /\ {} \in SUBSET Admins
        BY <2>2
      <4>2. \/ row \in Ladder(rows, rows[i].req, rows[i].stage, FALSE, {rows[i].admin}, p)
            \/ row \in Ladder(rows, rows[i].req, rows[i].stage, TRUE, {}, p)
        BY Zenon DEF Replacements
      <4>3. QED
        BY <4>1, <4>2
    <3>2. QED
      BY <2>2, <3>1, LadderPicksOpenRows DEF TypeOK
  <2>4. UNCHANGED rows \/ \E row \in Row : rows' = Append(rows, row)
    BY <1>2, <2>3 DEF ReplaceExpired
  <2>5. rows' \in Seq(Row) /\ sweep' \subseteq DOMAIN rows'
    <3>1. CASE UNCHANGED rows
      BY <2>1, <3>1 DEF TypeOK
    <3>2. CASE \E row \in Row : rows' = Append(rows, row)
      BY <2>1, <3>2, TableAppend
    <3>3. QED
      BY <2>4, <3>1, <3>2
  <2>6. QED
    BY <2>1, <2>5 DEF TypeOK
<1>3. QED
  BY <1>1, <1>2 DEF SweepStep

LEMMA TypeStep == TypeOK /\ [Next]_vars => TypeOK'
<1> SUFFICES ASSUME TypeOK, [Next]_vars PROVE TypeOK'
  OBVIOUS
<1>1. ASSUME NEW c \in Callers, CallerStep(c) PROVE TypeOK'
  BY <1>1, StartTypeOK, ForcedTypeOK, LadderTypeOK, InsertTypeOK, AbortTypeOK,
     CompleteTypeOK DEF CallerStep
<1>2. CASE UNCHANGED vars
  BY <1>2 DEF vars, TypeOK
<1>3. QED
  BY <1>1, <1>2, InPlaceTypeOK, SweepTypeOK DEF Next

\* THE TYPE INVARIANT.  Every reachable state is well typed, whatever the
\* requests, the staff and the interleaving of transactions.
THEOREM TypeCorrect == Spec => []TypeOK
BY InitTypeOK, TypeStep, PTL DEF Spec

-----------------------------------------------------------------------------
(* What one step may do to the table *)

\* The inductive invariant.
IInv == TypeOK /\ OneOpenPerStage /\ UpdatesAreCurrent

\* A row keeps its task; once closed it keeps its outcome and its admin; once
\* assigned it can only be completed.
Evolves(old, new) ==
  /\ new.req = old.req /\ new.stage = old.stage
  /\ old.status \notin Open => new.status = old.status /\ new.admin = old.admin
  /\ old.status = "assigned" => new.status \in {"assigned", "completed"}

Rewritten ==
  /\ DOMAIN rows' = DOMAIN rows
  /\ \A i \in DOMAIN rows : Evolves(rows[i], rows'[i])

Inserted ==
  \E row \in Row : rows' = Append(rows, row) /\ OpenAt(rows, row.req, row.stage) = {}

LEMMA RewriteOne ==
  ASSUME TypeOK, NEW i \in DOMAIN rows, NEW row, Evolves(rows[i], row),
         rows' = [rows EXCEPT ![i] = row]
  PROVE  Rewritten
  BY DEF Rewritten, Evolves, TypeOK

LEMMA Untouched ==
  ASSUME TypeOK, UNCHANGED rows
  PROVE  Rewritten
<1>1. \A i \in DOMAIN rows : rows[i].status = "assigned"
        => rows[i].status \in {"assigned", "completed"}
  OBVIOUS
<1>2. QED
  BY <1>1 DEF Rewritten, Evolves

LEMMA CallerTableStep ==
  ASSUME IInv, NEW c \in Callers, CallerStep(c)
  PROVE  Rewritten \/ Inserted
<1> DEFINE t == tx[c]
<1> USE DEF IInv
<1>1. CASE AssignInsert(c)
  <2>1. t.pick \in Row
    BY <1>1, TxShapes DEF TypeOK, AssignInsert
  <2>2. CASE IndexAdmits(t.pick.req, t.pick.stage) /\ rows' = Append(rows, t.pick)
    BY <2>1, <2>2 DEF Inserted, IndexAdmits
  <2>3. CASE UNCHANGED rows
    BY <2>3, Untouched
  <2>4. QED
    BY <1>1, <2>2, <2>3 DEF AssignInsert
<1>2. CASE CompleteUpdate(c)
  <2> DEFINE row == [rows[t.sel] EXCEPT !.status = "completed"]
  <2>1. t.sel \in DOMAIN rows /\ rows[t.sel].status \in {"assigned", "completed"}
    BY <1>2 DEF CompleteUpdate, UpdatesAreCurrent
  <2>2. rows[t.sel] \in Row
    BY <2>1, RowAt
  <2>3. Evolves(rows[t.sel], row)
    BY <2>1, <2>2 DEF Evolves, Row, Open, Active
  <2>4. rows' = [rows EXCEPT ![t.sel] = row]
    BY <1>2 DEF CompleteUpdate
  <2> HIDE DEF row
  <2>5. QED
    BY <2>1, <2>3, <2>4, RewriteOne
<1>3. CASE UNCHANGED rows
  BY <1>3, Untouched
<1>4. CallerStep(c) => AssignInsert(c) \/ CompleteUpdate(c) \/ UNCHANGED rows
  BY DEF CallerStep, AssignStart, AssignForced, AssignLadder, AssignDeadlock,
         AssignReread, CompleteSelect, CompleteNothing, CompleteSync
<1>5. QED
  BY <1>1, <1>2, <1>3, <1>4

LEMMA AnswerTableStep ==
  ASSUME IInv, NEW i \in DOMAIN rows, AcceptOffer(i) \/ RejectOffer(i) \/ Lapse(i)
  PROVE  Rewritten
<1>1. TypeOK /\ rows[i] \in Row
  BY RowAt DEF IInv
<1>2. rows[i].status = "offered"
  BY DEF AcceptOffer, RejectOffer, Lapse
<1> DEFINE accepted == [rows[i] EXCEPT !.status = "assigned", !.reason = "accepted_offer"]
           refused  == [rows[i] EXCEPT !.status = "rejected", !.lapsed = FALSE,
              !.reason = IF @ = "quiet_offer" THEN "quiet_reject" ELSE "manual_reject"]
           silent   == [rows[i] EXCEPT !.lapsed = TRUE]
<1>3. /\ Evolves(rows[i], accepted) /\ Evolves(rows[i], refused)
      /\ Evolves(rows[i], silent)
  BY <1>1, <1>2 DEF Evolves, Row, Open, Active
<1>4. \/ rows' = [rows EXCEPT ![i] = accepted]
      \/ rows' = [rows EXCEPT ![i] = refused]
      \/ rows' = [rows EXCEPT ![i] = silent]
  BY DEF AcceptOffer, RejectOffer, Lapse
<1> HIDE DEF accepted, refused, silent
<1>5. QED
  BY <1>1, <1>3, <1>4, RewriteOne

LEMMA ReassignTableStep ==
  ASSUME IInv, NEW r \in Requests, NEW s \in Stages, NEW a \in Admins, Reassign(r, s, a)
  PROVE  Rewritten \/ Inserted
<1>1. ASSUME NEW i \in ActiveAt(rows, r, s),
             rows' = [rows EXCEPT ![i].admin = a, ![i].status = "assigned",
               ![i].attempt = 0, ![i].reason = "none", ![i].lapsed = FALSE]
      PROVE  Rewritten
  <2> DEFINE row == [rows[i] EXCEPT !.admin = a, !.status = "assigned",
                       !.attempt = 0, !.reason = "none", !.lapsed = FALSE]
  <2>1. i \in DOMAIN rows /\ rows[i].status = "assigned"
    BY DEF ActiveAt, OpenAt, Active
  <2>2. TypeOK /\ rows[i] \in Row
    BY <2>1, RowAt DEF IInv
  <2>3. Evolves(rows[i], row)
    BY <2>1, <2>2 DEF Evolves, Row, Open, Active
  <2>4. rows' = [rows EXCEPT ![i] = row]
    BY <1>1
  <2> HIDE DEF row
  <2>5. QED
    BY <2>1, <2>2, <2>3, <2>4, RewriteOne
<1>2. CASE IndexAdmits(r, s) /\ rows' = Append(rows, AssignedRow(r, s, a))
  <2>1. /\ AssignedRow(r, s, a) \in Row
        /\ AssignedRow(r, s, a).req = r /\ AssignedRow(r, s, a).stage = s
    BY DEF AssignedRow, Row, Statuses, Open, Active, Reasons
  <2>2. QED
    BY <1>2, <2>1 DEF Inserted, IndexAdmits
<1>3. CASE UNCHANGED rows
  BY <1>3, Untouched DEF IInv
<1>4. QED
  BY <1>1, <1>2, <1>3 DEF Reassign

LEMMA SweepTableStep ==
  ASSUME IInv, ExpireOffers \/ SweepStep
  PROVE  Rewritten \/ Inserted
<1>1. CASE ExpireOffers
  <2> DEFINE stale == {i \in DOMAIN rows : rows[i].status = "offered" /\ rows[i].lapsed}
             refused(i) == [rows[i] EXCEPT !.status = "rejected", !.lapsed = FALSE,
                                           !.reason = "second_silent_timeout"]
             skipped(i) == [rows[i] EXCEPT !.status = "skipped", !.lapsed = FALSE,
                                           !.reason = "silent_timeout"]
             new(i) == IF i \notin stale THEN rows[i]
                       ELSE IF SecondSilence(rows[i]) THEN refused(i) ELSE skipped(i)
  <2>1. \A i \in DOMAIN rows : rows[i] \in Row
    BY RowAt DEF IInv
  <2>2. \A i \in stale : Evolves(rows[i], refused(i)) /\ Evolves(rows[i], skipped(i))
    BY <2>1 DEF Evolves, Row, Open, Active
  <2>3. \A i \in DOMAIN rows : Evolves(rows[i], rows[i])
    BY DEF Evolves
  <2>4. rows' = [i \in DOMAIN rows |-> new(i)]
    BY <1>1 DEF ExpireOffers
  <2> HIDE DEF refused, skipped
  <2>5. \A i \in DOMAIN rows : Evolves(rows[i], new(i))
    BY <2>2, <2>3
  <2> HIDE DEF new
  <2>6. QED
    BY <2>4, <2>5 DEF Rewritten
<1>2. ASSUME NEW i \in sweep, NEW p \in Presences, ReplaceExpired(i, p)
      PROVE  Rewritten \/ Inserted
  <2> DEFINE r == rows[i].req
             s == rows[i].stage
  <2>1. /\ r \in Requests /\ s \in Stages /\ rows \in Seq(Row)
        /\ {rows[i].admin} \in SUBSET Admins /\ {} \in SUBSET Admins
    BY RowAt DEF IInv, TypeOK
  <2>2. ASSUME NEW row \in Replacements(i, p)
        PROVE  row \in Row /\ row.req = r /\ row.stage = s /\ IndexAdmits(r, s)
    <3>1. /\ IndexAdmits(r, s)
          /\ \/ row \in Ladder(rows, r, s, FALSE, {rows[i].admin}, p)
             \/ row \in Ladder(rows, r, s, TRUE, {}, p)
      BY Zenon DEF Replacements
    <3> HIDE DEF r, s
    <3>2. \E second \in BOOLEAN, excluded \in SUBSET Admins :
            row \in Ladder(rows, r, s, second, excluded, p)
      BY <2>1, <3>1
    <3>3. row \in Row /\ row.req = r /\ row.stage = s
      BY <2>1, <3>2, LadderPicksOpenRows
    <3>4. QED
      BY <3>1, <3>3
  <2>3. UNCHANGED rows \/ \E row \in Replacements(i, p) : rows' = Append(rows, row)
    BY <1>2 DEF ReplaceExpired
  <2>4. CASE UNCHANGED rows
    BY <2>4, Untouched DEF IInv
  <2>5. CASE \E row \in Replacements(i, p) : rows' = Append(rows, row)
    BY <2>2, <2>5 DEF Inserted, IndexAdmits
  <2>6. QED
    BY <2>3, <2>4, <2>5
<1>3. QED
  BY <1>1, <1>2 DEF SweepStep

\* Every step rewrites rows in place or inserts one that the index admits.
LEMMA TableStep ==
  ASSUME IInv, [Next]_vars
  PROVE  Rewritten \/ Inserted
<1>1. ASSUME NEW a \in Admins, NewDay(a) PROVE Rewritten
  <2>1. \A i \in DOMAIN rows : rows[i] \in Row
    BY RowAt DEF IInv
  <2>2. \A i \in DOMAIN rows : Evolves(rows[i], [rows[i] EXCEPT !.today = FALSE])
    BY <2>1 DEF Evolves, Row
  <2>3. \A i \in DOMAIN rows : Evolves(rows[i], rows[i])
    BY DEF Evolves
  <2> DEFINE new(i) == IF rows[i].admin = a THEN [rows[i] EXCEPT !.today = FALSE]
                       ELSE rows[i]
  <2>4. rows' = [i \in DOMAIN rows |-> new(i)]
    BY <1>1 DEF NewDay
  <2>5. \A i \in DOMAIN rows : Evolves(rows[i], new(i))
    BY <2>2, <2>3
  <2> HIDE DEF new
  <2>6. QED
    BY <2>4, <2>5 DEF Rewritten
<1>2. ASSUME (\E r \in Requests : CancelWork(r)) \/ UNCHANGED vars
      PROVE  Rewritten
  BY <1>2, Untouched DEF CancelWork, vars, IInv
<1>3. QED
  BY <1>1, <1>2, CallerTableStep, AnswerTableStep, ReassignTableStep, SweepTableStep
     DEF Next

\* Rewriting in place keeps the open rows of a stage among those it had.
LEMMA RewritingOpensNothing ==
  ASSUME Rewritten, NEW r \in Requests, NEW s \in Stages
  PROVE  OpenAt(rows', r, s) \subseteq OpenAt(rows, r, s)
BY DEF Rewritten, Evolves, OpenAt

LEMMA StepKeepsOneOpen ==
  ASSUME TypeOK, OneOpenPerStage, Rewritten \/ Inserted
  PROVE  OneOpenPerStage'
<1> SUFFICES ASSUME NEW r \in Requests, NEW s \in Stages,
                    NEW i \in OpenAt(rows', r, s), NEW j \in OpenAt(rows', r, s)
             PROVE  i = j
  BY DEF OneOpenPerStage
<1>1. CASE Rewritten
  BY <1>1, RewritingOpensNothing DEF OneOpenPerStage
<1>2. CASE Inserted
  <2>1. PICK row \in Row : /\ rows' = Append(rows, row)
                           /\ OpenAt(rows, row.req, row.stage) = {}
    BY <1>2 DEF Inserted
  <2>2. rows \in Seq(Row) /\ Len(rows) \in Nat
    BY DEF TypeOK
  <2>3. \A k \in OpenAt(rows', r, s) :
          \/ k \in OpenAt(rows, r, s)
          \/ k = Len(rows) + 1 /\ row.req = r /\ row.stage = s
    BY <2>1, <2>2 DEF OpenAt
  <2>4. QED
    BY <2>1, <2>3 DEF OneOpenPerStage
<1>3. QED
  BY <1>1, <1>2

LEMMA StepKeepsUpdatesCurrent ==
  ASSUME IInv, [Next]_vars, Rewritten \/ Inserted
  PROVE  UpdatesAreCurrent'
<1> DEFINE Points(i) == i \in DOMAIN rows /\ rows[i].status \in {"assigned", "completed"}
<1>1. \A i : Points(i) => Points(i)'
  <2> SUFFICES ASSUME NEW i, Points(i) PROVE Points(i)'
    OBVIOUS
  <2>1. CASE Rewritten
    BY <2>1 DEF Rewritten, Evolves, Open, Active
  <2>2. CASE Inserted
    <3>1. PICK row \in Row : rows' = Append(rows, row)
      BY <2>2 DEF Inserted
    <3>2. rows \in Seq(Row)
      BY DEF IInv, TypeOK
    <3>3. QED
      BY <3>1, <3>2
  <2>3. QED
    BY <2>1, <2>2
<1>2. \A c \in Callers : tx'[c].pc = "update" =>
         \/ tx'[c] = tx[c]
         \/ rows[tx'[c].sel].status = "assigned" /\ tx'[c].sel \in DOMAIN rows
  <2> TAKE c \in Callers
  <2>1. ASSUME NEW d \in Callers, CallerStep(d), tx'[c].pc = "update"
        PROVE  \/ tx'[c] = tx[c]
               \/ rows[tx'[c].sel].status = "assigned" /\ tx'[c].sel \in DOMAIN rows
    <3>1. tx \in [Callers -> Tx]
      BY DEF IInv, TypeOK
    <3>2. CASE c # d
      <4>1. \A v : [tx EXCEPT ![d] = v][c] = tx[c]
        BY <3>1, <3>2
      <4>2. \E v : tx' = [tx EXCEPT ![d] = v]
        BY <2>1, Zenon DEF CallerStep, AssignStart, AssignForced, AssignLadder, AssignDeadlock,
           AssignInsert, AssignReread, CompleteSelect, CompleteUpdate, CompleteNothing,
           CompleteSync
      <4>3. QED
        BY <4>1, <4>2
    <3>3. CASE c = d
      <4>1. ASSUME NEW i \in DOMAIN rows, CompleteSelect(c, i)
            PROVE  rows[tx'[c].sel].status = "assigned" /\ tx'[c].sel \in DOMAIN rows
        BY <3>1, <4>1 DEF CompleteSelect, Active
      <4>2. CASE \E i \in DOMAIN rows : CompleteSelect(c, i)
        BY <4>1, <4>2
      <4>3. CASE ~\E i \in DOMAIN rows : CompleteSelect(c, i)
        BY <2>1, <3>1, <3>3, <4>3 DEF CallerStep, AssignStart, AssignForced,
           AssignLadder, AssignDeadlock, AssignInsert, AssignReread, CompleteUpdate,
           CompleteNothing, CompleteSync, Idle
      <4>4. QED
        BY <4>2, <4>3
    <3>4. QED
      BY <3>2, <3>3
  <2>2. (\A d \in Callers : ~CallerStep(d)) => UNCHANGED tx
    BY DEF Next, vars, SweepStep, ReplaceExpired, AcceptOffer, RejectOffer, Lapse,
           Reassign, ExpireOffers, NewDay, CancelWork
  <2>3. QED
    BY <2>1, <2>2
<1>3. \A c \in Callers : tx[c].pc = "update" => Points(tx[c].sel)
  BY DEF IInv, UpdatesAreCurrent
<1>4. \A c \in Callers : tx'[c].pc = "update" => Points(tx'[c].sel)
  BY <1>2, <1>3
<1>5. QED
  BY <1>1, <1>4 DEF UpdatesAreCurrent

LEMMA Inductive == IInv /\ [Next]_vars => IInv'
<1> SUFFICES ASSUME IInv, [Next]_vars PROVE IInv'
  OBVIOUS
<1>1. TypeOK'
  BY TypeStep DEF IInv
<1>2. Rewritten \/ Inserted
  BY TableStep
<1>3. QED
  BY <1>1, <1>2, StepKeepsOneOpen, StepKeepsUpdatesCurrent DEF IInv

\* AT MOST ONE OPEN ROW.  The savepoint around the insert, the in-place updates
\* and the sweep keep the partial unique index for any number of callers.
THEOREM OneOpenAssignment == Spec => []OneOpenPerStage
<1>1. Init => IInv
  <2>1. Init => OneOpenPerStage /\ UpdatesAreCurrent
    BY DEF Init, OneOpenPerStage, OpenAt, UpdatesAreCurrent, Idle
  <2>2. QED
    BY <2>1, InitTypeOK DEF IInv
<1>2. IInv => OneOpenPerStage
  BY DEF IInv
<1>3. QED
  BY <1>1, <1>2, Inductive, PTL DEF Spec

\* CLOSED ROWS ARE HISTORY.  No step changes the outcome or the admin of a row
\* that has been completed, skipped or rejected.
THEOREM ClosedRowsAreHistory == Spec => ClosedRowsFrozen
<1> DEFINE Frozen == \A i \in DOMAIN rows : rows[i].status \notin Open =>
                        /\ rows'[i].status = rows[i].status
                        /\ rows'[i].admin = rows[i].admin
<1>1. Init => IInv
  <2>1. Init => OneOpenPerStage /\ UpdatesAreCurrent
    BY DEF Init, OneOpenPerStage, OpenAt, UpdatesAreCurrent, Idle
  <2>2. QED
    BY <2>1, InitTypeOK DEF IInv
<1>2. IInv /\ [Next]_vars => Frozen
  <2> SUFFICES ASSUME IInv, [Next]_vars PROVE Frozen
    OBVIOUS
  <2>1. CASE Rewritten
    BY <2>1 DEF Rewritten, Evolves
  <2>2. CASE Inserted
    <3>1. PICK row \in Row : rows' = Append(rows, row)
      BY <2>2 DEF Inserted
    <3>2. rows \in Seq(Row)
      BY DEF IInv, TypeOK
    <3>3. QED
      BY <3>1, <3>2
  <2>3. QED
    BY <2>1, <2>2, TableStep
<1> HIDE DEF Frozen
<1>3. [][Frozen]_vars => ClosedRowsFrozen
  BY DEF ClosedRowsFrozen, Frozen
<1>4. QED
  BY <1>1, <1>2, <1>3, Inductive, PTL DEF Spec

\* NO STALE UPDATE.  A transaction about to update a row it selected earlier points
\* at the row it selected: nothing that ran meanwhile took the row from under it.
THEOREM UpdatesStayCurrent == Spec => []UpdatesAreCurrent
<1>1. Init => IInv
  <2>1. Init => OneOpenPerStage /\ UpdatesAreCurrent
    BY DEF Init, OneOpenPerStage, OpenAt, UpdatesAreCurrent, Idle
  <2>2. QED
    BY <2>1, InitTypeOK DEF IInv
<1>2. IInv => UpdatesAreCurrent
  BY DEF IInv
<1>3. QED
  BY <1>1, <1>2, Inductive, PTL DEF Spec

-----------------------------------------------------------------------------
(* The linked work items *)

\* A work item no admin had claimed is claimed by nothing here: neither the item nor what
\* a running completion saw of it says so.
NotSeenClaimed(t) ==
  t.pc \in {"update", "sync"} /\ t.req \notin Claimed => t.seen.status # "claimed"

NobodyClaims ==
  /\ \A r \in Requests \ Claimed : work[r].status # "claimed"
  /\ \A c \in Callers : NotSeenClaimed(tx[c])

\* What writing a completion back does to the work items, however stale the item it saw:
\* the columns that differ are written, and "open" is what an unclaimed item said before.
LEMMA SyncEffect ==
  ASSUME TypeOK, NEW r \in Requests, NEW s \in Stages, NEW seen \in Work, SyncWork(r, s, seen)
  PROVE  /\ \A q \in Requests \ {r} : work'[q] = work[q]
         /\ seen.status # "claimed" =>
              /\ work[r].status \in Terminal => work'[r].status \in Terminal
              /\ work[r].status # "claimed" => work'[r].status # "claimed"
<1> DEFINE after == AfterStage(s, seen)
           written == [stage  |-> IF after.stage = seen.stage THEN work[r].stage ELSE after.stage,
                       status |-> IF after.status = seen.status THEN work[r].status ELSE after.status]
<1>1. CASE work' = work BY <1>1
<1>2. CASE seen.status \notin {"none"} \cup Terminal /\ work' = [work EXCEPT ![r] = written]
  <2>1. after.status \in {"open", "done"}
    <3>1. s \in {"levi", "senku", "gojo"} BY EngineAssumption
    <3>2. [seen EXCEPT !.status = "done"].status = "done" BY DEF Work
    <3> QED BY <3>1, <3>2 DEF AfterStage
  <2>2. seen.status \in {"open", "claimed"} BY <1>2 DEF Work, Terminal
  <2>3. work'[r] = written /\ \A q \in Requests \ {r} : work'[q] = work[q] BY <1>2 DEF TypeOK
  <2> HIDE DEF after
  <2>4. written.status = IF after.status = seen.status THEN work[r].status ELSE after.status OBVIOUS
  <2> QED BY <2>1, <2>2, <2>3, <2>4 DEF Terminal
<1> QED BY <1>1, <1>2 DEF SyncWork

\* What a step does to the work items: nothing, a cancellation, or a completion's write.
LEMMA WorkStep ==
  ASSUME TypeOK, NobodyClaims, [Next]_vars, NEW r \in Requests \ Claimed
  PROVE  /\ work[r].status \in Terminal => work'[r].status \in Terminal
         /\ work'[r].status # "claimed"
<1>0. work[r].status # "claimed" BY DEF NobodyClaims
<1>1. ASSUME NEW c \in Callers, CompleteUpdate(c) \/ CompleteSync(c)
      PROVE  /\ work[r].status \in Terminal => work'[r].status \in Terminal
             /\ work'[r].status # "claimed"
  <2> DEFINE t == tx[c]
  <2>1. t \in Tx /\ t.pc \in {"update", "sync"} BY <1>1 DEF CompleteUpdate, CompleteSync, TypeOK
  <2>2. t.req \in Requests /\ t.stage \in Stages /\ t.seen \in Work BY <2>1, TxShapes
  <2>3. SyncWork(t.req, t.stage, t.seen) BY <1>1 DEF CompleteUpdate, CompleteSync
  <2>4. CASE t.req = r
    <3>1. t.seen.status # "claimed" BY <2>1, <2>4 DEF NobodyClaims, NotSeenClaimed
    <3> QED BY <1>0, <2>2, <2>3, <2>4, <3>1, SyncEffect
  <2>5. CASE t.req # r
    <3>1. work'[r] = work[r] BY <2>2, <2>3, <2>5, SyncEffect
    <3> QED BY <1>0, <3>1
  <2> QED BY <2>4, <2>5
<1>2. ASSUME NEW q \in Requests, CancelWork(q)
      PROVE  /\ work[r].status \in Terminal => work'[r].status \in Terminal
             /\ work'[r].status # "claimed"
  <2>1. work[q] \in Work BY DEF TypeOK
  <2>2. work' = [work EXCEPT ![q] = [work[q] EXCEPT !.status = "cancelled"]] BY <1>2 DEF CancelWork
  <2>3. [work[q] EXCEPT !.status = "cancelled"].status = "cancelled" BY <2>1 DEF Work
  <2> QED BY <1>0, <2>2, <2>3 DEF TypeOK, Terminal
<1>3. CASE work' = work BY <1>0, <1>3
<1> QED BY <1>1, <1>2, <1>3
        DEF Next, vars, CallerStep, AssignStart, AssignForced, AssignLadder, AssignDeadlock, AssignInsert,
            AssignReread, CompleteSelect, CompleteNothing, SweepStep, ReplaceExpired, AcceptOffer,
            RejectOffer, Lapse, Reassign, ExpireOffers, NewDay

\* A completion starts from the work item as it then is.
LEMMA SeenStep ==
  ASSUME TypeOK, NobodyClaims, [Next]_vars, NEW c \in Callers
  PROVE  NotSeenClaimed(tx'[c])
<1>0. NotSeenClaimed(tx[c]) /\ tx \in [Callers -> Tx] BY DEF NobodyClaims, TypeOK
<1>1. ASSUME NEW d \in Callers, NEW t, tx' = [tx EXCEPT ![d] = t], NotSeenClaimed(t)
      PROVE  NotSeenClaimed(tx'[c])
  BY <1>0, <1>1
<1>2. ASSUME NEW d \in Callers, CallerStep(d) PROVE NotSeenClaimed(tx'[c])
  <2>1. ASSUME NEW i \in DOMAIN rows, CompleteSelect(d, i) PROVE NotSeenClaimed(tx'[c])
    <3> DEFINE t == [pc |-> "update", sel |-> i, req |-> rows[i].req,
                     stage |-> rows[i].stage, admin |-> rows[i].admin,
                     seen |-> work[rows[i].req]]
    <3>1. rows[i].req \in Requests BY RowAt DEF TypeOK, Row
    <3>2. t.req = rows[i].req /\ t.seen = work[rows[i].req] OBVIOUS
    <3>3. tx' = [tx EXCEPT ![d] = t] BY <2>1 DEF CompleteSelect
    <3> HIDE DEF t
    <3>4. NotSeenClaimed(t) BY <3>1, <3>2 DEF NotSeenClaimed, NobodyClaims
    <3> QED BY <1>1, <3>3, <3>4
  <2>2. ASSUME NEW r \in Requests, NEW s \in Stages, CompleteNothing(d, r, s) PROVE NotSeenClaimed(tx'[c])
    <3> DEFINE t == [pc |-> "sync", req |-> r, stage |-> s, seen |-> work[r]]
    <3>1. t.req = r /\ t.seen = work[r] OBVIOUS
    <3>2. tx' = [tx EXCEPT ![d] = t] BY <2>2 DEF CompleteNothing
    <3> HIDE DEF t
    <3>3. NotSeenClaimed(t) BY <3>1 DEF NotSeenClaimed, NobodyClaims
    <3> QED BY <1>1, <3>2, <3>3
  <2>3. CASE \E t : tx' = [tx EXCEPT ![d] = t] /\ t.pc \notin {"update", "sync"}
    BY <1>1, <2>3 DEF NotSeenClaimed
  <2>4. CASE \/ \E r \in Requests, s \in Stages, second \in BOOLEAN, pref \in Preferred \cup {Nobody} :
                   AssignStart(d, r, s, second, pref)
             \/ \E presence \in Presence : AssignForced(d, presence)
             \/ \E p \in Presences : AssignLadder(d, p)
             \/ AssignDeadlock(d) \/ AssignInsert(d) \/ AssignReread(d)
             \/ CompleteUpdate(d) \/ CompleteSync(d)
    <3>1. \E t : tx' = [tx EXCEPT ![d] = t] /\ t.pc \notin {"update", "sync"}
      <4>1. CASE tx' = [tx EXCEPT ![d] = Idle]
        <5>1. Idle.pc = "idle" BY DEF Idle
        <5> QED BY <4>1, <5>1
      <4>2. ASSUME NEW r, NEW s, NEW second, NEW pref, AssignStart(d, r, s, second, pref)
            PROVE  \E t : tx' = [tx EXCEPT ![d] = t] /\ t.pc \notin {"update", "sync"}
        <5> DEFINE t1 == [pc |-> "ladder", req |-> r, stage |-> s, second |-> second, held |-> {}]
                   t2 == [pc |-> "forced", req |-> r, stage |-> s, second |-> second, pref |-> pref]
        <5>1. tx' = [tx EXCEPT ![d] = t1] \/ tx' = [tx EXCEPT ![d] = t2] BY <4>2 DEF AssignStart
        <5>2. t1.pc = "ladder" /\ t2.pc = "forced" OBVIOUS
        <5> HIDE DEF t1, t2
        <5> QED BY <5>1, <5>2
      <4>3. ASSUME NEW presence, AssignForced(d, presence)
            PROVE  \E t : tx' = [tx EXCEPT ![d] = t] /\ t.pc \notin {"update", "sync"}
        <5> DEFINE t1 == [pc |-> "insert", pick |-> AssignedRow(tx[d].req, tx[d].stage, tx[d].pref),
                          held |-> {tx[d].pref}]
                   t2 == [pc |-> "ladder", req |-> tx[d].req, stage |-> tx[d].stage,
                          second |-> tx[d].second, held |-> {tx[d].pref}]
        <5>1. tx' = [tx EXCEPT ![d] = t1] \/ tx' = [tx EXCEPT ![d] = t2] BY <4>3 DEF AssignForced
        <5>2. t1.pc = "insert" /\ t2.pc = "ladder" OBVIOUS
        <5> HIDE DEF t1, t2
        <5> QED BY <5>1, <5>2
      <4>4. ASSUME NEW row, tx' = [tx EXCEPT ![d] = [pc |-> "insert", pick |-> row, held |-> Admins]]
            PROVE  \E t : tx' = [tx EXCEPT ![d] = t] /\ t.pc \notin {"update", "sync"}
        <5> DEFINE t1 == [pc |-> "insert", pick |-> row, held |-> Admins]
        <5>1. tx' = [tx EXCEPT ![d] = t1] /\ t1.pc = "insert" BY <4>4
        <5> HIDE DEF t1
        <5> QED BY <5>1
      <4>5. CASE AssignInsert(d)
        <5> DEFINE t1 == [pc |-> "reread", req |-> tx[d].pick.req, stage |-> tx[d].pick.stage,
                          held |-> tx[d].held]
        <5>1. tx' = [tx EXCEPT ![d] = Idle] \/ tx' = [tx EXCEPT ![d] = t1] BY <4>5 DEF AssignInsert
        <5>2. t1.pc = "reread" OBVIOUS
        <5> HIDE DEF t1
        <5> QED BY <4>1, <5>1, <5>2
      <4> QED BY <2>4, <4>1, <4>2, <4>3, <4>4, <4>5
              DEF AssignLadder, AssignDeadlock, AssignReread, CompleteUpdate, CompleteSync
    <3> QED BY <2>3, <3>1
  <2> QED BY <1>2, <2>1, <2>2, <2>4 DEF CallerStep
<1>3. CASE tx' = tx BY <1>0, <1>3
<1> QED BY <1>2, <1>3
        DEF Next, vars, SweepStep, ReplaceExpired, AcceptOffer, RejectOffer, Lapse, Reassign,
            ExpireOffers, NewDay, CancelWork

LEMMA ClaimInductive == TypeOK /\ NobodyClaims /\ [Next]_vars => NobodyClaims'
<1> SUFFICES ASSUME TypeOK, NobodyClaims, [Next]_vars PROVE NobodyClaims' OBVIOUS
<1>1. \A c \in Callers : NotSeenClaimed(tx'[c]) BY SeenStep
<1>2. \A r \in Requests \ Claimed : work'[r].status # "claimed" BY WorkStep
<1> QED BY <1>1, <1>2 DEF NobodyClaims, NotSeenClaimed

\* A CLOSED WORK ITEM STAYS CLOSED.  Whatever completions, late or doubled, and the
\* owner's cancel do to each other, an item that nobody had claimed is not reopened.
THEOREM UnclaimedWorkStaysClosed ==
  Spec => [][\A r \in Requests \ Claimed :
               work[r].status \in Terminal => work'[r].status \in Terminal]_vars
<1> DEFINE Stays == \A r \in Requests \ Claimed :
                      work[r].status \in Terminal => work'[r].status \in Terminal
<1>1. Init => NobodyClaims
  BY EngineAssumption DEF Init, NobodyClaims, NotSeenClaimed, Idle
<1>2. TypeOK /\ NobodyClaims /\ [Next]_vars => Stays BY WorkStep
<1> HIDE DEF Stays
<1>3. Spec => [][Stays]_vars
  BY <1>1, <1>2, InitTypeOK, TypeStep, ClaimInductive, PTL DEF Spec
<1> QED BY <1>3 DEF Stays

\* A claimed one is reopened by nothing else.  Late and doubled completions, the owner's
\* cancel, reassignments and the sweep may meet in any order: what makes a cancelled or
\* finished item open again is a completion that read it claimed.
THEOREM TerminalWorkIsClosed == Spec => TerminalWorkStaysClosed
<1> DEFINE Stays == \A r \in Requests :
              work[r].status \in Terminal => work'[r].status \in Terminal \/ StaleClaim(r)
<1>1. TypeOK /\ [Next]_vars => Stays
  <2> SUFFICES ASSUME TypeOK, [Next]_vars, NEW r \in Requests, work[r].status \in Terminal,
                      ~StaleClaim(r)
               PROVE  work'[r].status \in Terminal
    OBVIOUS
  <2>1. ASSUME NEW c \in Callers, CompleteUpdate(c) \/ CompleteSync(c)
        PROVE  work'[r].status \in Terminal
    <3> DEFINE t == tx[c]
    <3>1. t \in Tx /\ t.pc \in {"update", "sync"} BY <2>1 DEF CompleteUpdate, CompleteSync, TypeOK
    <3>2. t.req \in Requests /\ t.stage \in Stages /\ t.seen \in Work BY <3>1, TxShapes
    <3>3. SyncWork(t.req, t.stage, t.seen) BY <2>1 DEF CompleteUpdate, CompleteSync
    <3>4. t.req = r => t.seen.status # "claimed" BY <3>1 DEF StaleClaim
    <3> QED BY <3>2, <3>3, <3>4, SyncEffect
  <2>2. ASSUME NEW q \in Requests, CancelWork(q) PROVE work'[r].status \in Terminal
    <3>1. work[q] \in Work BY DEF TypeOK
    <3>2. work' = [work EXCEPT ![q] = [work[q] EXCEPT !.status = "cancelled"]] BY <2>2 DEF CancelWork
    <3>3. [work[q] EXCEPT !.status = "cancelled"].status = "cancelled" BY <3>1 DEF Work
    <3> QED BY <3>2, <3>3 DEF TypeOK, Terminal
  <2>3. CASE work' = work BY <2>3
  <2> QED BY <2>1, <2>2, <2>3
          DEF Next, vars, CallerStep, AssignStart, AssignForced, AssignLadder, AssignDeadlock,
              AssignInsert, AssignReread, CompleteSelect, CompleteNothing, SweepStep, ReplaceExpired,
              AcceptOffer, RejectOffer, Lapse, Reassign, ExpireOffers, NewDay
<1> HIDE DEF Stays
<1>2. [][Stays]_vars => TerminalWorkStaysClosed BY DEF Stays, TerminalWorkStaysClosed
<1> QED BY <1>1, <1>2, InitTypeOK, TypeStep, PTL DEF Spec

-----------------------------------------------------------------------------
(* The refinement *)

\* The slot of a table, and what an open row says about its slot.
Says(row) == [state |-> IF row.status = "offered" THEN "on_offer" ELSE "held",
              admin |-> row.admin]

SlotIn(rs, r, s) ==
  IF OpenAt(rs, r, s) = {} THEN [state |-> "free"]
  ELSE Says(rs[CHOOSE i \in OpenAt(rs, r, s) : TRUE])

Keys == Requests \X Stages
SlotsIn(rs) == [k \in Keys |-> SlotIn(rs, k[1], k[2])]

Unique(rs) == \A r \in Requests, s \in Stages : \A i, j \in OpenAt(rs, r, s) : i = j

\* Both sides of the mapping in terms of the table alone.
LEMMA MappingIsSlotsIn ==
  /\ [k \in Requests \X Stages |-> SlotOf(k[1], k[2])] = SlotsIn(rows)
  /\ [k \in Requests \X Stages |-> SlotOf(k[1], k[2])]' = SlotsIn(rows')
  BY DEF SlotsIn, SlotIn, SlotOf, Says, Keys

\* A stage's slot is free, or says what its one open row says.
LEMMA SlotOfOpenRow ==
  ASSUME NEW rs, Unique(rs), NEW r \in Requests, NEW s \in Stages, NEW i \in OpenAt(rs, r, s)
  PROVE  SlotIn(rs, r, s) = Says(rs[i])
<1>1. (CHOOSE j \in OpenAt(rs, r, s) : TRUE) \in OpenAt(rs, r, s)
  OBVIOUS
<1>2. (CHOOSE j \in OpenAt(rs, r, s) : TRUE) = i
  BY <1>1 DEF Unique
<1>3. QED
  BY <1>2, Zenon DEF SlotIn

LEMMA SlotOfNoRow ==
  ASSUME NEW rs, NEW r, NEW s, OpenAt(rs, r, s) = {}
  PROVE  SlotIn(rs, r, s) = [state |-> "free"]
  BY DEF SlotIn

\* Rows rewritten in place: each slot goes from what its open row said to what
\* the row says now, or to free if it was closed.
LEMMA SlotAfterRewriting ==
  ASSUME NEW rs, NEW new, Unique(rs), DOMAIN new = DOMAIN rs,
         \A i \in DOMAIN rs : Evolves(rs[i], new[i]),
         NEW r \in Requests, NEW s \in Stages
  PROVE  /\ OpenAt(rs, r, s) = {} => SlotIn(new, r, s) = SlotIn(rs, r, s)
         /\ \A i \in OpenAt(rs, r, s) :
              /\ SlotIn(rs, r, s) = Says(rs[i])
              /\ SlotIn(new, r, s) = IF new[i].status \in Open THEN Says(new[i])
                                     ELSE [state |-> "free"]
<1>1. OpenAt(new, r, s) \subseteq OpenAt(rs, r, s)
  BY DEF OpenAt, Evolves
<1>2. Unique(new)
  <2>1. \A q \in Requests, t \in Stages : OpenAt(new, q, t) \subseteq OpenAt(rs, q, t)
    BY DEF OpenAt, Evolves
  <2>2. QED
    BY <2>1 DEF Unique
<1>3. OpenAt(rs, r, s) = {} => SlotIn(new, r, s) = SlotIn(rs, r, s)
  BY <1>1, SlotOfNoRow
<1>4. ASSUME NEW i \in OpenAt(rs, r, s)
      PROVE  /\ SlotIn(rs, r, s) = Says(rs[i])
             /\ SlotIn(new, r, s) = IF new[i].status \in Open THEN Says(new[i])
                                    ELSE [state |-> "free"]
  <2>1. SlotIn(rs, r, s) = Says(rs[i])
    BY SlotOfOpenRow
  <2>2. CASE new[i].status \in Open
    <3>1. i \in OpenAt(new, r, s)
      BY <2>2 DEF OpenAt, Evolves
    <3>2. SlotIn(new, r, s) = Says(new[i])
      BY <1>2, <3>1, SlotOfOpenRow
    <3>3. QED
      BY <2>1, <2>2, <3>2
  <2>3. CASE new[i].status \notin Open
    <3>1. OpenAt(new, r, s) = {}
      <4>1. \A j \in OpenAt(new, r, s) : j = i
        BY <1>1 DEF Unique
      <4>2. i \notin OpenAt(new, r, s)
        BY <2>3 DEF OpenAt
      <4>3. QED
        BY <4>1, <4>2
    <3>2. QED
      BY <2>1, <2>3, <3>1, SlotOfNoRow
  <2>4. QED
    BY <2>2, <2>3
<1>5. QED
  BY <1>3, <1>4

\* Rows that go on saying what they said change no slot.
LEMMA SlotsKept ==
  ASSUME NEW rs, NEW new, Unique(rs), DOMAIN new = DOMAIN rs,
         \A i \in DOMAIN rs : /\ Evolves(rs[i], new[i])
                              /\ rs[i].status \in Open =>
                                   /\ new[i].status \in Open
                                   /\ Says(new[i]) = Says(rs[i])
  PROVE  SlotsIn(new) = SlotsIn(rs)
<1>1. ASSUME NEW r \in Requests, NEW s \in Stages
      PROVE  SlotIn(new, r, s) = SlotIn(rs, r, s)
  <2>1. CASE OpenAt(rs, r, s) = {}
    BY <2>1, SlotAfterRewriting
  <2>2. CASE OpenAt(rs, r, s) # {}
    <3>1. PICK i \in OpenAt(rs, r, s) : TRUE
      BY <2>2
    <3>2. i \in DOMAIN rs /\ rs[i].status \in Open
      BY DEF OpenAt
    <3>3. QED
      BY <3>1, <3>2, SlotAfterRewriting
  <2>3. QED
    BY <2>1, <2>2
<1>2. QED
  BY <1>1 DEF SlotsIn, Keys

\* One open row rewritten in place changes its own slot only.
LEMMA OneSlotMoves ==
  ASSUME NEW rs \in Seq(Row), Unique(rs), NEW i \in DOMAIN rs, NEW row,
         Evolves(rs[i], row), rs[i].status \in Open
  PROVE  LET k  == <<rs[i].req, rs[i].stage>>
             to == IF row.status \in Open THEN Says(row) ELSE [state |-> "free"]
         IN  /\ k \in Keys
             /\ SlotsIn(rs)[k] = Says(rs[i])
             /\ SlotsIn([rs EXCEPT ![i] = row]) = [SlotsIn(rs) EXCEPT ![k] = to]
<1> DEFINE new == [rs EXCEPT ![i] = row]
           r == rs[i].req
           s == rs[i].stage
           to == IF row.status \in Open THEN Says(row) ELSE [state |-> "free"]
<1>1. r \in Requests /\ s \in Stages
  <2>1. rs[i] \in Row
    OBVIOUS
  <2>2. QED
    BY <2>1 DEF Row
<1>2. /\ DOMAIN new = DOMAIN rs /\ new[i] = row
      /\ \A j \in DOMAIN rs : j # i => new[j] = rs[j]
  OBVIOUS
<1> HIDE DEF new
<1>3. \A j \in DOMAIN rs : Evolves(rs[j], new[j])
  BY <1>2 DEF Evolves
<1>4. i \in OpenAt(rs, r, s)
  BY DEF OpenAt
<1>5. SlotIn(rs, r, s) = Says(rs[i]) /\ SlotIn(new, r, s) = to
  BY <1>1, <1>2, <1>3, <1>4, SlotAfterRewriting
<1>6. ASSUME NEW q \in Requests, NEW t \in Stages, <<q, t>> # <<r, s>>
      PROVE  SlotIn(new, q, t) = SlotIn(rs, q, t)
  <2>1. CASE OpenAt(rs, q, t) = {}
    BY <1>2, <1>3, <2>1, SlotAfterRewriting
  <2>2. CASE OpenAt(rs, q, t) # {}
    <3>1. PICK j \in OpenAt(rs, q, t) : TRUE
      BY <2>2
    <3>2. j # i /\ j \in DOMAIN rs /\ rs[j].status \in Open
      BY <1>6, <3>1 DEF OpenAt
    <3>3. QED
      BY <1>2, <1>3, <3>1, <3>2, SlotAfterRewriting
  <2>3. QED
    BY <2>1, <2>2
<1> HIDE DEF r, s, to
<1>7. SlotsIn(new) = [SlotsIn(rs) EXCEPT ![<<r, s>>] = to]
  <2>1. ASSUME NEW q \in Requests, NEW t \in Stages
        PROVE  SlotIn(new, q, t) = IF <<q, t>> = <<r, s>> THEN to ELSE SlotIn(rs, q, t)
    BY <1>5, <1>6
  <2>2. SlotsIn(new) = [k \in Keys |-> IF k = <<r, s>> THEN to ELSE SlotIn(rs, k[1], k[2])]
    BY <2>1 DEF SlotsIn, Keys
  <2>3. QED
    BY <2>2, Zenon DEF SlotsIn
<1>8. <<r, s>> \in Keys /\ SlotsIn(rs)[<<r, s>>] = Says(rs[i])
  BY <1>1, <1>5 DEF SlotsIn, Keys
<1>9. QED
  BY <1>7, <1>8 DEF r, s, to, new

\* A row the index admits changes its own slot only, which was free.
LEMMA InsertFillsSlot ==
  ASSUME NEW rs \in Seq(Row), Unique(rs), NEW row \in Row,
         OpenAt(rs, row.req, row.stage) = {}
  PROVE  LET k  == <<row.req, row.stage>>
             to == IF row.status \in Open THEN Says(row) ELSE [state |-> "free"]
         IN  /\ k \in Keys
             /\ SlotsIn(rs)[k] = [state |-> "free"]
             /\ SlotsIn(Append(rs, row)) = [SlotsIn(rs) EXCEPT ![k] = to]
<1> DEFINE new == Append(rs, row)
           n == Len(rs) + 1
           r == row.req
           s == row.stage
           to == IF row.status \in Open THEN Says(row) ELSE [state |-> "free"]
<1>1. r \in Requests /\ s \in Stages
  BY DEF Row
<1>2. /\ DOMAIN new = DOMAIN rs \cup {n} /\ n \notin DOMAIN rs
      /\ new[n] = row /\ \A j \in DOMAIN rs : new[j] = rs[j]
  OBVIOUS
<1> HIDE DEF new, n
<1>3. \A q \in Requests, t \in Stages :
        <<q, t>> # <<r, s>> => OpenAt(new, q, t) = OpenAt(rs, q, t)
  BY <1>2 DEF OpenAt
<1>4. OpenAt(new, r, s) = IF row.status \in Open THEN {n} ELSE {}
  BY <1>2 DEF OpenAt
<1>5. SlotIn(new, r, s) = to
  BY <1>2, <1>4, SlotOfNoRow DEF SlotIn
<1>6. SlotIn(rs, r, s) = [state |-> "free"]
  BY SlotOfNoRow
<1>7. ASSUME NEW q \in Requests, NEW t \in Stages, <<q, t>> # <<r, s>>
      PROVE  SlotIn(new, q, t) = SlotIn(rs, q, t)
  <2>1. CASE OpenAt(rs, q, t) = {}
    BY <1>3, <1>7, <2>1, SlotOfNoRow
  <2>2. CASE OpenAt(rs, q, t) # {}
    <3>1. OpenAt(new, q, t) = OpenAt(rs, q, t)
      BY <1>3, <1>7
    <3>2. (CHOOSE i \in OpenAt(rs, q, t) : TRUE) \in DOMAIN rs
      BY <2>2 DEF OpenAt
    <3>3. QED
      BY <1>2, <3>1, <3>2 DEF SlotIn
  <2>3. QED
    BY <2>1, <2>2
<1> HIDE DEF r, s, to
<1>8. ASSUME NEW q \in Requests, NEW t \in Stages
      PROVE  SlotIn(new, q, t) = IF <<q, t>> = <<r, s>> THEN to ELSE SlotIn(rs, q, t)
  BY <1>5, <1>7
<1>9. SlotsIn(new) = [SlotsIn(rs) EXCEPT ![<<r, s>>] = to]
  <2>1. SlotsIn(new) = [k \in Keys |-> IF k = <<r, s>> THEN to ELSE SlotIn(rs, k[1], k[2])]
    BY <1>8 DEF SlotsIn, Keys
  <2>2. QED
    BY <2>1, Zenon DEF SlotsIn
<1>10. <<r, s>> \in Keys /\ SlotsIn(rs)[<<r, s>>] = [state |-> "free"]
  BY <1>1, <1>6 DEF SlotsIn, Keys
<1>11. QED
  BY <1>9, <1>10 DEF r, s, to, new

-----------------------------------------------------------------------------
(* Steps *)

\* What a slot may turn into, one slot at a time.
Legal(from, to) ==
  \E a \in Admins :
    \/ from = [state |-> "free"] /\ to = [state |-> "held", admin |-> a]
    \/ from = [state |-> "free"] /\ to = [state |-> "on_offer", admin |-> a]
    \/ from = [state |-> "on_offer", admin |-> a] /\ to = [state |-> "held", admin |-> a]
    \/ from = [state |-> "on_offer", admin |-> a] /\ to = [state |-> "free"]
    \/ from = [state |-> "held", admin |-> a] /\ to = [state |-> "free"]
    \/ /\ from = [state |-> "held", admin |-> a]
       /\ \E b \in Admins : to = [state |-> "held", admin |-> b]

\* The step of the abstract specification, on the tables before and after.
SlotStep == Slots!SlotNext \/ SlotsIn(rows') = SlotsIn(rows)

LEMMA LegalMove ==
  ASSUME NEW k \in Keys, NEW to, Legal(SlotsIn(rows)[k], to),
         SlotsIn(rows') = [SlotsIn(rows) EXCEPT ![k] = to]
  PROVE  SlotStep
<1> DEFINE from == SlotsIn(rows)[k]
<1>1. Slots!Becomes(k, from, to)
  BY MappingIsSlotsIn DEF Slots!Becomes
<1>2. Legal(from, to)
  OBVIOUS
<1> HIDE DEF from
<1>3. PICK a \in Admins :
        \/ Slots!Give(k, a) \/ Slots!Offer(k, a)
        \/ Slots!AcceptOffer(k, a) \/ Slots!DeclineOffer(k, a)
        \/ Slots!Finish(k, a)
        \/ \E b \in Admins : Slots!HandOver(k, a, b)
  BY <1>1, <1>2, Zenon DEF Legal, Slots!Give, Slots!Offer, Slots!AcceptOffer,
     Slots!DeclineOffer, Slots!Finish, Slots!HandOver, Slots!Free,
     Slots!OnOffer, Slots!HeldBy
<1>4. k \in Requests \X Stages
  BY DEF Keys
<1>5. QED
  BY <1>3, <1>4, Zenon DEF SlotStep, Slots!SlotNext

LEMMA InsertIsSlotStep ==
  ASSUME TypeOK, OneOpenPerStage, Inserted
  PROVE  SlotStep
<1>1. PICK row \in Row : rows' = Append(rows, row) /\ OpenAt(rows, row.req, row.stage) = {}
  BY DEF Inserted
<1> DEFINE k  == <<row.req, row.stage>>
           to == IF row.status \in Open THEN Says(row) ELSE [state |-> "free"]
<1>2. rows \in Seq(Row) /\ Unique(rows)
  BY DEF TypeOK, OneOpenPerStage, Unique
<1>3. /\ k \in Keys
      /\ SlotsIn(rows)[k] = [state |-> "free"]
      /\ SlotsIn(rows') = [SlotsIn(rows) EXCEPT ![k] = to]
  BY <1>1, <1>2, InsertFillsSlot, Zenon
<1>4. row.admin \in Admins
  BY DEF Row
<1> HIDE DEF k
<1>5. CASE row.status \in Open
  <2>1. Legal(SlotsIn(rows)[k], to)
    BY <1>3, <1>4, <1>5 DEF Legal, Says
  <2> HIDE DEF to
  <2>2. QED
    BY <1>3, <2>1, LegalMove
<1>6. CASE row.status \notin Open
  <2>1. SlotsIn(rows') = [SlotsIn(rows) EXCEPT ![k] = SlotsIn(rows)[k]]
    BY <1>3, <1>6
  <2>2. SlotsIn(rows') = SlotsIn(rows)
    BY <2>1 DEF SlotsIn
  <2>3. QED
    BY <2>2 DEF SlotStep
<1>7. QED
  BY <1>5, <1>6

\* One open row is answered, finished or handed over.
LEMMA MoveIsSlotStep ==
  ASSUME TypeOK, OneOpenPerStage, NEW i \in DOMAIN rows, NEW row,
         rows[i].status \in Open, Evolves(rows[i], row), rows' = [rows EXCEPT ![i] = row],
         row.admin \in Admins,
         \/ rows[i].status = "offered" /\ row.status = "offered" /\ row.admin = rows[i].admin
         \/ rows[i].status = "offered" /\ row.status = "assigned" /\ row.admin = rows[i].admin
         \/ rows[i].status = "assigned" /\ row.status = "assigned"
         \/ row.status \notin Open
  PROVE  SlotStep
<1> DEFINE k  == <<rows[i].req, rows[i].stage>>
           to == IF row.status \in Open THEN Says(row) ELSE [state |-> "free"]
<1>1. rows \in Seq(Row) /\ Unique(rows) /\ rows[i].admin \in Admins
  BY RowAt DEF TypeOK, OneOpenPerStage, Unique
<1>2. /\ k \in Keys
      /\ SlotsIn(rows)[k] = Says(rows[i])
      /\ SlotsIn(rows') = [SlotsIn(rows) EXCEPT ![k] = to]
  BY <1>1, OneSlotMoves, Zenon
<1> HIDE DEF k
<1>3. CASE row.status = "offered"
  <2>1. to = Says(rows[i])
    BY <1>3 DEF Says, Open, Active, Evolves
  <2>2. SlotsIn(rows') = [SlotsIn(rows) EXCEPT ![k] = SlotsIn(rows)[k]]
    BY <1>2, <2>1
  <2>3. SlotsIn(rows') = SlotsIn(rows)
    BY <2>2 DEF SlotsIn
  <2>4. QED
    BY <2>3 DEF SlotStep
<1>4. CASE row.status # "offered"
  <2>1. Legal(Says(rows[i]), to)
    BY <1>1, <1>4 DEF Legal, Says, Open, Active
  <2> HIDE DEF to
  <2>2. QED
    BY <1>2, <2>1, LegalMove
<1>5. QED
  BY <1>3, <1>4

LEMMA StutterStep ==
  ASSUME UNCHANGED rows
  PROVE  SlotStep
  BY DEF SlotStep

\* assign and complete_task touch the table in their INSERT and their UPDATE only.
LEMMA CallerSlotStep ==
  ASSUME IInv, NEW c \in Callers, CallerStep(c)
  PROVE  SlotStep
<1> DEFINE t == tx[c]
<1> USE DEF IInv
<1>1. CASE AssignInsert(c)
  <2>1. Inserted \/ UNCHANGED rows
    <3>1. t.pick \in Row
      BY <1>1, TxShapes DEF TypeOK, AssignInsert
    <3>2. QED
      BY <1>1, <3>1 DEF AssignInsert, Inserted, IndexAdmits
  <2>2. QED
    BY <2>1, InsertIsSlotStep, StutterStep
<1>2. CASE CompleteUpdate(c)
  <2> DEFINE i == t.sel
             row == [rows[i] EXCEPT !.status = "completed"]
  <2>1. i \in DOMAIN rows /\ rows[i].status \in {"assigned", "completed"}
    BY <1>2 DEF CompleteUpdate, UpdatesAreCurrent
  <2>2. rows[i] \in Row
    BY <2>1, RowAt
  <2>3. /\ row.status = "completed" /\ row.admin = rows[i].admin /\ row.admin \in Admins
        /\ Evolves(rows[i], row)
    BY <2>1, <2>2 DEF Row, Evolves, Open, Active
  <2>4. rows' = [rows EXCEPT ![i] = row]
    BY <1>2 DEF CompleteUpdate
  <2> HIDE DEF row
  <2>5. CASE rows[i].status = "assigned"
    BY <2>1, <2>3, <2>4, <2>5, MoveIsSlotStep DEF Open, Active
  <2>6. CASE rows[i].status = "completed"
    <3>1. /\ DOMAIN rows' = DOMAIN rows
          /\ \A j \in DOMAIN rows :
               Evolves(rows[j], rows'[j]) /\ (rows[j].status \in Open => rows'[j] = rows[j])
      BY <2>1, <2>3, <2>4, <2>6 DEF Evolves, Open, Active, TypeOK
    <3>2. Unique(rows)
      BY DEF Unique, OneOpenPerStage
    <3>3. SlotsIn(rows') = SlotsIn(rows)
      BY <3>1, <3>2, SlotsKept
    <3>4. QED
      BY <3>3 DEF SlotStep
  <2>7. QED
    BY <2>1, <2>5, <2>6
<1>3. CallerStep(c) => AssignInsert(c) \/ CompleteUpdate(c) \/ UNCHANGED rows
  BY DEF CallerStep, AssignStart, AssignForced, AssignLadder, AssignDeadlock,
         AssignReread, CompleteSelect, CompleteNothing, CompleteSync
<1>4. QED
  BY <1>1, <1>2, <1>3, StutterStep

\* An answer moves the slot of the offer; the passing of its hour moves none.
LEMMA AnswerSlotStep ==
  ASSUME IInv, NEW i \in DOMAIN rows, AcceptOffer(i) \/ RejectOffer(i) \/ Lapse(i)
  PROVE  SlotStep
<1>1. TypeOK /\ OneOpenPerStage /\ rows[i] \in Row /\ rows[i].status = "offered"
  BY RowAt DEF IInv, AcceptOffer, RejectOffer, Lapse
<1> DEFINE accepted == [rows[i] EXCEPT !.status = "assigned", !.reason = "accepted_offer"]
           refused  == [rows[i] EXCEPT !.status = "rejected", !.lapsed = FALSE,
              !.reason = IF @ = "quiet_offer" THEN "quiet_reject" ELSE "manual_reject"]
           silent   == [rows[i] EXCEPT !.lapsed = TRUE]
<1>2. \A row \in {accepted, refused, silent} :
        Evolves(rows[i], row) /\ row.admin = rows[i].admin /\ row.admin \in Admins
  BY <1>1 DEF Evolves, Row, Open, Active
<1>3. /\ accepted.status = "assigned" /\ refused.status = "rejected"
      /\ silent.status = "offered"
  BY <1>1 DEF Row
<1>4. \/ rows' = [rows EXCEPT ![i] = accepted]
      \/ rows' = [rows EXCEPT ![i] = refused]
      \/ rows' = [rows EXCEPT ![i] = silent]
  BY DEF AcceptOffer, RejectOffer, Lapse
<1> HIDE DEF accepted, refused, silent
<1>5. rows[i].status \in Open /\ "rejected" \notin Open
  BY <1>1 DEF Open, Active
<1>6. QED
  BY <1>1, <1>2, <1>3, <1>4, <1>5, MoveIsSlotStep

\* Pointing a held task at somebody hands its slot over; a task nobody holds
\* and nobody is asked about is given.
LEMMA ReassignSlotStep ==
  ASSUME IInv, NEW r \in Requests, NEW s \in Stages, NEW a \in Admins, Reassign(r, s, a)
  PROVE  SlotStep
<1> USE DEF IInv
<1>1. ASSUME NEW i \in ActiveAt(rows, r, s),
             rows' = [rows EXCEPT ![i].admin = a, ![i].status = "assigned",
               ![i].attempt = 0, ![i].reason = "none", ![i].lapsed = FALSE]
      PROVE  SlotStep
  <2> DEFINE row == [rows[i] EXCEPT !.admin = a, !.status = "assigned",
                       !.attempt = 0, !.reason = "none", !.lapsed = FALSE]
  <2>1. i \in DOMAIN rows /\ rows[i].status = "assigned"
    BY DEF ActiveAt, OpenAt, Active
  <2>2. rows[i] \in Row
    BY <2>1, RowAt
  <2>3. /\ Evolves(rows[i], row) /\ row.status = "assigned" /\ row.admin = a
        /\ rows[i].status \in Open
    BY <2>1, <2>2 DEF Evolves, Row, Open, Active
  <2>4. rows' = [rows EXCEPT ![i] = row]
    BY <1>1
  <2> HIDE DEF row
  <2>5. QED
    BY <2>1, <2>3, <2>4, MoveIsSlotStep
<1>2. CASE IndexAdmits(r, s) /\ rows' = Append(rows, AssignedRow(r, s, a))
  <2>1. /\ AssignedRow(r, s, a) \in Row
        /\ AssignedRow(r, s, a).req = r /\ AssignedRow(r, s, a).stage = s
    BY DEF AssignedRow, Row, Statuses, Open, Active, Reasons
  <2>2. Inserted
    BY <1>2, <2>1 DEF Inserted, IndexAdmits
  <2>3. QED
    BY <2>2, InsertIsSlotStep
<1>3. QED
  BY <1>1, <1>2, StutterStep DEF Reassign

\* The sweep withdraws the lapsed offers together, whatever it makes of each row.
LEMMA ExpireSlotStep ==
  ASSUME IInv, ExpireOffers
  PROVE  SlotStep
<1> DEFINE stale == {i \in DOMAIN rows : rows[i].status = "offered" /\ rows[i].lapsed}
           ks == {k \in Keys : OpenAt(rows, k[1], k[2]) \cap stale # {}}
<1>1. TypeOK /\ Unique(rows) /\ \A i \in DOMAIN rows : rows[i] \in Row
  BY RowAt DEF IInv, OneOpenPerStage, Unique
<1>2. /\ DOMAIN rows' = DOMAIN rows
      /\ \A i \in stale : rows'[i].status \in {"rejected", "skipped"} /\ Evolves(rows[i], rows'[i])
      /\ \A i \in DOMAIN rows \ stale : rows'[i] = rows[i] /\ Evolves(rows[i], rows'[i])
  BY <1>1 DEF ExpireOffers, Evolves, Row, Open, Active
<1>3. \A i \in DOMAIN rows : Evolves(rows[i], rows'[i])
  BY <1>2
<1>4. ASSUME NEW r \in Requests, NEW s \in Stages
      PROVE  /\ <<r, s>> \in ks => /\ SlotIn(rows, r, s).state = "on_offer"
                                   /\ SlotIn(rows', r, s) = [state |-> "free"]
             /\ <<r, s>> \notin ks => SlotIn(rows', r, s) = SlotIn(rows, r, s)
  <2>1. CASE OpenAt(rows, r, s) = {}
    BY <1>1, <1>2, <1>3, <2>1, SlotAfterRewriting
  <2>2. CASE OpenAt(rows, r, s) # {}
    <3>1. PICK i \in OpenAt(rows, r, s) : TRUE
      BY <2>2
    <3>2. <<r, s>> \in ks <=> i \in stale
      BY <1>1, <3>1 DEF Unique, Keys
    <3>3. i \in DOMAIN rows /\ rows[i].status \in Open
      BY <3>1 DEF OpenAt
    <3> HIDE DEF ks
    <3>4. /\ SlotIn(rows, r, s) = Says(rows[i])
          /\ SlotIn(rows', r, s) = IF rows'[i].status \in Open THEN Says(rows'[i])
                                   ELSE [state |-> "free"]
      BY <1>1, <1>2, <1>3, <3>1, SlotAfterRewriting
    <3>5. CASE i \in stale
      BY <1>2, <3>2, <3>4, <3>5 DEF Says, Open, Active
    <3>6. CASE i \notin stale
      BY <1>2, <3>2, <3>3, <3>4, <3>6
    <3>7. QED
      BY <3>5, <3>6
  <2>3. QED
    BY <2>1, <2>2
<1>5. ks \in SUBSET (Requests \X Stages)
  BY DEF Keys
<1> HIDE DEF ks
<1>6. \A k \in ks : SlotsIn(rows)[k].state = "on_offer"
  BY <1>4, <1>5 DEF SlotsIn, Keys
<1>7. SlotsIn(rows') = [k \in Requests \X Stages |-> IF k \in ks THEN [state |-> "free"]
                                                     ELSE SlotsIn(rows)[k]]
  BY <1>4 DEF SlotsIn, Keys
<1>8. Slots!Withdraw(ks)
  BY <1>6, <1>7, MappingIsSlotsIn DEF Slots!Withdraw, Slots!Free
<1>9. QED
  BY <1>5, <1>8, Zenon DEF SlotStep, Slots!SlotNext

\* A replacement is one insert, if any.
LEMMA ReplaceSlotStep ==
  ASSUME IInv, SweepStep
  PROVE  SlotStep
<1>1. TypeOK /\ OneOpenPerStage
  BY DEF IInv
<1>2. UNCHANGED rows \/ \E row : rows' = Append(rows, row)
  BY DEF SweepStep, ReplaceExpired
<1>3. CASE \E row : rows' = Append(rows, row)
  <2>1. ~Rewritten
    BY <1>1, <1>3 DEF Rewritten, TypeOK
  <2>2. QED
    BY <1>1, <2>1, SweepTableStep, InsertIsSlotStep
<1>4. QED
  BY <1>2, <1>3, StutterStep

LEMMA NewDaySlotStep ==
  ASSUME IInv, NEW a \in Admins, NewDay(a)
  PROVE  SlotStep
<1>1. TypeOK /\ Unique(rows) /\ \A i \in DOMAIN rows : rows[i] \in Row
  BY RowAt DEF IInv, OneOpenPerStage, Unique
<1>2. /\ DOMAIN rows' = DOMAIN rows
      /\ \A i \in DOMAIN rows : /\ rows'[i].req = rows[i].req
                                /\ rows'[i].stage = rows[i].stage
                                /\ rows'[i].status = rows[i].status
                                /\ rows'[i].admin = rows[i].admin
  BY <1>1 DEF NewDay, Row
<1>3. \A i \in DOMAIN rows : Evolves(rows[i], rows'[i]) /\ Says(rows'[i]) = Says(rows[i])
  BY <1>2 DEF Evolves, Says
<1>4. SlotsIn(rows') = SlotsIn(rows)
  BY <1>1, <1>2, <1>3, SlotsKept
<1>5. QED
  BY <1>4 DEF SlotStep

LEMMA StepImplements ==
  ASSUME IInv, [Next]_vars
  PROVE  SlotStep
<1>1. CASE UNCHANGED vars \/ \E r \in Requests : CancelWork(r)
  BY <1>1, StutterStep DEF vars, CancelWork
<1>2. QED
  BY <1>1, CallerSlotStep, AnswerSlotStep, ReassignSlotStep, ExpireSlotStep,
     ReplaceSlotStep, NewDaySlotStep DEF Next

\* THE ENGINE KEEPS ITS PROMISE.  For any staff, requests, number of concurrent
\* transactions and presences, what the assignment table says of the stages is a
\* behaviour of AssignmentSlots: a stage goes from free to offered or held, from
\* offered to held or free, from one holder to another or to free, and never
\* otherwise.  The relay is modelled over those slots alone.
THEOREM EngineImplementsSlots == Spec => ImplementsSlots
<1> DEFINE slots == [k \in Requests \X Stages |-> SlotOf(k[1], k[2])]
<1>1. Init => IInv
  <2>1. Init => OneOpenPerStage /\ UpdatesAreCurrent
    BY DEF Init, OneOpenPerStage, OpenAt, UpdatesAreCurrent, Idle
  <2>2. QED
    BY <2>1, InitTypeOK DEF IInv
<1>2. Init => Slots!SlotInit
  BY DEF Init, SlotOf, OpenAt, Slots!SlotInit, Slots!Free
<1>3. IInv /\ [Next]_vars => [Slots!SlotNext]_slots
  <2> SUFFICES ASSUME IInv, [Next]_vars PROVE [Slots!SlotNext]_slots
    OBVIOUS
  <2>1. CASE Slots!SlotNext
    BY <2>1
  <2>2. CASE SlotsIn(rows') = SlotsIn(rows)
    BY <2>2, MappingIsSlotsIn
  <2>3. QED
    BY <2>1, <2>2, StepImplements DEF SlotStep
<1> HIDE DEF slots
<1>4. ImplementsSlots <=> Slots!SlotInit /\ [][Slots!SlotNext]_slots
  BY DEF ImplementsSlots, Slots!SlotSpec, slots
<1>5. QED
  BY <1>1, <1>2, <1>3, <1>4, Inductive, PTL DEF Spec
=============================================================================
