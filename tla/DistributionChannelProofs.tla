---------------------- MODULE DistributionChannelProofs ----------------------
(***************************************************************************)
(* DistributionChannel for every franchise, any number of runs together,   *)
(* of failures and of restarts: no step deletes a content card, the saved  *)
(* layout's links lead to the messages they name, and where no run met     *)
(* another and no write was lost, the layout and the backup are what the   *)
(* channel shows.                                                          *)
(*                                                                         *)
(* Five invariants, each used by those that follow.                        *)
(*   IInv  the order in which things are sent: in every layout, and in     *)
(*         every list a run is building, cards come first, then at most    *)
(*         one guide, then a footer; so nothing behind the cut is a card,  *)
(*         however old the layout that was read.                           *)
(*   TInv  types, with what a run holds at each place (Held).              *)
(*   LInv  a run's list is linked like a layout, the run knows its cards,  *)
(*         and what it has still to send is of other entries.              *)
(*   GInv  nothing anywhere is newer than the packs.                       *)
(*   AInv  how far the layout, the rows and the backup are behind the      *)
(*         channel at each place of a run that is alone (Busy), and that   *)
(*         they are not when it is over (Rest).                            *)
(***************************************************************************)
EXTENDS DistributionChannel, FiniteSetTheorems, TLAPS

-----------------------------------------------------------------------------
(* Sequences of anything *)

IsSeq(s) == s \in Seq({s[i] : i \in DOMAIN s})

LEMMA FunctionIsSeq ==
  ASSUME NEW n \in Nat, NEW s, s = [i \in 1..n |-> s[i]]
  PROVE  IsSeq(s) /\ Len(s) = n /\ DOMAIN s = 1..n
<1> DEFINE S == {s[i] : i \in DOMAIN s}
<1>1. DOMAIN s = 1..n OBVIOUS
<1>2. \A i \in 1..n : s[i] \in S BY <1>1
<1> HIDE DEF S
<1>3. s \in [1..n -> S] BY <1>2
<1>4. s \in Seq(S) /\ Len(s) = n BY <1>3
<1> QED BY <1>1, <1>4 DEF IsSeq, S

LEMMA TypedIsSeq ==
  ASSUME NEW S, NEW s \in Seq(S)
  PROVE  IsSeq(s) /\ DOMAIN s = 1..Len(s) /\ Len(s) \in Nat
<1>1. s = [i \in 1..Len(s) |-> s[i]] /\ Len(s) \in Nat OBVIOUS
<1> QED BY <1>1, FunctionIsSeq

LEMMA SeqFacts ==
  ASSUME NEW s, IsSeq(s)
  PROVE  Len(s) \in Nat /\ DOMAIN s = 1..Len(s) /\ s = [i \in 1..Len(s) |-> s[i]]
<1> DEFINE S == {s[i] : i \in DOMAIN s}
<1>1. s \in Seq(S) BY DEF IsSeq
<1> HIDE DEF S
<1> QED BY <1>1

LEMMA AppendSeq ==
  ASSUME NEW s, IsSeq(s), NEW x
  PROVE  LET t == Append(s, x)
         IN  /\ IsSeq(t) /\ Len(t) = Len(s) + 1 /\ DOMAIN t = 1..(Len(s) + 1)
             /\ \A i \in DOMAIN s : t[i] = s[i]
             /\ t[Len(s) + 1] = x
<1> DEFINE S == {s[i] : i \in DOMAIN s} \cup {x}
           t == Append(s, x)
<1>1. s = [i \in 1..Len(s) |-> s[i]] /\ Len(s) \in Nat /\ DOMAIN s = 1..Len(s) BY SeqFacts
<1>2. \A i \in 1..Len(s) : s[i] \in S BY <1>1
<1>3. x \in S OBVIOUS
<1> HIDE DEF S
<1>4. s \in Seq(S) BY <1>1, <1>2
<1>5. /\ t \in Seq(S) /\ Len(t) = Len(s) + 1 /\ t[Len(s) + 1] = x
      /\ \A i \in 1..Len(s) : t[i] = s[i]
  BY <1>3, <1>4
<1> HIDE DEF t
<1>6. IsSeq(t) /\ DOMAIN t = 1..Len(t) BY <1>5, TypedIsSeq
<1>7. DOMAIN t = 1..(Len(s) + 1) BY <1>5, <1>6
<1> QED BY <1>1, <1>5, <1>6, <1>7 DEF t

LEMMA TailSeq ==
  ASSUME NEW s, IsSeq(s), s # <<>>
  PROVE  LET t == Tail(s)
         IN  /\ IsSeq(t) /\ Len(t) = Len(s) - 1 /\ DOMAIN t = 1..(Len(s) - 1)
             /\ Len(s) \in Nat \ {0} /\ Head(s) = s[1]
             /\ \A i \in DOMAIN t : t[i] = s[i + 1]
<1> DEFINE S == {s[i] : i \in DOMAIN s}
           t == Tail(s)
<1>1. s \in Seq(S) BY DEF IsSeq
<1> HIDE DEF S
<1>2. /\ t \in Seq(S) /\ Len(t) = Len(s) - 1 /\ Len(s) \in Nat \ {0} /\ Head(s) = s[1]
      /\ \A i \in 1..(Len(s) - 1) : t[i] = s[i + 1]
  BY <1>1
<1> HIDE DEF t
<1>3. IsSeq(t) /\ DOMAIN t = 1..Len(t) BY <1>2, TypedIsSeq
<1>4. DOMAIN t = 1..(Len(s) - 1) BY <1>2, <1>3
<1> QED BY <1>2, <1>3, <1>4 DEF t

LEMMA MoreBehind ==
  ASSUME NEW s, IsSeq(s), s # <<>>, Len(s) > 1 PROVE Tail(s) # <<>>
<1> DEFINE t == Tail(s)
<1>1. Len(t) = Len(s) - 1 /\ Len(s) \in Nat BY TailSeq
<1> HIDE DEF t
<1>2. Len(t) # 0 BY <1>1
<1>3. t # <<>> BY <1>2
<1> QED BY <1>3 DEF t

LEMMA SubSeqIsSeq ==
  ASSUME NEW s, IsSeq(s), NEW m \in 1..(Len(s) + 1), NEW n \in 0..Len(s), m <= n + 1
  PROVE  LET t == SubSeq(s, m, n)
         IN  /\ IsSeq(t) /\ Len(t) = n - m + 1 /\ DOMAIN t = 1..(n - m + 1)
             /\ \A i \in DOMAIN t : t[i] = s[m + i - 1]
<1> DEFINE t == SubSeq(s, m, n)
           k == n - m + 1
<1>1. Len(s) \in Nat BY SeqFacts
<1>2. t = [i \in 1..k |-> s[m + i - 1]] BY <1>1
<1>3. k \in Nat BY <1>1
<1> HIDE DEF k, t
<1>4. DOMAIN t = 1..k /\ (\A i \in 1..k : t[i] = s[m + i - 1]) /\ t = [i \in 1..k |-> t[i]] BY <1>2
<1>5. IsSeq(t) /\ Len(t) = k BY <1>3, <1>4, FunctionIsSeq
<1> QED BY <1>4, <1>5 DEF k, t

\* Two elements behind a sequence.
LEMMA TwoBehind ==
  ASSUME NEW s, IsSeq(s), NEW x, NEW y
  PROVE  LET t == s \o <<x, y>>
         IN  /\ IsSeq(t) /\ Len(t) = Len(s) + 2 /\ DOMAIN t = 1..(Len(s) + 2)
             /\ \A i \in DOMAIN s : t[i] = s[i]
             /\ t[Len(s) + 1] = x /\ t[Len(s) + 2] = y
<1> DEFINE S == {s[i] : i \in DOMAIN s} \cup {x, y}
           t == s \o <<x, y>>
<1>1. s = [i \in 1..Len(s) |-> s[i]] /\ Len(s) \in Nat /\ DOMAIN s = 1..Len(s) BY SeqFacts
<1>2. \A i \in 1..Len(s) : s[i] \in S BY <1>1
<1>3. x \in S /\ y \in S OBVIOUS
<1> HIDE DEF S
<1>4. s \in Seq(S) BY <1>1, <1>2
<1>5. <<x, y>> \in Seq(S) /\ Len(<<x, y>>) = 2 /\ <<x, y>>[1] = x /\ <<x, y>>[2] = y BY <1>3
<1>6. /\ t \in Seq(S) /\ Len(t) = Len(s) + 2
      /\ \A i \in 1..Len(s) : t[i] = s[i]
  BY <1>4, <1>5
<1>7. t[Len(s) + 1] = x /\ t[Len(s) + 2] = y BY <1>1, <1>4, <1>5
<1> HIDE DEF t
<1>8. IsSeq(t) /\ DOMAIN t = 1..Len(t) BY <1>6, TypedIsSeq
<1>9. DOMAIN t = 1..(Len(s) + 2) BY <1>6, <1>8
<1> QED BY <1>1, <1>6, <1>7, <1>8, <1>9 DEF t

-----------------------------------------------------------------------------
(* Cards first, then a guide, then a footer *)

Before(x, y) == x.kind = "card" \/ (x.kind = "watch_guide" /\ y.kind = "footer")
Shape(l) ==
  /\ IsSeq(l)
  /\ \A i \in DOMAIN l : l[i].kind \in Kinds
  /\ \A i, j \in DOMAIN l : i < j => Before(l[i], l[j])

\* All of what is still to send may come behind l.
Fits(l, todo) == \A i \in DOMAIN l, j \in DOMAIN todo : Before(l[i], todo[j])

\* The items of l stand for messages of their kind.
Refs(l, ms) == \A i \in DOMAIN l : l[i].msg \in DOMAIN ms /\ ms[l[i].msg].kind = l[i].kind

\* Behind the cut there are no cards, before it nothing else.
LEMMA CutIsSafe ==
  ASSUME NEW l, Shape(l)
  PROVE  /\ Cut(l) \in 1..(Len(l) + 1)
         /\ \A i \in DOMAIN l : i >= Cut(l) => l[i].kind # "card"
         /\ \A i \in DOMAIN l : i < Cut(l) => l[i].kind = "card"
<1>1. Len(l) \in Nat /\ DOMAIN l = 1..Len(l) BY SeqFacts DEF Shape
<1>2. ASSUME NEW k \in {"watch_guide", "footer"}, Places(l, k) # {}
      PROVE  /\ Max(Places(l, k)) \in DOMAIN l
             /\ l[Max(Places(l, k))].kind = k
             /\ \A i \in DOMAIN l : i >= Max(Places(l, k)) => l[i].kind # "card"
  <2>1. PICK c \in Places(l, k) : TRUE BY <1>2
  <2>2. c \in DOMAIN l /\ l[c].kind = k /\ c \in Int BY <1>1, <2>1 DEF Places
  <2>3. \A d \in DOMAIN l : d # c => l[d].kind # k
    BY <1>1, <2>2 DEF Shape, Before
  <2>4. Places(l, k) = {c} BY <2>2, <2>3 DEF Places
  <2>5. Max({c}) = c BY <2>2 DEF Max
  <2>6. \A i \in DOMAIN l : i >= c => l[i].kind # "card"
    BY <1>1, <2>2 DEF Shape, Before
  <2> QED BY <2>2, <2>4, <2>5, <2>6
<1>3. CASE Places(l, "watch_guide") # {}
  <2>1. Cut(l) = Max(Places(l, "watch_guide")) BY <1>3 DEF Cut
  <2>2. \A i \in DOMAIN l : i < Cut(l) => l[i].kind = "card"
    BY <1>1, <1>2, <1>3, <2>1 DEF Shape, Before
  <2> QED BY <1>1, <1>2, <1>3, <2>1, <2>2
<1>4. CASE Places(l, "watch_guide") = {} /\ Places(l, "footer") # {}
  <2>1. Cut(l) = Max(Places(l, "footer")) BY <1>4 DEF Cut
  <2>2. \A i \in DOMAIN l : i < Cut(l) => l[i].kind = "card"
    BY <1>1, <1>2, <1>4, <2>1 DEF Shape, Before, Places
  <2> QED BY <1>1, <1>2, <1>4, <2>1, <2>2
<1>5. CASE Places(l, "watch_guide") = {} /\ Places(l, "footer") = {}
  <2>1. Cut(l) = Len(l) + 1 BY <1>5 DEF Cut
  <2>2. \A i \in DOMAIN l : l[i].kind = "card" BY <1>5 DEF Shape, Places, Kinds
  <2> QED BY <1>1, <2>1, <2>2
<1> QED BY <1>3, <1>4, <1>5

LEMMA BodyIsCards ==
  ASSUME NEW l, Shape(l), NEW ms, Refs(l, ms)
  PROVE  /\ Shape(Body(l)) /\ Refs(Body(l), ms)
         /\ \A i \in DOMAIN Body(l) : Body(l)[i].kind = "card"
<1> DEFINE c == Cut(l)
           b == Body(l)
<1>1. IsSeq(l) /\ Len(l) \in Nat /\ DOMAIN l = 1..Len(l) BY SeqFacts DEF Shape
<1>2. c \in 1..(Len(l) + 1) /\ \A i \in DOMAIN l : i < c => l[i].kind = "card" BY CutIsSafe
<1>3. b = SubSeq(l, 1, c - 1) BY DEF Body
<1> HIDE DEF b, c
<1>4. IsSeq(b) /\ DOMAIN b = 1..(c - 1) /\ \A i \in DOMAIN b : b[i] = l[i]
  <2>1. 1 \in 1..(Len(l) + 1) /\ c - 1 \in 0..Len(l) /\ 1 <= (c - 1) + 1 BY <1>1, <1>2
  <2>2. /\ IsSeq(b) /\ DOMAIN b = 1..((c - 1) - 1 + 1)
        /\ \A i \in DOMAIN b : b[i] = l[1 + i - 1]
    BY <1>1, <1>3, <2>1, SubSeqIsSeq
  <2> QED BY <1>2, <2>2
<1>5. \A i \in DOMAIN b : i \in DOMAIN l /\ b[i].kind = "card" BY <1>1, <1>2, <1>4
<1>6. Shape(b) BY <1>4, <1>5 DEF Shape, Before, Kinds
<1>7. Refs(b, ms) BY <1>4, <1>5 DEF Refs
<1> QED BY <1>5, <1>6, <1>7 DEF b

\* The messages an update deletes are no cards.
LEMMA TailHasNoCards ==
  ASSUME NEW l, Shape(l), NEW ms, Refs(l, ms),
         NEW x \in ToSet(Tail_(l))
  PROVE  ms[x.msg].kind # "card"
<1> DEFINE c == Cut(l)
           t == Tail_(l)
<1>1. IsSeq(l) /\ Len(l) \in Nat /\ DOMAIN l = 1..Len(l) BY SeqFacts DEF Shape
<1>2. c \in 1..(Len(l) + 1) /\ \A i \in DOMAIN l : i >= c => l[i].kind # "card" BY CutIsSafe
<1>3. t = SubSeq(l, c, Len(l)) BY DEF Tail_
<1>4. \E i \in DOMAIN t : x = t[i] BY DEF ToSet
<1> HIDE DEF c, t
<1>5. DOMAIN t = 1..(Len(l) - c + 1) /\ \A i \in DOMAIN t : t[i] = l[c + i - 1]
  <2>1. Len(l) \in 0..Len(l) /\ c <= Len(l) + 1 BY <1>1, <1>2
  <2> QED BY <1>1, <1>2, <1>3, <2>1, SubSeqIsSeq
<1>6. PICK i \in DOMAIN t : x = t[i] BY <1>4
<1>7. c + i - 1 \in DOMAIN l /\ c + i - 1 >= c BY <1>1, <1>2, <1>5, <1>6
<1>8. x = l[c + i - 1] BY <1>5, <1>6
<1> QED BY <1>2, <1>7, <1>8 DEF Refs

\* One more message behind a list it fits.
LEMMA Extended ==
  ASSUME NEW l, Shape(l), NEW ms, Refs(l, ms), IsSeq(ms), NEW todo, Shape(todo), todo # <<>>,
         Fits(l, todo), NEW y, y.kind = Head(todo).kind,
         NEW x, x.kind = Head(todo).kind, x.msg = Len(ms) + 1
  PROVE  /\ Shape(Append(l, x)) /\ Refs(Append(l, x), Append(ms, y))
         /\ Shape(Tail(todo)) /\ Fits(Append(l, x), Tail(todo)) /\ Fits(l, Tail(todo))
<1> DEFINE k == Append(l, x)
           rest == Tail(todo)
           n == Append(ms, y)
<1>1. /\ IsSeq(l) /\ Len(l) \in Nat /\ DOMAIN l = 1..Len(l)
      /\ IsSeq(todo) /\ Len(todo) \in Nat /\ DOMAIN todo = 1..Len(todo)
      /\ Len(ms) \in Nat /\ DOMAIN ms = 1..Len(ms)
  BY SeqFacts DEF Shape
<1>2. /\ IsSeq(k) /\ DOMAIN k = 1..(Len(l) + 1)
      /\ (\A i \in DOMAIN l : k[i] = l[i]) /\ k[Len(l) + 1] = x
  BY <1>1, AppendSeq
<1>3. /\ DOMAIN n = 1..(Len(ms) + 1)
      /\ (\A i \in DOMAIN ms : n[i] = ms[i]) /\ n[Len(ms) + 1] = y
  BY AppendSeq
<1>4. /\ IsSeq(rest) /\ DOMAIN rest = 1..(Len(todo) - 1) /\ Head(todo) = todo[1]
      /\ Len(todo) \in Nat \ {0} /\ \A i \in DOMAIN rest : rest[i] = todo[i + 1]
  BY <1>1, TailSeq
<1> HIDE DEF k, rest, n
<1>5. \A i \in DOMAIN k : (i \in DOMAIN l /\ k[i] = l[i]) \/ (i = Len(l) + 1 /\ k[i] = x)
  BY <1>1, <1>2
<1>6. 1 \in DOMAIN todo /\ x.kind = todo[1].kind /\ x.kind \in Kinds BY <1>1, <1>4 DEF Shape
<1>7. \A i \in DOMAIN l : Before(l[i], x) BY <1>6 DEF Fits, Before
<1>8. Shape(k)
  <2>1. \A i \in DOMAIN k : k[i].kind \in Kinds BY <1>5, <1>6 DEF Shape
  <2>2. ASSUME NEW i \in DOMAIN k, NEW j \in DOMAIN k, i < j PROVE Before(k[i], k[j])
    <3>1. i \in DOMAIN l /\ k[i] = l[i] BY <1>1, <1>2, <2>2
    <3> QED BY <1>5, <1>7, <2>2, <3>1 DEF Shape
  <2> QED BY <1>2, <2>1, <2>2 DEF Shape
<1>9. Refs(k, n)
  <2>1. \A i \in DOMAIN l : l[i].msg \in DOMAIN n /\ n[l[i].msg].kind = l[i].kind
    BY <1>1, <1>3 DEF Refs
  <2>2. x.msg \in DOMAIN n /\ n[x.msg].kind = x.kind BY <1>1, <1>3
  <2> QED BY <1>5, <2>1, <2>2 DEF Refs
<1>10. \A j \in DOMAIN rest : j + 1 \in DOMAIN todo /\ rest[j] = todo[j + 1] /\ 1 < j + 1
  BY <1>1, <1>4
<1>11. Shape(rest)
  <2>1. \A i \in DOMAIN rest : rest[i].kind \in Kinds BY <1>10 DEF Shape
  <2>2. ASSUME NEW i \in DOMAIN rest, NEW j \in DOMAIN rest, i < j
        PROVE  Before(rest[i], rest[j])
    <3>1. i + 1 < j + 1 BY <1>1, <1>4, <2>2
    <3> QED BY <1>10, <3>1 DEF Shape
  <2> QED BY <1>4, <2>1, <2>2 DEF Shape
<1>12. Fits(l, rest) BY <1>10 DEF Fits
<1>13. \A j \in DOMAIN rest : Before(x, rest[j])
  <2>1. \A j \in DOMAIN rest : Before(todo[1], todo[j + 1]) BY <1>6, <1>10 DEF Shape
  <2> QED BY <1>6, <1>10, <2>1 DEF Before
<1>14. Fits(k, rest) BY <1>5, <1>12, <1>13 DEF Fits
<1> QED BY <1>8, <1>9, <1>11, <1>12, <1>14 DEF k, rest, n

\* What publish and update send: cards, the guide, the footer.
LEMMA Planned ==
  ASSUME NEW S, IsFiniteSet(S)
  PROVE  LET todo == PackCards(S) \o <<Guide, Footer>>
         IN  Shape(todo) /\ todo # <<>>
<1> DEFINE n == Cardinality(S)
           p == PackCards(S)
           todo == p \o <<Guide, Footer>>
<1>1. n \in Nat BY FS_CardinalityType
<1>2. p = [i \in 1..n |-> p[i]] /\ \A i \in 1..n : p[i].kind = "card"
  BY DEF PackCards, Card
<1> HIDE DEF n, p
<1>3. IsSeq(p) /\ Len(p) = n /\ DOMAIN p = 1..n BY <1>1, <1>2, FunctionIsSeq
<1>4. /\ IsSeq(todo) /\ Len(todo) = n + 2 /\ DOMAIN todo = 1..(n + 2)
      /\ (\A i \in 1..n : todo[i] = p[i])
      /\ todo[n + 1] = Guide /\ todo[n + 2] = Footer
  BY <1>3, TwoBehind
<1>5. Guide.kind = "watch_guide" /\ Footer.kind = "footer" BY DEF Guide, Footer
<1> HIDE DEF todo
<1>6. \A i \in DOMAIN todo : i \in 1..n \/ i = n + 1 \/ i = n + 2 BY <1>1, <1>4
<1>7. \A i \in DOMAIN todo : todo[i].kind \in Kinds BY <1>2, <1>4, <1>5, <1>6 DEF Kinds
<1>8. \A i, j \in DOMAIN todo : i < j => Before(todo[i], todo[j])
  BY <1>1, <1>2, <1>4, <1>5, <1>6 DEF Before
<1>9. todo # <<>> BY <1>1, <1>4
<1>10. Shape(todo) BY <1>4, <1>7, <1>8 DEF Shape
<1> QED BY <1>9, <1>10 DEF todo, p

-----------------------------------------------------------------------------
(* The inductive invariant *)

Fields == {"pc", "op", "wanted", "body", "known", "todo", "new", "rows", "loaded"}

\* What a run has in hand, with the channel's messages ms.
Fine(t, ms) ==
  /\ DOMAIN t = Fields
  /\ t.pc \in {"build", "strip", "send", "anchor", "layout"} => Shape(t.body) /\ Refs(t.body, ms)
  /\ t.pc \in {"strip", "send"} => Shape(t.todo) /\ t.todo # <<>>
  /\ t.pc = "send" => Fits(t.body, t.todo)

Messages(ms) == IsSeq(ms) /\ \A m \in DOMAIN ms : "kind" \in DOMAIN ms[m]

IInv ==
  /\ Messages(msgs)
  /\ Shape(layout) /\ Refs(layout, msgs)
  /\ DOMAIN run = Runs /\ \A r \in Runs : Fine(run[r], msgs)

\* Messages are never taken back, and keep their kind.
Grows(ms, ns) ==
  DOMAIN ms \subseteq DOMAIN ns /\ \A m \in DOMAIN ms : ns[m].kind = ms[m].kind

LEMMA GrowsKeeps ==
  ASSUME NEW ms, NEW ns, Grows(ms, ns)
  PROVE  /\ \A l : Refs(l, ms) => Refs(l, ns)
         /\ \A t : Fine(t, ms) => Fine(t, ns)
<1>1. ASSUME NEW l, Refs(l, ms) PROVE Refs(l, ns) BY <1>1 DEF Grows, Refs
<1> QED BY <1>1 DEF Fine

LEMMA EmptyShape == \A ms : Shape(<<>>) /\ Refs(<<>>, ms) /\ \A todo : Fits(<<>>, todo)
<1>1. IsSeq(<<>>) /\ DOMAIN <<>> = {}
  <2>1. <<>> \in Seq({}) /\ DOMAIN <<>> = {} OBVIOUS
  <2> QED BY <2>1, TypedIsSeq
<1> QED BY <1>1 DEF Shape, Refs, Fits

\* One run moves; what is sent and stored stays in order.
LEMMA Moved ==
  ASSUME IInv, NEW r \in Runs, NEW t, run' = [run EXCEPT ![r] = t],
         Messages(msgs'), Grows(msgs, msgs'), Fine(t, msgs'),
         layout' = layout \/ (Shape(layout') /\ Refs(layout', msgs'))
  PROVE  IInv'
<1>1. Shape(layout') /\ Refs(layout', msgs') BY GrowsKeeps DEF IInv
<1>2. \A q \in Runs : Fine(run'[q], msgs') BY GrowsKeeps DEF IInv
<1> QED BY <1>1, <1>2 DEF IInv

\* ... and nothing is sent.
LEMMA MovedQuietly ==
  ASSUME IInv, NEW r \in Runs, NEW t, run' = [run EXCEPT ![r] = t], msgs' = msgs, Fine(t, msgs),
         layout' = layout \/ (Shape(layout') /\ Refs(layout', msgs))
  PROVE  IInv'
<1>1. Messages(msgs') /\ Grows(msgs, msgs') BY DEF IInv, Grows
<1> QED BY <1>1, Moved

LEMMA IdleFine ==
  ASSUME NEW ms, NEW pc, NEW op
  PROVE  /\ Fine(Idle, ms)
         /\ pc \notin {"build", "strip", "send", "anchor", "layout"} =>
              Fine([Idle EXCEPT !.pc = pc, !.op = op], ms)
BY DEF Fine, Idle, Fields

\* A change of place to one where nothing is promised.
LEMMA Leaves ==
  ASSUME NEW t, NEW ms, DOMAIN t = Fields,
         t.pc \notin {"build", "strip", "send", "anchor", "layout"}
  PROVE  Fine(t, ms)
BY DEF Fine

-----------------------------------------------------------------------------
(* publish *)

LEMMA PublishKeeps ==
  ASSUME IInv, NEW r \in Runs, Publish(r) PROVE IInv'
<1> DEFINE todo == PackCards(Confirmed) \o <<Guide, Footer>>
           t == [Idle EXCEPT !.pc = "send", !.op = "publish", !.todo = todo]
<1>1. run' = [run EXCEPT ![r] = t] /\ msgs' = msgs /\ layout' = layout
  BY DEF Publish, Starts, Moves, stored, channel
<1>2. IsFiniteSet(Confirmed) BY ChannelAssumption, FS_Subset
<1>3. Shape(todo) /\ todo # <<>> BY <1>2, Planned
<1> HIDE DEF todo
<1>4. DOMAIN t = Fields /\ t.pc = "send" /\ t.todo = todo /\ t.body = <<>> BY DEF Idle, Fields
<1> HIDE DEF t
<1>5. Fine(t, msgs) BY <1>3, <1>4, EmptyShape DEF Fine
<1> QED BY <1>1, <1>5, MovedQuietly

LEMMA SendKeeps ==
  ASSUME IInv, NEW r \in Runs, Send(r) PROVE IInv'
<1> DEFINE t == run[r]
           p == Head(t.todo)
           m == Len(msgs) + 1
           rest == [t EXCEPT !.todo = Tail(@),
                             !.pc = IF Len(t.todo) > 1 THEN "send"
                                    ELSE IF t.op = "publish" THEN "anchor" ELSE "layout"]
           y == [kind |-> p.kind, entry |-> p.entry, gen |-> p.gen,
                 links |-> IF p.kind = "watch_guide" THEN t.known ELSE {}]
           x == [kind |-> p.kind, entry |-> p.entry, msg |-> m]
           sent == [rest EXCEPT
                     !.body = Append(@, x),
                     !.known = @ \cup (IF IsCard(p) THEN {<<p.entry, m>>} ELSE {}),
                     !.new = IF IsCard(p) \/ t.op = "publish" THEN Append(@, p) ELSE @]
<1>1. t.pc = "send" /\ layout' = layout BY DEF Send, At, stored
<1>2. /\ DOMAIN t = Fields /\ Shape(t.body) /\ Refs(t.body, msgs)
      /\ Shape(t.todo) /\ t.todo # <<>> /\ Fits(t.body, t.todo) /\ Messages(msgs)
  BY <1>1 DEF IInv, Fine
<1>3. \/ msgs' = Append(msgs, y) /\ run' = [run EXCEPT ![r] = sent]
      \/ msgs' = msgs /\ run' = [run EXCEPT ![r] = rest]
  BY DEF Send, Moves, channel
<1>4. /\ DOMAIN rest = Fields /\ rest.todo = Tail(t.todo) /\ rest.body = t.body
      /\ rest.pc \in {"send", "anchor", "layout"}
      /\ rest.pc = "send" => Len(t.todo) > 1
      /\ DOMAIN sent = Fields /\ sent.todo = Tail(t.todo) /\ sent.body = Append(t.body, x)
      /\ sent.pc = rest.pc
  BY <1>2 DEF Fields
<1>5. y.kind = p.kind /\ x.kind = p.kind /\ x.msg = Len(msgs) + 1 /\ "kind" \in DOMAIN y OBVIOUS
<1>6. IsSeq(msgs) /\ IsSeq(t.todo) BY <1>2 DEF Messages, Shape
<1> HIDE DEF rest, sent, x, y
<1>7. /\ Shape(Append(t.body, x)) /\ Refs(Append(t.body, x), Append(msgs, y))
      /\ Shape(Tail(t.todo)) /\ Fits(Append(t.body, x), Tail(t.todo)) /\ Fits(t.body, Tail(t.todo))
  BY <1>2, <1>5, <1>6, Extended
<1>8. Len(t.todo) > 1 => Tail(t.todo) # <<>> BY <1>2, <1>6, MoreBehind
<1>9. CASE msgs' = Append(msgs, y) /\ run' = [run EXCEPT ![r] = sent]
  <2>1. Messages(msgs') /\ Grows(msgs, msgs')
    <3>1. /\ IsSeq(msgs') /\ DOMAIN msgs' = 1..(Len(msgs) + 1)
          /\ (\A i \in DOMAIN msgs : msgs'[i] = msgs[i]) /\ msgs'[Len(msgs) + 1] = y
      BY <1>6, <1>9, AppendSeq
    <3>2. Len(msgs) \in Nat /\ DOMAIN msgs = 1..Len(msgs) BY <1>6, SeqFacts
    <3>3. \A i \in DOMAIN msgs' : i \in DOMAIN msgs \/ i = Len(msgs) + 1 BY <3>1, <3>2
    <3> QED BY <1>2, <1>5, <3>1, <3>2, <3>3 DEF Messages, Grows
  <2>2. Fine(sent, msgs') BY <1>4, <1>7, <1>8, <1>9 DEF Fine
  <2> QED BY <1>1, <1>9, <2>1, <2>2, Moved
<1>10. CASE msgs' = msgs /\ run' = [run EXCEPT ![r] = rest]
  <2>1. Fine(rest, msgs) BY <1>2, <1>4, <1>7, <1>8 DEF Fine
  <2> QED BY <1>1, <1>10, <2>1, MovedQuietly
<1> QED BY <1>3, <1>9, <1>10

LEMMA SaveKeeps ==
  ASSUME IInv, NEW r \in Runs, SaveAnchor(r) \/ SaveLayout(r) \/ SavePosts(r) PROVE IInv'
<1> DEFINE t == run[r]
<1>0. Fine(t, msgs) /\ DOMAIN t = Fields BY DEF IInv, Fine
<1>1. CASE SaveAnchor(r)
  <2> DEFINE u == [t EXCEPT !.pc = "layout"]
  <2>1. run' = [run EXCEPT ![r] = u] /\ msgs' = msgs /\ layout' = layout /\ t.pc = "anchor"
    BY <1>1 DEF SaveAnchor, Goes, Moves, At, channel
  <2>2. DOMAIN u = Fields /\ u.pc = "layout" /\ u.body = t.body BY <1>0 DEF Fields
  <2>3. Fine(u, msgs) BY <1>0, <2>1, <2>2 DEF Fine
  <2> HIDE DEF u
  <2> QED BY <2>1, <2>3, MovedQuietly
<1>2. CASE SaveLayout(r)
  <2> DEFINE u == [t EXCEPT !.pc = "posts"]
  <2>1. run' = [run EXCEPT ![r] = u] /\ msgs' = msgs /\ layout' = t.body /\ t.pc = "layout"
    BY <1>2 DEF SaveLayout, Goes, Moves, At, channel
  <2>2. DOMAIN u = Fields /\ u.pc = "posts" BY <1>0 DEF Fields
  <2>3. Fine(u, msgs) BY <2>2, Leaves
  <2>4. Shape(layout') /\ Refs(layout', msgs) BY <1>0, <2>1 DEF Fine
  <2> HIDE DEF u
  <2> QED BY <2>1, <2>3, <2>4, MovedQuietly
<1>3. CASE SavePosts(r)
  <2>1. /\ \/ run' = [run EXCEPT ![r] = Idle]
           \/ run' = [run EXCEPT ![r] = [Idle EXCEPT !.pc = "backup", !.op = t.op]]
        /\ msgs' = msgs /\ layout' = layout
    BY <1>3 DEF SavePosts, AfterPosts, Moves, channel
  <2> QED BY <2>1, IdleFine, MovedQuietly
<1> QED BY <1>1, <1>2, <1>3

-----------------------------------------------------------------------------
(* update *)

LEMMA UpdateReadKeeps ==
  ASSUME IInv, NEW r \in Runs, UpdateRead(r) PROVE IInv'
<1>1. PICK e \in Entries :
        run' = [run EXCEPT ![r] = [Idle EXCEPT !.pc = "build", !.op = "update", !.wanted = e,
                                               !.body = layout]]
  BY DEF UpdateRead, Starts, Moves
<1> DEFINE t == [Idle EXCEPT !.pc = "build", !.op = "update", !.wanted = e, !.body = layout]
<1>2. msgs' = msgs /\ layout' = layout BY DEF UpdateRead, stored, channel
<1>3. DOMAIN t = Fields /\ t.pc = "build" /\ t.body = layout BY DEF Idle, Fields
<1>4. Fine(t, msgs) BY <1>3 DEF Fine, IInv
<1> HIDE DEF t
<1> QED BY <1>1, <1>2, <1>4, MovedQuietly DEF t

LEMMA UpdateBuildKeeps ==
  ASSUME IInv, NEW r \in Runs, UpdateBuild(r) PROVE IInv'
<1> DEFINE t == run[r]
           new == {e \in Entries : e = t.wanted /\ e \notin Already(t.body) /\ packs[e] > 0}
           todo == PackCards(new) \o <<Guide, Footer>>
           known == Known(t.body)
           u == [t EXCEPT !.pc = "strip", !.known = known, !.todo = todo]
<1>1. /\ run' = [run EXCEPT ![r] = Idle] \/ run' = [run EXCEPT ![r] = u]
      /\ msgs' = msgs /\ layout' = layout /\ t.pc = "build"
  BY DEF UpdateBuild, Moves, At, stored, channel
<1>2. new \subseteq Entries OBVIOUS
<1> HIDE DEF new
<1>3. IsFiniteSet(new) BY <1>2, ChannelAssumption, FS_Subset
<1>4. Shape(todo) /\ todo # <<>> BY <1>3, Planned
<1>5. Fine(t, msgs) /\ DOMAIN t = Fields BY DEF IInv, Fine
<1> HIDE DEF todo, known
<1>6. DOMAIN u = Fields /\ u.pc = "strip" /\ u.todo = todo /\ u.body = t.body BY <1>5 DEF Fields
<1>7. Fine(u, msgs) BY <1>1, <1>4, <1>5, <1>6 DEF Fine
<1> HIDE DEF u
<1> QED BY <1>1, <1>7, IdleFine, MovedQuietly

LEMMA UpdateStripKeeps ==
  ASSUME IInv, NEW r \in Runs, UpdateStrip(r)
  PROVE  IInv' /\ LiveCards \subseteq live'
<1> DEFINE t == run[r]
           tail == {x.msg : x \in ToSet(Tail_(t.body))}
           b == Body(t.body)
           u == [t EXCEPT !.pc = "send", !.body = b]
<1>1. /\ run' = [run EXCEPT ![r] = u] /\ msgs' = msgs /\ layout' = layout /\ t.pc = "strip"
  BY DEF UpdateStrip, Moves, At, stored
<1>2. PICK failed \in SUBSET tail : live' = live \ (tail \ failed) BY DEF UpdateStrip
<1>3. /\ DOMAIN t = Fields /\ Shape(t.body) /\ Refs(t.body, msgs)
      /\ Shape(t.todo) /\ t.todo # <<>>
  BY <1>1 DEF IInv, Fine
<1>4. /\ Shape(b) /\ Refs(b, msgs) /\ \A i \in DOMAIN b : b[i].kind = "card"
  BY <1>3, BodyIsCards
<1>5. Fits(b, t.todo) BY <1>4 DEF Fits, Before
<1> HIDE DEF b
<1>6. DOMAIN u = Fields /\ u.pc = "send" /\ u.body = b /\ u.todo = t.todo BY <1>3 DEF Fields
<1>7. Fine(u, msgs) BY <1>3, <1>4, <1>5, <1>6 DEF Fine
<1> HIDE DEF u
<1>8. IInv' BY <1>1, <1>7, MovedQuietly
<1>9. LiveCards \subseteq live'
  <2> SUFFICES ASSUME NEW m \in LiveCards, m \in tail PROVE FALSE BY <1>2 DEF LiveCards
  <2>1. PICK x \in ToSet(Tail_(t.body)) : m = x.msg OBVIOUS
  <2>2. msgs[m].kind # "card" BY <1>3, <2>1, TailHasNoCards
  <2> QED BY <2>2 DEF LiveCards, IsCard
<1> QED BY <1>8, <1>9

-----------------------------------------------------------------------------
(* relink and backup *)

LEMMA RelinkKeeps ==
  ASSUME IInv, NEW r \in Runs,
         RelinkRead(r) \/ RelinkLoad(r) \/ RelinkSync(r) \/ RelinkDone(r)
  PROVE  IInv'
<1> DEFINE t == run[r]
<1>0. DOMAIN t = Fields BY DEF IInv, Fine
<1>1. CASE RelinkRead(r)
  <2> DEFINE cards == OnlyCards(layout)
             u == [Idle EXCEPT !.pc = "load", !.op = "relink", !.body = cards]
  <2>1. run' = [run EXCEPT ![r] = u] /\ msgs' = msgs /\ layout' = layout
    BY <1>1 DEF RelinkRead, Starts, Moves, stored, channel
  <2> HIDE DEF cards
  <2>2. DOMAIN u = Fields /\ u.pc = "load" BY DEF Idle, Fields
  <2>3. Fine(u, msgs) BY <2>2, Leaves
  <2> HIDE DEF u
  <2> QED BY <2>1, <2>3, MovedQuietly
<1>2. CASE RelinkLoad(r)
  <2> DEFINE todo == Those(t.body, {i \in DOMAIN t.body : packs[t.body[i].entry] > 0})
             u == [t EXCEPT !.pc = "edit", !.body = <<>>, !.loaded = packs, !.todo = todo]
  <2>1. run' = [run EXCEPT ![r] = u] /\ msgs' = msgs /\ layout' = layout
    BY <1>2 DEF RelinkLoad, Moves, stored, channel
  <2> HIDE DEF todo
  <2>2. DOMAIN u = Fields /\ u.pc = "edit" BY <1>0 DEF Fields
  <2>3. Fine(u, msgs) BY <2>2, Leaves
  <2> HIDE DEF u
  <2> QED BY <2>1, <2>3, MovedQuietly
<1>3. CASE RelinkSync(r)
  <2> DEFINE new == <<Card(Head(t.todo).entry, 0)>>
             u == [t EXCEPT !.pc = "edit", !.todo = Tail(@), !.new = new]
  <2>1. run' = [run EXCEPT ![r] = u] /\ msgs' = msgs /\ layout' = layout
    BY <1>3 DEF RelinkSync, NextCard, Moves, channel
  <2> HIDE DEF new
  <2>2. DOMAIN u = Fields /\ u.pc = "edit" BY <1>0 DEF Fields
  <2>3. Fine(u, msgs) BY <2>2, Leaves
  <2> HIDE DEF u
  <2> QED BY <2>1, <2>3, MovedQuietly
<1>4. CASE RelinkDone(r)
  <2>1. /\ \/ run' = [run EXCEPT ![r] = Idle]
           \/ run' = [run EXCEPT ![r] = [Idle EXCEPT !.pc = "backup", !.op = "relink"]]
        /\ msgs' = msgs /\ layout' = layout
    BY <1>4 DEF RelinkDone, Moves, stored, channel
  <2> QED BY <2>1, IdleFine, MovedQuietly
<1> QED BY <1>1, <1>2, <1>3, <1>4

\* An edit changes the buttons of a message, not its kind.
LEMMA RelinkEditKeeps ==
  ASSUME IInv, NEW r \in Runs, RelinkEdit(r) PROVE IInv'
<1> DEFINE t == run[r]
           k == Head(t.todo).msg
           g == t.loaded[Head(t.todo).entry]
           u == [t EXCEPT !.pc = "sync"]
           v == [t EXCEPT !.todo = Tail(@)]
<1>0. DOMAIN t = Fields BY DEF IInv, Fine
<1>1. /\ t.pc = "edit" /\ layout' = layout
      /\ \/ msgs' = [msgs EXCEPT ![k].gen = g] /\ run' = [run EXCEPT ![r] = u]
         \/ msgs' = msgs /\ run' = [run EXCEPT ![r] = v]
  BY DEF RelinkEdit, At, Goes, Moves, stored
<1>2. /\ DOMAIN u = Fields /\ u.pc = "sync" /\ DOMAIN v = Fields /\ v.pc = "edit"
  BY <1>0, <1>1 DEF Fields
<1>3. \A ms : Fine(u, ms) /\ Fine(v, ms) BY <1>2, Leaves
<1> HIDE DEF u, v, k, g
<1>4. CASE msgs' = [msgs EXCEPT ![k].gen = g] /\ run' = [run EXCEPT ![r] = u]
  <2>1. /\ IsSeq(msgs) /\ \A m \in DOMAIN msgs : "kind" \in DOMAIN msgs[m] BY DEF IInv, Messages
  <2>2. Len(msgs) \in Nat /\ DOMAIN msgs = 1..Len(msgs) BY <2>1, SeqFacts
  <2>3. /\ DOMAIN msgs' = 1..Len(msgs) /\ msgs' = [i \in 1..Len(msgs) |-> msgs'[i]]
        /\ \A m \in DOMAIN msgs : msgs'[m] = IF m = k THEN [msgs[m] EXCEPT !.gen = g] ELSE msgs[m]
    BY <1>4, <2>2
  <2>4. IsSeq(msgs') BY <2>2, <2>3, FunctionIsSeq
  <2>5. \A m \in DOMAIN msgs : "kind" \in DOMAIN msgs'[m] /\ msgs'[m].kind = msgs[m].kind
    BY <2>1, <2>3
  <2>6. Messages(msgs') /\ Grows(msgs, msgs') BY <2>2, <2>3, <2>4, <2>5 DEF Messages, Grows
  <2> QED BY <1>1, <1>3, <1>4, <2>6, Moved
<1>5. CASE msgs' = msgs /\ run' = [run EXCEPT ![r] = v]
  BY <1>1, <1>3, <1>5, MovedQuietly
<1> QED BY <1>1, <1>4, <1>5

LEMMA BackupKeeps ==
  ASSUME IInv, NEW r \in Runs, BackupRead(r) \/ BackupWrite(r) PROVE IInv'
<1> DEFINE t == run[r]
           u == [t EXCEPT !.pc = "write", !.rows = posts]
<1>0. DOMAIN t = Fields BY DEF IInv, Fine
<1>1. /\ run' = [run EXCEPT ![r] = Idle] \/ run' = [run EXCEPT ![r] = u]
      /\ msgs' = msgs /\ layout' = layout
  BY DEF BackupRead, BackupWrite, Moves, stored, channel
<1>2. DOMAIN u = Fields /\ u.pc = "write" BY <1>0 DEF Fields
<1>3. Fine(u, msgs) BY <1>2, Leaves
<1> HIDE DEF u
<1> QED BY <1>1, <1>3, IdleFine, MovedQuietly

LEMMA DatabaseFailsKeeps ==
  ASSUME IInv, NEW r \in Runs, DatabaseFails(r) PROVE IInv'
<1> DEFINE t == run[r]
           new == <<Card(Head(t.todo).entry, 0)>>
           u == [t EXCEPT !.pc = "edit", !.todo = Tail(@), !.new = new]
<1>0. DOMAIN t = Fields BY DEF IInv, Fine
<1>1. /\ \/ run' = [run EXCEPT ![r] = Idle]
         \/ run' = [run EXCEPT ![r] = [Idle EXCEPT !.pc = "backup", !.op = "publish"]]
         \/ run' = [run EXCEPT ![r] = [Idle EXCEPT !.pc = "backup", !.op = t.op]]
         \/ run' = [run EXCEPT ![r] = u]
      /\ msgs' = msgs /\ layout' = layout
  BY DEF DatabaseFails, AfterPosts, NextCard, Moves, stored, channel
<1> HIDE DEF new
<1>2. DOMAIN u = Fields /\ u.pc = "edit" BY <1>0 DEF Fields
<1>3. Fine(u, msgs) BY <1>2, Leaves
<1> HIDE DEF u
<1> QED BY <1>1, <1>3, IdleFine, MovedQuietly

LEMMA CrashKeeps ==
  ASSUME IInv, Crash PROVE IInv'
<1>1. run' = [r \in Runs |-> Idle] /\ msgs' = msgs /\ layout' = layout
  BY DEF Crash, stored, channel
<1>2. DOMAIN run' = Runs /\ \A r \in Runs : run'[r] = Idle BY <1>1
<1> QED BY <1>1, <1>2, IdleFine DEF IInv

-----------------------------------------------------------------------------
(* Every step *)

LEMMA InitIInv == Init => IInv
<1> SUFFICES ASSUME Init PROVE IInv OBVIOUS
<1>1. msgs = <<>> /\ layout = <<>> /\ run = [r \in Runs |-> Idle] BY DEF Init
<1>2. DOMAIN run = Runs /\ \A r \in Runs : run[r] = Idle BY <1>1
<1>3. Messages(<<>>)
  <2>1. IsSeq(<<>>) BY EmptyShape DEF Shape
  <2> QED BY <2>1 DEF Messages
<1> QED BY <1>1, <1>2, <1>3, IdleFine, EmptyShape DEF IInv

\* Only the strip deletes.
LEMMA OthersDeleteNothing ==
  ASSUME [Next]_vars, \A r \in Runs : ~UpdateStrip(r) PROVE live \subseteq live'
BY DEF Next, Step, vars, channel, Crash, StorePacks, Publish, Send, SaveAnchor, SaveLayout, SavePosts,
   UpdateRead, UpdateBuild, RelinkRead, RelinkLoad, RelinkEdit, RelinkSync, RelinkDone, BackupRead,
   BackupWrite, DatabaseFails

LEMMA NextIInv == IInv /\ [Next]_vars => IInv'
<1> SUFFICES ASSUME IInv, [Next]_vars PROVE IInv' OBVIOUS
<1>1. CASE UNCHANGED vars BY <1>1 DEF vars, IInv
<1>2. CASE \E e \in Entries : StorePacks(e)
  BY <1>2 DEF StorePacks, stored, channel, IInv
<1>3. ASSUME NEW r \in Runs, Step(r) PROVE IInv'
  BY <1>3, PublishKeeps, SendKeeps, SaveKeeps, UpdateReadKeeps, UpdateBuildKeeps, UpdateStripKeeps,
     RelinkKeeps, RelinkEditKeeps, BackupKeeps, DatabaseFailsKeeps DEF Step
<1> QED BY <1>1, <1>2, <1>3, CrashKeeps DEF Next

-----------------------------------------------------------------------------
(* Members of sequences *)

LEMMA SetOfAppend ==
  ASSUME NEW S, NEW s \in Seq(S), NEW x \in S
  PROVE  Append(s, x) \in Seq(S) /\ ToSet(Append(s, x)) = ToSet(s) \cup {x}
<1> DEFINE t == Append(s, x)
<1>1. /\ t \in Seq(S) /\ DOMAIN s = 1..Len(s) /\ DOMAIN t = 1..(Len(s) + 1) /\ Len(s) \in Nat
      /\ t[Len(s) + 1] = x /\ \A i \in 1..Len(s) : t[i] = s[i]
  OBVIOUS
<1> HIDE DEF t
<1>2. ToSet(t) = ToSet(s) \cup {x} BY <1>1 DEF ToSet
<1> QED BY <1>1, <1>2 DEF t

LEMMA SetOfTail ==
  ASSUME NEW S, NEW s \in Seq(S), s # <<>>
  PROVE  /\ Head(s) \in S /\ Tail(s) \in Seq(S) /\ Head(s) \in ToSet(s)
         /\ ToSet(s) = {Head(s)} \cup ToSet(Tail(s))
<1> DEFINE t == Tail(s)
<1>1. /\ t \in Seq(S) /\ DOMAIN s = 1..Len(s) /\ DOMAIN t = 1..(Len(s) - 1) /\ Len(s) \in Nat \ {0}
      /\ Head(s) = s[1] /\ s[1] \in S /\ \A i \in 1..(Len(s) - 1) : t[i] = s[i + 1]
  OBVIOUS
<1> HIDE DEF t
<1>2. \A i \in DOMAIN s : i = 1 \/ (i - 1 \in DOMAIN t /\ s[i] = t[i - 1]) BY <1>1
<1>3. \A i \in DOMAIN t : i + 1 \in DOMAIN s /\ t[i] = s[i + 1] BY <1>1
<1>4. 1 \in DOMAIN s BY <1>1
<1>5. ToSet(s) = {s[1]} \cup ToSet(t) BY <1>2, <1>3, <1>4 DEF ToSet
<1> QED BY <1>1, <1>4, <1>5 DEF t, ToSet

LEMMA SetOfSubSeq ==
  ASSUME NEW S, NEW s \in Seq(S), NEW m \in 1..(Len(s) + 1), NEW n \in 0..Len(s), m <= n + 1
  PROVE  SubSeq(s, m, n) \in Seq(S) /\ ToSet(SubSeq(s, m, n)) = {s[i] : i \in m..n}
<1> DEFINE t == SubSeq(s, m, n)
<1>1. /\ DOMAIN t = 1..(n - m + 1) /\ \A i \in 1..(n - m + 1) : t[i] = s[m + i - 1]
  OBVIOUS
<1>2. t \in Seq(S) OBVIOUS
<1> HIDE DEF t
<1>3. \A i \in m..n : i - m + 1 \in DOMAIN t /\ t[i - m + 1] = s[i] BY <1>1
<1>4. \A i \in DOMAIN t : m + i - 1 \in m..n /\ t[i] = s[m + i - 1] BY <1>1
<1>5. ToSet(t) \subseteq {s[i] : i \in m..n} BY <1>4 DEF ToSet
<1>6. ASSUME NEW i \in m..n PROVE s[i] \in ToSet(t) BY <1>3 DEF ToSet
<1> QED BY <1>2, <1>5, <1>6 DEF t

\* Nth counts the members of a finite set of numbers off, each once.
LEMMA NthIs ==
  ASSUME NEW S, S \subseteq Nat, IsFiniteSet(S)
  PROVE  /\ \A n \in 1..Cardinality(S) : Nth(S, n) \in S
         /\ \A x \in S : \E n \in 1..Cardinality(S) : Nth(S, n) = x
         /\ \A m, n \in 1..Cardinality(S) : Nth(S, m) = Nth(S, n) => m = n
         /\ Cardinality(S) \in Nat
<1> DEFINE N == Cardinality(S)
           Upto(x) == {y \in S : y <= x}
           rank == [x \in S |-> Cardinality(Upto(x))]
<1>1. N \in Nat BY FS_CardinalityType
<1>2. ASSUME NEW x \in S PROVE IsFiniteSet(Upto(x)) /\ Cardinality(Upto(x)) \in 1..N
  <2>1. Upto(x) \in SUBSET S /\ x \in Upto(x) OBVIOUS
  <2>2. IsFiniteSet(Upto(x)) /\ Cardinality(Upto(x)) <= N BY <2>1, FS_Subset
  <2>3. Cardinality(Upto(x)) \in Nat /\ Cardinality(Upto(x)) # 0
    BY <2>1, <2>2, FS_CardinalityType, FS_EmptySet
  <2> QED BY <1>1, <2>2, <2>3
<1>3. ASSUME NEW x \in S, NEW y \in S, x < y PROVE rank[x] < rank[y]
  <2>0. x \in Nat /\ y \in Nat /\ \A z \in S : z \in Nat OBVIOUS
  <2>1. (\A z \in S : z <= x => z <= y) /\ y <= y /\ ~(y <= x) BY <1>3, <2>0
  <2>2. /\ Cardinality(Upto(x)) <= Cardinality(Upto(y))
        /\ Cardinality(Upto(x)) # Cardinality(Upto(y))
    <3>1. IsFiniteSet(Upto(y)) BY <1>2
    <3>2. y \in Upto(y) BY <2>1
    <3>3. y \notin Upto(x) BY <2>1
    <3>4. Upto(x) \in SUBSET Upto(y) BY <2>1
    <3> HIDE DEF Upto
    <3> QED BY <3>1, <3>2, <3>3, <3>4, FS_Subset
  <2>3. Cardinality(Upto(x)) \in Nat /\ Cardinality(Upto(y)) \in Nat BY <1>2
  <2> HIDE DEF Upto
  <2> QED BY <2>2, <2>3
<1>4. rank \in [S -> 1..N] BY <1>2
<1> HIDE DEF rank
<1>5. \A x, y \in S : rank[x] = rank[y] => x = y
  <2> SUFFICES ASSUME NEW x \in S, NEW y \in S, rank[x] = rank[y], x # y PROVE FALSE OBVIOUS
  <2>1. x < y \/ y < x OBVIOUS
  <2>2. rank[x] \in Int /\ rank[y] \in Int BY <1>1, <1>4
  <2> QED BY <1>3, <2>1, <2>2
<1>6. rank \in Surjection(S, 1..N)
  <2>1. rank \in Injection(S, 1..N) BY <1>4, <1>5 DEF Injection, IsInjective
  <2>2. IsFiniteSet(1..N) /\ Cardinality(1..N) = N
    <3>1. 1 \in Int /\ N \in Int BY <1>1
    <3>2. IsFiniteSet(1..N) /\ Cardinality(1..N) = IF 1 > N THEN 0 ELSE N - 1 + 1
      BY <3>1, FS_Interval
    <3> HIDE DEF N
    <3> QED BY <1>1, <3>2
  <2>3. N = Cardinality(1..N) <=> rank \in Surjection(S, 1..N) BY <2>1, <2>2, FS_Injection
  <2> QED BY <2>2, <2>3
<1>7. \A n \in 1..N : \E x \in S : rank[x] = n BY <1>6 DEF Surjection
<1>8. ASSUME NEW n \in 1..N PROVE Nth(S, n) \in S /\ rank[Nth(S, n)] = n
  <2>1. \A x \in S : rank[x] = Cardinality({y \in S : y <= x}) BY DEF rank
  <2>2. \E x \in S : Cardinality({y \in S : y <= x}) = n BY <1>7, <2>1
  <2>3. Nth(S, n) \in S /\ Cardinality({y \in S : y <= Nth(S, n)}) = n BY <2>2, Zenon DEF Nth
  <2> QED BY <2>1, <2>3
<1>9. ASSUME NEW x \in S PROVE \E n \in 1..N : Nth(S, n) = x
  <2>1. rank[x] \in 1..N BY <1>4
  <2>2. Nth(S, rank[x]) \in S /\ rank[Nth(S, rank[x])] = rank[x] BY <1>8, <2>1
  <2> QED BY <1>5, <2>1, <2>2
<1> QED BY <1>1, <1>8, <1>9

\* The members of l at the places I.
LEMMA ThoseAre ==
  ASSUME NEW S, NEW l \in Seq(S), NEW I \in SUBSET DOMAIN l
  PROVE  /\ Those(l, I) \in Seq(S) /\ ToSet(Those(l, I)) = {l[i] : i \in I}
         /\ I # {} => Those(l, I) # <<>>
<1> DEFINE n == Cardinality(I)
           t == Those(l, I)
<1>1. DOMAIN l = 1..Len(l) /\ Len(l) \in Nat /\ \A i \in DOMAIN l : l[i] \in S OBVIOUS
<1>2. I \subseteq Nat BY <1>1
<1>3. IsFiniteSet(I)
  <2>1. 1 \in Int /\ Len(l) \in Int BY <1>1
  <2>2. IsFiniteSet(DOMAIN l) BY <1>1, <2>1, FS_Interval
  <2> QED BY <2>2, FS_Subset
<1>4. /\ \A k \in 1..n : Nth(I, k) \in I
      /\ \A x \in I : \E k \in 1..n : Nth(I, k) = x
      /\ n \in Nat
  BY <1>2, <1>3, NthIs
<1>5. t = [k \in 1..n |-> l[Nth(I, k)]] BY DEF Those
<1>6. n = 0 => I = {} BY <1>3, FS_EmptySet
<1> HIDE DEF n, t
<1>7. \A k \in 1..n : t[k] = l[Nth(I, k)] /\ t[k] \in S BY <1>1, <1>4, <1>5
<1>8. t \in Seq(S) /\ DOMAIN t = 1..n BY <1>4, <1>5, <1>7
<1>9. ToSet(t) \subseteq {l[i] : i \in I} BY <1>4, <1>7, <1>8 DEF ToSet
<1>10. ASSUME NEW i \in I PROVE l[i] \in ToSet(t)
  <2>1. PICK k \in 1..n : Nth(I, k) = i BY <1>4
  <2> QED BY <1>7, <1>8, <2>1 DEF ToSet
<1>11. I # {} => t # <<>> BY <1>4, <1>6, <1>8
<1> QED BY <1>8, <1>9, <1>10, <1>11 DEF t

LEMMA OnlyCardsAre ==
  ASSUME NEW S, NEW l \in Seq(S)
  PROVE  OnlyCards(l) \in Seq(S) /\ ToSet(OnlyCards(l)) = Cards(l)
<1>1. Places(l, "card") \in SUBSET DOMAIN l BY DEF Places
<1>2. {l[i] : i \in Places(l, "card")} = Cards(l) BY DEF Places, Cards, ToSet, IsCard
<1> QED BY <1>1, <1>2, ThoseAre DEF OnlyCards

\* Two more behind a sequence.
LEMMA SetOfTwoBehind ==
  ASSUME NEW S, NEW s \in Seq(S), NEW x \in S, NEW y \in S
  PROVE  s \o <<x, y>> \in Seq(S) /\ ToSet(s \o <<x, y>>) = ToSet(s) \cup {x, y}
<1> DEFINE r == Append(s, x)
           t == s \o <<x, y>>
<1>1. t = Append(r, y) OBVIOUS
<1>2. r \in Seq(S) /\ ToSet(r) = ToSet(s) \cup {x} BY SetOfAppend
<1> HIDE DEF r, t
<1>3. t \in Seq(S) /\ ToSet(t) = ToSet(r) \cup {y} BY <1>1, <1>2, SetOfAppend
<1> QED BY <1>2, <1>3 DEF t

LEMMA SetOfConcat ==
  ASSUME NEW S, NEW s \in Seq(S), NEW t \in Seq(S)
  PROVE  s \o t \in Seq(S) /\ ToSet(s \o t) = ToSet(s) \cup ToSet(t)
<1> DEFINE c == s \o t
           m == Len(s)
           n == Len(t)
<1>1. /\ c \in Seq(S) /\ m \in Nat /\ n \in Nat
      /\ DOMAIN s = 1..m /\ DOMAIN t = 1..n /\ DOMAIN c = 1..(m + n)
  OBVIOUS
<1>2. (\A i \in 1..m : c[i] = s[i]) /\ (\A i \in (m + 1)..(m + n) : c[i] = t[i - m]) OBVIOUS
<1> HIDE DEF c, m, n
<1>3. \A i \in 1..n : m + i \in (m + 1)..(m + n) /\ (m + i) - m = i BY <1>1
<1>4. \A i \in 1..n : m + i \in DOMAIN c /\ c[m + i] = t[i] BY <1>1, <1>2, <1>3
<1>5. \A i \in 1..m : i \in DOMAIN c /\ c[i] = s[i] BY <1>1, <1>2
<1>6. \A i \in DOMAIN c : i \in 1..m \/ (i - m \in 1..n /\ c[i] = t[i - m]) BY <1>1, <1>2
<1>7. ToSet(c) \subseteq ToSet(s) \cup ToSet(t) BY <1>1, <1>5, <1>6 DEF ToSet
<1>8. ToSet(s) \subseteq ToSet(c) BY <1>1, <1>5 DEF ToSet
<1>9. ToSet(t) \subseteq ToSet(c) BY <1>1, <1>4 DEF ToSet
<1> QED BY <1>1, <1>7, <1>8, <1>9 DEF c

-----------------------------------------------------------------------------
(* Types *)

\* Cards, and only cards, stand for an entry.
Named(S) == {x \in S : IsCard(x) <=> x.entry \in Entries}

\* What a run holds, by where it is.
Held(t) ==
  /\ t \in Task
  /\ t.body \in Seq(Named(Item)) /\ t.new \in Seq(Named(Post)) /\ t.rows \in Seq(Named(Post))
  /\ t.pc \in {"strip", "send"} => t.todo \in Seq(Named(Post)) /\ t.todo # <<>>
  /\ t.pc = "load" => \A x \in ToSet(t.body) : IsCard(x)
  /\ t.pc \in {"edit", "sync"} => t.todo \in Seq(Named(Item)) /\ \A x \in ToSet(t.todo) : IsCard(x)
  /\ t.pc = "sync" => t.todo # <<>>
  /\ t.pc \in {"build", "strip", "load"} => t.new = <<>>

TInv ==
  /\ TypeOK
  /\ msgs \in Seq(Named(Msg)) /\ layout \in Seq(Named(Item))
  /\ posts \in Seq(Named(Post)) /\ backup \in Seq(Named(Post))
  /\ \A r \in Runs : Held(run[r])

LEMMA SeqWider == ASSUME NEW S, NEW T, S \subseteq T, NEW s \in Seq(S) PROVE s \in Seq(T)
<1>1. \A i \in DOMAIN s : s[i] \in T OBVIOUS
<1> QED BY <1>1

LEMMA NamedIs == \A S : Named(S) \subseteq S
BY DEF Named

\* The cards of the entries S: one for each.
LEMMA PackCardsAre ==
  ASSUME TInv, NEW S \in SUBSET Entries
  PROVE  LET p == PackCards(S)
         IN  /\ p \in Seq(Named(Post)) /\ ToSet(p) = {Card(e, packs[e]) : e \in S}
             /\ \A i, j \in DOMAIN p : p[i].entry = p[j].entry => i = j
<1> DEFINE n == Cardinality(S)
           p == PackCards(S)
<1>1. S \subseteq Nat /\ IsFiniteSet(S) BY ChannelAssumption, FS_Subset
<1>2. /\ \A k \in 1..n : Nth(S, k) \in S
      /\ \A x \in S : \E k \in 1..n : Nth(S, k) = x
      /\ \A k, m \in 1..n : Nth(S, k) = Nth(S, m) => k = m
      /\ n \in Nat
  BY <1>1, NthIs
<1>3. p = [k \in 1..n |-> Card(Nth(S, k), packs[Nth(S, k)])] BY DEF PackCards
<1>4. \A e \in S : Card(e, packs[e]) \in Named(Post) /\ Card(e, packs[e]).entry = e
  BY DEF Card, Named, Post, Kinds, IsCard, TInv, TypeOK
<1> HIDE DEF n, p
<1>5. DOMAIN p = 1..n /\ \A k \in 1..n : p[k] = Card(Nth(S, k), packs[Nth(S, k)]) BY <1>3
<1>6. \A k \in 1..n : p[k] \in Named(Post) /\ p[k].entry = Nth(S, k) BY <1>2, <1>4, <1>5
<1>7. p \in Seq(Named(Post)) BY <1>2, <1>3, <1>5, <1>6
<1>8. ToSet(p) = {Card(e, packs[e]) : e \in S}
  <2>1. ToSet(p) \subseteq {Card(e, packs[e]) : e \in S} BY <1>2, <1>5 DEF ToSet
  <2>2. ASSUME NEW e \in S PROVE Card(e, packs[e]) \in ToSet(p)
    <3>1. PICK k \in 1..n : Nth(S, k) = e BY <1>2
    <3> QED BY <1>5, <3>1 DEF ToSet
  <2> QED BY <2>1, <2>2
<1>9. \A i, j \in DOMAIN p : p[i].entry = p[j].entry => i = j BY <1>2, <1>5, <1>6
<1> QED BY <1>7, <1>8, <1>9 DEF p

\* No two cards are of one entry.
OneEach(l) == \A i, j \in DOMAIN l : IsCard(l[i]) /\ IsCard(l[j]) /\ l[i].entry = l[j].entry => i = j

LEMMA PlanIs ==
  ASSUME TInv, NEW S \in SUBSET Entries
  PROVE  LET todo == PackCards(S) \o <<Guide, Footer>>
         IN  /\ todo \in Seq(Named(Post)) /\ todo # <<>> /\ OneEach(todo)
             /\ Cards(todo) = {Card(e, packs[e]) : e \in S}
<1> DEFINE p == PackCards(S)
           todo == p \o <<Guide, Footer>>
<1>1. /\ p \in Seq(Named(Post)) /\ ToSet(p) = {Card(e, packs[e]) : e \in S}
      /\ \A i, j \in DOMAIN p : p[i].entry = p[j].entry => i = j
  BY PackCardsAre
<1>2. /\ Guide \in Named(Post) /\ Footer \in Named(Post) /\ ~IsCard(Guide) /\ ~IsCard(Footer)
  BY ChannelAssumption DEF Guide, Footer, Named, Post, Kinds, IsCard, None
<1>3. \A e \in S : IsCard(Card(e, packs[e])) BY DEF IsCard, Card
<1> HIDE DEF p
<1>4. todo \in Seq(Named(Post)) /\ ToSet(todo) = ToSet(p) \cup {Guide, Footer}
  BY <1>1, <1>2, SetOfTwoBehind
<1>5. IsSeq(p) BY <1>1, TypedIsSeq
<1>6. /\ Len(todo) = Len(p) + 2 /\ DOMAIN todo = 1..(Len(p) + 2)
      /\ \A i \in DOMAIN p : todo[i] = p[i]
      /\ todo[Len(p) + 1] = Guide /\ todo[Len(p) + 2] = Footer
  BY <1>5, TwoBehind
<1>7. DOMAIN p = 1..Len(p) /\ Len(p) \in Nat BY <1>1
<1> HIDE DEF todo
<1>8. \A i \in DOMAIN todo : IsCard(todo[i]) => i \in DOMAIN p /\ todo[i] = p[i]
  BY <1>2, <1>6, <1>7
<1>9. OneEach(todo) BY <1>1, <1>8 DEF OneEach
<1>10. todo # <<>> BY <1>6, <1>7
<1>11. Cards(todo) = {Card(e, packs[e]) : e \in S} BY <1>1, <1>2, <1>3, <1>4 DEF Cards
<1> QED BY <1>4, <1>9, <1>10, <1>11 DEF todo, p

-----------------------------------------------------------------------------
(* What the steps do *)

\* Run r moves and no other; the rest of the state is named step by step.
Only(r) ==
  /\ run' = [q \in Runs |-> run'[q]]
  /\ \A q \in Runs \ {r} : run'[q] = run[q]

LEMMA OnlyOne ==
  ASSUME TInv, NEW r \in Runs, NEW u, Moves(r, u)
  PROVE  Only(r) /\ run'[r] = u
BY DEF Moves, Only, TInv, TypeOK

LEMMA HeldNow == ASSUME TInv, NEW r \in Runs PROVE Held(run[r]) /\ run[r] \in Task
BY DEF TInv, Held

LEMMA EmptyIs == \A S : <<>> \in Seq(S) /\ ToSet(<<>>) = {} /\ Cards(<<>>) = {}
<1>1. DOMAIN <<>> = {} OBVIOUS
<1>2. ToSet(<<>>) = {} BY <1>1 DEF ToSet
<1> QED BY <1>2 DEF Cards

\* A task that has just begun, with one of its first fields set.
LEMMA IdleIs ==
  /\ Idle \in Task /\ Held(Idle)
  /\ Idle.pc = "idle" /\ Idle.op = "none" /\ Idle.body = <<>> /\ Idle.known = {} /\ Idle.todo = <<>>
  /\ Idle.new = <<>> /\ Idle.rows = <<>> /\ Idle.wanted = None
  /\ Idle.loaded = [e \in Entries |-> 0]
<1>1. Idle.loaded \in [Entries -> 0..MaxPacks] BY ChannelAssumption DEF Idle
<1>2. Idle \in Task BY <1>1, EmptyIs DEF Idle, Task, None
<1> QED BY <1>2, EmptyIs DEF Idle, Held

LEMMA ThenBackup ==
  ASSUME NEW op \in {"none", "publish", "update", "relink"}
  PROVE  LET u == [Idle EXCEPT !.pc = "backup", !.op = op]
         IN  Held(u) /\ u.pc = "backup" /\ u.op = op /\ u.loaded = [e \in Entries |-> 0]
<1> DEFINE u == [Idle EXCEPT !.pc = "backup", !.op = op]
<1>1. u \in Task BY IdleIs DEF Task
<1>2. /\ u.pc = "backup" /\ u.op = op /\ u.body = <<>> /\ u.new = <<>> /\ u.rows = <<>>
      /\ u.loaded = [e \in Entries |-> 0]
  BY IdleIs DEF Task
<1> HIDE DEF u
<1>3. Held(u) BY <1>1, <1>2, EmptyIs DEF Held
<1> QED BY <1>2, <1>3 DEF u

Plan(S) == PackCards(S) \o <<Guide, Footer>>

\* The messages of the cards in l.
Where(l) == {x.msg : x \in Cards(l)}

LEMMA PublishDoes ==
  ASSUME TInv, NEW r \in Runs, Publish(r)
  PROVE  LET u == run'[r]
         IN  /\ At(r, "idle") /\ Only(r) /\ Held(u)
             /\ u.pc = "send" /\ u.op = "publish" /\ u.body = <<>> /\ u.known = {} /\ u.new = <<>>
             /\ u.todo = Plan(Confirmed) /\ u.loaded = [e \in Entries |-> 0]
             /\ starts' \in 0..MaxStarts
             /\ overlapped' = (overlapped \/ \E q \in Runs \ {r} : ~At(q, "idle"))
             /\ UNCHANGED <<packs, channel, stored, faults, breaks, healed, orphans>>
<1> DEFINE u == [Idle EXCEPT !.pc = "send", !.op = "publish", !.todo = Plan(Confirmed)]
<1>1. Starts(r, u) /\ UNCHANGED <<packs, channel, stored, faults, breaks, healed, orphans>>
  BY DEF Publish, Plan
<1>2. Plan(Confirmed) \in Seq(Named(Post)) /\ Plan(Confirmed) # <<>>
  BY ChannelAssumption, PlanIs DEF Plan
<1>3. Plan(Confirmed) \in Seq(Post) BY <1>2, NamedIs, SeqWider
<1>4. u \in Task BY <1>3, IdleIs DEF Task
<1>5. /\ u.pc = "send" /\ u.op = "publish" /\ u.body = <<>> /\ u.known = {} /\ u.new = <<>>
      /\ u.rows = <<>> /\ u.todo = Plan(Confirmed) /\ u.loaded = [e \in Entries |-> 0]
  BY IdleIs DEF Task
<1> HIDE DEF u
<1>6. Held(u) BY <1>2, <1>4, <1>5, EmptyIs DEF Held
<1>7. Only(r) /\ run'[r] = u BY <1>1, OnlyOne DEF Starts
<1>8. starts' \in 0..MaxStarts BY <1>1, ChannelAssumption DEF Starts, TInv, TypeOK
<1> QED BY <1>1, <1>5, <1>6, <1>7, <1>8 DEF Starts

LEMMA LastOne ==
  ASSUME NEW S, NEW s \in Seq(S), s # <<>>
  PROVE  Len(s) > 1 <=> Tail(s) # <<>>
<1> DEFINE t == Tail(s)
<1>1. t \in Seq(S) /\ Len(t) = Len(s) - 1 /\ Len(s) \in Nat \ {0} OBVIOUS
<1> HIDE DEF t
<1>2. t # <<>> <=> Len(t) # 0 BY <1>1
<1>3. Len(s) > 1 <=> t # <<>> BY <1>1, <1>2
<1> QED BY <1>3 DEF t

LEMMA SendDoes ==
  ASSUME TInv, NEW r \in Runs, Send(r)
  PROVE  LET t == run[r]
             u == run'[r]
             p == Head(t.todo)
             m == Len(msgs) + 1
             y == [kind |-> p.kind, entry |-> p.entry, gen |-> p.gen,
                   links |-> IF p.kind = "watch_guide" THEN t.known ELSE {}]
             x == [kind |-> p.kind, entry |-> p.entry, msg |-> m]
         IN  /\ t.pc = "send" /\ Only(r) /\ Held(u)
             /\ u.pc \in {"send", "anchor", "layout"} /\ u.op = t.op /\ u.loaded = t.loaded
             /\ u.pc = "send" \/ Tail(t.todo) = <<>>
             /\ u.pc = "layout" => t.op # "publish"
             /\ u.pc = "anchor" => t.op = "publish"
             /\ u.todo = Tail(t.todo)
             /\ \/ /\ msgs' = Append(msgs, y) /\ live' = live \cup {m} /\ faults' = faults
                   /\ u.body = Append(t.body, x)
                   /\ u.known = t.known \cup (IF IsCard(p) THEN {<<p.entry, m>>} ELSE {})
                   /\ u.new = IF IsCard(p) \/ t.op = "publish" THEN Append(t.new, p) ELSE t.new
                \/ /\ UNCHANGED channel /\ faults' = faults + 1 /\ Trouble
                   /\ u.body = t.body /\ u.known = t.known /\ u.new = t.new
             /\ y \in Named(Msg) /\ x \in Named(Item) /\ p \in Named(Post)
             /\ UNCHANGED <<packs, stored, breaks, history>>
<1> DEFINE t == run[r]
           p == Head(t.todo)
           m == Len(msgs) + 1
           y == [kind |-> p.kind, entry |-> p.entry, gen |-> p.gen,
                 links |-> IF p.kind = "watch_guide" THEN t.known ELSE {}]
           x == [kind |-> p.kind, entry |-> p.entry, msg |-> m]
           pc == IF Len(t.todo) > 1 THEN "send"
                 ELSE IF t.op = "publish" THEN "anchor" ELSE "layout"
           rest == [t EXCEPT !.todo = Tail(@), !.pc = pc]
           known == t.known \cup (IF IsCard(p) THEN {<<p.entry, m>>} ELSE {})
           new == IF IsCard(p) \/ t.op = "publish" THEN Append(t.new, p) ELSE t.new
           sent == [rest EXCEPT !.body = Append(@, x),
                                !.known = @ \cup (IF IsCard(p) THEN {<<p.entry, m>>} ELSE {}),
                                !.new = IF IsCard(p) \/ t.op = "publish" THEN Append(@, p) ELSE @]
<1>1. t \in Task /\ Held(t) BY HeldNow
<1>2. /\ t.pc = "send"
      /\ \/ /\ msgs' = Append(msgs, y) /\ live' = live \cup {m} /\ Moves(r, sent) /\ faults' = faults
         \/ Trouble /\ faults' = faults + 1 /\ Moves(r, rest) /\ UNCHANGED channel
      /\ UNCHANGED <<packs, stored, breaks, history>>
  BY DEF Send, At
<1>3. /\ t.todo \in Seq(Named(Post)) /\ t.todo # <<>> /\ t.body \in Seq(Named(Item))
      /\ t.new \in Seq(Named(Post)) /\ t.rows \in Seq(Named(Post))
      /\ t.known \in SUBSET (Entries \X Nat)
  BY <1>1, <1>2 DEF Held, Task
<1>4. p \in Named(Post) /\ Tail(t.todo) \in Seq(Named(Post)) BY <1>3, SetOfTail
<1>5. Len(msgs) \in Nat /\ m \in Nat BY DEF TInv
<1>6. y \in Named(Msg) /\ x \in Named(Item)
  <2>1. p \in Post /\ (IsCard(p) <=> p.entry \in Entries) BY <1>4 DEF Named
  <2>2. y \in Msg BY <1>3, <2>1 DEF Post, Msg
  <2>3. x \in Item BY <1>5, <2>1 DEF Post, Item
  <2> QED BY <2>1, <2>2, <2>3 DEF Named, IsCard
<1>7. IsCard(p) => p.entry \in Entries BY <1>4 DEF Named
<1>8. /\ known \in SUBSET (Entries \X Nat) /\ new \in Seq(Named(Post))
      /\ Append(t.body, x) \in Seq(Named(Item))
  BY <1>3, <1>4, <1>5, <1>6, <1>7, SetOfAppend
<1>9. pc \in {"send", "anchor", "layout"} /\ (pc = "send" \/ Tail(t.todo) = <<>>)
      /\ (pc = "send" => Tail(t.todo) # <<>>)
      /\ (pc = "layout" => t.op # "publish") /\ (pc = "anchor" => t.op = "publish")
  BY <1>3, LastOne
<1> HIDE DEF pc, x, y, known, new
<1>10. /\ Seq(Named(Post)) \subseteq Seq(Post) /\ Seq(Named(Item)) \subseteq Seq(Item)
       /\ pc \in {"idle", "build", "strip", "send", "anchor", "layout", "posts",
                  "load", "edit", "sync", "backup", "write"}
  BY <1>9, NamedIs, SeqWider
<1>11. Tail(t.todo) \in Seq(Post) \cup Seq(Item) BY <1>4, <1>10
<1> DEFINE tail == Tail(t.todo)
           body == Append(t.body, x)
<1>12. rest = [t EXCEPT !.todo = tail, !.pc = pc] OBVIOUS
<1> HIDE DEF tail, rest
<1>13. /\ rest.pc = pc /\ rest.op = t.op /\ rest.todo = tail /\ rest.body = t.body
       /\ rest.known = t.known /\ rest.new = t.new /\ rest.rows = t.rows /\ rest.loaded = t.loaded
       /\ rest \in Task
  BY <1>1, <1>10, <1>11, <1>12 DEF Task, tail
<1>14. /\ sent.pc = pc /\ sent.op = t.op /\ sent.todo = tail /\ sent.body = body
       /\ sent.known = known /\ sent.new = new /\ sent.rows = t.rows /\ sent.loaded = t.loaded
       /\ sent \in Task
  <2>1. sent = [rest EXCEPT !.body = body, !.known = known, !.new = new]
    BY <1>13 DEF known, new, Task
  <2>2. body \in Seq(Item) /\ new \in Seq(Post) BY <1>8, <1>10
  <2> HIDE DEF sent, body
  <2> QED BY <1>8, <1>13, <2>1, <2>2 DEF Task
<1> HIDE DEF sent
<1>15. Held(rest) BY <1>3, <1>4, <1>9, <1>13 DEF Held, tail
<1>16. Held(sent) BY <1>3, <1>4, <1>8, <1>9, <1>14 DEF Held, tail
<1>17. CASE msgs' = Append(msgs, y) /\ live' = live \cup {m} /\ Moves(r, sent) /\ faults' = faults
  <2>1. Only(r) /\ run'[r] = sent BY <1>17, OnlyOne
  <2> QED BY <1>2, <1>4, <1>6, <1>9, <1>14, <1>16, <1>17, <2>1 DEF x, y, known, new, tail
<1>18. CASE Trouble /\ faults' = faults + 1 /\ Moves(r, rest) /\ UNCHANGED channel
  <2>1. Only(r) /\ run'[r] = rest BY <1>18, OnlyOne
  <2> QED BY <1>2, <1>4, <1>6, <1>9, <1>13, <1>15, <1>18, <2>1 DEF x, y, tail
<1> QED BY <1>2, <1>17, <1>18

LEMMA GoesDoes ==
  ASSUME TInv, NEW r \in Runs, Goes(r, "layout") \/ Goes(r, "posts") \/ Goes(r, "sync")
  PROVE  LET t == run[r]
             u == run'[r]
         IN  /\ Only(r) /\ u \in Task
             /\ \E pc \in {"layout", "posts", "sync"} : Goes(r, pc) /\ u.pc = pc
             /\ u.op = t.op /\ u.body = t.body /\ u.known = t.known /\ u.todo = t.todo
             /\ u.new = t.new /\ u.rows = t.rows /\ u.loaded = t.loaded
<1>1. PICK pc \in {"layout", "posts", "sync"} : Goes(r, pc) OBVIOUS
<1> DEFINE t == run[r]
           u == [t EXCEPT !.pc = pc]
<1>2. t \in Task BY HeldNow
<1>3. Only(r) /\ run'[r] = u BY <1>1, OnlyOne DEF Goes
<1>4. /\ u \in Task /\ u.pc = pc
      /\ u.op = t.op /\ u.body = t.body /\ u.known = t.known /\ u.todo = t.todo
      /\ u.new = t.new /\ u.rows = t.rows /\ u.loaded = t.loaded
  BY <1>2 DEF Task
<1> QED BY <1>1, <1>3, <1>4

LEMMA SaveAnchorDoes ==
  ASSUME TInv, NEW r \in Runs, SaveAnchor(r)
  PROVE  LET t == run[r]
             u == run'[r]
         IN  /\ t.pc = "anchor" /\ Only(r) /\ Held(u)
             /\ u.pc = "layout" /\ u.op = t.op /\ u.body = t.body /\ u.new = t.new
             /\ u.loaded = t.loaded /\ anchor'
             /\ UNCHANGED <<packs, channel, layout, posts, backup, faults, breaks, history>>
<1>1. Goes(r, "layout") /\ run[r].pc = "anchor" BY DEF SaveAnchor, At
<1>2. run'[r].pc = "layout" BY <1>1, OnlyOne, HeldNow DEF Goes, Task
<1>3. Held(run'[r]) BY <1>1, <1>2, GoesDoes, HeldNow DEF Held
<1> QED BY <1>1, <1>2, <1>3, GoesDoes DEF SaveAnchor

LEMMA SaveLayoutDoes ==
  ASSUME TInv, NEW r \in Runs, SaveLayout(r)
  PROVE  LET t == run[r]
             u == run'[r]
         IN  /\ t.pc = "layout" /\ Only(r) /\ Held(u)
             /\ u.pc = "posts" /\ u.op = t.op /\ u.body = t.body /\ u.new = t.new
             /\ u.loaded = t.loaded /\ layout' = t.body
             /\ orphans' = IF t.op = "publish" THEN orphans \cup Where(layout) ELSE orphans
             /\ UNCHANGED <<packs, channel, anchor, posts, backup, faults, breaks, starts,
                            overlapped, healed>>
<1>1. Goes(r, "posts") /\ run[r].pc = "layout" BY DEF SaveLayout, At
<1>2. run'[r].pc = "posts" BY <1>1, OnlyOne, HeldNow DEF Goes, Task
<1>3. Held(run'[r]) BY <1>1, <1>2, GoesDoes, HeldNow DEF Held
<1> QED BY <1>1, <1>2, <1>3, GoesDoes DEF SaveLayout, Where

\* The rows an update keeps and adds.
LEMMA ReconciledIs ==
  ASSUME TInv, NEW rows \in Seq(Named(Post)), NEW new \in Seq(Named(Post))
  PROVE  LET q == Reconciled(rows, new)
         IN  /\ q \in Seq(Named(Post)) /\ q # <<>>
             /\ Cards(q) = Cards(rows) \cup
                             {p \in Cards(new) : \A x \in Cards(rows) : x.entry # p.entry}
<1> DEFINE kept == OnlyCards(rows)
           I == {i \in DOMAIN new : \A x \in Cards(rows) : x.entry # new[i].entry}
           fresh == Those(new, I)
           both == kept \o fresh
           q == both \o <<Guide, Footer>>
           F == {p \in Cards(new) : \A x \in Cards(rows) : x.entry # p.entry}
<1>1. kept \in Seq(Named(Post)) /\ ToSet(kept) = Cards(rows) BY OnlyCardsAre
<1>2. fresh \in Seq(Named(Post)) /\ ToSet(fresh) = {new[i] : i \in I} BY ThoseAre
<1>3. {new[i] : i \in I} = {p \in ToSet(new) : \A x \in Cards(rows) : x.entry # p.entry}
  BY DEF ToSet
<1>4. /\ Guide \in Named(Post) /\ Footer \in Named(Post) /\ ~IsCard(Guide) /\ ~IsCard(Footer)
  BY ChannelAssumption DEF Guide, Footer, Named, Post, Kinds, IsCard, None
<1>5. q = Reconciled(rows, new) BY DEF Reconciled
<1> HIDE DEF kept, fresh, I
<1>6. both \in Seq(Named(Post)) /\ ToSet(both) = ToSet(kept) \cup ToSet(fresh)
  BY <1>1, <1>2, SetOfConcat
<1> HIDE DEF both
<1>7. q \in Seq(Named(Post)) /\ ToSet(q) = ToSet(both) \cup {Guide, Footer}
  BY <1>4, <1>6, SetOfTwoBehind
<1> HIDE DEF q
<1>8. Guide \in ToSet(q) BY <1>7
<1>9. q # <<>> BY <1>8, EmptyIs
<1>10. Cards(q) = Cards(rows) \cup F BY <1>1, <1>2, <1>3, <1>4, <1>6, <1>7 DEF Cards
<1> QED BY <1>5, <1>7, <1>9, <1>10

LEMMA SavePostsDoes ==
  ASSUME TInv, NEW r \in Runs, SavePosts(r)
  PROVE  LET t == run[r]
             u == run'[r]
         IN  /\ t.pc = "posts" /\ Only(r) /\ Held(u) /\ u.loaded = [e \in Entries |-> 0]
             /\ IF t.op = "update" /\ t.new = <<>> THEN u = Idle
                ELSE u.pc = "backup" /\ u.op = t.op
             /\ posts' \in Seq(Named(Post))
             /\ t.op = "publish" => posts' = t.new
             /\ t.op # "publish" =>
                  /\ posts' # <<>>
                  /\ Cards(posts') = Cards(posts) \cup
                       {p \in Cards(t.new) : \A x \in Cards(posts) : x.entry # p.entry}
             /\ UNCHANGED <<packs, channel, anchor, layout, backup, faults, breaks, history>>
<1> DEFINE t == run[r]
<1>1. t.pc = "posts" /\ AfterPosts(r) BY DEF SavePosts, At
<1>2. t \in Task /\ t.new \in Seq(Named(Post)) /\ t.op \in {"none", "publish", "update", "relink"}
  BY HeldNow DEF Held, Task
<1>3. posts' = IF t.op = "publish" THEN t.new ELSE Reconciled(posts, t.new) BY DEF SavePosts
<1>4. posts \in Seq(Named(Post)) BY DEF TInv
<1>5. /\ posts' \in Seq(Named(Post))
      /\ t.op # "publish" =>
           /\ posts' # <<>>
           /\ Cards(posts') = Cards(posts) \cup
                {p \in Cards(t.new) : \A x \in Cards(posts) : x.entry # p.entry}
  BY <1>2, <1>3, <1>4, ReconciledIs
<1>6. CASE t.op = "update" /\ t.new = <<>>
  <2>1. Only(r) /\ run'[r] = Idle BY <1>1, <1>6, OnlyOne DEF AfterPosts
  <2> QED BY <1>1, <1>3, <1>5, <1>6, <2>1, IdleIs DEF SavePosts
<1>7. CASE ~(t.op = "update" /\ t.new = <<>>)
  <2> DEFINE u == [Idle EXCEPT !.pc = "backup", !.op = t.op]
  <2>1. Only(r) /\ run'[r] = u BY <1>1, <1>7, OnlyOne DEF AfterPosts
  <2>2. Held(u) /\ u.pc = "backup" /\ u.op = t.op /\ u.loaded = [e \in Entries |-> 0]
    BY <1>2, ThenBackup
  <2> HIDE DEF u
  <2> QED BY <1>1, <1>3, <1>5, <1>7, <2>1, <2>2 DEF SavePosts
<1> QED BY <1>6, <1>7

LEMMA UpdateReadDoes ==
  ASSUME TInv, NEW r \in Runs, UpdateRead(r)
  PROVE  LET u == run'[r]
         IN  /\ At(r, "idle") /\ anchor /\ Only(r) /\ Held(u)
             /\ u.pc = "build" /\ u.op = "update" /\ u.body = layout
             /\ u.loaded = [e \in Entries |-> 0]
             /\ starts' \in 0..MaxStarts
             /\ overlapped' = (overlapped \/ \E q \in Runs \ {r} : ~At(q, "idle"))
             /\ UNCHANGED <<packs, channel, stored, faults, breaks, healed, orphans>>
<1>1. PICK e \in Entries :
        Starts(r, [Idle EXCEPT !.pc = "build", !.op = "update", !.wanted = e, !.body = layout])
  BY DEF UpdateRead
<1> DEFINE u == [Idle EXCEPT !.pc = "build", !.op = "update", !.wanted = e, !.body = layout]
<1>2. layout \in Seq(Named(Item)) /\ layout \in Seq(Item) BY NamedIs, SeqWider DEF TInv
<1>3. u \in Task BY <1>2, IdleIs DEF Task
<1>4. /\ u.pc = "build" /\ u.op = "update" /\ u.body = layout /\ u.new = <<>> /\ u.rows = <<>>
      /\ u.loaded = [d \in Entries |-> 0]
  BY IdleIs DEF Task
<1>5. Starts(r, u) BY <1>1
<1> HIDE DEF u
<1>6. Held(u) BY <1>2, <1>3, <1>4, EmptyIs DEF Held
<1>7. Only(r) /\ run'[r] = u BY <1>5, OnlyOne DEF Starts
<1>8. starts' \in 0..MaxStarts BY <1>5, ChannelAssumption DEF Starts, TInv, TypeOK
<1> QED BY <1>4, <1>5, <1>6, <1>7, <1>8 DEF Starts, UpdateRead

LEMMA UpdateBuildDoes ==
  ASSUME TInv, NEW r \in Runs, UpdateBuild(r)
  PROVE  LET t == run[r]
             u == run'[r]
         IN  /\ t.pc = "build" /\ Only(r) /\ Held(u)
             /\ \/ u = Idle
                \/ /\ u.pc = "strip" /\ u.op = t.op /\ u.body = t.body /\ u.new = <<>>
                   /\ u.known = Known(t.body) /\ u.loaded = t.loaded /\ OneEach(u.todo)
                   /\ \A p \in Cards(u.todo) : /\ p.entry \in Entries \ Already(t.body)
                                               /\ p.gen = packs[p.entry]
             /\ UNCHANGED <<packs, channel, stored, faults, breaks, history>>
<1> DEFINE t == run[r]
           new == {e \in Entries : e = t.wanted /\ e \notin Already(t.body) /\ packs[e] > 0}
           known == Known(t.body)
           u == [t EXCEPT !.pc = "strip", !.known = known, !.todo = Plan(new)]
<1>1. /\ t.pc = "build" /\ (Moves(r, Idle) \/ Moves(r, u))
      /\ UNCHANGED <<packs, channel, stored, faults, breaks, history>>
  BY DEF UpdateBuild, At, Plan
<1>2. t \in Task /\ Held(t) /\ t.body \in Seq(Named(Item)) /\ t.new = <<>>
      /\ t.rows \in Seq(Named(Post))
  BY <1>1, HeldNow DEF Held
<1>3. new \in SUBSET Entries /\ \A e \in new : e \notin Already(t.body) OBVIOUS
<1> HIDE DEF new
<1>4. /\ Plan(new) \in Seq(Named(Post)) /\ Plan(new) # <<>> /\ OneEach(Plan(new))
      /\ Cards(Plan(new)) = {Card(e, packs[e]) : e \in new}
  BY <1>3, PlanIs DEF Plan
<1>5. Plan(new) \in Seq(Post) BY <1>4, NamedIs, SeqWider
<1>6. known \in SUBSET (Entries \X Nat)
  <2>1. \A x \in ToSet(t.body) : x \in Named(Item) BY <1>2 DEF ToSet
  <2>2. \A x \in Cards(t.body) : x.entry \in Entries /\ x.msg \in Nat
    BY <2>1 DEF Cards, Named, Item
  <2> QED BY <2>2 DEF Known
<1>7. known = Known(t.body) OBVIOUS
<1> HIDE DEF known
<1>8. u \in Task /\ u.pc = "strip" /\ u.op = t.op /\ u.body = t.body /\ u.new = t.new
      /\ u.known = known /\ u.loaded = t.loaded /\ u.todo = Plan(new) /\ u.rows = t.rows
  BY <1>2, <1>5, <1>6 DEF Task
<1> HIDE DEF u
<1>9. Held(u) BY <1>2, <1>4, <1>8, EmptyIs DEF Held
<1>10. \A p \in Cards(Plan(new)) : p.entry \in Entries \ Already(t.body) /\ p.gen = packs[p.entry]
  BY <1>3, <1>4 DEF Card
<1>11. CASE Moves(r, Idle) BY <1>1, <1>11, OnlyOne, IdleIs
<1>12. CASE Moves(r, u)
  <2>1. Only(r) /\ run'[r] = u BY <1>12, OnlyOne
  <2> QED BY <1>1, <1>2, <1>4, <1>7, <1>8, <1>9, <1>10, <2>1
<1> QED BY <1>1, <1>11, <1>12

\* What is before the cut holds the same cards, and no guide.
LEMMA BodyIs ==
  ASSUME NEW l \in Seq(Named(Item)), Shape(l)
  PROVE  /\ Body(l) \in Seq(Named(Item)) /\ ToSet(Body(l)) = Cards(l)
         /\ Cards(Body(l)) = Cards(l)
<1> DEFINE c == Cut(l)
           b == Body(l)
<1>1. DOMAIN l = 1..Len(l) /\ Len(l) \in Nat OBVIOUS
<1>2. /\ c \in 1..(Len(l) + 1)
      /\ \A i \in DOMAIN l : i >= c => ~IsCard(l[i])
      /\ \A i \in DOMAIN l : i < c => IsCard(l[i])
  BY CutIsSafe DEF IsCard
<1>3. b = SubSeq(l, 1, c - 1) BY DEF Body
<1> HIDE DEF b, c
<1>4. 1 \in 1..(Len(l) + 1) /\ c - 1 \in 0..Len(l) /\ 1 <= (c - 1) + 1 BY <1>1, <1>2
<1>5. b \in Seq(Named(Item)) /\ ToSet(b) = {l[i] : i \in 1..(c - 1)} BY <1>3, <1>4, SetOfSubSeq
<1>6. \A i \in DOMAIN l : IsCard(l[i]) <=> i \in 1..(c - 1) BY <1>1, <1>2
<1>7. 1..(c - 1) \subseteq DOMAIN l BY <1>1, <1>2
<1>8. {l[i] : i \in 1..(c - 1)} = Cards(l) BY <1>6, <1>7 DEF Cards, ToSet
<1>9. ToSet(b) = Cards(l) BY <1>5, <1>8
<1>10. Cards(b) = Cards(l) BY <1>9 DEF Cards
<1> QED BY <1>5, <1>9, <1>10 DEF b

LEMMA TailIs ==
  ASSUME NEW l \in Seq(Named(Item)), Shape(l) PROVE ToSet(Tail_(l)) \subseteq ToSet(l)
<1> DEFINE c == Cut(l)
           n == Len(l)
<1>1. c \in 1..(n + 1) BY CutIsSafe
<1>2. n \in Nat /\ DOMAIN l = 1..n OBVIOUS
<1>3. Tail_(l) = SubSeq(l, c, n) BY DEF Tail_
<1>4. n = Len(l) OBVIOUS
<1> HIDE DEF c, n
<1>5. n \in 0..n /\ c <= n + 1 BY <1>1, <1>2
<1>6. ToSet(SubSeq(l, c, n)) = {l[i] : i \in c..n} BY <1>1, <1>4, <1>5, SetOfSubSeq
<1>7. c..n \subseteq DOMAIN l BY <1>1, <1>2
<1> QED BY <1>3, <1>6, <1>7 DEF ToSet

LEMMA UpdateStripDoes ==
  ASSUME TInv, IInv, NEW r \in Runs, UpdateStrip(r)
  PROVE  LET t == run[r]
             u == run'[r]
         IN  /\ t.pc = "strip" /\ Only(r) /\ Held(u)
             /\ u.pc = "send" /\ u.op = t.op /\ u.todo = t.todo /\ u.known = t.known
             /\ u.loaded = t.loaded /\ u.new = <<>> /\ u.body = Body(t.body)
             /\ ToSet(u.body) = Cards(t.body) /\ Cards(u.body) = Cards(t.body)
             /\ live' \subseteq live /\ LiveCards \subseteq live' /\ faults' \in 0..MaxTroubles
             /\ faults <= faults'
             /\ UNCHANGED <<packs, msgs, stored, breaks, history>>
<1> DEFINE t == run[r]
           tail == {x.msg : x \in ToSet(Tail_(t.body))}
           b == Body(t.body)
           u == [t EXCEPT !.pc = "send", !.body = b]
<1>1. /\ t.pc = "strip" /\ Moves(r, u) /\ UNCHANGED <<packs, msgs, stored, breaks, history>>
  BY DEF UpdateStrip, At
<1>2. PICK failed \in SUBSET tail :
        /\ faults + breaks + Cardinality(failed) <= MaxTroubles
        /\ faults' = faults + Cardinality(failed)
        /\ live' = live \ (tail \ failed)
  BY DEF UpdateStrip
<1>3. /\ t \in Task /\ t.body \in Seq(Named(Item)) /\ t.new = <<>> /\ t.rows \in Seq(Named(Post))
      /\ t.todo \in Seq(Named(Post)) /\ t.todo # <<>>
  BY <1>1, HeldNow DEF Held
<1>4. Shape(t.body) /\ Refs(t.body, msgs) BY <1>1 DEF IInv, Fine
<1>5. b \in Seq(Named(Item)) /\ ToSet(b) = Cards(t.body) /\ Cards(b) = Cards(t.body)
  BY <1>3, <1>4, BodyIs
<1>6. b = Body(t.body) OBVIOUS
<1>7. b \in Seq(Item) BY <1>5, NamedIs, SeqWider
<1> HIDE DEF b
<1>8. u \in Task /\ u.pc = "send" /\ u.op = t.op /\ u.body = b /\ u.new = t.new
      /\ u.known = t.known /\ u.loaded = t.loaded /\ u.todo = t.todo /\ u.rows = t.rows
  BY <1>3, <1>7 DEF Task
<1> HIDE DEF u
<1>9. Held(u) BY <1>3, <1>5, <1>8, EmptyIs DEF Held
<1>10. Only(r) /\ run'[r] = u BY <1>1, OnlyOne
<1>11. Cardinality(failed) \in Nat
  <2>1. \A x \in ToSet(Tail_(t.body)) : x.msg \in DOMAIN msgs
    <3>1. \A x \in ToSet(t.body) : x.msg \in DOMAIN msgs BY <1>4 DEF Refs, ToSet
    <3>2. ToSet(Tail_(t.body)) \subseteq ToSet(t.body) BY <1>3, <1>4, TailIs
    <3> QED BY <3>1, <3>2
  <2>2. tail \subseteq DOMAIN msgs BY <2>1
  <2>3. DOMAIN msgs = 1..Len(msgs) /\ Len(msgs) \in Nat BY DEF TInv
  <2>4. 1 \in Int /\ Len(msgs) \in Int BY <2>3
  <2>5. IsFiniteSet(DOMAIN msgs) BY <2>3, <2>4, FS_Interval
  <2>6. failed \in SUBSET DOMAIN msgs BY <2>2
  <2>7. IsFiniteSet(failed) BY <2>5, <2>6, FS_Subset
  <2> QED BY <2>7, FS_CardinalityType
<1>12. faults \in Nat /\ breaks \in Nat /\ MaxTroubles \in Nat BY ChannelAssumption DEF TInv, TypeOK
<1>13. faults' \in 0..MaxTroubles /\ faults <= faults' BY <1>2, <1>11, <1>12
<1>14. LiveCards \subseteq live' BY UpdateStripKeeps
<1>15. live' \subseteq live BY <1>2
<1> QED BY <1>1, <1>3, <1>5, <1>6, <1>8, <1>9, <1>10, <1>13, <1>14, <1>15

LEMMA RelinkReadDoes ==
  ASSUME TInv, NEW r \in Runs, RelinkRead(r)
  PROVE  LET u == run'[r]
         IN  /\ At(r, "idle") /\ anchor /\ Cards(layout) # {} /\ Only(r) /\ Held(u)
             /\ u.pc = "load" /\ u.op = "relink" /\ ToSet(u.body) = Cards(layout) /\ u.new = <<>>
             /\ u.loaded = [e \in Entries |-> 0]
             /\ starts' \in 0..MaxStarts
             /\ overlapped' = (overlapped \/ \E q \in Runs \ {r} : ~At(q, "idle"))
             /\ UNCHANGED <<packs, channel, stored, faults, breaks, healed, orphans>>
<1> DEFINE b == OnlyCards(layout)
           u == [Idle EXCEPT !.pc = "load", !.op = "relink", !.body = b]
<1>1. Starts(r, u) /\ anchor /\ Cards(layout) # {} BY DEF RelinkRead
<1>2. b \in Seq(Named(Item)) /\ ToSet(b) = Cards(layout) BY OnlyCardsAre DEF TInv
<1>3. b \in Seq(Item) BY <1>2, NamedIs, SeqWider
<1> HIDE DEF b
<1>4. /\ u \in Task /\ u.pc = "load" /\ u.op = "relink" /\ u.body = b /\ u.new = <<>>
      /\ u.rows = <<>> /\ u.loaded = [d \in Entries |-> 0]
  BY <1>3, IdleIs DEF Task
<1> HIDE DEF u
<1>5. Held(u) BY <1>2, <1>4, EmptyIs DEF Held, Cards
<1>6. Only(r) /\ run'[r] = u BY <1>1, OnlyOne DEF Starts
<1>7. starts' \in 0..MaxStarts BY <1>1, ChannelAssumption DEF Starts, TInv, TypeOK
<1> QED BY <1>1, <1>2, <1>4, <1>5, <1>6, <1>7 DEF Starts, RelinkRead

LEMMA RelinkLoadDoes ==
  ASSUME TInv, NEW r \in Runs, RelinkLoad(r)
  PROVE  LET t == run[r]
             u == run'[r]
         IN  /\ t.pc = "load" /\ Only(r) /\ Held(u)
             /\ u.pc = "edit" /\ u.op = t.op /\ u.new = <<>> /\ u.loaded = packs
             /\ ToSet(u.todo) = {x \in ToSet(t.body) : packs[x.entry] > 0}
             /\ UNCHANGED <<packs, channel, stored, faults, breaks, history>>
<1> DEFINE t == run[r]
           I == {i \in DOMAIN t.body : packs[t.body[i].entry] > 0}
           todo == Those(t.body, I)
           u == [t EXCEPT !.pc = "edit", !.body = <<>>, !.loaded = packs, !.todo = todo]
<1>1. t.pc = "load" /\ Moves(r, u) BY DEF RelinkLoad, At
<1>2. /\ t \in Task /\ t.body \in Seq(Named(Item)) /\ t.new = <<>> /\ t.rows \in Seq(Named(Post))
      /\ \A x \in ToSet(t.body) : IsCard(x)
  BY <1>1, HeldNow DEF Held
<1>3. todo \in Seq(Named(Item)) /\ ToSet(todo) = {t.body[i] : i \in I} BY <1>2, ThoseAre
<1>4. {t.body[i] : i \in I} = {x \in ToSet(t.body) : packs[x.entry] > 0} BY DEF ToSet
<1> HIDE DEF todo, I
<1>5. todo \in Seq(Item) BY <1>3, NamedIs, SeqWider
<1>6. packs \in [Entries -> 0..MaxPacks] BY DEF TInv, TypeOK
<1>7. /\ u \in Task /\ u.pc = "edit" /\ u.op = t.op /\ u.body = <<>> /\ u.new = t.new
      /\ u.rows = t.rows /\ u.loaded = packs /\ u.todo = todo
  BY <1>2, <1>5, <1>6, EmptyIs DEF Task
<1> HIDE DEF u
<1>8. Held(u) BY <1>2, <1>3, <1>4, <1>7, EmptyIs DEF Held
<1>9. Only(r) /\ run'[r] = u BY <1>1, OnlyOne
<1> QED BY <1>1, <1>2, <1>3, <1>4, <1>7, <1>8, <1>9 DEF RelinkLoad

LEMMA RelinkEditDoes ==
  ASSUME TInv, NEW r \in Runs, RelinkEdit(r)
  PROVE  LET t == run[r]
             u == run'[r]
             x == Head(t.todo)
             g == t.loaded[x.entry]
         IN  /\ t.pc = "edit" /\ t.todo # <<>> /\ Only(r) /\ Held(u)
             /\ x \in Named(Item) /\ IsCard(x) /\ x.entry \in Entries /\ g \in 0..MaxPacks
             /\ u.op = t.op /\ u.new = t.new /\ u.loaded = t.loaded
             /\ \/ /\ u.pc = "sync" /\ u.todo = t.todo /\ faults' = faults
                   /\ msgs' = [m \in DOMAIN msgs |-> IF m = x.msg THEN [msgs[m] EXCEPT !.gen = g]
                                                     ELSE msgs[m]]
                \/ /\ u.pc = "edit" /\ u.todo = Tail(t.todo) /\ faults' = faults + 1 /\ Trouble
                   /\ msgs' = msgs
             /\ UNCHANGED <<packs, live, stored, breaks, history>>
<1> DEFINE t == run[r]
           x == Head(t.todo)
           g == t.loaded[x.entry]
           v == [t EXCEPT !.todo = Tail(@)]
<1>1. /\ t.pc = "edit" /\ t.todo # <<>>
      /\ \/ msgs' = [msgs EXCEPT ![x.msg].gen = g] /\ Goes(r, "sync") /\ faults' = faults
         \/ Trouble /\ faults' = faults + 1 /\ Moves(r, v) /\ msgs' = msgs
      /\ UNCHANGED <<packs, live, stored, breaks, history>>
  BY DEF RelinkEdit, At
<1>2. /\ t \in Task /\ t.new \in Seq(Named(Post)) /\ t.rows \in Seq(Named(Post))
      /\ t.body \in Seq(Named(Item)) /\ t.todo \in Seq(Named(Item)) /\ \A z \in ToSet(t.todo) : IsCard(z)
  BY <1>1, HeldNow DEF Held
<1>3. /\ x \in Named(Item) /\ x \in ToSet(t.todo) /\ Tail(t.todo) \in Seq(Named(Item))
      /\ ToSet(Tail(t.todo)) \subseteq ToSet(t.todo)
  BY <1>1, <1>2, SetOfTail
<1>4. IsCard(x) /\ x.entry \in Entries BY <1>2, <1>3 DEF Named
<1>5. g \in 0..MaxPacks BY <1>2, <1>4 DEF Task
<1>6. CASE msgs' = [msgs EXCEPT ![x.msg].gen = g] /\ Goes(r, "sync") /\ faults' = faults
  <2>1. run'[r].pc = "sync" BY <1>2, <1>6, OnlyOne DEF Goes, Task
  <2>2. /\ Only(r) /\ run'[r] \in Task
        /\ run'[r].op = t.op /\ run'[r].body = t.body /\ run'[r].todo = t.todo
        /\ run'[r].new = t.new /\ run'[r].rows = t.rows /\ run'[r].loaded = t.loaded
    BY <1>6, GoesDoes
  <2>3. Held(run'[r]) BY <1>1, <1>2, <2>1, <2>2 DEF Held
  <2>4. msgs \in Seq(Named(Msg)) BY DEF TInv
  <2>5. msgs' = [m \in DOMAIN msgs |-> IF m = x.msg THEN [msgs[m] EXCEPT !.gen = g] ELSE msgs[m]]
    <3> HIDE DEF x, g
    <3> QED BY <1>6, <2>4
  <2> QED BY <1>1, <1>3, <1>4, <1>5, <1>6, <2>1, <2>2, <2>3, <2>5
<1>7. CASE Trouble /\ faults' = faults + 1 /\ Moves(r, v) /\ msgs' = msgs
  <2> DEFINE rest == Tail(t.todo)
  <2>1. rest \in Seq(Named(Item)) /\ rest \in Seq(Item) BY <1>3, NamedIs, SeqWider
  <2>2. v = [t EXCEPT !.todo = rest] OBVIOUS
  <2>3. Only(r) /\ run'[r] = v BY <1>7, OnlyOne
  <2> HIDE DEF rest, v
  <2>4. /\ v \in Task /\ v.pc = t.pc /\ v.op = t.op /\ v.body = t.body /\ v.new = t.new
        /\ v.rows = t.rows /\ v.loaded = t.loaded /\ v.todo = rest
    BY <1>2, <2>1, <2>2 DEF Task
  <2>5. Held(v) BY <1>1, <1>2, <1>3, <2>1, <2>4 DEF Held, rest
  <2> QED BY <1>1, <1>3, <1>4, <1>5, <1>7, <2>3, <2>4, <2>5 DEF rest
<1> QED BY <1>1, <1>6, <1>7

LEMMA NextCardIs ==
  ASSUME TInv, NEW r \in Runs, At(r, "sync")
  PROVE  LET t == run[r]
             u == NextCard(t)
         IN  /\ Held(u) /\ u.pc = "edit" /\ u.op = t.op /\ u.todo = Tail(t.todo)
             /\ u.loaded = t.loaded /\ u.new # <<>>
             /\ Head(t.todo) \in Named(Item) /\ Head(t.todo).entry \in Entries
<1> DEFINE t == run[r]
           rest == Tail(t.todo)
           new == <<Card(Head(t.todo).entry, 0)>>
           u == NextCard(t)
<1>1. /\ t \in Task /\ t.rows \in Seq(Named(Post)) /\ t.body \in Seq(Named(Item))
      /\ t.todo \in Seq(Named(Item)) /\ t.todo # <<>> /\ \A z \in ToSet(t.todo) : IsCard(z)
  BY HeldNow DEF Held, At
<1>2. /\ rest \in Seq(Named(Item)) /\ ToSet(rest) \subseteq ToSet(t.todo)
      /\ Head(t.todo) \in Named(Item) /\ Head(t.todo) \in ToSet(t.todo)
  BY <1>1, SetOfTail
<1>3. Head(t.todo).entry \in Entries BY <1>1, <1>2 DEF Named
<1>4. new \in Seq(Named(Post)) /\ new # <<>>
  <2>1. Card(Head(t.todo).entry, 0) \in Named(Post)
    BY <1>3, ChannelAssumption DEF Card, Named, Post, Kinds, IsCard
  <2> QED BY <2>1
<1>5. u = [t EXCEPT !.pc = "edit", !.todo = rest, !.new = new] BY DEF NextCard
<1>6. rest \in Seq(Item) /\ new \in Seq(Post) BY <1>2, <1>4, NamedIs, SeqWider
<1>7. rest = Tail(t.todo) OBVIOUS
<1> HIDE DEF rest, new, u
<1>8. /\ u \in Task /\ u.pc = "edit" /\ u.op = t.op /\ u.body = t.body /\ u.new = new
      /\ u.rows = t.rows /\ u.loaded = t.loaded /\ u.todo = rest
  BY <1>1, <1>5, <1>6 DEF Task
<1>9. Held(u) BY <1>1, <1>2, <1>4, <1>8 DEF Held
<1> QED BY <1>2, <1>3, <1>4, <1>7, <1>8, <1>9 DEF u

\* The stored rows once the links of the head of the list are written into them.
Synced(q, t) ==
  LET e == Head(t.todo).entry
  IN  [i \in DOMAIN q |-> IF q[i].entry = e THEN [q[i] EXCEPT !.gen = t.loaded[e]] ELSE q[i]]

LEMMA RelinkSyncDoes ==
  ASSUME TInv, NEW r \in Runs, RelinkSync(r)
  PROVE  LET t == run[r]
             u == run'[r]
         IN  /\ t.pc = "sync" /\ Only(r) /\ Held(u)
             /\ u.pc = "edit" /\ u.op = t.op /\ u.todo = Tail(t.todo) /\ u.loaded = t.loaded
             /\ u.new # <<>> /\ posts' = Synced(posts, t) /\ posts' \in Seq(Named(Post))
             /\ UNCHANGED <<packs, channel, anchor, layout, backup, faults, breaks, history>>
<1> DEFINE t == run[r]
           e == Head(t.todo).entry
           g == t.loaded[e]
<1>1. t.pc = "sync" /\ Moves(r, NextCard(t)) /\ posts' = Synced(posts, t)
  BY DEF RelinkSync, At, Synced
<1>2. /\ Held(NextCard(t)) /\ e \in Entries
      /\ NextCard(t).pc = "edit" /\ NextCard(t).op = t.op /\ NextCard(t).todo = Tail(t.todo)
      /\ NextCard(t).loaded = t.loaded /\ NextCard(t).new # <<>>
  BY <1>1, NextCardIs DEF At
<1>3. Only(r) /\ run'[r] = NextCard(t) BY <1>1, OnlyOne
<1>4. posts' = [i \in DOMAIN posts |-> IF posts[i].entry = e THEN [posts[i] EXCEPT !.gen = g]
                                      ELSE posts[i]]
  BY <1>1 DEF Synced
<1>5. g \in 0..MaxPacks BY <1>2, HeldNow DEF Task
<1>6. posts \in Seq(Named(Post)) BY DEF TInv
<1> HIDE DEF g, e
<1>7. \A p \in Named(Post) : [p EXCEPT !.gen = g] \in Named(Post)
  BY <1>5 DEF Named, Post, IsCard
<1>8. DOMAIN posts = 1..Len(posts) /\ Len(posts) \in Nat /\ \A i \in DOMAIN posts : posts[i] \in Named(Post)
  BY <1>6
<1>9. \A i \in DOMAIN posts : (IF posts[i].entry = e THEN [posts[i] EXCEPT !.gen = g]
                               ELSE posts[i]) \in Named(Post)
  BY <1>7, <1>8
<1>10. posts' \in Seq(Named(Post)) BY <1>4, <1>8, <1>9
<1> QED BY <1>1, <1>2, <1>3, <1>10 DEF RelinkSync

LEMMA RelinkDoneDoes ==
  ASSUME TInv, NEW r \in Runs, RelinkDone(r)
  PROVE  LET t == run[r]
             u == run'[r]
         IN  /\ t.pc = "edit" /\ t.todo = <<>> /\ Only(r) /\ Held(u)
             /\ u.loaded = [e \in Entries |-> 0]
             /\ healed' = t.loaded /\ healed' \in [Entries -> 0..MaxPacks]
             /\ IF t.new = <<>> THEN u = Idle ELSE u.pc = "backup" /\ u.op = "relink"
             /\ UNCHANGED <<packs, channel, stored, faults, breaks, starts, overlapped, orphans>>
<1> DEFINE t == run[r]
           u == [Idle EXCEPT !.pc = "backup", !.op = "relink"]
<1>1. /\ t.pc = "edit" /\ t.todo = <<>> /\ Moves(r, IF t.new = <<>> THEN Idle ELSE u)
  BY DEF RelinkDone, At
<1>2. Held(u) /\ u.pc = "backup" /\ u.op = "relink" /\ u.loaded = [e \in Entries |-> 0] BY ThenBackup
<1> HIDE DEF u
<1>3. Only(r) /\ run'[r] = IF t.new = <<>> THEN Idle ELSE u BY <1>1, OnlyOne
<1>4. t.loaded \in [Entries -> 0..MaxPacks] BY HeldNow DEF Task
<1> QED BY <1>1, <1>2, <1>3, <1>4, IdleIs DEF RelinkDone

LEMMA BackupReadDoes ==
  ASSUME TInv, NEW r \in Runs, BackupRead(r)
  PROVE  LET t == run[r]
             u == run'[r]
         IN  /\ t.pc = "backup" /\ Only(r) /\ Held(u)
             /\ \/ u = Idle /\ (~anchor \/ posts = <<>>)
                \/ u.pc = "write" /\ u.op = t.op /\ u.rows = posts /\ u.loaded = t.loaded
             /\ UNCHANGED <<packs, channel, stored, faults, breaks, history>>
<1> DEFINE t == run[r]
           u == [t EXCEPT !.pc = "write", !.rows = posts]
<1>1. /\ t.pc = "backup"
      /\ ((~anchor \/ posts = <<>>) /\ Moves(r, Idle)) \/ Moves(r, u)
  BY DEF BackupRead, At
<1>2. /\ t \in Task /\ t.new \in Seq(Named(Post)) /\ t.body \in Seq(Named(Item))
      /\ posts \in Seq(Named(Post))
  BY HeldNow DEF Held, TInv
<1>3. posts \in Seq(Post) BY <1>2, NamedIs, SeqWider
<1>4. /\ u \in Task /\ u.pc = "write" /\ u.op = t.op /\ u.body = t.body /\ u.new = t.new
      /\ u.rows = posts /\ u.loaded = t.loaded
  BY <1>2, <1>3 DEF Task
<1> HIDE DEF u
<1>5. Held(u) BY <1>2, <1>4 DEF Held
<1>6. ASSUME Moves(r, u) PROVE Only(r) /\ run'[r] = u BY <1>6, OnlyOne
<1>7. ASSUME Moves(r, Idle) PROVE Only(r) /\ run'[r] = Idle BY <1>7, OnlyOne
<1> QED BY <1>1, <1>4, <1>5, <1>6, <1>7, IdleIs DEF BackupRead

LEMMA BackupWriteDoes ==
  ASSUME TInv, NEW r \in Runs, BackupWrite(r)
  PROVE  LET t == run[r]
         IN  /\ t.pc = "write" /\ Only(r) /\ run'[r] = Idle
             /\ backup' = t.rows /\ backup' \in Seq(Named(Post))
             /\ UNCHANGED <<packs, channel, anchor, layout, posts, faults, breaks, history>>
<1>1. run[r].pc = "write" /\ Moves(r, Idle) BY DEF BackupWrite, At
<1>2. run[r].rows \in Seq(Named(Post)) BY HeldNow DEF Held
<1> QED BY <1>1, <1>2, OnlyOne DEF BackupWrite

LEMMA DatabaseFailsDoes ==
  ASSUME TInv, NEW r \in Runs, DatabaseFails(r)
  PROVE  LET t == run[r]
             u == run'[r]
         IN  /\ Only(r) /\ Held(u) /\ breaks' = breaks + 1 /\ Trouble
             /\ \/ u = Idle
                \/ /\ u.pc = "backup" /\ u.op = t.op /\ u.loaded = [e \in Entries |-> 0]
                \/ /\ t.pc = "sync" /\ u.pc = "edit" /\ u.op = t.op /\ u.todo = Tail(t.todo)
                   /\ u.loaded = t.loaded
             /\ UNCHANGED <<packs, channel, stored, faults, history>>
<1> DEFINE t == run[r]
           v == [Idle EXCEPT !.pc = "backup", !.op = "publish"]
           w == [Idle EXCEPT !.pc = "backup", !.op = t.op]
<1>1. /\ Trouble /\ breaks' = breaks + 1 /\ UNCHANGED <<packs, channel, stored, faults, history>>
      /\ \/ t.op = "publish" /\ Moves(r, v)
         \/ Moves(r, Idle) \/ Moves(r, w)
         \/ At(r, "sync") /\ Moves(r, NextCard(t))
  BY DEF DatabaseFails, AfterPosts
<1>2. t \in Task /\ t.op \in {"none", "publish", "update", "relink"} BY HeldNow DEF Task
<1>3. /\ Held(v) /\ v.pc = "backup" /\ v.op = "publish" /\ v.loaded = [e \in Entries |-> 0]
      /\ Held(w) /\ w.pc = "backup" /\ w.op = t.op /\ w.loaded = [e \in Entries |-> 0]
  BY <1>2, ThenBackup
<1> HIDE DEF v, w
<1>4. CASE t.op = "publish" /\ Moves(r, v) BY <1>1, <1>3, <1>4, OnlyOne
<1>5. CASE Moves(r, w) BY <1>1, <1>3, <1>5, OnlyOne
<1>6. CASE Moves(r, Idle) BY <1>1, <1>6, OnlyOne, IdleIs
<1>7. CASE At(r, "sync") /\ Moves(r, NextCard(t))
  <2>1. Only(r) /\ run'[r] = NextCard(t) BY <1>7, OnlyOne
  <2> QED BY <1>1, <1>7, <2>1, NextCardIs DEF At
<1> QED BY <1>1, <1>4, <1>5, <1>6, <1>7

-----------------------------------------------------------------------------
(* Types are kept *)

LEMMA TypedStep ==
  ASSUME TInv, NEW r \in Runs, Only(r), Held(run'[r]),
         packs' \in [Entries -> 0..MaxPacks], healed' \in [Entries -> 0..MaxPacks],
         msgs' \in Seq(Named(Msg)), live' \subseteq DOMAIN msgs', orphans' \subseteq DOMAIN msgs',
         anchor' \in BOOLEAN, overlapped' \in BOOLEAN,
         layout' \in Seq(Named(Item)), posts' \in Seq(Named(Post)), backup' \in Seq(Named(Post)),
         starts' \in 0..MaxStarts, faults' \in 0..MaxTroubles, breaks' \in 0..MaxTroubles
  PROVE  TInv'
<1>1. \A q \in Runs : Held(run'[q]) BY HeldNow DEF Only
<1>2. run' \in [Runs -> Task] BY <1>1 DEF Only, Held
<1>3. /\ msgs' \in Seq(Msg) /\ layout' \in Seq(Item) /\ posts' \in Seq(Post) /\ backup' \in Seq(Post)
  BY NamedIs, SeqWider
<1>4. TypeOK' BY <1>2, <1>3 DEF TypeOK
<1> QED BY <1>1, <1>4 DEF TInv

LEMMA TypesKept == ASSUME TInv, IInv, [Next]_vars PROVE TInv'
<1> USE DEF stored, channel, history
<1>1. /\ packs \in [Entries -> 0..MaxPacks] /\ healed \in [Entries -> 0..MaxPacks]
      /\ msgs \in Seq(Named(Msg)) /\ live \subseteq DOMAIN msgs /\ orphans \subseteq DOMAIN msgs
      /\ anchor \in BOOLEAN /\ overlapped \in BOOLEAN
      /\ layout \in Seq(Named(Item)) /\ posts \in Seq(Named(Post)) /\ backup \in Seq(Named(Post))
      /\ starts \in 0..MaxStarts /\ faults \in 0..MaxTroubles /\ breaks \in 0..MaxTroubles
  BY DEF TInv, TypeOK
<1>2. MaxTroubles \in Nat /\ MaxPacks \in Nat BY ChannelAssumption
<1>3. Trouble => faults + 1 \in 0..MaxTroubles /\ breaks + 1 \in 0..MaxTroubles
  BY <1>1, <1>2 DEF Trouble
<1>4. CASE UNCHANGED vars BY <1>4 DEF vars, TInv, TypeOK
<1>5. ASSUME NEW e \in Entries, StorePacks(e) PROVE TInv'
  <2>1. packs' \in [Entries -> 0..MaxPacks] BY <1>1, <1>2, <1>5 DEF StorePacks
  <2>2. UNCHANGED <<msgs, live, stored, run, faults, breaks, history, healed>>
    BY <1>5 DEF StorePacks
  <2> QED BY <1>1, <2>1, <2>2 DEF TInv, TypeOK
<1>6. ASSUME Crash PROVE TInv'
  <2>1. run' = [r \in Runs |-> Idle] /\ breaks' = breaks + 1 /\ Trouble
        /\ UNCHANGED <<packs, channel, stored, faults, history>>
    BY <1>6 DEF Crash
  <2>2. run' \in [Runs -> Task] /\ \A r \in Runs : Held(run'[r]) BY <2>1, IdleIs
  <2> QED BY <1>1, <1>3, <2>1, <2>2 DEF TInv, TypeOK
<1>7. ASSUME NEW r \in Runs, Step(r) PROVE TInv'
  <2>1. CASE Publish(r) BY <1>1, <2>1, PublishDoes, TypedStep
  <2>2. CASE Send(r)
    <3> DEFINE p == Head(run[r].todo)
               y == [kind |-> p.kind, entry |-> p.entry, gen |-> p.gen,
                     links |-> IF p.kind = "watch_guide" THEN run[r].known ELSE {}]
    <3>1. /\ Only(r) /\ Held(run'[r]) /\ UNCHANGED <<packs, stored, breaks, history>>
          /\ y \in Named(Msg)
          /\ \/ msgs' = Append(msgs, y) /\ live' = live \cup {Len(msgs) + 1} /\ faults' = faults
             \/ UNCHANGED channel /\ faults' = faults + 1 /\ Trouble
      BY <2>2, SendDoes
    <3> HIDE DEF y
    <3>2. Append(msgs, y) \in Seq(Named(Msg)) /\ live \cup {Len(msgs) + 1} \subseteq DOMAIN Append(msgs, y)
          /\ orphans \subseteq DOMAIN Append(msgs, y)
      BY <1>1, <3>1
    <3> QED BY <1>1, <1>3, <3>1, <3>2, TypedStep
  <2>3. CASE SaveAnchor(r) BY <1>1, <2>3, SaveAnchorDoes, TypedStep
  <2>4. CASE SaveLayout(r)
    <3>1. run[r].body \in Seq(Named(Item)) BY HeldNow DEF Held
    <3>2. Where(layout) \subseteq DOMAIN msgs BY DEF IInv, Refs, Cards, ToSet, Where
    <3> QED BY <1>1, <2>4, <3>1, <3>2, SaveLayoutDoes, TypedStep
  <2>5. CASE SavePosts(r) BY <1>1, <2>5, SavePostsDoes, TypedStep
  <2>6. CASE UpdateRead(r) BY <1>1, <2>6, UpdateReadDoes, TypedStep
  <2>7. CASE UpdateBuild(r) BY <1>1, <2>7, UpdateBuildDoes, TypedStep
  <2>8. CASE UpdateStrip(r) BY <1>1, <2>8, UpdateStripDoes, TypedStep
  <2>9. CASE RelinkRead(r) BY <1>1, <2>9, RelinkReadDoes, TypedStep
  <2>10. CASE RelinkLoad(r) BY <1>1, <2>10, RelinkLoadDoes, TypedStep
  <2>11. CASE RelinkEdit(r)
    <3> DEFINE x == Head(run[r].todo)
               g == run[r].loaded[x.entry]
    <3>1. /\ Only(r) /\ Held(run'[r]) /\ g \in 0..MaxPacks
          /\ UNCHANGED <<packs, live, stored, breaks, history>>
          /\ \/ faults' = faults /\ msgs' = [m \in DOMAIN msgs |->
                     IF m = x.msg THEN [msgs[m] EXCEPT !.gen = g] ELSE msgs[m]]
             \/ faults' = faults + 1 /\ Trouble /\ msgs' = msgs
      BY <2>11, RelinkEditDoes
    <3> HIDE DEF x, g
    <3>2. \A y \in Named(Msg) : [y EXCEPT !.gen = g] \in Named(Msg)
      BY <3>1 DEF Named, Msg, IsCard
    <3>3. /\ DOMAIN msgs = 1..Len(msgs) /\ Len(msgs) \in Nat
          /\ \A m \in DOMAIN msgs : msgs[m] \in Named(Msg)
      BY <1>1
    <3>4. \A m \in DOMAIN msgs : (IF m = x.msg THEN [msgs[m] EXCEPT !.gen = g] ELSE msgs[m])
                                    \in Named(Msg)
      BY <3>2, <3>3
    <3>5. msgs' \in Seq(Named(Msg)) /\ DOMAIN msgs' = DOMAIN msgs
      <4>1. CASE msgs' = msgs BY <1>1, <4>1
      <4>2. CASE msgs' = [m \in DOMAIN msgs |-> IF m = x.msg THEN [msgs[m] EXCEPT !.gen = g]
                                               ELSE msgs[m]]
        <5>1. /\ msgs' = [m \in 1..Len(msgs) |-> msgs'[m]] /\ DOMAIN msgs' = DOMAIN msgs
              /\ \A m \in 1..Len(msgs) : msgs'[m] \in Named(Msg)
          BY <3>3, <3>4, <4>2
        <5> QED BY <3>3, <5>1
      <4> QED BY <3>1, <4>1, <4>2
    <3> QED BY <1>1, <1>3, <3>1, <3>5, TypedStep
  <2>12. CASE RelinkSync(r) BY <1>1, <2>12, RelinkSyncDoes, TypedStep
  <2>13. CASE RelinkDone(r) BY <1>1, <2>13, RelinkDoneDoes, TypedStep
  <2>14. CASE BackupRead(r) BY <1>1, <2>14, BackupReadDoes, TypedStep
  <2>15. CASE BackupWrite(r) BY <1>1, <2>15, BackupWriteDoes, IdleIs, TypedStep
  <2>16. CASE DatabaseFails(r) BY <1>1, <1>3, <2>16, DatabaseFailsDoes, TypedStep
  <2> QED BY <1>7, <2>1, <2>2, <2>3, <2>4, <2>5, <2>6, <2>7, <2>8, <2>9, <2>10, <2>11, <2>12,
             <2>13, <2>14, <2>15, <2>16 DEF Step
<1> QED BY <1>4, <1>5, <1>6, <1>7 DEF Next

-----------------------------------------------------------------------------
(* The guide links every card *)

\* The lists that become the layout, and those a relink works through.
Drafts == {"build", "strip", "send", "anchor", "layout"}
Relinked(t) == IF t.pc = "load" THEN ToSet(t.body)
               ELSE IF t.pc \in {"edit", "sync"} THEN ToSet(t.todo) ELSE {}

\* The items X stand for messages of their kind and entry.
Stands(X, ms) ==
  \A x \in X : x.msg \in DOMAIN ms /\ ms[x.msg].kind = x.kind /\ ms[x.msg].entry = x.entry

Linked(l, ms, lv) ==
  /\ Stands(ToSet(l), ms)
  /\ \A x, y \in Cards(l) : x.entry = y.entry => x = y
  /\ \A x \in Cards(l) :
       /\ x.msg \in lv
       /\ \A g \in ToSet(l) : g.kind = "watch_guide" => <<x.entry, x.msg>> \in ms[g.msg].links

Apart(X, Y) == \A x \in X, y \in Y : x.entry # y.entry

\* What a run has in hand.  It knows the cards that its list holds, and what it will
\* send is not among them: the guide it sends last before the footer links them all.
Bound(t, ms, lv) ==
  /\ t.pc \in Drafts => Linked(t.body, ms, lv)
  /\ Stands(Relinked(t), ms)
  /\ t.pc \in {"strip", "send"} =>
       Known(t.body) \subseteq t.known /\ OneEach(t.todo) /\ Apart(Cards(t.body), Cards(t.todo))

LInv == Linked(layout, msgs, live) /\ \A r \in Runs : Bound(run[r], msgs, live)

\* No message changes its kind, entry or links, and no live card goes.
Extends(ms, ns, lv, kv) ==
  /\ DOMAIN ms \subseteq DOMAIN ns
  /\ \A m \in DOMAIN ms :
       /\ ns[m].kind = ms[m].kind /\ ns[m].entry = ms[m].entry /\ ns[m].links = ms[m].links
       /\ m \in lv /\ ms[m].kind = "card" => m \in kv

LEMMA ExtendsKeeps ==
  ASSUME NEW ms, NEW ns, NEW lv, NEW kv, Extends(ms, ns, lv, kv)
  PROVE  /\ \A X : Stands(X, ms) => Stands(X, ns)
         /\ \A l : Linked(l, ms, lv) => Linked(l, ns, kv)
         /\ \A t : Bound(t, ms, lv) => Bound(t, ns, kv)
<1>1. ASSUME NEW X, Stands(X, ms) PROVE Stands(X, ns) BY <1>1 DEF Extends, Stands
<1>2. ASSUME NEW l, Linked(l, ms, lv) PROVE Linked(l, ns, kv)
  <2>1. Stands(ToSet(l), ms) /\ Stands(ToSet(l), ns) BY <1>1, <1>2 DEF Linked
  <2>2. ASSUME NEW x \in Cards(l) PROVE x.msg \in kv
    <3>1. x.msg \in lv /\ x.msg \in DOMAIN ms /\ ms[x.msg].kind = "card"
      BY <1>2, <2>1 DEF Linked, Stands, Cards, IsCard
    <3> QED BY <3>1 DEF Extends
  <2>3. ASSUME NEW x \in Cards(l), NEW g \in ToSet(l), g.kind = "watch_guide"
        PROVE  <<x.entry, x.msg>> \in ns[g.msg].links
    <3>1. <<x.entry, x.msg>> \in ms[g.msg].links /\ g.msg \in DOMAIN ms
      BY <1>2, <2>1, <2>3 DEF Linked, Stands
    <3> QED BY <3>1 DEF Extends
  <2> QED BY <1>2, <2>1, <2>2, <2>3 DEF Linked
<1> QED BY <1>1, <1>2 DEF Bound

LEMMA ExtendsSelf == \A ms, lv : Extends(ms, ms, lv, lv)
BY DEF Extends

LEMMA LinkedStep ==
  ASSUME LInv, NEW r \in Runs, Only(r), Extends(msgs, msgs', live, live'),
         layout' = layout \/ Linked(layout', msgs', live'), Bound(run'[r], msgs', live')
  PROVE  LInv'
<1>1. Linked(layout', msgs', live') BY ExtendsKeeps DEF LInv
<1>2. \A q \in Runs : Bound(run'[q], msgs', live') BY ExtendsKeeps DEF LInv, Only
<1> QED BY <1>1, <1>2 DEF LInv

\* Where nothing is promised.
LEMMA NothingBound ==
  ASSUME NEW t, t.pc \in {"idle", "posts", "backup", "write"} PROVE \A ms, lv : Bound(t, ms, lv)
BY DEF Bound, Drafts, Relinked, Stands

LEMMA EmptyLinked == \A ms, lv : Linked(<<>>, ms, lv)
BY EmptyIs DEF Linked, Stands

LEMMA OneEachTail ==
  ASSUME NEW S, NEW s \in Seq(S), s # <<>>, OneEach(s)
  PROVE  OneEach(Tail(s)) /\ (IsCard(Head(s)) => Apart({Head(s)}, Cards(Tail(s))))
<1> DEFINE t == Tail(s)
           h == Head(s)
<1>1. /\ DOMAIN s = 1..Len(s) /\ Len(s) \in Nat \ {0} /\ DOMAIN t = 1..(Len(s) - 1)
      /\ h = s[1] /\ \A i \in DOMAIN t : t[i] = s[i + 1]
  OBVIOUS
<1> HIDE DEF t, h
<1>2. \A i \in DOMAIN t : i + 1 \in DOMAIN s /\ t[i] = s[i + 1] /\ 1 # i + 1 BY <1>1
<1>3. 1 \in DOMAIN s BY <1>1
<1>4. \A i, j \in DOMAIN t : i + 1 = j + 1 => i = j BY <1>1
<1>5. OneEach(t) BY <1>2, <1>4 DEF OneEach
<1>6. IsCard(h) => \A q \in Cards(t) : h.entry # q.entry
  BY <1>1, <1>2, <1>3 DEF OneEach, Cards, ToSet
<1> QED BY <1>5, <1>6 DEF Apart, t, h

LEMMA SendLinks == ASSUME TInv, IInv, LInv, NEW r \in Runs, Send(r) PROVE LInv'
<1> DEFINE t == run[r]
           u == run'[r]
           p == Head(t.todo)
           m == Len(msgs) + 1
           y == [kind |-> p.kind, entry |-> p.entry, gen |-> p.gen,
                 links |-> IF p.kind = "watch_guide" THEN t.known ELSE {}]
           x == [kind |-> p.kind, entry |-> p.entry, msg |-> m]
<1>1. /\ t.pc = "send" /\ Only(r) /\ layout' = layout
      /\ u.pc \in {"send", "anchor", "layout"} /\ u.todo = Tail(t.todo)
      /\ \/ /\ msgs' = Append(msgs, y) /\ live' = live \cup {m}
            /\ u.body = Append(t.body, x)
            /\ u.known = t.known \cup (IF IsCard(p) THEN {<<p.entry, m>>} ELSE {})
         \/ UNCHANGED channel /\ u.body = t.body /\ u.known = t.known
      /\ y \in Named(Msg) /\ x \in Named(Item) /\ p \in Named(Post)
  BY SendDoes DEF stored
<1>2. /\ t.todo \in Seq(Named(Post)) /\ t.todo # <<>> /\ t.body \in Seq(Named(Item))
      /\ Fits(t.body, t.todo)
  BY <1>1, HeldNow DEF Held, IInv, Fine
<1>3. /\ Linked(t.body, msgs, live) /\ Known(t.body) \subseteq t.known /\ OneEach(t.todo)
      /\ Apart(Cards(t.body), Cards(t.todo))
  BY <1>1 DEF LInv, Bound, Drafts
<1>4. /\ ToSet(t.todo) = {p} \cup ToSet(Tail(t.todo)) /\ p \in ToSet(t.todo)
      /\ OneEach(Tail(t.todo))
      /\ (IsCard(p) => Apart({p}, Cards(Tail(t.todo))))
      /\ Cards(Tail(t.todo)) \subseteq Cards(t.todo)
  <2>1. ToSet(t.todo) = {p} \cup ToSet(Tail(t.todo)) BY <1>2, SetOfTail
  <2>2. Cards(Tail(t.todo)) \subseteq Cards(t.todo) BY <2>1 DEF Cards
  <2> QED BY <1>2, <1>3, <2>1, <2>2, OneEachTail
<1>5. CASE UNCHANGED channel /\ u.body = t.body /\ u.known = t.known
  <2>1. msgs' = msgs /\ live' = live BY <1>5 DEF channel
  <2>2. Apart(Cards(u.body), Cards(u.todo)) BY <1>1, <1>3, <1>4, <1>5 DEF Apart
  <2>3. Bound(u, msgs, live)
    BY <1>1, <1>3, <1>4, <1>5, <2>2 DEF Bound, Relinked, Stands
  <2> QED BY <1>1, <2>1, <2>3, ExtendsSelf, LinkedStep
<1>6. CASE /\ msgs' = Append(msgs, y) /\ live' = live \cup {m} /\ u.body = Append(t.body, x)
           /\ u.known = t.known \cup (IF IsCard(p) THEN {<<p.entry, m>>} ELSE {})
  <2>1. /\ x.kind = p.kind /\ x.entry = p.entry /\ x.msg = m
        /\ y.kind = p.kind /\ y.entry = p.entry /\ y.links = IF p.kind = "watch_guide" THEN t.known ELSE {}
    OBVIOUS
  <2> HIDE DEF x, y
  <2>2. /\ DOMAIN msgs = 1..Len(msgs) /\ Len(msgs) \in Nat /\ DOMAIN msgs' = 1..m /\ m \in DOMAIN msgs'
        /\ msgs'[m] = y /\ \A i \in DOMAIN msgs : msgs'[i] = msgs[i]
    BY <1>1, <1>6 DEF TInv
  <2> HIDE DEF m
  <2>3. Extends(msgs, msgs', live, live') BY <1>6, <2>2 DEF Extends, m
  <2>4. ToSet(u.body) = ToSet(t.body) \cup {x} BY <1>1, <1>2, <1>6, SetOfAppend
  <2>5. Linked(t.body, msgs', live') BY <1>3, <2>3, ExtendsKeeps
  <2>6. \A c \in Cards(u.body) : c \in Cards(t.body) \/ (c = x /\ IsCard(p))
    BY <2>1, <2>4 DEF Cards, IsCard
  <2>7. \A c \in Cards(t.body) : IsCard(p) => c.entry # p.entry
    BY <1>3, <1>4 DEF Apart, Cards
  <2>8. Linked(u.body, msgs', live')
    <3>1. Stands(ToSet(u.body), msgs') BY <2>1, <2>2, <2>4, <2>5 DEF Linked, Stands
    <3>2. \A c, d \in Cards(u.body) : c.entry = d.entry => c = d
      BY <2>1, <2>5, <2>6, <2>7 DEF Linked
    <3>3. \A c \in Cards(u.body) : c.msg \in live' BY <1>6, <2>1, <2>5, <2>6 DEF Linked
    <3>4. ASSUME NEW c \in Cards(u.body), NEW g \in ToSet(u.body), g.kind = "watch_guide"
          PROVE  <<c.entry, c.msg>> \in msgs'[g.msg].links
      <4>1. CASE g \in ToSet(t.body)
        <5>1. ~IsCard(p)
          <6>1. PICK i \in DOMAIN t.body : g = t.body[i] BY <4>1 DEF ToSet
          <6>2. PICK j \in DOMAIN t.todo : p = t.todo[j] BY <1>4 DEF ToSet
          <6>3. Before(g, p) BY <1>2, <6>1, <6>2 DEF Fits
          <6> QED BY <3>4, <6>3 DEF Before, IsCard
        <5> QED BY <2>5, <2>6, <3>4, <4>1, <5>1 DEF Linked
      <4>2. CASE g = x
        <5>1. p.kind = "watch_guide" /\ ~IsCard(p) BY <2>1, <3>4, <4>2 DEF IsCard
        <5>2. c \in Cards(t.body) BY <2>6, <5>1
        <5>3. <<c.entry, c.msg>> \in t.known BY <1>3, <5>2 DEF Known
        <5> QED BY <2>1, <2>2, <4>2, <5>1, <5>3
      <4> QED BY <2>4, <4>1, <4>2
    <3> QED BY <3>1, <3>2, <3>3, <3>4 DEF Linked
  <2>9. Known(u.body) \subseteq u.known
    <3> SUFFICES ASSUME NEW c \in Cards(u.body) PROVE <<c.entry, c.msg>> \in u.known
      BY DEF Known
    <3>1. CASE c \in Cards(t.body) BY <1>3, <1>6, <3>1 DEF Known
    <3>2. CASE c = x /\ IsCard(p) BY <1>6, <2>1, <3>2
    <3> QED BY <2>6, <3>1, <3>2
  <2>10. Apart(Cards(u.body), Cards(u.todo)) BY <1>1, <1>3, <1>4, <2>1, <2>6 DEF Apart
  <2>11. Bound(u, msgs', live')
    BY <1>1, <1>4, <2>8, <2>9, <2>10 DEF Bound, Relinked, Stands
  <2> QED BY <1>1, <2>3, <2>11, LinkedStep
<1> QED BY <1>1, <1>5, <1>6

LEMMA EditExtends ==
  ASSUME TInv, NEW k, NEW g,
         msgs' = [m \in DOMAIN msgs |-> IF m = k THEN [msgs[m] EXCEPT !.gen = g] ELSE msgs[m]]
  PROVE  /\ DOMAIN msgs' = DOMAIN msgs
         /\ \A m \in DOMAIN msgs :
              /\ msgs'[m].kind = msgs[m].kind /\ msgs'[m].entry = msgs[m].entry
              /\ msgs'[m].links = msgs[m].links
              /\ msgs'[m].gen = IF m = k THEN g ELSE msgs[m].gen
<1>1. \A m \in DOMAIN msgs : msgs[m] \in Msg BY DEF TInv, TypeOK
<1>2. \A y \in Msg : LET z == [y EXCEPT !.gen = g]
                     IN  z.kind = y.kind /\ z.entry = y.entry /\ z.links = y.links /\ z.gen = g
  BY DEF Msg
<1> QED BY <1>1, <1>2

LEMMA LinksKept == ASSUME TInv, IInv, LInv, [Next]_vars PROVE LInv'
<1> USE DEF stored, channel, history
<1>1. CASE UNCHANGED vars BY <1>1 DEF vars, LInv
<1>2. ASSUME NEW e \in Entries, StorePacks(e) PROVE LInv' BY <1>2 DEF StorePacks, LInv
<1>3. ASSUME Crash PROVE LInv'
  <2>1. UNCHANGED <<msgs, live, layout>> /\ \A r \in Runs : run'[r] = Idle BY <1>3 DEF Crash
  <2> QED BY <2>1, IdleIs, NothingBound DEF LInv
<1>4. ASSUME NEW r \in Runs, Step(r) PROVE LInv'
  <2> DEFINE t == run[r]
             u == run'[r]
  <2>0. Bound(t, msgs, live) /\ Linked(layout, msgs, live) BY DEF LInv
  <2> HIDE DEF t, u
  <2>17. ASSUME Only(r), UNCHANGED <<msgs, live>>, Bound(u, msgs, live),
               layout' = layout \/ Linked(layout', msgs, live)
        PROVE  LInv'
    BY <2>17, ExtendsSelf, LinkedStep DEF u
  <2>1. CASE Publish(r)
    <3>1. /\ Only(r) /\ u.pc = "send" /\ u.body = <<>> /\ u.known = {} /\ u.todo = Plan(Confirmed)
          /\ UNCHANGED <<msgs, live, layout>>
      BY <2>1, PublishDoes DEF u
    <3>2. OneEach(u.todo) BY <3>1, ChannelAssumption, PlanIs DEF Plan
    <3>3. Bound(u, msgs, live)
      BY <3>1, <3>2, EmptyLinked, EmptyIs DEF Bound, Relinked, Stands, Known, Apart
    <3> QED BY <2>17, <3>1, <3>3
  <2>2. CASE Send(r) BY <2>2, SendLinks
  <2>3. CASE SaveAnchor(r)
    <3>1. /\ t.pc = "anchor" /\ Only(r) /\ u.pc = "layout" /\ u.body = t.body
          /\ UNCHANGED <<msgs, live, layout>>
      BY <2>3, SaveAnchorDoes DEF t, u
    <3>2. Bound(u, msgs, live) BY <2>0, <3>1 DEF Bound, Drafts, Relinked, Stands
    <3> QED BY <2>17, <3>1, <3>2
  <2>4. CASE SaveLayout(r)
    <3>1. /\ t.pc = "layout" /\ Only(r) /\ u.pc = "posts" /\ layout' = t.body
          /\ UNCHANGED <<msgs, live>>
      BY <2>4, SaveLayoutDoes DEF t, u
    <3>2. Linked(layout', msgs, live) BY <2>0, <3>1 DEF Bound, Drafts
    <3> QED BY <2>17, <3>1, <3>2, NothingBound
  <2>5. CASE SavePosts(r)
    <3>1. /\ Only(r) /\ u.pc \in {"idle", "backup"} /\ UNCHANGED <<msgs, live, layout>>
      BY <2>5, SavePostsDoes, IdleIs DEF u
    <3> QED BY <2>17, <3>1, NothingBound
  <2>6. CASE UpdateRead(r)
    <3>1. /\ Only(r) /\ u.pc = "build" /\ u.body = layout /\ UNCHANGED <<msgs, live, layout>>
      BY <2>6, UpdateReadDoes DEF u
    <3>2. Bound(u, msgs, live) BY <2>0, <3>1 DEF Bound, Relinked, Stands
    <3> QED BY <2>17, <3>1, <3>2
  <2>7. CASE UpdateBuild(r)
    <3>1. /\ t.pc = "build" /\ Only(r) /\ UNCHANGED <<msgs, live, layout>>
          /\ \/ u = Idle
             \/ /\ u.pc = "strip" /\ u.body = t.body /\ u.known = Known(t.body) /\ OneEach(u.todo)
                /\ \A p \in Cards(u.todo) : p.entry \in Entries \ Already(t.body)
      BY <2>7, UpdateBuildDoes DEF t, u
    <3>2. Linked(t.body, msgs, live) BY <2>0, <3>1 DEF Bound, Drafts
    <3>3. ASSUME u.pc = "strip", u.body = t.body, u.known = Known(t.body), OneEach(u.todo),
                 \A p \in Cards(u.todo) : p.entry \in Entries \ Already(t.body)
          PROVE  Bound(u, msgs, live)
      <4>1. Apart(Cards(u.body), Cards(u.todo)) BY <3>3 DEF Apart, Already
      <4> QED BY <3>2, <3>3, <4>1 DEF Bound, Relinked, Stands
    <3> QED BY <2>17, <3>1, <3>3, IdleIs, NothingBound
  <2>8. CASE UpdateStrip(r)
    <3>1. /\ t.pc = "strip" /\ Only(r) /\ u.pc = "send" /\ u.todo = t.todo /\ u.known = t.known
          /\ ToSet(u.body) = Cards(t.body) /\ Cards(u.body) = Cards(t.body)
          /\ LiveCards \subseteq live' /\ UNCHANGED <<msgs, layout>>
      BY <2>8, UpdateStripDoes DEF t, u
    <3>2. Extends(msgs, msgs', live, live') BY <3>1 DEF Extends, LiveCards, IsCard
    <3>3. Bound(t, msgs', live') BY <2>0, <3>2, ExtendsKeeps
    <3>4. Cards(t.body) \subseteq ToSet(t.body) BY DEF Cards
    <3>5. Linked(u.body, msgs', live')
      <4>1. Linked(t.body, msgs', live') BY <3>1, <3>3 DEF Bound, Drafts
      <4> QED BY <3>1, <3>4, <4>1 DEF Linked, Stands
    <3>6. Known(u.body) = Known(t.body) BY <3>1 DEF Known
    <3>7. Bound(u, msgs', live') BY <3>1, <3>3, <3>5, <3>6 DEF Bound, Relinked, Stands
    <3> QED BY <3>1, <3>2, <3>7, LinkedStep DEF u
  <2>9. CASE RelinkRead(r)
    <3>1. /\ Only(r) /\ u.pc = "load" /\ ToSet(u.body) = Cards(layout)
          /\ UNCHANGED <<msgs, live, layout>>
      BY <2>9, RelinkReadDoes DEF u
    <3>2. Stands(Relinked(u), msgs) BY <2>0, <3>1 DEF Linked, Stands, Relinked, Cards
    <3>3. Bound(u, msgs, live) BY <3>1, <3>2 DEF Bound, Drafts
    <3> QED BY <2>17, <3>1, <3>3
  <2>10. CASE RelinkLoad(r)
    <3>1. /\ t.pc = "load" /\ Only(r) /\ u.pc = "edit" /\ ToSet(u.todo) \subseteq ToSet(t.body)
          /\ UNCHANGED <<msgs, live, layout>>
      BY <2>10, RelinkLoadDoes DEF t, u
    <3>2. Bound(u, msgs, live) BY <2>0, <3>1 DEF Bound, Drafts, Stands, Relinked
    <3> QED BY <2>17, <3>1, <3>2
  <2>11. CASE RelinkEdit(r)
    <3> DEFINE x == Head(t.todo)
               g == t.loaded[x.entry]
    <3>1. /\ t.pc = "edit" /\ t.todo # <<>> /\ Only(r) /\ UNCHANGED <<live, layout>>
          /\ \/ /\ u.pc = "sync" /\ u.todo = t.todo
                /\ msgs' = [m \in DOMAIN msgs |-> IF m = x.msg THEN [msgs[m] EXCEPT !.gen = g]
                                                  ELSE msgs[m]]
             \/ u.pc = "edit" /\ u.todo = Tail(t.todo) /\ msgs' = msgs
      BY <2>11, RelinkEditDoes DEF t, u
    <3>2. t.todo \in Seq(Named(Item)) BY <3>1, HeldNow DEF Held, t
    <3>3. ToSet(Tail(t.todo)) \subseteq ToSet(t.todo) BY <3>1, <3>2, SetOfTail
    <3> HIDE DEF x, g
    <3>4. Extends(msgs, msgs', live, live') BY <3>1, EditExtends DEF Extends
    <3>5. Bound(t, msgs', live') BY <2>0, <3>4, ExtendsKeeps
    <3>6. u.pc \in {"edit", "sync"} /\ ToSet(u.todo) \subseteq ToSet(t.todo) BY <3>1, <3>3
    <3>7. Bound(u, msgs', live') BY <3>1, <3>5, <3>6 DEF Bound, Drafts, Relinked, Stands
    <3> QED BY <3>1, <3>4, <3>7, LinkedStep DEF u
  <2>12. CASE RelinkSync(r)
    <3>1. /\ t.pc = "sync" /\ Only(r) /\ u.pc = "edit" /\ u.todo = Tail(t.todo)
          /\ UNCHANGED <<msgs, live, layout>>
      BY <2>12, RelinkSyncDoes DEF t, u
    <3>2. t.todo \in Seq(Named(Item)) /\ t.todo # <<>> BY <3>1, HeldNow DEF Held, t
    <3>3. ToSet(u.todo) \subseteq ToSet(t.todo) BY <3>1, <3>2, SetOfTail
    <3>4. Bound(u, msgs, live) BY <2>0, <3>1, <3>3 DEF Bound, Drafts, Relinked, Stands
    <3> QED BY <2>17, <3>1, <3>4
  <2>13. CASE RelinkDone(r)
    <3>1. Only(r) /\ u.pc \in {"idle", "backup"} /\ UNCHANGED <<msgs, live, layout>>
      BY <2>13, RelinkDoneDoes, IdleIs DEF u
    <3> QED BY <2>17, <3>1, NothingBound
  <2>14. CASE BackupRead(r)
    <3>1. Only(r) /\ u.pc \in {"idle", "write"} /\ UNCHANGED <<msgs, live, layout>>
      BY <2>14, BackupReadDoes, IdleIs DEF u
    <3> QED BY <2>17, <3>1, NothingBound
  <2>15. CASE BackupWrite(r)
    <3>1. Only(r) /\ u.pc = "idle" /\ UNCHANGED <<msgs, live, layout>>
      BY <2>15, BackupWriteDoes, IdleIs DEF u
    <3> QED BY <2>17, <3>1, NothingBound
  <2>16. CASE DatabaseFails(r)
    <3>1. /\ Only(r) /\ UNCHANGED <<msgs, live, layout>>
          /\ \/ u.pc \in {"idle", "backup"}
             \/ t.pc = "sync" /\ u.pc = "edit" /\ u.todo = Tail(t.todo)
      BY <2>16, DatabaseFailsDoes, IdleIs DEF t, u
    <3>2. ASSUME t.pc = "sync", u.pc = "edit", u.todo = Tail(t.todo) PROVE Bound(u, msgs, live)
      <4>1. t.todo \in Seq(Named(Item)) /\ t.todo # <<>> BY <3>2, HeldNow DEF Held, t
      <4>2. ToSet(u.todo) \subseteq ToSet(t.todo) BY <3>2, <4>1, SetOfTail
      <4> QED BY <2>0, <3>2, <4>2 DEF Bound, Drafts, Relinked, Stands
    <3> QED BY <2>17, <3>1, <3>2, NothingBound
  <2> QED BY <1>4, <2>1, <2>2, <2>3, <2>4, <2>5, <2>6, <2>7, <2>8, <2>9, <2>10, <2>11, <2>12,
             <2>13, <2>14, <2>15, <2>16 DEF Step
<1> QED BY <1>1, <1>2, <1>3, <1>4 DEF Next

-----------------------------------------------------------------------------
(* What links may lead to: packs that were there once *)

\* No links newer than the packs.
Behind(t, pk) ==
  /\ \A e \in Entries : t.loaded[e] <= pk[e]
  /\ t.pc \in {"strip", "send"} => \A p \in Cards(t.todo) : p.gen <= pk[p.entry]

GInv ==
  /\ \A e \in Entries : healed[e] <= packs[e]
  /\ \A m \in DOMAIN msgs : IsCard(msgs[m]) => msgs[m].gen <= packs[msgs[m].entry]
  /\ \A r \in Runs : Behind(run[r], packs)

LEMMA GenerationsStep ==
  ASSUME GInv, NEW r \in Runs, Only(r), packs' = packs, Behind(run'[r], packs),
         healed' = healed \/ \A e \in Entries : healed'[e] <= packs[e],
         msgs' = msgs \/ \A m \in DOMAIN msgs' :
                           IsCard(msgs'[m]) => msgs'[m].gen <= packs[msgs'[m].entry]
  PROVE  GInv'
<1>1. \A q \in Runs : Behind(run'[q], packs') BY DEF GInv, Only
<1> QED BY <1>1 DEF GInv

\* No pack was loaded, and nothing is planned.
LEMMA NoneBehind ==
  ASSUME TInv, NEW t, t.loaded = [e \in Entries |-> 0],
         t.pc \in {"strip", "send"} => \A p \in Cards(t.todo) : p.gen <= packs[p.entry]
  PROVE  Behind(t, packs)
<1>1. \A e \in Entries : packs[e] \in Nat BY ChannelAssumption DEF TInv, TypeOK
<1> QED BY <1>1 DEF Behind

LEMMA GenerationsKept == ASSUME TInv, IInv, LInv, GInv, [Next]_vars PROVE GInv'
<1> USE DEF stored, channel, history
<1>0. \A e \in Entries : packs[e] \in Nat /\ healed[e] \in Nat
  BY ChannelAssumption DEF TInv, TypeOK
<1>1. CASE UNCHANGED vars BY <1>1 DEF vars, GInv
<1>2. ASSUME NEW e \in Entries, StorePacks(e) PROVE GInv'
  <2>1. UNCHANGED <<msgs, run, healed>> /\ packs' = [packs EXCEPT ![e] = @ + 1]
    BY <1>2 DEF StorePacks
  <2>2. \A d \in Entries : packs'[d] \in Nat /\ packs[d] <= packs'[d]
    BY <1>0, <2>1 DEF TInv, TypeOK
  <2>3. \A n \in Nat, d \in Entries : n <= packs[d] => n <= packs'[d] BY <1>0, <2>2
  <2>4. \A d \in Entries : healed[d] <= packs'[d] BY <1>0, <2>3 DEF GInv
  <2>5. ASSUME NEW m \in DOMAIN msgs, IsCard(msgs[m]) PROVE msgs[m].gen <= packs'[msgs[m].entry]
    <3>1. msgs[m] \in Named(Msg) BY DEF TInv
    <3>2. msgs[m].gen \in Nat /\ msgs[m].entry \in Entries
      BY <2>5, <3>1, ChannelAssumption DEF Named, Msg
    <3> QED BY <2>3, <2>5, <3>2 DEF GInv
  <2>6. ASSUME NEW r \in Runs PROVE Behind(run[r], packs')
    <3>1. Behind(run[r], packs) BY DEF GInv
    <3>2. \A d \in Entries : run[r].loaded[d] \in Nat BY HeldNow, ChannelAssumption DEF Task
    <3>3. ASSUME run[r].pc \in {"strip", "send"}, NEW p \in Cards(run[r].todo)
          PROVE  p.gen <= packs'[p.entry]
      <4>1. p \in Named(Post) /\ IsCard(p) BY <3>3, HeldNow DEF Held, Cards, ToSet
      <4>2. p.gen \in Nat /\ p.entry \in Entries BY <4>1, ChannelAssumption DEF Named, Post
      <4> QED BY <2>3, <3>1, <3>3, <4>2 DEF Behind
    <3> QED BY <2>3, <3>1, <3>2, <3>3 DEF Behind
  <2> QED BY <2>1, <2>4, <2>5, <2>6 DEF GInv
<1>3. ASSUME Crash PROVE GInv'
  <2>1. UNCHANGED <<packs, msgs, healed>> /\ \A r \in Runs : run'[r] = Idle BY <1>3 DEF Crash
  <2>2. Behind(Idle, packs) BY IdleIs, NoneBehind
  <2> QED BY <2>1, <2>2 DEF GInv
<1>4. ASSUME NEW r \in Runs, Step(r) PROVE GInv'
  <2> DEFINE t == run[r]
             u == run'[r]
  <2>0. Behind(t, packs) BY DEF GInv
  <2> HIDE DEF t, u
  <2>20. Behind(Idle, packs) BY IdleIs, NoneBehind
  <2>21. ASSUME Only(r), UNCHANGED <<packs, msgs, healed>>, Behind(u, packs) PROVE GInv'
    BY <2>21, GenerationsStep DEF u
  <2>22. ASSUME u.pc \notin {"strip", "send"}, u.loaded = t.loaded PROVE Behind(u, packs)
    BY <2>0, <2>22 DEF Behind
  <2>23. ASSUME u.pc \notin {"strip", "send"}, u.loaded = [e \in Entries |-> 0] PROVE Behind(u, packs)
    BY <2>23, NoneBehind
  <2>1. CASE Publish(r)
    <3>1. /\ Only(r) /\ u.pc = "send" /\ u.todo = Plan(Confirmed) /\ u.loaded = [e \in Entries |-> 0]
          /\ UNCHANGED <<packs, msgs, healed>>
      BY <2>1, PublishDoes DEF u
    <3>2. Cards(u.todo) = {Card(e, packs[e]) : e \in Confirmed}
      BY <3>1, ChannelAssumption, PlanIs DEF Plan
    <3>3. \A p \in Cards(u.todo) : p.gen <= packs[p.entry]
      BY <1>0, <3>2, ChannelAssumption DEF Card
    <3> QED BY <2>21, <3>1, <3>3, NoneBehind
  <2>2. CASE Send(r)
    <3> DEFINE p == Head(t.todo)
               y == [kind |-> p.kind, entry |-> p.entry, gen |-> p.gen,
                     links |-> IF p.kind = "watch_guide" THEN t.known ELSE {}]
    <3>1. /\ t.pc = "send" /\ Only(r) /\ UNCHANGED <<packs, healed>> /\ u.todo = Tail(t.todo)
          /\ u.loaded = t.loaded
          /\ msgs' = Append(msgs, y) \/ msgs' = msgs
      BY <2>2, SendDoes DEF t, u
    <3>2. t.todo \in Seq(Named(Post)) /\ t.todo # <<>> BY <3>1, HeldNow DEF Held, t
    <3>3. p \in ToSet(t.todo) /\ ToSet(Tail(t.todo)) \subseteq ToSet(t.todo) BY <3>2, SetOfTail
    <3>4. Behind(u, packs) BY <2>0, <3>1, <3>3 DEF Behind, Cards
    <3>5. y.kind = p.kind /\ y.entry = p.entry /\ y.gen = p.gen OBVIOUS
    <3> HIDE DEF y
    <3>6. ASSUME msgs' = Append(msgs, y), NEW m \in DOMAIN msgs', IsCard(msgs'[m])
          PROVE  msgs'[m].gen <= packs[msgs'[m].entry]
      <4>1. msgs \in Seq(Named(Msg)) BY DEF TInv
      <4>2. (m \in DOMAIN msgs /\ msgs'[m] = msgs[m]) \/ msgs'[m] = y BY <3>6, <4>1
      <4>3. IsCard(y) => y.gen <= packs[y.entry]
        BY <2>0, <3>1, <3>3, <3>5 DEF Behind, Cards, IsCard
      <4> QED BY <3>6, <4>2, <4>3 DEF GInv
    <3>7. msgs' = msgs \/ \A m \in DOMAIN msgs' :
                             IsCard(msgs'[m]) => msgs'[m].gen <= packs[msgs'[m].entry]
      BY <3>1, <3>6
    <3> QED BY <3>1, <3>4, <3>7, GenerationsStep DEF u
  <2>3. CASE SaveAnchor(r)
    <3>1. /\ Only(r) /\ u.pc = "layout" /\ u.loaded = t.loaded /\ UNCHANGED <<packs, msgs, healed>>
      BY <2>3, SaveAnchorDoes DEF t, u
    <3> QED BY <2>21, <2>22, <3>1
  <2>4. CASE SaveLayout(r)
    <3>1. /\ Only(r) /\ u.pc = "posts" /\ u.loaded = t.loaded /\ UNCHANGED <<packs, msgs, healed>>
      BY <2>4, SaveLayoutDoes DEF t, u
    <3> QED BY <2>21, <2>22, <3>1
  <2>5. CASE SavePosts(r)
    <3>1. /\ Only(r) /\ u.pc \in {"idle", "backup"} /\ u.loaded = [e \in Entries |-> 0]
          /\ UNCHANGED <<packs, msgs, healed>>
      BY <2>5, SavePostsDoes, IdleIs DEF u
    <3> QED BY <2>21, <2>23, <3>1
  <2>6. CASE UpdateRead(r)
    <3>1. /\ Only(r) /\ u.pc = "build" /\ u.loaded = [e \in Entries |-> 0]
          /\ UNCHANGED <<packs, msgs, healed>>
      BY <2>6, UpdateReadDoes DEF u
    <3> QED BY <2>21, <2>23, <3>1
  <2>7. CASE UpdateBuild(r)
    <3>1. /\ Only(r) /\ UNCHANGED <<packs, msgs, healed>>
          /\ \/ u = Idle
             \/ /\ u.loaded = t.loaded
                /\ \A p \in Cards(u.todo) : p.entry \in Entries /\ p.gen = packs[p.entry]
      BY <2>7, UpdateBuildDoes DEF t, u
    <3>2. Behind(u, packs) BY <1>0, <2>0, <2>20, <3>1 DEF Behind
    <3> QED BY <2>21, <3>1, <3>2
  <2>8. CASE UpdateStrip(r)
    <3>1. /\ t.pc = "strip" /\ Only(r) /\ u.pc = "send" /\ u.todo = t.todo /\ u.loaded = t.loaded
          /\ UNCHANGED <<packs, msgs, healed>>
      BY <2>8, UpdateStripDoes DEF t, u
    <3>2. Behind(u, packs) BY <2>0, <3>1 DEF Behind
    <3> QED BY <2>21, <3>1, <3>2
  <2>9. CASE RelinkRead(r)
    <3>1. /\ Only(r) /\ u.pc = "load" /\ u.loaded = [e \in Entries |-> 0]
          /\ UNCHANGED <<packs, msgs, healed>>
      BY <2>9, RelinkReadDoes DEF u
    <3> QED BY <2>21, <2>23, <3>1
  <2>10. CASE RelinkLoad(r)
    <3>1. Only(r) /\ u.pc = "edit" /\ u.loaded = packs /\ UNCHANGED <<packs, msgs, healed>>
      BY <2>10, RelinkLoadDoes DEF u
    <3>2. Behind(u, packs) BY <1>0, <3>1 DEF Behind
    <3> QED BY <2>21, <3>1, <3>2
  <2>11. CASE RelinkEdit(r)
    <3> DEFINE x == Head(t.todo)
               g == t.loaded[x.entry]
    <3>1. /\ t.pc = "edit" /\ t.todo # <<>> /\ Only(r) /\ UNCHANGED <<packs, healed>>
          /\ u.pc \in {"edit", "sync"} /\ u.loaded = t.loaded /\ x.entry \in Entries
          /\ \/ msgs' = [m \in DOMAIN msgs |-> IF m = x.msg THEN [msgs[m] EXCEPT !.gen = g]
                                               ELSE msgs[m]]
             \/ msgs' = msgs
      BY <2>11, RelinkEditDoes DEF t, u
    <3>2. t.todo \in Seq(Named(Item)) BY <3>1, HeldNow DEF Held, t
    <3>3. x \in ToSet(t.todo) BY <3>1, <3>2, SetOfTail
    <3>4. x.msg \in DOMAIN msgs /\ msgs[x.msg].entry = x.entry
      <4>1. Stands(ToSet(t.todo), msgs) BY <3>1 DEF LInv, Bound, Relinked, t
      <4> QED BY <3>3, <4>1 DEF Stands
    <3>5. g <= packs[x.entry] BY <2>0, <3>1 DEF Behind
    <3>6. Behind(u, packs) BY <2>22, <3>1
    <3> HIDE DEF x, g
    <3>7. msgs' = msgs \/ \A m \in DOMAIN msgs' :
                             IsCard(msgs'[m]) => msgs'[m].gen <= packs[msgs'[m].entry]
      <4> SUFFICES ASSUME msgs' # msgs, NEW m \in DOMAIN msgs', IsCard(msgs'[m])
                   PROVE  msgs'[m].gen <= packs[msgs'[m].entry]
        OBVIOUS
      <4>1. /\ DOMAIN msgs' = DOMAIN msgs
            /\ \A k \in DOMAIN msgs :
                 /\ msgs'[k].kind = msgs[k].kind /\ msgs'[k].entry = msgs[k].entry
                 /\ msgs'[k].gen = IF k = x.msg THEN g ELSE msgs[k].gen
        <5>1. msgs' = [k \in DOMAIN msgs |-> IF k = x.msg THEN [msgs[k] EXCEPT !.gen = g] ELSE msgs[k]]
          BY <3>1
        <5> QED BY <5>1, EditExtends
      <4>2. m \in DOMAIN msgs /\ IsCard(msgs[m]) BY <4>1 DEF IsCard
      <4>3. CASE m = x.msg BY <3>4, <3>5, <4>1, <4>2, <4>3
      <4>4. CASE m # x.msg BY <4>1, <4>2, <4>4 DEF GInv
      <4> QED BY <4>3, <4>4
    <3> QED BY <3>1, <3>6, <3>7, GenerationsStep DEF u
  <2>12. CASE RelinkSync(r)
    <3>1. /\ Only(r) /\ u.pc = "edit" /\ u.loaded = t.loaded /\ UNCHANGED <<packs, msgs, healed>>
      BY <2>12, RelinkSyncDoes DEF t, u
    <3> QED BY <2>21, <2>22, <3>1
  <2>13. CASE RelinkDone(r)
    <3>1. /\ Only(r) /\ u.pc \in {"idle", "backup"} /\ u.loaded = [e \in Entries |-> 0]
          /\ UNCHANGED <<packs, msgs>> /\ healed' = t.loaded
      BY <2>13, RelinkDoneDoes, IdleIs DEF t, u
    <3>2. \A e \in Entries : healed'[e] <= packs[e] BY <2>0, <3>1 DEF Behind
    <3> QED BY <2>23, <3>1, <3>2, GenerationsStep DEF u
  <2>14. CASE BackupRead(r)
    <3>1. /\ Only(r) /\ UNCHANGED <<packs, msgs, healed>>
          /\ u = Idle \/ (u.pc = "write" /\ u.loaded = t.loaded)
      BY <2>14, BackupReadDoes DEF t, u
    <3> QED BY <2>20, <2>21, <2>22, <3>1
  <2>15. CASE BackupWrite(r)
    <3>1. Only(r) /\ u = Idle /\ UNCHANGED <<packs, msgs, healed>>
      BY <2>15, BackupWriteDoes DEF u
    <3> QED BY <2>20, <2>21, <3>1
  <2>16. CASE DatabaseFails(r)
    <3>1. /\ Only(r) /\ UNCHANGED <<packs, msgs, healed>>
          /\ \/ u = Idle
             \/ u.pc = "backup" /\ u.loaded = [e \in Entries |-> 0]
             \/ u.pc = "edit" /\ u.loaded = t.loaded
      BY <2>16, DatabaseFailsDoes DEF t, u
    <3> QED BY <2>20, <2>21, <2>22, <2>23, <3>1
  <2> QED BY <1>4, <2>1, <2>2, <2>3, <2>4, <2>5, <2>6, <2>7, <2>8, <2>9, <2>10, <2>11, <2>12,
             <2>13, <2>14, <2>15, <2>16 DEF Step
<1> QED BY <1>1, <1>2, <1>3, <1>4 DEF Next

-----------------------------------------------------------------------------
(* A run on its own *)

\* The cards readers see, but for those a later publish put out of the layout.
Charted == LiveCards \ orphans

Shown(l, ms) == {<<x.entry, ms[x.msg].gen>> : x \in Cards(l)}
Kept(q)  == {<<p.entry, p.gen>> : p \in Cards(q)}

\* While no edit failed, no live card is older than the packs the last relink saw.
Fresh == faults = 0 => \A m \in Charted : healed[msgs[m].entry] <= msgs[m].gen

Settled == Where(layout) = Charted /\ Shown(layout, msgs) = Kept(posts)
Rest == Fresh /\ Settled /\ (Cards(layout) # {} => Kept(backup) = Kept(posts))

\* The list l and the cards of old, which leave the layout when l is saved, are the
\* channel already; the stored rows are not yet.
Drafted(t, l, old) ==
  /\ Where(l) \cup old = Charted /\ Where(l) \cap old = {}
  /\ Shown(l, msgs) = Kept(t.new) \cup (IF t.op = "publish" THEN {} ELSE Kept(posts))
  /\ t.op \in {"publish", "update"}
  /\ t.op = "update" => /\ anchor /\ Apart(Cards(posts), Cards(t.new))
                        /\ t.new = <<>> /\ Cards(l) # {} => Kept(backup) = Kept(posts)
  /\ t.pc \in {"layout", "posts"} => anchor

\* What a publish will put out of the layout.
Replaced(t) == IF t.op = "publish" THEN Where(layout) ELSE {}

\* The messages are edited one by one, and each row after its message; what is
\* neither edited nor still to edit is as new as the packs that were loaded.
Relinking(t) ==
  /\ anchor /\ Where(layout) = Charted /\ Cards(layout) # {} /\ ToSet(t.todo) \subseteq Cards(layout)
  /\ Shown(layout, msgs) = IF t.pc = "sync" THEN Kept(Synced(posts, t)) ELSE Kept(posts)
  /\ t.new = <<>> => Kept(backup) = Kept(posts)
  /\ faults = 0 =>
       /\ \A e \in Entries : healed[e] <= t.loaded[e]
       /\ \A m \in Charted : \/ \E x \in ToSet(t.todo) : x.msg = m
                             \/ t.loaded[msgs[m].entry] <= msgs[m].gen
       /\ t.pc = "sync" => t.loaded[Head(t.todo).entry] <= msgs[Head(t.todo).msg].gen

Busy(r) ==
  LET t == run[r]
  IN  /\ Fresh
      /\ t.pc \in {"build", "strip"} => Rest /\ anchor /\ t.op = "update" /\ t.body = layout
      /\ t.pc \in {"strip", "send"} /\ faults = 0 => \A p \in Cards(t.todo) : healed[p.entry] <= p.gen
      /\ t.pc \in {"send", "anchor", "layout"} => Drafted(t, t.body, Replaced(t))
      /\ t.pc = "posts" => Drafted(t, layout, {})
      /\ t.pc = "load" => Rest /\ anchor /\ Cards(layout) # {} /\ ToSet(t.body) = Cards(layout)
      /\ t.pc \in {"edit", "sync"} => Relinking(t)
      /\ t.pc \in {"backup", "write"} => Settled /\ anchor
      /\ t.pc = "write" => t.rows = posts

\* Where no run met another and no write was lost.
AInv ==
  /\ ~overlapped => \A q, r \in Runs : q # r => At(q, "idle") \/ At(r, "idle")
  /\ Alone => (AtRest => Rest) /\ \A r \in Runs : ~At(r, "idle") => Busy(r)

-----------------------------------------------------------------------------
(* A step of a run on its own *)

\* Nothing but a start makes runs overlap.
Met(r) ==
  \/ ~At(r, "idle") /\ (overlapped' <=> overlapped)
  \/ At(r, "idle") /\ (overlapped' <=> overlapped \/ \E q \in Runs \ {r} : ~At(q, "idle"))

LEMMA NotMet ==
  ASSUME AInv, NEW r \in Runs, Only(r), Met(r), ~overlapped'
  PROVE  ~overlapped /\ \A q \in Runs \ {r} : At(q, "idle") /\ run'[q].pc = "idle"
<1>1. ~overlapped /\ (At(r, "idle") => \A q \in Runs \ {r} : At(q, "idle")) BY DEF Met
<1>2. \A q \in Runs \ {r} : At(q, "idle") \/ At(r, "idle") BY <1>1 DEF AInv
<1>3. \A q \in Runs \ {r} : run'[q] = run[q] BY DEF Only
<1> QED BY <1>1, <1>2, <1>3 DEF At

LEMMA AloneBefore ==
  ASSUME AInv, NEW r \in Runs, Only(r), Met(r), breaks' = breaks, Alone'
  PROVE  IF At(r, "idle") THEN Rest ELSE Busy(r)
<1>1. Alone /\ \A q \in Runs \ {r} : At(q, "idle") BY NotMet DEF Alone
<1>2. At(r, "idle") => AtRest BY <1>1 DEF AtRest
<1> QED BY <1>1, <1>2 DEF AInv

LEMMA AloneStep ==
  ASSUME AInv, NEW r \in Runs, Only(r), Met(r),
         Alone' => IF run'[r].pc = "idle" THEN Rest' ELSE Busy(r)'
  PROVE  AInv'
<1>1. ASSUME ~overlapped', NEW p \in Runs, NEW q \in Runs, p # q
      PROVE  run'[p].pc = "idle" \/ run'[q].pc = "idle"
  BY <1>1, NotMet
<1>2. ASSUME Alone', \A q \in Runs : run'[q].pc = "idle" PROVE Rest' BY <1>2
<1>3. ASSUME Alone', NEW q \in Runs, run'[q].pc # "idle" PROVE Busy(q)'
  <2>1. q = r BY <1>3, NotMet DEF Alone
  <2> QED BY <1>3, <2>1
<1> QED BY <1>1, <1>2, <1>3 DEF AInv, AtRest, At

LEMMA StartMet ==
  ASSUME NEW r \in Runs, At(r, "idle"),
         overlapped' = (overlapped \/ \E q \in Runs \ {r} : ~At(q, "idle"))
  PROVE  Met(r)
BY DEF Met

LEMMA StepMet == ASSUME NEW r \in Runs, ~At(r, "idle"), overlapped' = overlapped PROVE Met(r)
BY DEF Met

LEMMA SameRest ==
  ASSUME UNCHANGED <<msgs, live, layout, posts, backup, healed, faults, orphans>>
  PROVE  (Fresh => Fresh') /\ (Settled => Settled') /\ (Rest => Rest')
BY DEF Fresh, Settled, Rest, Charted, LiveCards

LEMMA PublishAlone ==
  ASSUME TInv, GInv, NEW r \in Runs, Publish(r), Rest PROVE Busy(r)'
<1> DEFINE u == run'[r]
<1>1. /\ u.pc = "send" /\ u.op = "publish" /\ u.body = <<>> /\ u.new = <<>>
      /\ u.todo = Plan(Confirmed)
      /\ UNCHANGED <<packs, msgs, live, anchor, layout, posts, backup, faults, healed, orphans>>
  BY PublishDoes DEF channel, stored
<1> HIDE DEF u
<1>2. Fresh' BY <1>1, SameRest DEF Rest
<1>3. Cards(u.todo) = {Card(e, packs[e]) : e \in Confirmed}
  BY <1>1, ChannelAssumption, PlanIs DEF Plan
<1>4. \A p \in Cards(u.todo) : healed[p.entry] <= p.gen
  BY <1>3, ChannelAssumption DEF Card, GInv
<1>5. Cards(u.body) = {} /\ Cards(u.new) = {} BY <1>1, EmptyIs
<1>6. Charted' = Charted /\ Where(layout) = Charted BY <1>1 DEF Charted, LiveCards, Rest, Settled
<1>7. Kept(u.new) = {} /\ Where(u.body) = {} /\ Shown(u.body, msgs') = {}
  BY <1>5 DEF Kept, Where, Shown
<1>8. Drafted(run[r], run[r].body, Replaced(run[r]))'
  BY <1>1, <1>6, <1>7 DEF Drafted, Replaced, u
<1> QED BY <1>1, <1>2, <1>4, <1>8 DEF Busy, u

LEMMA SendAlone ==
  ASSUME TInv, LInv, NEW r \in Runs, Send(r), Busy(r) PROVE Busy(r)'
<1> DEFINE t == run[r]
           u == run'[r]
           p == Head(t.todo)
           m == Len(msgs) + 1
           y == [kind |-> p.kind, entry |-> p.entry, gen |-> p.gen,
                 links |-> IF p.kind = "watch_guide" THEN t.known ELSE {}]
           x == [kind |-> p.kind, entry |-> p.entry, msg |-> m]
<1>1. /\ t.pc = "send" /\ u.pc \in {"send", "anchor", "layout"} /\ u.op = t.op
      /\ u.pc = "layout" => t.op # "publish"
      /\ u.todo = Tail(t.todo)
      /\ \/ /\ msgs' = Append(msgs, y) /\ live' = live \cup {m} /\ faults' = faults
            /\ u.body = Append(t.body, x)
            /\ u.new = IF IsCard(p) \/ t.op = "publish" THEN Append(t.new, p) ELSE t.new
         \/ msgs' = msgs /\ live' = live /\ faults' = faults + 1 /\ u.body = t.body /\ u.new = t.new
      /\ y \in Named(Msg) /\ x \in Named(Item) /\ p \in Named(Post)
      /\ UNCHANGED <<anchor, layout, posts, backup, healed, orphans>>
  BY SendDoes DEF channel, stored, history
<1>2. /\ t.todo \in Seq(Named(Post)) /\ t.todo # <<>> /\ t.body \in Seq(Named(Item))
      /\ t.new \in Seq(Named(Post))
  BY <1>1, HeldNow DEF Held
<1>3. p \in ToSet(t.todo) /\ Cards(Tail(t.todo)) \subseteq Cards(t.todo)
  <2>1. ToSet(t.todo) = {p} \cup ToSet(Tail(t.todo)) BY <1>2, SetOfTail
  <2> QED BY <2>1 DEF Cards
<1>4. Drafted(t, t.body, Replaced(t)) /\ Fresh /\ (faults = 0 => \A q \in Cards(t.todo) : healed[q.entry] <= q.gen)
  BY <1>1 DEF Busy
<1>5. Linked(t.body, msgs, live) /\ Apart(Cards(t.body), Cards(t.todo))
  BY <1>1 DEF LInv, Bound, Drafts
<1>6. faults \in Nat BY DEF TInv, TypeOK
<1>7. u.pc = "layout" => anchor' BY <1>1, <1>4 DEF Drafted
<1>8. CASE msgs' = msgs /\ live' = live /\ faults' = faults + 1 /\ u.body = t.body /\ u.new = t.new
  <2>1. faults' # 0 BY <1>6, <1>8
  <2>2. Charted' = Charted BY <1>1, <1>8 DEF Charted, LiveCards
  <2>3. Drafted(run[r], run[r].body, Replaced(run[r]))'
    BY <1>1, <1>4, <1>7, <1>8, <2>2 DEF Drafted, Replaced
  <2> QED BY <1>1, <2>1, <2>3 DEF Busy, Fresh
<1>9. CASE /\ msgs' = Append(msgs, y) /\ live' = live \cup {m} /\ faults' = faults
           /\ u.body = Append(t.body, x)
           /\ u.new = IF IsCard(p) \/ t.op = "publish" THEN Append(t.new, p) ELSE t.new
  <2>1. /\ x.kind = p.kind /\ x.entry = p.entry /\ x.msg = m
        /\ y.kind = p.kind /\ y.entry = p.entry /\ y.gen = p.gen
    OBVIOUS
  <2> HIDE DEF x, y
  <2>2. /\ DOMAIN msgs = 1..Len(msgs) /\ Len(msgs) \in Nat /\ DOMAIN msgs' = 1..m /\ m \in DOMAIN msgs'
        /\ msgs'[m] = y /\ (\A i \in DOMAIN msgs : msgs'[i] = msgs[i]) /\ m \notin DOMAIN msgs
        /\ live \subseteq DOMAIN msgs /\ orphans \subseteq DOMAIN msgs
    BY <1>1, <1>9 DEF TInv, TypeOK
  <2> HIDE DEF m
  <2>3. ToSet(u.body) = ToSet(t.body) \cup {x} BY <1>1, <1>2, <1>9, SetOfAppend
  <2>4. Cards(u.body) = Cards(t.body) \cup (IF IsCard(p) THEN {x} ELSE {})
    BY <2>1, <2>3 DEF Cards, IsCard
  <2>5. Cards(u.new) = Cards(t.new) \cup (IF IsCard(p) THEN {p} ELSE {})
    <3>1. ToSet(Append(t.new, p)) = ToSet(t.new) \cup {p} BY <1>1, <1>2, SetOfAppend
    <3> QED BY <1>9, <3>1 DEF Cards
  <2>6. Charted' = Charted \cup (IF IsCard(p) THEN {m} ELSE {})
    BY <1>1, <1>9, <2>1, <2>2 DEF Charted, LiveCards, IsCard
  <2>7. \A c \in Cards(t.body) : c.msg \in DOMAIN msgs /\ msgs'[c.msg] = msgs[c.msg]
    BY <1>5, <2>2 DEF Linked, Stands, Cards
  <2>8. Where(u.body) = Where(t.body) \cup (IF IsCard(p) THEN {m} ELSE {})
    BY <2>1, <2>4 DEF Where
  <2>9. Shown(t.body, msgs') = Shown(t.body, msgs) BY <2>7 DEF Shown
  <2>10. Shown(u.body, msgs') = Shown(t.body, msgs) \cup (IF IsCard(p) THEN {<<p.entry, p.gen>>} ELSE {})
    BY <2>1, <2>2, <2>4, <2>9 DEF Shown
  <2>11. Kept(u.new) = Kept(t.new) \cup (IF IsCard(p) THEN {<<p.entry, p.gen>>} ELSE {})
    BY <2>5 DEF Kept
  <2>12. ASSUME t.op = "update" PROVE Apart(Cards(posts), Cards(u.new))
    <3>1. Apart(Cards(posts), Cards(t.new)) BY <1>4, <2>12 DEF Drafted
    <3>2. ASSUME IsCard(p), NEW q \in Cards(posts) PROVE q.entry # p.entry
      <4>1. <<q.entry, q.gen>> \in Shown(t.body, msgs) BY <1>4, <2>12 DEF Drafted, Kept
      <4>2. PICK c \in Cards(t.body) : c.entry = q.entry BY <4>1 DEF Shown
      <4>3. p \in Cards(t.todo) BY <1>3, <3>2 DEF Cards
      <4> QED BY <1>5, <4>2, <4>3 DEF Apart
    <3> QED BY <2>5, <3>1, <3>2 DEF Apart
  <2>13. Fresh'
    <3> SUFFICES ASSUME faults = 0, NEW i \in Charted' PROVE healed[msgs'[i].entry] <= msgs'[i].gen
      BY <1>1, <1>9 DEF Fresh
    <3>1. CASE i \in Charted BY <1>4, <2>2, <3>1 DEF Fresh, Charted, LiveCards
    <3>2. CASE IsCard(p) /\ i = m
      <4>1. p \in Cards(t.todo) BY <1>3, <3>2 DEF Cards
      <4> QED BY <1>4, <2>1, <2>2, <3>2, <4>1
    <3> QED BY <2>6, <3>1, <3>2
  <2>14. Drafted(run[r], run[r].body, Replaced(run[r]))'
    <3>1. /\ Where(t.body) \cup Replaced(t) = Charted /\ Where(t.body) \cap Replaced(t) = {}
          /\ Shown(t.body, msgs) = Kept(t.new) \cup (IF t.op = "publish" THEN {} ELSE Kept(posts))
          /\ t.op \in {"publish", "update"}
          /\ t.op = "update" => /\ anchor
                                /\ t.new = <<>> /\ Cards(t.body) # {} => Kept(backup) = Kept(posts)
      BY <1>4 DEF Drafted
    <3>2. Replaced(run[r])' = Replaced(t) BY <1>1 DEF Replaced
    <3>3. m \notin Replaced(t) BY <2>2, <3>1 DEF Charted, LiveCards
    <3>4. Where(u.body) \cup Replaced(t) = Charted' /\ Where(u.body) \cap Replaced(t) = {}
      BY <2>6, <2>8, <3>1, <3>3
    <3>5. Shown(u.body, msgs') = Kept(u.new) \cup (IF t.op = "publish" THEN {} ELSE Kept(posts))
      BY <2>10, <2>11, <3>1
    <3>6. ASSUME t.op = "update", u.new = <<>>, Cards(u.body) # {} PROVE Kept(backup) = Kept(posts)
      <4>1. ~IsCard(p) /\ t.new = <<>>
        <5>1. Cards(u.new) = {} BY <3>6, EmptyIs
        <5>2. ~IsCard(p) BY <2>5, <5>1
        <5> QED BY <1>9, <3>6, <5>2
      <4> QED BY <2>4, <3>1, <3>6, <4>1
    <3> QED BY <1>1, <1>7, <2>12, <3>1, <3>2, <3>4, <3>5, <3>6 DEF Drafted
  <2>15. faults' = 0 => \A q \in Cards(u.todo) : healed[q.entry] <= q.gen BY <1>1, <1>3, <1>4, <1>9
  <2> QED BY <1>1, <2>13, <2>14, <2>15 DEF Busy
<1> QED BY <1>1, <1>8, <1>9

LEMMA SaveAlone ==
  ASSUME TInv, NEW r \in Runs, SaveAnchor(r) \/ SaveLayout(r), Busy(r) PROVE Busy(r)'
<1> DEFINE t == run[r]
           u == run'[r]
<1>1. CASE SaveAnchor(r)
  <2>1. /\ t.pc = "anchor" /\ u.pc = "layout" /\ u.op = t.op /\ u.body = t.body /\ u.new = t.new /\ anchor'
        /\ UNCHANGED <<msgs, live, layout, posts, backup, faults, healed, orphans>>
    BY <1>1, SaveAnchorDoes DEF channel, history
  <2>2. Drafted(t, t.body, Replaced(t)) /\ Fresh' BY <2>1, SameRest DEF Busy
  <2>3. Charted' = Charted BY <2>1 DEF Charted, LiveCards
  <2>4. Drafted(run[r], run[r].body, Replaced(run[r]))' BY <2>1, <2>2, <2>3 DEF Drafted, Replaced
  <2> QED BY <2>1, <2>2, <2>4 DEF Busy
<1>2. CASE SaveLayout(r)
  <2>1. /\ t.pc = "layout" /\ u.pc = "posts" /\ u.op = t.op /\ u.new = t.new /\ layout' = t.body
        /\ orphans' = IF t.op = "publish" THEN orphans \cup Where(layout) ELSE orphans
        /\ UNCHANGED <<msgs, live, anchor, posts, backup, faults, healed>>
    BY <1>2, SaveLayoutDoes DEF channel
  <2>2. Drafted(t, t.body, Replaced(t)) /\ Fresh BY <2>1 DEF Busy
  <2>3. Charted' = Charted \ Replaced(t) BY <2>1 DEF Charted, LiveCards, Replaced
  <2>4. Fresh' BY <2>1, <2>2, <2>3 DEF Fresh
  <2>5. Where(t.body) = Charted' BY <2>2, <2>3 DEF Drafted
  <2>6. Drafted(run[r], layout, {})' BY <2>1, <2>2, <2>5 DEF Drafted
  <2> QED BY <2>1, <2>4, <2>6 DEF Busy
<1> QED BY <1>1, <1>2

LEMMA SavePostsAlone ==
  ASSUME TInv, NEW r \in Runs, SavePosts(r), Busy(r)
  PROVE  IF run'[r].pc = "idle" THEN Rest' ELSE Busy(r)'
<1> DEFINE t == run[r]
           u == run'[r]
<1>1. /\ t.pc = "posts"
      /\ IF t.op = "update" /\ t.new = <<>> THEN u = Idle ELSE u.pc = "backup"
      /\ t.op = "publish" => posts' = t.new
      /\ t.op # "publish" =>
           /\ posts' # <<>>
           /\ Cards(posts') = Cards(posts) \cup
                {p \in Cards(t.new) : \A x \in Cards(posts) : x.entry # p.entry}
      /\ UNCHANGED <<msgs, live, anchor, layout, backup, faults, healed, orphans>>
  BY SavePostsDoes DEF channel, history
<1>2. Charted' = Charted BY <1>1 DEF Charted, LiveCards
<1>3. Drafted(t, layout, {}) /\ Fresh BY <1>1 DEF Busy
<1>4. Fresh' BY <1>1, <1>2, <1>3 DEF Fresh
<1>5. /\ Where(layout) = Charted /\ t.op \in {"publish", "update"} /\ anchor
      /\ Shown(layout, msgs) = Kept(t.new) \cup (IF t.op = "publish" THEN {} ELSE Kept(posts))
      /\ t.op = "update" => /\ Apart(Cards(posts), Cards(t.new))
                            /\ t.new = <<>> /\ Cards(layout) # {} => Kept(backup) = Kept(posts)
  BY <1>1, <1>3 DEF Drafted
<1>6. CASE t.op = "publish"
  <2>1. Settled' BY <1>1, <1>2, <1>5, <1>6 DEF Settled
  <2> QED BY <1>1, <1>4, <1>5, <1>6, <2>1 DEF Busy
<1>7. CASE t.op = "update"
  <2>1. Cards(posts') = Cards(posts) \cup Cards(t.new) BY <1>1, <1>5, <1>7 DEF Apart
  <2>2. Kept(posts') = Kept(posts) \cup Kept(t.new) BY <2>1 DEF Kept
  <2>3. Settled' BY <1>1, <1>2, <1>5, <2>2 DEF Settled
  <2>4. CASE t.new = <<>>
    <3>1. Kept(t.new) = {} BY <2>4, EmptyIs DEF Kept
    <3>2. Rest' BY <1>1, <1>4, <1>5, <2>2, <2>3, <3>1 DEF Rest
    <3> QED BY <1>1, <1>7, <2>4, <3>2, IdleIs
  <2>5. CASE t.new # <<>>
    <3>1. Busy(r)' BY <1>1, <1>4, <1>5, <1>7, <2>3, <2>5 DEF Busy
    <3> QED BY <1>1, <2>5, <3>1
  <2> QED BY <2>4, <2>5
<1> QED BY <1>5, <1>6, <1>7

LEMMA UpdateReadAlone ==
  ASSUME TInv, NEW r \in Runs, UpdateRead(r), Rest PROVE Busy(r)'
<1>1. /\ anchor /\ run'[r].pc = "build" /\ run'[r].op = "update" /\ run'[r].body = layout
      /\ UNCHANGED <<msgs, live, anchor, layout, posts, backup, faults, healed, orphans>>
  BY UpdateReadDoes DEF channel, stored
<1>2. Rest' /\ Fresh' BY <1>1, SameRest DEF Rest
<1> QED BY <1>1, <1>2 DEF Busy

LEMMA UpdateBuildAlone ==
  ASSUME TInv, GInv, NEW r \in Runs, UpdateBuild(r), Busy(r)
  PROVE  IF run'[r].pc = "idle" THEN Rest' ELSE Busy(r)'
<1> DEFINE t == run[r]
           u == run'[r]
<1>1. /\ t.pc = "build"
      /\ \/ u = Idle
         \/ /\ u.pc = "strip" /\ u.op = t.op /\ u.body = t.body
            /\ \A p \in Cards(u.todo) : p.entry \in Entries /\ p.gen = packs[p.entry]
      /\ UNCHANGED <<msgs, live, anchor, layout, posts, backup, faults, healed, orphans>>
  BY UpdateBuildDoes DEF channel, stored, history
<1>2. Rest /\ anchor /\ t.op = "update" /\ t.body = layout BY <1>1 DEF Busy
<1>3. Rest' /\ Fresh' BY <1>1, <1>2, SameRest DEF Rest
<1>4. CASE u = Idle BY <1>3, <1>4, IdleIs
<1>5. CASE /\ u.pc = "strip" /\ u.op = t.op /\ u.body = t.body
           /\ \A p \in Cards(u.todo) : p.entry \in Entries /\ p.gen = packs[p.entry]
  <2>1. \A p \in Cards(u.todo) : healed[p.entry] <= p.gen BY <1>5 DEF GInv
  <2>2. Busy(r)' BY <1>1, <1>2, <1>3, <1>5, <2>1 DEF Busy
  <2> QED BY <1>5, <2>2
<1> QED BY <1>1, <1>4, <1>5

LEMMA UpdateStripAlone ==
  ASSUME TInv, IInv, NEW r \in Runs, UpdateStrip(r), Busy(r) PROVE Busy(r)'
<1> DEFINE t == run[r]
           u == run'[r]
<1>1. /\ t.pc = "strip" /\ u.pc = "send" /\ u.op = t.op /\ u.todo = t.todo /\ u.new = <<>>
      /\ Cards(u.body) = Cards(t.body) /\ live' \subseteq live /\ LiveCards \subseteq live'
      /\ faults' \in 0..MaxTroubles /\ faults <= faults'
      /\ UNCHANGED <<msgs, anchor, layout, posts, backup, healed, orphans>>
  BY UpdateStripDoes DEF stored, history
<1>2. /\ Rest /\ anchor /\ t.op = "update" /\ t.body = layout
      /\ faults = 0 => \A p \in Cards(t.todo) : healed[p.entry] <= p.gen
  BY <1>1 DEF Busy
<1>3. faults' = 0 => faults = 0 BY <1>1 DEF TInv, TypeOK
<1>4. Charted' = Charted BY <1>1 DEF Charted, LiveCards
<1>5. Fresh' BY <1>1, <1>2, <1>3, <1>4 DEF Rest, Fresh
<1>6. Kept(u.new) = {} /\ Cards(u.new) = {} BY <1>1, EmptyIs DEF Kept
<1>7. Where(u.body) = Where(layout) /\ Shown(u.body, msgs') = Shown(layout, msgs)
  BY <1>1, <1>2 DEF Where, Shown
<1>8. Apart(Cards(posts), Cards(u.new)) BY <1>6 DEF Apart
<1>9. /\ Where(layout) = Charted /\ Shown(layout, msgs) = Kept(posts)
      /\ Cards(layout) # {} => Kept(backup) = Kept(posts)
  BY <1>2 DEF Rest, Settled
<1>10. Drafted(run[r], run[r].body, Replaced(run[r]))'
  BY <1>1, <1>2, <1>4, <1>6, <1>7, <1>8, <1>9 DEF Drafted, Replaced
<1> QED BY <1>1, <1>2, <1>3, <1>5, <1>10 DEF Busy

LEMMA RelinkReadAlone ==
  ASSUME TInv, NEW r \in Runs, RelinkRead(r), Rest PROVE Busy(r)'
<1>1. /\ anchor /\ Cards(layout) # {} /\ run'[r].pc = "load" /\ ToSet(run'[r].body) = Cards(layout)
      /\ UNCHANGED <<msgs, live, anchor, layout, posts, backup, faults, healed, orphans>>
  BY RelinkReadDoes DEF channel, stored
<1>2. Rest' /\ Fresh' BY <1>1, SameRest DEF Rest
<1> QED BY <1>1, <1>2 DEF Busy

LEMMA RelinkLoadAlone ==
  ASSUME TInv, LInv, GInv, NEW r \in Runs, RelinkLoad(r), Busy(r) PROVE Busy(r)'
<1> DEFINE t == run[r]
           u == run'[r]
<1>1. /\ t.pc = "load" /\ u.pc = "edit" /\ u.new = <<>> /\ u.loaded = packs
      /\ ToSet(u.todo) = {x \in ToSet(t.body) : packs[x.entry] > 0}
      /\ UNCHANGED <<msgs, live, anchor, layout, posts, backup, faults, healed, orphans>>
  BY RelinkLoadDoes DEF channel, stored, history
<1>2. Rest /\ anchor /\ Cards(layout) # {} /\ ToSet(t.body) = Cards(layout) BY <1>1 DEF Busy
<1>3. Rest' /\ Fresh' BY <1>1, <1>2, SameRest DEF Rest
<1>4. Charted' = Charted BY <1>1 DEF Charted, LiveCards
<1>5. /\ Where(layout) = Charted /\ Shown(layout, msgs) = Kept(posts) /\ Kept(backup) = Kept(posts)
  BY <1>2 DEF Rest, Settled
<1>6. ASSUME NEW m \in Charted
      PROVE  (\E x \in ToSet(u.todo) : x.msg = m) \/ packs[msgs[m].entry] <= msgs[m].gen
  <2>1. PICK x \in Cards(layout) : x.msg = m BY <1>5 DEF Where
  <2>2. msgs[m].entry = x.entry /\ m \in DOMAIN msgs /\ IsCard(msgs[m])
    BY <2>1 DEF LInv, Linked, Stands, Cards, Charted, LiveCards
  <2>3. msgs[m] \in Named(Msg) BY <2>2 DEF TInv
  <2>4. msgs[m].gen \in Nat /\ x.entry \in Entries BY <2>2, <2>3, ChannelAssumption DEF Named, Msg
  <2>5. packs[x.entry] \in Nat
    <3>1. packs \in [Entries -> 0..MaxPacks] /\ MaxPacks \in Nat BY ChannelAssumption DEF TInv, TypeOK
    <3> QED BY <2>4, <3>1
  <2>6. CASE packs[x.entry] > 0 BY <1>1, <1>2, <2>1, <2>6
  <2>7. CASE ~(packs[x.entry] > 0) BY <2>2, <2>4, <2>5, <2>7
  <2> QED BY <2>6, <2>7
<1>7. ToSet(u.todo) \subseteq Cards(layout) BY <1>1, <1>2
<1>8. Relinking(run[r])'
  BY <1>1, <1>2, <1>4, <1>5, <1>6, <1>7 DEF Relinking, GInv
<1> QED BY <1>1, <1>3, <1>8 DEF Busy

\* What the rows hold once an entry's links are written into them.
LEMMA KeptSynced ==
  ASSUME NEW q \in Seq(Named(Post)), NEW t
  PROVE  LET e == Head(t.todo).entry
         IN  Kept(Synced(q, t)) = {IF k[1] = e THEN <<e, t.loaded[e]>> ELSE k : k \in Kept(q)}
<1> DEFINE e == Head(t.todo).entry
           g == t.loaded[e]
           s == Synced(q, t)
           To(k) == IF k[1] = e THEN <<e, g>> ELSE k
<1>1. /\ DOMAIN s = DOMAIN q
      /\ \A i \in DOMAIN q : s[i] = IF q[i].entry = e THEN [q[i] EXCEPT !.gen = g] ELSE q[i]
  BY DEF Synced
<1>2. \A i \in DOMAIN q : q[i] \in Post BY DEF Named
<1> HIDE DEF s, e, g
<1>3. \A p \in Post : LET z == [p EXCEPT !.gen = g]
                      IN  z.kind = p.kind /\ z.entry = p.entry /\ z.gen = g
  BY DEF Post
<1>4. \A i \in DOMAIN q : /\ s[i].kind = q[i].kind /\ s[i].entry = q[i].entry
                          /\ s[i].gen = IF q[i].entry = e THEN g ELSE q[i].gen
  BY <1>1, <1>2, <1>3
<1>5. \A i \in DOMAIN q : <<s[i].entry, s[i].gen>> = To(<<q[i].entry, q[i].gen>>) BY <1>4
<1>6. ASSUME NEW k \in Kept(s) PROVE \E j \in Kept(q) : k = To(j)
  <2>1. PICK i \in DOMAIN s : IsCard(s[i]) /\ k = <<s[i].entry, s[i].gen>>
    BY DEF Kept, Cards, ToSet
  <2>2. <<q[i].entry, q[i].gen>> \in Kept(q) BY <1>1, <1>4, <2>1 DEF Kept, Cards, ToSet, IsCard
  <2> QED BY <1>1, <1>5, <2>1, <2>2
<1>7. ASSUME NEW k \in Kept(q) PROVE To(k) \in Kept(s)
  <2>1. PICK i \in DOMAIN q : IsCard(q[i]) /\ k = <<q[i].entry, q[i].gen>>
    BY DEF Kept, Cards, ToSet
  <2>2. <<s[i].entry, s[i].gen>> \in Kept(s) BY <1>1, <1>4, <2>1 DEF Kept, Cards, ToSet, IsCard
  <2> QED BY <1>5, <2>1, <2>2
<1> HIDE DEF To
<1>8. Kept(s) = {To(k) : k \in Kept(q)} BY <1>6, <1>7
<1> QED BY <1>8 DEF To, s, e, g

LEMMA RelinkEditAlone ==
  ASSUME TInv, LInv, NEW r \in Runs, RelinkEdit(r), Busy(r) PROVE Busy(r)'
<1> DEFINE t == run[r]
           u == run'[r]
           x == Head(t.todo)
           g == t.loaded[x.entry]
<1>1. /\ t.pc = "edit" /\ t.todo # <<>> /\ u.new = t.new /\ u.loaded = t.loaded
      /\ \/ /\ u.pc = "sync" /\ u.todo = t.todo /\ faults' = faults
            /\ msgs' = [m \in DOMAIN msgs |-> IF m = x.msg THEN [msgs[m] EXCEPT !.gen = g] ELSE msgs[m]]
         \/ /\ u.pc = "edit" /\ u.todo = Tail(t.todo) /\ faults' = faults + 1 /\ msgs' = msgs
      /\ UNCHANGED <<live, anchor, layout, posts, backup, healed, orphans>>
  BY RelinkEditDoes DEF stored, history
<1>2. t.todo \in Seq(Named(Item)) BY <1>1, HeldNow DEF Held
<1>3. x \in ToSet(t.todo) /\ ToSet(Tail(t.todo)) \subseteq ToSet(t.todo) BY <1>1, <1>2, SetOfTail
<1>4. Relinking(t) /\ Fresh BY <1>1 DEF Busy
<1>5. /\ anchor /\ Where(layout) = Charted /\ Cards(layout) # {} /\ ToSet(t.todo) \subseteq Cards(layout)
      /\ Shown(layout, msgs) = Kept(posts)
      /\ t.new = <<>> => Kept(backup) = Kept(posts)
      /\ faults = 0 =>
           /\ \A e \in Entries : healed[e] <= t.loaded[e]
           /\ \A m \in Charted : \/ \E z \in ToSet(t.todo) : z.msg = m
                                 \/ t.loaded[msgs[m].entry] <= msgs[m].gen
  BY <1>1, <1>4 DEF Relinking
<1>6. faults \in Nat BY DEF TInv, TypeOK
<1>7. CASE u.pc = "edit" /\ u.todo = Tail(t.todo) /\ faults' = faults + 1 /\ msgs' = msgs
  <2>1. faults' # 0 BY <1>6, <1>7
  <2>2. Charted' = Charted BY <1>1, <1>7 DEF Charted, LiveCards
  <2>3. Relinking(run[r])' BY <1>1, <1>3, <1>5, <1>7, <2>1, <2>2 DEF Relinking
  <2> QED BY <1>7, <2>1, <2>3 DEF Busy, Fresh
<1>8. CASE /\ u.pc = "sync" /\ u.todo = t.todo /\ faults' = faults
           /\ msgs' = [m \in DOMAIN msgs |-> IF m = x.msg THEN [msgs[m] EXCEPT !.gen = g] ELSE msgs[m]]
  <2>1. /\ DOMAIN msgs' = DOMAIN msgs
        /\ \A m \in DOMAIN msgs :
             /\ msgs'[m].kind = msgs[m].kind /\ msgs'[m].entry = msgs[m].entry
             /\ msgs'[m].gen = IF m = x.msg THEN g ELSE msgs[m].gen
    <3>1. msgs' = [m \in DOMAIN msgs |-> IF m = x.msg THEN [msgs[m] EXCEPT !.gen = g] ELSE msgs[m]]
      BY <1>8
    <3> QED BY <3>1, EditExtends
  <2>2. x \in Cards(layout) BY <1>3, <1>5
  <2>3. \A z \in Cards(layout) : z.msg \in DOMAIN msgs /\ msgs[z.msg].entry = z.entry
    BY DEF LInv, Linked, Stands, Cards
  <2>4. \A z \in Cards(layout) : z.entry = x.entry => z = x BY <2>2 DEF LInv, Linked
  <2>5. live \subseteq DOMAIN msgs BY DEF TInv, TypeOK
  <2>6. Charted' = Charted BY <1>1, <2>1, <2>5 DEF Charted, LiveCards, IsCard
  <2>7. x.entry \in Entries
    <3>1. x \in Named(Item) BY <1>1, <1>2, SetOfTail
    <3> QED BY <2>2, <3>1 DEF Named, Cards
  <2>8. g = t.loaded[x.entry] OBVIOUS
  <2>9. \A z \in Cards(layout) : msgs'[z.msg].gen = IF z.entry = x.entry THEN g ELSE msgs[z.msg].gen
    BY <2>1, <2>2, <2>3, <2>4
  <2>10. Shown(layout, msgs') = Kept(Synced(posts, u))
    <3> DEFINE To(k) == IF k[1] = x.entry THEN <<x.entry, g>> ELSE k
    <3>1. Kept(Synced(posts, u)) = {To(k) : k \in Kept(posts)}
      <4>1. posts \in Seq(Named(Post)) BY DEF TInv
      <4>2. Head(u.todo).entry = x.entry /\ u.loaded[x.entry] = g BY <1>1, <1>8
      <4> HIDE DEF u, x, g
      <4> QED BY <4>1, <4>2, KeptSynced
    <3>2. \A z \in Cards(layout) : <<z.entry, msgs'[z.msg].gen>> = To(<<z.entry, msgs[z.msg].gen>>)
      BY <2>9
    <3> HIDE DEF To
    <3>3. Shown(layout, msgs') = {To(k) : k \in Shown(layout, msgs)} BY <3>2 DEF Shown
    <3> QED BY <1>5, <3>1, <3>3
  <2> HIDE DEF x, g
  <2>11. ASSUME faults = 0
         PROVE  /\ \A m \in Charted : \/ \E z \in ToSet(t.todo) : z.msg = m
                                      \/ t.loaded[msgs'[m].entry] <= msgs'[m].gen
                /\ t.loaded[x.entry] <= msgs'[x.msg].gen
                /\ \A m \in Charted : healed[msgs'[m].entry] <= msgs'[m].gen
    <3>1. t.loaded[x.entry] \in Nat /\ healed[x.entry] <= t.loaded[x.entry]
      <4>1. t.loaded \in [Entries -> 0..MaxPacks] BY HeldNow DEF Task
      <4>2. MaxPacks \in Nat BY ChannelAssumption
      <4> QED BY <1>5, <2>7, <2>11, <4>1, <4>2
    <3>2. x.msg \in DOMAIN msgs /\ msgs'[x.msg].gen = g /\ msgs'[x.msg].entry = x.entry
      BY <2>1, <2>2, <2>3
    <3>3. t.loaded[x.entry] <= g BY <2>8, <3>1
    <3>4. ASSUME NEW m \in Charted
          PROVE  /\ (\E z \in ToSet(t.todo) : z.msg = m) \/ t.loaded[msgs'[m].entry] <= msgs'[m].gen
                 /\ healed[msgs'[m].entry] <= msgs'[m].gen
      <4>1. m \in DOMAIN msgs BY <2>5 DEF Charted, LiveCards
      <4>2. CASE m = x.msg BY <1>3, <2>8, <3>1, <3>2, <4>2
      <4>3. CASE m # x.msg
        <5>1. msgs'[m].gen = msgs[m].gen /\ msgs'[m].entry = msgs[m].entry BY <2>1, <4>1, <4>3
        <5> QED BY <1>4, <1>5, <2>11, <5>1 DEF Fresh
      <4> QED BY <4>2, <4>3
    <3> QED BY <3>2, <3>3, <3>4
  <2>12. Fresh' BY <1>1, <1>8, <2>6, <2>11 DEF Fresh
  <2>13. Head(u.todo) = x BY <1>8 DEF x
  <2>14. Relinking(run[r])'
    BY <1>1, <1>5, <1>8, <2>6, <2>10, <2>11, <2>13 DEF Relinking
  <2> QED BY <1>8, <2>12, <2>14 DEF Busy
<1> QED BY <1>1, <1>7, <1>8

LEMMA RelinkSyncAlone ==
  ASSUME TInv, LInv, NEW r \in Runs, RelinkSync(r), Busy(r) PROVE Busy(r)'
<1> DEFINE t == run[r]
           u == run'[r]
           x == Head(t.todo)
<1>1. /\ t.pc = "sync" /\ u.pc = "edit" /\ u.todo = Tail(t.todo) /\ u.loaded = t.loaded
      /\ u.new # <<>> /\ posts' = Synced(posts, t)
      /\ UNCHANGED <<msgs, live, anchor, layout, backup, faults, healed, orphans>>
  BY RelinkSyncDoes DEF channel, history
<1>2. Relinking(t) /\ Fresh BY <1>1 DEF Busy
<1>3. /\ anchor /\ Where(layout) = Charted /\ Cards(layout) # {} /\ ToSet(t.todo) \subseteq Cards(layout)
      /\ Shown(layout, msgs) = Kept(Synced(posts, t))
      /\ faults = 0 =>
           /\ \A e \in Entries : healed[e] <= t.loaded[e]
           /\ \A m \in Charted : \/ \E z \in ToSet(t.todo) : z.msg = m
                                 \/ t.loaded[msgs[m].entry] <= msgs[m].gen
           /\ t.loaded[x.entry] <= msgs[x.msg].gen
  BY <1>1, <1>2 DEF Relinking
<1>4. t.todo \in Seq(Named(Item)) /\ t.todo # <<>> BY <1>1, HeldNow DEF Held
<1>5. ToSet(t.todo) = {x} \cup ToSet(u.todo) BY <1>1, <1>4, SetOfTail
<1>6. Charted' = Charted BY <1>1 DEF Charted, LiveCards
<1>7. Fresh' BY <1>1, <1>2, <1>6 DEF Fresh
<1>8. x \in Cards(layout) BY <1>3, <1>5
<1>9. msgs[x.msg].entry = x.entry BY <1>8 DEF LInv, Linked, Stands, Cards
<1> HIDE DEF x
<1>10. ASSUME faults = 0, NEW m \in Charted
       PROVE  (\E z \in ToSet(u.todo) : z.msg = m) \/ t.loaded[msgs[m].entry] <= msgs[m].gen
  <2>1. CASE \E z \in ToSet(t.todo) : z.msg = m BY <1>3, <1>5, <1>9, <1>10, <2>1
  <2>2. CASE ~\E z \in ToSet(t.todo) : z.msg = m BY <1>3, <1>10, <2>2
  <2> QED BY <2>1, <2>2
<1>11. Relinking(run[r])' BY <1>1, <1>3, <1>5, <1>6, <1>10 DEF Relinking
<1> QED BY <1>1, <1>7, <1>11 DEF Busy

LEMMA RelinkDoneAlone ==
  ASSUME TInv, NEW r \in Runs, RelinkDone(r), Busy(r)
  PROVE  IF run'[r].pc = "idle" THEN Rest' ELSE Busy(r)'
<1> DEFINE t == run[r]
           u == run'[r]
<1>1. /\ t.pc = "edit" /\ t.todo = <<>> /\ healed' = t.loaded
      /\ IF t.new = <<>> THEN u = Idle ELSE u.pc = "backup"
      /\ UNCHANGED <<msgs, live, anchor, layout, posts, backup, faults, orphans>>
  BY RelinkDoneDoes DEF channel, stored
<1>2. Relinking(t) BY <1>1 DEF Busy
<1>3. /\ anchor /\ Where(layout) = Charted /\ Cards(layout) # {} /\ Shown(layout, msgs) = Kept(posts)
      /\ t.new = <<>> => Kept(backup) = Kept(posts)
      /\ faults = 0 => \A m \in Charted : \/ \E x \in ToSet(t.todo) : x.msg = m
                                          \/ t.loaded[msgs[m].entry] <= msgs[m].gen
  BY <1>1, <1>2 DEF Relinking
<1>4. Charted' = Charted BY <1>1 DEF Charted, LiveCards
<1>5. ToSet(t.todo) = {} BY <1>1, EmptyIs
<1>6. Fresh' BY <1>1, <1>3, <1>4, <1>5 DEF Fresh
<1>7. Settled' BY <1>1, <1>3, <1>4 DEF Settled
<1>8. posts # <<>>
  <2>1. PICK x : x \in Cards(layout) BY <1>3
  <2>2. Kept(posts) # {} BY <1>3, <2>1 DEF Shown
  <2>3. Cards(posts) # {} BY <2>2 DEF Kept
  <2> QED BY <2>3, EmptyIs
<1>9. CASE t.new = <<>>
  <2>1. Rest' BY <1>1, <1>3, <1>6, <1>7, <1>9 DEF Rest
  <2> QED BY <1>1, <1>9, <2>1, IdleIs
<1>10. CASE t.new # <<>>
  <2>1. Busy(r)' BY <1>1, <1>3, <1>6, <1>7, <1>8, <1>10 DEF Busy
  <2> QED BY <1>1, <1>10, <2>1
<1> QED BY <1>9, <1>10

LEMMA BackupAlone ==
  ASSUME TInv, NEW r \in Runs, BackupRead(r) \/ BackupWrite(r), Busy(r)
  PROVE  IF run'[r].pc = "idle" THEN Rest' ELSE Busy(r)'
<1> DEFINE t == run[r]
           u == run'[r]
<1>1. CASE BackupRead(r)
  <2>1. /\ t.pc = "backup" /\ \/ u = Idle /\ (~anchor \/ posts = <<>>)
                              \/ u.pc = "write" /\ u.rows = posts
        /\ UNCHANGED <<msgs, live, anchor, layout, posts, backup, faults, healed, orphans>>
    BY <1>1, BackupReadDoes DEF channel, stored, history
  <2>2. Fresh /\ Settled /\ anchor BY <2>1 DEF Busy
  <2>3. Fresh' /\ Settled' /\ (Rest => Rest') BY <2>1, <2>2, SameRest
  <2>4. CASE u = Idle
    <3>1. posts = <<>> BY <2>1, <2>2, <2>4, IdleIs
    <3>2. Cards(layout) = {}
      <4>1. Kept(posts) = {} BY <3>1, EmptyIs DEF Kept
      <4> QED BY <2>2, <4>1 DEF Settled, Shown
    <3>3. Rest BY <2>2, <3>2 DEF Rest
    <3> QED BY <2>3, <2>4, <3>3, IdleIs
  <2>5. CASE u.pc = "write" /\ u.rows = posts
    <3>1. Busy(r)' BY <2>1, <2>2, <2>3, <2>5 DEF Busy
    <3> QED BY <2>5, <3>1
  <2> QED BY <2>1, <2>4, <2>5
<1>2. CASE BackupWrite(r)
  <2>1. /\ t.pc = "write" /\ u = Idle /\ backup' = t.rows
        /\ UNCHANGED <<msgs, live, anchor, layout, posts, faults, healed, orphans>>
    BY <1>2, BackupWriteDoes DEF channel, history
  <2>2. Fresh /\ Settled /\ t.rows = posts BY <2>1 DEF Busy
  <2>3. Charted' = Charted BY <2>1 DEF Charted, LiveCards
  <2>4. Fresh' /\ Settled' BY <2>1, <2>2, <2>3 DEF Fresh, Settled
  <2>5. Rest' BY <2>1, <2>2, <2>4 DEF Rest
  <2> QED BY <2>1, <2>5, IdleIs
<1> QED BY <1>1, <1>2

LEMMA AloneKept ==
  ASSUME TInv, IInv, LInv, GInv, AInv, [Next]_vars PROVE AInv'
<1> USE DEF stored, channel, history
<1>1. CASE UNCHANGED vars
  <2>1. UNCHANGED <<msgs, live, anchor, layout, posts, backup, run, faults, breaks, overlapped, healed, orphans>>
    BY <1>1 DEF vars
  <2> QED BY <2>1 DEF AInv, Alone, AtRest, At, Rest, Busy, Fresh, Settled, Drafted, Replaced,
             Relinking, Charted, LiveCards
<1>2. ASSUME NEW e \in Entries, StorePacks(e) PROVE AInv'
  <2>1. UNCHANGED <<msgs, live, anchor, layout, posts, backup, run, faults, breaks, overlapped, healed, orphans>>
    BY <1>2 DEF StorePacks
  <2> QED BY <2>1 DEF AInv, Alone, AtRest, At, Rest, Busy, Fresh, Settled, Drafted, Replaced,
             Relinking, Charted, LiveCards
<1>3. ASSUME Crash PROVE AInv'
  <2>1. /\ breaks' = breaks + 1 /\ breaks \in Nat /\ \A r \in Runs : run'[r] = Idle
    BY <1>3 DEF Crash, TInv, TypeOK
  <2>2. breaks' # 0 BY <2>1
  <2> QED BY <2>1, <2>2, IdleIs DEF AInv, Alone, At
<1>4. ASSUME NEW r \in Runs, Step(r) PROVE AInv'
  <2> DEFINE u == run'[r]
  <2>0. ASSUME Only(r), breaks' = breaks, ~At(r, "idle"), overlapped' = overlapped,
               Busy(r) => IF u.pc = "idle" THEN Rest' ELSE Busy(r)'
        PROVE  AInv'
    <3>1. Met(r) BY <2>0, StepMet
    <3>2. Alone' => Busy(r) BY <2>0, <3>1, AloneBefore
    <3> QED BY <2>0, <3>1, <3>2, AloneStep
  <2>17. ASSUME Only(r), breaks' = breaks, At(r, "idle"), u.pc # "idle",
                overlapped' = (overlapped \/ \E q \in Runs \ {r} : ~At(q, "idle")), Rest => Busy(r)'
         PROVE  AInv'
    <3>1. Met(r) BY <2>17, StartMet
    <3>2. Alone' => Rest BY <2>17, <3>1, AloneBefore
    <3> QED BY <2>17, <3>1, <3>2, AloneStep
  <2>18. run[r].pc # "idle" => ~At(r, "idle") BY DEF At
  <2>1. CASE Publish(r)
    <3>1. /\ At(r, "idle") /\ Only(r) /\ u.pc = "send" /\ UNCHANGED breaks
          /\ overlapped' = (overlapped \/ \E q \in Runs \ {r} : ~At(q, "idle"))
      BY <2>1, PublishDoes
    <3> QED BY <2>1, <2>17, <3>1, PublishAlone
  <2>2. CASE Send(r)
    <3>1. /\ run[r].pc = "send" /\ Only(r) /\ u.pc \in {"send", "anchor", "layout"}
          /\ UNCHANGED <<breaks, overlapped>>
      BY <2>2, SendDoes
    <3> QED BY <2>0, <2>2, <2>18, <3>1, SendAlone
  <2>3. CASE SaveAnchor(r)
    <3>1. run[r].pc = "anchor" /\ Only(r) /\ u.pc = "layout" /\ UNCHANGED <<breaks, overlapped>>
      BY <2>3, SaveAnchorDoes
    <3> QED BY <2>0, <2>3, <2>18, <3>1, SaveAlone
  <2>4. CASE SaveLayout(r)
    <3>1. run[r].pc = "layout" /\ Only(r) /\ u.pc = "posts" /\ UNCHANGED <<breaks, overlapped>>
      BY <2>4, SaveLayoutDoes
    <3> QED BY <2>0, <2>4, <2>18, <3>1, SaveAlone
  <2>5. CASE SavePosts(r)
    <3>1. run[r].pc = "posts" /\ Only(r) /\ UNCHANGED <<breaks, overlapped>>
      BY <2>5, SavePostsDoes
    <3> QED BY <2>0, <2>5, <2>18, <3>1, SavePostsAlone
  <2>6. CASE UpdateRead(r)
    <3>1. /\ At(r, "idle") /\ Only(r) /\ u.pc = "build" /\ UNCHANGED breaks
          /\ overlapped' = (overlapped \/ \E q \in Runs \ {r} : ~At(q, "idle"))
      BY <2>6, UpdateReadDoes
    <3> QED BY <2>6, <2>17, <3>1, UpdateReadAlone
  <2>7. CASE UpdateBuild(r)
    <3>1. run[r].pc = "build" /\ Only(r) /\ UNCHANGED <<breaks, overlapped>>
      BY <2>7, UpdateBuildDoes
    <3> QED BY <2>0, <2>7, <2>18, <3>1, UpdateBuildAlone
  <2>8. CASE UpdateStrip(r)
    <3>1. run[r].pc = "strip" /\ Only(r) /\ u.pc = "send" /\ UNCHANGED <<breaks, overlapped>>
      BY <2>8, UpdateStripDoes
    <3> QED BY <2>0, <2>8, <2>18, <3>1, UpdateStripAlone
  <2>9. CASE RelinkRead(r)
    <3>1. /\ At(r, "idle") /\ Only(r) /\ u.pc = "load" /\ UNCHANGED breaks
          /\ overlapped' = (overlapped \/ \E q \in Runs \ {r} : ~At(q, "idle"))
      BY <2>9, RelinkReadDoes
    <3> QED BY <2>9, <2>17, <3>1, RelinkReadAlone
  <2>10. CASE RelinkLoad(r)
    <3>1. run[r].pc = "load" /\ Only(r) /\ u.pc = "edit" /\ UNCHANGED <<breaks, overlapped>>
      BY <2>10, RelinkLoadDoes
    <3> QED BY <2>0, <2>10, <2>18, <3>1, RelinkLoadAlone
  <2>11. CASE RelinkEdit(r)
    <3>1. run[r].pc = "edit" /\ Only(r) /\ u.pc \in {"edit", "sync"} /\ UNCHANGED <<breaks, overlapped>>
      BY <2>11, RelinkEditDoes
    <3> QED BY <2>0, <2>11, <2>18, <3>1, RelinkEditAlone
  <2>12. CASE RelinkSync(r)
    <3>1. run[r].pc = "sync" /\ Only(r) /\ u.pc = "edit" /\ UNCHANGED <<breaks, overlapped>>
      BY <2>12, RelinkSyncDoes
    <3> QED BY <2>0, <2>12, <2>18, <3>1, RelinkSyncAlone
  <2>13. CASE RelinkDone(r)
    <3>1. run[r].pc = "edit" /\ Only(r) /\ UNCHANGED <<breaks, overlapped>>
      BY <2>13, RelinkDoneDoes
    <3> QED BY <2>0, <2>13, <2>18, <3>1, RelinkDoneAlone
  <2>14. CASE BackupRead(r)
    <3>1. run[r].pc = "backup" /\ Only(r) /\ UNCHANGED <<breaks, overlapped>>
      BY <2>14, BackupReadDoes
    <3> QED BY <2>0, <2>14, <2>18, <3>1, BackupAlone
  <2>15. CASE BackupWrite(r)
    <3>1. run[r].pc = "write" /\ Only(r) /\ UNCHANGED <<breaks, overlapped>>
      BY <2>15, BackupWriteDoes
    <3> QED BY <2>0, <2>15, <2>18, <3>1, BackupAlone
  <2>16. CASE DatabaseFails(r)
    <3>1. Only(r) /\ breaks' = breaks + 1 /\ breaks \in Nat /\ UNCHANGED overlapped
      BY <2>16, DatabaseFailsDoes DEF TInv, TypeOK
    <3>2. ~At(r, "idle") BY <2>16 DEF DatabaseFails, At
    <3>3. ~Alone' BY <3>1 DEF Alone
    <3>4. Met(r) BY <3>1, <3>2, StepMet
    <3> QED BY <3>1, <3>3, <3>4, AloneStep
  <2> QED BY <1>4, <2>1, <2>2, <2>3, <2>4, <2>5, <2>6, <2>7, <2>8, <2>9, <2>10, <2>11, <2>12,
             <2>13, <2>14, <2>15, <2>16 DEF Step
<1> QED BY <1>1, <1>2, <1>3, <1>4 DEF Next

-----------------------------------------------------------------------------
(* The first state, and every step *)

CInv == TInv /\ IInv /\ LInv /\ GInv /\ AInv

LEMMA InitCInv == Init => CInv
<1> SUFFICES ASSUME Init PROVE CInv OBVIOUS
<1>1. /\ packs = [e \in Entries |-> 0] /\ healed = packs /\ msgs = <<>> /\ live = {} /\ anchor = FALSE
      /\ layout = <<>> /\ posts = <<>> /\ backup = <<>> /\ run = [r \in Runs |-> Idle]
      /\ starts = 0 /\ faults = 0 /\ breaks = 0 /\ overlapped = FALSE /\ orphans = {}
  BY DEF Init
<1>2. \A r \in Runs : run[r] = Idle BY <1>1
<1>3. {MaxStarts, MaxPacks, MaxTroubles} \subseteq Nat BY ChannelAssumption
<1>4. TInv
  <2>1. packs \in [Entries -> 0..MaxPacks] BY <1>1, <1>3
  <2>2. run \in [Runs -> Task] BY <1>1, IdleIs
  <2>3. <<>> \in Seq(Msg) /\ <<>> \in Seq(Item) /\ <<>> \in Seq(Post) BY EmptyIs
  <2>4. 0 \in 0..MaxStarts /\ 0 \in 0..MaxTroubles BY <1>3
  <2>5. TypeOK BY <1>1, <2>1, <2>2, <2>3, <2>4 DEF TypeOK
  <2> QED BY <1>1, <1>2, <2>5, EmptyIs, IdleIs DEF TInv
<1>5. LInv BY <1>1, <1>2, EmptyLinked, IdleIs, NothingBound DEF LInv
<1>6. GInv
  <2>1. DOMAIN msgs = {} BY <1>1
  <2>2. Behind(Idle, packs) BY <1>4, IdleIs, NoneBehind
  <2> QED BY <1>1, <1>2, <2>1, <2>2 DEF GInv
<1>7. AInv
  <2>1. \A r \in Runs : At(r, "idle") BY <1>2, IdleIs DEF At
  <2>2. Charted = {} BY <1>1 DEF Charted, LiveCards
  <2>3. Cards(layout) = {} /\ Cards(posts) = {} /\ Cards(backup) = {} BY <1>1, EmptyIs
  <2>4. Where(layout) = {} /\ Shown(layout, msgs) = {} /\ Kept(posts) = {} /\ Kept(backup) = {}
    BY <2>3 DEF Where, Shown, Kept
  <2>5. Rest BY <2>2, <2>4 DEF Rest, Fresh, Settled
  <2> QED BY <2>1, <2>5 DEF AInv
<1> QED BY <1>4, <1>5, <1>6, <1>7, InitIInv DEF CInv

LEMMA NextCInv == CInv /\ [Next]_vars => CInv'
BY TypesKept, NextIInv, LinksKept, GenerationsKept, AloneKept DEF CInv

LEMMA LinksLead == CInv => LinksLeadSomewhere
<1> SUFFICES ASSUME CInv PROVE LinksLeadSomewhere OBVIOUS
<1>1. GuideLinksItsCards
  <2>1. Linked(layout, msgs, live) BY DEF CInv, LInv
  <2> QED BY <2>1 DEF Linked, Stands, GuideLinksItsCards, Cards
<1>2. NoDeadButtons
  <2> SUFFICES ASSUME AtRest, Alone, faults = 0, healed = packs, NEW x \in Cards(layout)
               PROVE  msgs[x.msg].gen = packs[x.entry]
    BY DEF NoDeadButtons
  <2>1. Rest BY DEF CInv, AInv
  <2>2. x.msg \in Charted BY <2>1 DEF Rest, Settled, Where
  <2>3. x.msg \in DOMAIN msgs /\ msgs[x.msg].entry = x.entry /\ IsCard(msgs[x.msg])
    BY <2>2 DEF CInv, LInv, Linked, Stands, Cards, Charted, LiveCards
  <2>4. packs[x.entry] <= msgs[x.msg].gen BY <2>1, <2>2, <2>3 DEF Rest, Fresh
  <2>5. msgs[x.msg].gen <= packs[x.entry] BY <2>3 DEF CInv, GInv
  <2>6. msgs[x.msg] \in Named(Msg) BY <2>3 DEF CInv, TInv
  <2>7. msgs[x.msg].gen \in Nat /\ x.entry \in Entries
    BY <2>3, <2>6, ChannelAssumption DEF Named, Msg
  <2>8. packs \in [Entries -> 0..MaxPacks] /\ MaxPacks \in Nat
    BY ChannelAssumption DEF CInv, TInv, TypeOK
  <2>9. packs[x.entry] \in Nat BY <2>7, <2>8
  <2> QED BY <2>4, <2>5, <2>7, <2>9
<1> QED BY <1>1, <1>2 DEF LinksLeadSomewhere

LEMMA RestIs == CInv => LayoutIsTheChannel /\ BackupIsCurrent
<1> SUFFICES ASSUME CInv, AtRest, Alone
             PROVE  /\ {x.msg : x \in Cards(layout)} = LiveCards \ orphans
                    /\ Cards(layout) # {} => {<<p.entry, p.gen>> : p \in Cards(backup)}
                         = {<<x.entry, msgs[x.msg].gen>> : x \in Cards(layout)}
  BY DEF LayoutIsTheChannel, BackupIsCurrent
<1>1. Rest BY DEF CInv, AInv
<1> QED BY <1>1 DEF Rest, Settled, Charted, Where, Shown, Kept

-----------------------------------------------------------------------------
(* Theorems *)

\* No run, alone or with others, with failed calls, failed transactions and restarts
\* wherever they fall, deletes a content card that readers can see.
THEOREM CardsAreKept == Spec => CardsKept
<1>1. IInv /\ [Next]_vars => LiveCards \subseteq live'
  <2> SUFFICES ASSUME IInv, [Next]_vars PROVE LiveCards \subseteq live' OBVIOUS
  <2>1. CASE \A r \in Runs : ~UpdateStrip(r)
    BY <2>1, OthersDeleteNothing DEF LiveCards
  <2>2. ASSUME NEW r \in Runs, UpdateStrip(r) PROVE LiveCards \subseteq live'
    BY <2>2, UpdateStripKeeps
  <2> QED BY <2>1, <2>2
<1> QED BY <1>1, InitIInv, NextIInv, PTL DEF Spec, CardsKept

\* The sequences keep to their types: what a run holds is typed by where it is.
THEOREM TypesAreRight == Spec => []TypeOK
<1>1. CInv => TypeOK BY DEF CInv, TInv
<1> QED BY <1>1, InitCInv, NextCInv, PTL DEF Spec

\* Whatever overlapped, failed or was cut off by a restart: the saved layout has one card
\* of an entry, the guide links each to its message, and no relink that saw the packs as
\* they are leaves a button of replaced packs when it ran alone and no call failed.
THEOREM LinksAreLive == Spec => []LinksLeadSomewhere
<1> QED BY LinksLead, InitCInv, NextCInv, PTL DEF Spec

\* As long as no run met another and no write was lost, the layout names every card that
\* readers see once nothing runs, however many calls to Telegram failed, but for the
\* cards of an earlier publish when the wizard published again.
THEOREM LayoutKnowsTheChannel == Spec => []LayoutIsTheChannel
<1>1. CInv => LayoutIsTheChannel BY RestIs
<1> QED BY <1>1, InitCInv, NextCInv, PTL DEF Spec

\* Then the backup, too, holds the cards of the layout with the links they carry, unless
\* the layout has none.
THEOREM BackupKnowsTheCards == Spec => []BackupIsCurrent
<1>1. CInv => BackupIsCurrent BY RestIs
<1> QED BY <1>1, InitCInv, NextCInv, PTL DEF Spec

=============================================================================
