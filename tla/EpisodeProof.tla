----------------------------- MODULE EpisodeProof -----------------------------
(***************************************************************************)
(* Proofs about the episode walker, the card made of its episodes and the  *)
(* table cut off at a time, for every number of wallets, tokens and trades,*)
(* all amounts and times.                                                  *)
(*                                                                         *)
(* The walker's functions are followed one by one.  At any moment the rows *)
(* read are cut in two at a row "a": those before it are in finished       *)
(* episodes, those from it on in the current one.                          *)
(***************************************************************************)
EXTENDS EpisodeTable, FiniteSetTheorems, TLAPS

RowType ==
  [n : Nat, group : DOMAIN Groups, side : {"buy", "sell"}, amount : Amounts, ts : Nat \ {0}]

(* Rows 1 to n, in the query's order.                                      *)
Ordered(rs, n) ==
  /\ \A i \in 1 .. n : rs[i] \in RowType /\ rs[i].n = i
  /\ \A i, j \in 1 .. n :
       i <= j => \/ rs[i].group < rs[j].group
                 \/ rs[i].group = rs[j].group /\ rs[i].ts <= rs[j].ts

-----------------------------------------------------------------------------
(* The parts of the invariant.  "rs" is the sequence of rows.              *)

WalkType ==
  [cur : EpisodeType \cup {NULL}, mine : SUBSET EntryType, book : [qty : Int, peak : Nat],
   group : 0 .. Len(Groups), seq : Nat, origin : Origins,
   seen : SUBSET {Groups[g].token : g \in DOMAIN Groups},
   episodes : SUBSET EpisodeType, entries : SUBSET EntryType]

Buys(rs, b, c) == {i \in b .. c : rs[i].side = "buy"}
Sells(rs, b, c) == {i \in b .. c : rs[i].side = "sell"}

(* Episode ep is made of rows b to c.                                      *)
MadeOf(ep, rs, b, c) ==
  /\ ep.legs = b .. c
  /\ \A i \in b .. c : rs[i].group = ep.id[1]
  /\ ep.sells = Cardinality(Sells(rs, b, c))
  /\ ep.adds = Cardinality(Buys(rs, b + 1, c))
  /\ b <= c => ep.openedAt = rs[b].ts /\ (ep.gap \/ rs[b].side = "buy")
  /\ IF ep.sells > 0 THEN ep.firstSellAt >= ep.openedAt ELSE ep.firstSellAt = 0

(* Entries E are the buys among them, the first one opening the episode.   *)
EntriesOf(E, ep, rs, b, c) ==
  /\ {e.row : e \in E} = Buys(rs, b, c)
  /\ \A e, f \in E : e.row = f.row => e = f
  /\ \A e \in E : (e.initial <=> e.row = b) /\ e.since = rs[e.row].ts - ep.openedAt

(* What the status says of the evidence.                                   *)
GapIsPartial(ep) == (ep.status = "open" => ~ep.gap) /\ (ep.status = "partial" => ep.gap)

OwnEntries(w, ep) == {e \in w.entries : e.episode = ep.id}

PastEpisode(w, ep, rs, a) ==
  /\ GapIsPartial(ep)
  /\ ep.id[1] <= w.group
  /\ ep.id[1] = w.group => IF w.cur = NULL THEN ep.id[2] <= w.seq ELSE ep.id[2] < w.seq
  /\ \E b, c \in 1 .. a - 1 :
       /\ b <= c /\ MadeOf(ep, rs, b, c) /\ EntriesOf(OwnEntries(w, ep), ep, rs, b, c)
  /\ \A e \in OwnEntries(w, ep) : e.origin = ep.origin /\ e.gap = ep.gap

Past(w, rs, a) ==
  /\ \A ep \in w.episodes : PastEpisode(w, ep, rs, a)
  /\ \A e \in w.entries : \E ep \in w.episodes : e.episode = ep.id
  /\ \A i \in 1 .. a - 1 : \E ep \in w.episodes : i \in ep.legs
  /\ \A ep, d \in w.episodes : ep.id = d.id \/ ep.legs \cap d.legs # {} => ep = d

(* The current episode, with its entries, is made of rows a to n; before   *)
(* the first of them is a leg there is none.                               *)
Current(w, rs, a, n) ==
  IF w.cur = NULL THEN a = n + 1 /\ w.mine = {}
  ELSE /\ w.cur.id = <<w.group, w.seq>>
       /\ MadeOf(w.cur, rs, a, n) /\ EntriesOf(w.mine, w.cur, rs, a, n)

(* The tokens seen are those of finished episodes.                         *)
SeenBefore(w) ==
  /\ w.seen = {Token(d.id) : d \in w.episodes}
  /\ w.cur # NULL => (w.cur.reentry <=> Token(w.cur.id) \in w.seen)
  /\ \A ep \in w.episodes :
       ep.reentry <=> \E d \in w.episodes : First(d) < First(ep) /\ Token(d.id) = Token(ep.id)

Shape(w, rs, a, n) ==
  /\ w \in WalkType /\ a \in 1 .. n + 1
  /\ Past(w, rs, a) /\ Current(w, rs, a, n) /\ SeenBefore(w)

(* Between two rows the current episode has a leg and holds something.     *)
Settled(w, rs, a, n) ==
  /\ w.group = IF n = 0 THEN 0 ELSE rs[n].group
  /\ w.cur = NULL => w.book = Zero
  /\ w.cur # NULL => /\ a <= n /\ ~IsEmpty(w.book)
                     /\ w.cur.status = "open" /\ ~w.cur.gap /\ w.cur.closedAt = 0

Walk(w, rs, n) == \E a \in 1 .. n + 1 : Shape(w, rs, a, n) /\ Settled(w, rs, a, n)

-----------------------------------------------------------------------------
(* Facts about intervals, counts and the book.                             *)

LEMMA FirstOfLegs ==
  ASSUME NEW ep, NEW b \in Nat, NEW c \in Nat, b <= c, ep.legs = b .. c
  PROVE  First(ep) = b /\ Last(ep) = c
<1>1. b \in ep.legs /\ c \in ep.legs /\ \A j \in ep.legs : j \in Int /\ b <= j /\ j <= c
  OBVIOUS
<1>2. First(ep) = b
  <2>1. \A i \in ep.legs : (\A j \in ep.legs : i <= j) => i = b
    BY <1>1
  <2> QED BY <1>1, <2>1 DEF First
<1>3. Last(ep) = c
  <2>1. \A i \in ep.legs : (\A j \in ep.legs : i >= j) => i = c
    BY <1>1
  <2> QED BY <1>1, <2>1 DEF Last
<1> QED BY <1>2, <1>3

LEMMA CountsAreFinite ==
  ASSUME NEW rs, NEW b \in Int, NEW c \in Int
  PROVE  /\ IsFiniteSet(Buys(rs, b, c)) /\ Cardinality(Buys(rs, b, c)) \in Nat
         /\ IsFiniteSet(Sells(rs, b, c)) /\ Cardinality(Sells(rs, b, c)) \in Nat
<1>1. IsFiniteSet(b .. c) BY FS_Interval
<1>2. Buys(rs, b, c) \in SUBSET (b .. c) /\ Sells(rs, b, c) \in SUBSET (b .. c)
  BY DEF Buys, Sells
<1> QED BY <1>1, <1>2, FS_Subset, FS_CardinalityType

(* One more row adds itself to the buys or to the sells.                   *)
LEMMA OneMoreRow ==
  ASSUME NEW rs, NEW b \in Nat, NEW c \in Nat, b <= c + 1
  PROVE  /\ Buys(rs, b, c + 1) \subseteq Buys(rs, b, c) \cup {c + 1}
         /\ Buys(rs, b, c) \subseteq Buys(rs, b, c + 1)
         /\ c + 1 \in Buys(rs, b, c + 1) <=> rs[c + 1].side = "buy"
         /\ c + 1 \notin Buys(rs, b, c)
         /\ Cardinality(Buys(rs, b, c + 1)) =
              Cardinality(Buys(rs, b, c)) + (IF rs[c + 1].side = "buy" THEN 1 ELSE 0)
         /\ Cardinality(Sells(rs, b, c + 1)) =
              Cardinality(Sells(rs, b, c)) + (IF rs[c + 1].side = "sell" THEN 1 ELSE 0)
<1>0. /\ rs[c + 1].side = "buy" => Buys(rs, b, c + 1) = Buys(rs, b, c) \cup {c + 1}
      /\ rs[c + 1].side # "buy" => Buys(rs, b, c + 1) = Buys(rs, b, c)
      /\ rs[c + 1].side = "sell" => Sells(rs, b, c + 1) = Sells(rs, b, c) \cup {c + 1}
      /\ rs[c + 1].side # "sell" => Sells(rs, b, c + 1) = Sells(rs, b, c)
  <2>1. b .. (c + 1) = (b .. c) \cup {c + 1} OBVIOUS
  <2> QED BY <2>1 DEF Buys, Sells
<1>1. c + 1 \notin Buys(rs, b, c) /\ c + 1 \notin Sells(rs, b, c) BY DEF Buys, Sells
<1>2. IsFiniteSet(Buys(rs, b, c)) /\ IsFiniteSet(Sells(rs, b, c))
      /\ Cardinality(Buys(rs, b, c)) \in Nat /\ Cardinality(Sells(rs, b, c)) \in Nat
  BY CountsAreFinite
<1>3. Cardinality(Buys(rs, b, c + 1)) =
        Cardinality(Buys(rs, b, c)) + (IF rs[c + 1].side = "buy" THEN 1 ELSE 0)
  <2> DEFINE old == Buys(rs, b, c)
  <2>1. CASE rs[c + 1].side = "buy"
    <3>1. Buys(rs, b, c + 1) = old \cup {c + 1} BY <2>1, <1>0
    <3>2. Cardinality(old \cup {c + 1}) = Cardinality(old) + 1
      BY <1>1, <1>2, FS_AddElement
    <3> QED BY <3>1, <3>2, <2>1
  <2>2. CASE rs[c + 1].side # "buy"
    <3>1. Buys(rs, b, c + 1) = old BY <2>2, <1>0
    <3>2. Cardinality(old) = Cardinality(old) + 0 BY <1>2
    <3> QED BY <3>1, <3>2, <2>2
  <2> QED BY <2>1, <2>2
<1>4. Cardinality(Sells(rs, b, c + 1)) =
        Cardinality(Sells(rs, b, c)) + (IF rs[c + 1].side = "sell" THEN 1 ELSE 0)
  <2> DEFINE old == Sells(rs, b, c)
  <2>1. CASE rs[c + 1].side = "sell"
    <3>1. Sells(rs, b, c + 1) = old \cup {c + 1} BY <2>1, <1>0
    <3>2. Cardinality(old \cup {c + 1}) = Cardinality(old) + 1
      BY <1>1, <1>2, FS_AddElement
    <3> QED BY <3>1, <3>2, <2>1
  <2>2. CASE rs[c + 1].side # "sell"
    <3>1. Sells(rs, b, c + 1) = old BY <2>2, <1>0
    <3>2. Cardinality(old) = Cardinality(old) + 0 BY <1>2
    <3> QED BY <3>1, <3>2, <2>2
  <2> QED BY <2>1, <2>2
<1> QED BY <1>0, <1>1, <1>3, <1>4

(* Entries told apart by their rows are as many as their rows.             *)
LEMMA AsManyAsRows ==
  ASSUME NEW E, NEW R, IsFiniteSet(R), R = {e.row : e \in E},
         \A e, f \in E : e.row = f.row => e = f
  PROVE  IsFiniteSet(E) /\ Cardinality(E) = Cardinality(R)
<1> DEFINE f == [e \in E |-> e.row]
<1>1. f \in Injection(E, R) BY DEF Injection, IsInjective
<1>2. f \in Surjection(E, R) BY DEF Surjection
<1> QED BY <1>1, <1>2, FS_Injection

LEMMA EpsIsSmall ==
  ASSUME NEW p \in Nat
  PROVE  Eps(p) \in Nat /\ (p > 0 => Eps(p) < p) /\ (p = 0 => Eps(p) = 0)
BY WalkerConstantsOK DEF Eps

-----------------------------------------------------------------------------
(* Finalize.                                                               *)

LEMMA LineageFields ==
  ASSUME NEW e \in EntryType, NEW ep \in EpisodeType
  PROVE  /\ Lineage(e, ep) \in EntryType
         /\ Lineage(e, ep).row = e.row /\ Lineage(e, ep).initial = e.initial
         /\ Lineage(e, ep).since = e.since /\ Lineage(e, ep).episode = ep.id
         /\ Lineage(e, ep).origin = ep.origin /\ Lineage(e, ep).gap = ep.gap
BY DEF Lineage, EntryType, EpisodeType

LEMMA FinalizeFields ==
  ASSUME NEW w \in WalkType, w.cur # NULL
  PROVE  LET v == Finalize(w)
             new == {Lineage(e, w.cur) : e \in w.mine}
         IN  /\ v \in WalkType
             /\ v.cur = NULL /\ v.mine = {} /\ v.book = Zero
             /\ v.group = w.group /\ v.seq = w.seq /\ v.origin = w.origin
             /\ v.seen = w.seen \cup {Token(w.cur.id)}
             /\ v.episodes = w.episodes \cup {w.cur} /\ v.entries = w.entries \cup new
<1> DEFINE new == {Lineage(e, w.cur) : e \in w.mine}
<1>1. w.cur \in EpisodeType /\ w.mine \subseteq EntryType BY DEF WalkType
<1>2. new \subseteq EntryType BY <1>1, LineageFields
<1>3. Zero \in [qty : Int, peak : Nat] BY DEF Zero
<1>4. Token(w.cur.id) \in {Groups[g].token : g \in DOMAIN Groups}
  BY <1>1 DEF EpisodeType, EpisodeIds, Token
<1> HIDE DEF new
<1>5. Finalize(w) = [w EXCEPT !.seen = @ \cup {Token(w.cur.id)}, !.entries = @ \cup new,
                              !.episodes = @ \cup {w.cur},
                              !.cur = NULL, !.mine = {}, !.book = Zero]
  BY DEF Finalize, Reset, new
<1>6. w.seen \cup {Token(w.cur.id)} \in SUBSET {Groups[g].token : g \in DOMAIN Groups}
  BY <1>4 DEF WalkType
<1>7. w.entries \cup new \in SUBSET EntryType /\ w.episodes \cup {w.cur} \in SUBSET EpisodeType
  BY <1>1, <1>2 DEF WalkType
<1>8. Finalize(w) \in WalkType BY <1>3, <1>5, <1>6, <1>7 DEF WalkType
<1>9. LET v == Finalize(w)
      IN  /\ v.cur = NULL /\ v.mine = {} /\ v.book = Zero
          /\ v.group = w.group /\ v.seq = w.seq /\ v.origin = w.origin
          /\ v.seen = w.seen \cup {Token(w.cur.id)}
          /\ v.episodes = w.episodes \cup {w.cur} /\ v.entries = w.entries \cup new
  BY <1>5 DEF WalkType
<1> QED BY <1>8, <1>9 DEF new

(* The rows of the entries handed over are those of the buys.              *)
LEMMA HandedOver ==
  ASSUME NEW c \in EpisodeType, NEW mine \in SUBSET EntryType,
         NEW rs, NEW a \in Nat, NEW n \in Nat, EntriesOf(mine, c, rs, a, n)
  PROVE  EntriesOf({Lineage(e, c) : e \in mine}, c, rs, a, n)
<1> DEFINE new == {Lineage(e, c) : e \in mine}
<1>1. \A e \in mine : Lineage(e, c).row = e.row /\ Lineage(e, c).initial = e.initial
                      /\ Lineage(e, c).since = e.since
  BY LineageFields
<1>2. {e.row : e \in new} = {e.row : e \in mine} BY <1>1
<1>3. \A e, f \in new : e.row = f.row => e = f BY <1>1 DEF EntriesOf
<1>4. \A e \in new : (e.initial <=> e.row = a) /\ e.since = rs[e.row].ts - c.openedAt
  BY <1>1 DEF EntriesOf
<1> QED BY <1>2, <1>3, <1>4 DEF EntriesOf

LEMMA FinalizeShape ==
  ASSUME NEW w, NEW rs, NEW n \in Nat, NEW a \in Nat, Shape(w, rs, a, n),
         w.cur # NULL, a <= n, GapIsPartial(w.cur)
  PROVE  Shape(Finalize(w), rs, n + 1, n)
<1> DEFINE v == Finalize(w)
           c == w.cur
           new == {Lineage(e, c) : e \in w.mine}
<1>1. /\ v \in WalkType
      /\ v.cur = NULL /\ v.mine = {} /\ v.book = Zero
      /\ v.group = w.group /\ v.seq = w.seq
      /\ v.seen = w.seen \cup {Token(c.id)}
      /\ v.episodes = w.episodes \cup {c} /\ v.entries = w.entries \cup new
  BY FinalizeFields DEF Shape
<1>2. /\ w \in WalkType /\ c \in EpisodeType /\ w.mine \subseteq EntryType
      /\ w.entries \subseteq EntryType /\ w.episodes \subseteq EpisodeType
      /\ a \in 1 .. n
  BY DEF Shape, WalkType
<1>3. /\ c.id = <<w.group, w.seq>> /\ MadeOf(c, rs, a, n) /\ EntriesOf(w.mine, c, rs, a, n)
  BY DEF Shape, Current
<1>4. w.group \in Nat /\ w.seq \in Nat BY <1>2, WalkerConstantsOK DEF WalkType
<1>5. EntriesOf(new, c, rs, a, n) BY <1>2, <1>3, HandedOver
<1>6. \A e \in new : e.episode = c.id /\ e.origin = c.origin /\ e.gap = c.gap
  BY <1>2, LineageFields
<1>7. \A ep \in w.episodes : ep.id # c.id
  <2> SUFFICES ASSUME NEW ep \in w.episodes, ep.id = c.id PROVE FALSE OBVIOUS
  <2>1. PastEpisode(w, ep, rs, a) BY DEF Shape, Past
  <2>2. ep.id[1] = w.group /\ ep.id[2] = w.seq BY <1>3
  <2>3. ep.id[2] < w.seq BY <2>1, <2>2 DEF PastEpisode
  <2> QED BY <2>2, <2>3, <1>4
<1>8. \A ep \in w.episodes : ep.legs \subseteq 1 .. a - 1
  <2> TAKE ep \in w.episodes
  <2>1. PICK b, d \in 1 .. a - 1 : ep.legs = b .. d
    BY DEF Shape, Past, PastEpisode, MadeOf
  <2> QED BY <2>1, <1>2
<1> HIDE DEF v, c, new
<1>9. Past(v, rs, n + 1)
  <2>1. \A ep \in w.episodes : PastEpisode(v, ep, rs, n + 1)
    <3> TAKE ep \in w.episodes
    <3>1. PastEpisode(w, ep, rs, a) BY DEF Shape, Past
    <3>2. OwnEntries(v, ep) = OwnEntries(w, ep) BY <1>1, <1>6, <1>7 DEF OwnEntries
    <3>3. ep.id[2] \in Nat /\ ep.id[1] \in Nat
      <4>1. ep.id \in (DOMAIN Groups) \X Nat BY <1>2 DEF EpisodeType, EpisodeIds
      <4>2. DOMAIN Groups \subseteq Nat BY WalkerConstantsOK
      <4> QED BY <4>1, <4>2
    <3>4. ep.id[1] = w.group => ep.id[2] <= w.seq
      BY <3>1, <3>3, <1>4, <1>3 DEF PastEpisode, c
    <3>5. \E b, d \in 1 .. n :
            b <= d /\ MadeOf(ep, rs, b, d) /\ EntriesOf(OwnEntries(w, ep), ep, rs, b, d)
      BY <3>1, <1>2 DEF PastEpisode
    <3> QED BY <3>1, <3>2, <3>4, <3>5, <1>1 DEF PastEpisode
  <2>2. PastEpisode(v, c, rs, n + 1)
    <3>1. OwnEntries(v, c) = new
      <4>1. \A e \in w.entries : e.episode # c.id BY <1>7 DEF Shape, Past
      <4> QED BY <4>1, <1>1, <1>6 DEF OwnEntries
    <3>2. c.id[1] = w.group /\ c.id[2] = w.seq BY <1>3
    <3> QED BY <3>1, <3>2, <1>1, <1>2, <1>3, <1>4, <1>5, <1>6 DEF PastEpisode, c
  <2>3. \A e \in v.entries : \E ep \in v.episodes : e.episode = ep.id
    BY <1>1, <1>6 DEF Shape, Past
  <2>4. \A i \in 1 .. n : \E ep \in v.episodes : i \in ep.legs
    BY <1>1, <1>2, <1>3 DEF Shape, Past, MadeOf
  <2>5. \A ep, d \in v.episodes : ep.id = d.id \/ ep.legs \cap d.legs # {} => ep = d
    <3>1. c.legs \cap (1 .. a - 1) = {} BY <1>3, <1>2 DEF MadeOf
    <3>2. \A ep \in w.episodes : ep.legs \cap c.legs = {} BY <3>1, <1>8
    <3> QED BY <3>2, <1>1, <1>7 DEF Shape, Past
  <2> QED BY <2>1, <2>2, <2>3, <2>4, <2>5, <1>1 DEF Past
<1>10. Current(v, rs, n + 1, n) BY <1>1 DEF Current
<1>11. SeenBefore(v)
  <2>1. v.seen = {Token(d.id) : d \in v.episodes} BY <1>1 DEF Shape, SeenBefore
  <2>2. First(c) = a BY <1>2, <1>3, FirstOfLegs DEF MadeOf
  <2>3. \A ep \in w.episodes : First(ep) \in Nat /\ First(ep) < a
    <3> TAKE ep \in w.episodes
    <3>1. PICK b, d \in 1 .. a - 1 : b <= d /\ MadeOf(ep, rs, b, d)
      BY DEF Shape, Past, PastEpisode
    <3>2. First(ep) = b BY <3>1, FirstOfLegs DEF MadeOf
    <3> QED BY <3>2, <1>2
  <2>4. \A ep \in v.episodes :
          ep.reentry <=> \E d \in v.episodes : First(d) < First(ep) /\ Token(d.id) = Token(ep.id)
    <3>1. \A ep \in w.episodes : ~(First(c) < First(ep)) BY <2>2, <2>3, <1>2
    <3>2. \A ep \in w.episodes : 
          ep.reentry <=> \E d \in v.episodes : First(d) < First(ep) /\ Token(d.id) = Token(ep.id)
      BY <3>1, <1>1 DEF Shape, SeenBefore
    <3>3. c.reentry <=> \E d \in v.episodes : First(d) < First(c) /\ Token(d.id) = Token(c.id)
      <4>1. ~(First(c) < First(c)) BY <2>2, <1>2
      <4>2. c.reentry <=> \E d \in w.episodes : Token(d.id) = Token(c.id)
        BY DEF Shape, SeenBefore, c
      <4> QED BY <4>1, <4>2, <2>2, <2>3, <1>1
    <3> QED BY <3>2, <3>3, <1>1
  <2> QED BY <2>1, <2>4, <1>1 DEF SeenBefore
<1> QED BY <1>1, <1>2, <1>9, <1>10, <1>11 DEF Shape, v

-----------------------------------------------------------------------------
(* Enter.                                                                  *)

(* What is said of the past does not look at the current episode.          *)
LEMMA PastKept ==
  ASSUME NEW w, NEW v, NEW rs, NEW a, Past(w, rs, a),
         v.episodes = w.episodes, v.entries = w.entries, v.group = w.group, v.seq = w.seq,
         w.cur # NULL, v.cur # NULL
  PROVE  Past(v, rs, a)
BY DEF Past, PastEpisode, OwnEntries

LEMMA SeenKept ==
  ASSUME NEW w, NEW v, SeenBefore(w), w.cur # NULL, v.cur # NULL,
         v.episodes = w.episodes, v.seen = w.seen,
         v.cur.id = w.cur.id, v.cur.reentry = w.cur.reentry
  PROVE  SeenBefore(v)
BY DEF SeenBefore

LEMMA NewGroupShape ==
  ASSUME NEW w, NEW rs, NEW n \in Nat, Shape(w, rs, n + 1, n), w.cur = NULL,
         NEW g \in DOMAIN Groups, w.group < g
  PROVE  LET v == NewGroup(w, g)
         IN  /\ Shape(v, rs, n + 1, n)
             /\ v.cur = NULL /\ v.book = Zero /\ v.group = g
<1> DEFINE v == NewGroup(w, g)
<1>1. w \in WalkType BY DEF Shape
<1>2. /\ v.cur = NULL /\ v.mine = w.mine /\ v.book = Zero /\ v.group = g /\ v.seq = 0
      /\ v.seen = w.seen /\ v.episodes = w.episodes /\ v.entries = w.entries
  BY <1>1 DEF NewGroup, WalkType
<1>3. v \in WalkType
  <2>1. /\ g \in 0 .. Len(Groups) /\ "censored" \in Origins /\ 0 \in Nat
        /\ Zero \in [qty : Int, peak : Nat]
    BY WalkerConstantsOK DEF Zero, Origins
  <2>2. v = [w EXCEPT !.origin = "censored", !.book = Zero, !.seq = 0, !.group = g]
    BY DEF NewGroup
  <2> HIDE DEF v
  <2> QED BY <1>1, <2>1, <2>2 DEF WalkType
<1>4. w.group \in Nat /\ g \in Nat BY <1>1, WalkerConstantsOK DEF WalkType
<1>5. \A ep \in w.episodes : ep.id[1] \in Nat
  BY <1>1, WalkerConstantsOK DEF WalkType, EpisodeType, EpisodeIds
<1> HIDE DEF v
<1>6. Past(v, rs, n + 1)
  <2>1. \A ep \in w.episodes : PastEpisode(v, ep, rs, n + 1)
    <3> TAKE ep \in w.episodes
    <3>1. PastEpisode(w, ep, rs, n + 1) BY DEF Shape, Past
    <3>2. ep.id[1] < g BY <3>1, <1>4, <1>5 DEF PastEpisode
    <3>3. OwnEntries(v, ep) = OwnEntries(w, ep) BY <1>2 DEF OwnEntries
    <3>4. ep.id[1] <= g /\ ep.id[1] # g BY <3>2, <1>4, <1>5
    <3> QED BY <3>1, <3>3, <3>4, <1>2 DEF PastEpisode
  <2> QED BY <2>1, <1>2 DEF Past, Shape
<1> QED BY <1>2, <1>3, <1>6 DEF Shape, Current, SeenBefore, v

(* A row has been given an episode, which it may have begun.               *)
Entered(w, rs, a, n, row) ==
  /\ Shape(w, rs, a, n)
  /\ w.cur # NULL /\ w.group = row.group
  /\ w.cur.status = "open" /\ w.cur.closedAt = 0
  /\ IF a = n + 1
     THEN w.book = Zero /\ w.cur.openedAt = row.ts /\ (w.cur.gap <=> row.side = "sell")
     ELSE ~IsEmpty(w.book) /\ ~w.cur.gap

LEMMA NoRows ==
  ASSUME NEW rs, NEW b \in Int, NEW c \in Int, c < b
  PROVE  /\ Buys(rs, b, c) = {} /\ Sells(rs, b, c) = {}
         /\ Cardinality(Buys(rs, b, c)) = 0 /\ Cardinality(Sells(rs, b, c)) = 0
<1>1. b .. c = {} OBVIOUS
<1> QED BY <1>1, FS_EmptySet DEF Buys, Sells

LEMMA BeginShape ==
  ASSUME NEW w, NEW rs, NEW n \in Nat, Shape(w, rs, n + 1, n), w.cur = NULL, w.book = Zero,
         NEW row \in RowType, row.group = w.group
  PROVE  Entered([w EXCEPT !.seq = @ + 1, !.cur = NewEpisode(w, row)], rs, n + 1, n, row)
<1> DEFINE ep == NewEpisode(w, row)
           v == [w EXCEPT !.seq = @ + 1, !.cur = ep]
<1>1. w \in WalkType /\ w.mine = {} BY DEF Shape, Current
<1>2. /\ ep.id = <<row.group, w.seq + 1>> /\ ep.legs = {} /\ ep.openedAt = row.ts
      /\ ep.closedAt = 0 /\ ep.firstSellAt = 0 /\ ep.status = "open"
      /\ ep.reentry = (Token(ep.id) \in w.seen) /\ ep.adds = 0 /\ ep.sells = 0
      /\ ep.partialExits = 0
      /\ ep.gap = (row.side = "sell")
      /\ ep.origin = IF row.side = "sell" THEN "censored" ELSE w.origin
  BY DEF NewEpisode
<1>3. row.group \in DOMAIN Groups /\ row.ts \in Nat /\ w.seq \in Nat /\ w.origin \in Origins
  BY <1>1 DEF RowType, WalkType
<1>4. ep \in EpisodeType
  BY <1>3 DEF NewEpisode, EpisodeType, EpisodeIds, Origins
<1>5. ep # NULL BY <1>4, WalkerNullOK
<1> HIDE DEF ep
<1>6. /\ v.cur = ep /\ v.mine = {} /\ v.book = Zero /\ v.group = row.group /\ v.seq = w.seq + 1
      /\ v.seen = w.seen /\ v.episodes = w.episodes /\ v.entries = w.entries
  BY <1>1 DEF WalkType
<1>7. v \in WalkType
  <2>1. ep \in EpisodeType \cup {NULL} /\ w.seq + 1 \in Nat BY <1>3, <1>4
  <2> QED BY <1>1, <2>1 DEF WalkType
<1> HIDE DEF v
<1>8. Past(v, rs, n + 1)
  <2>1. \A d \in w.episodes : PastEpisode(v, d, rs, n + 1)
    <3> TAKE d \in w.episodes
    <3>1. PastEpisode(w, d, rs, n + 1) BY DEF Shape, Past
    <3>2. OwnEntries(v, d) = OwnEntries(w, d) BY <1>6 DEF OwnEntries
    <3>3. d.id[2] \in Nat BY <1>1 DEF WalkType, EpisodeType, EpisodeIds
    <3>4. d.id[1] = w.group => d.id[2] < w.seq + 1 BY <3>1, <3>3, <1>3 DEF PastEpisode
    <3> QED BY <3>1, <3>2, <3>4, <1>5, <1>6 DEF PastEpisode
  <2> QED BY <2>1, <1>6 DEF Past, Shape
<1>9. Current(v, rs, n + 1, n)
  <2>1. MadeOf(ep, rs, n + 1, n)
    <3>1. (n + 1) .. n = {} OBVIOUS
    <3>2. Cardinality(Sells(rs, n + 1, n)) = 0 /\ Cardinality(Buys(rs, (n + 1) + 1, n)) = 0
      BY NoRows
    <3> QED BY <3>1, <3>2, <1>2 DEF MadeOf
  <2>2. EntriesOf({}, ep, rs, n + 1, n)
    <3>1. Buys(rs, n + 1, n) = {} BY NoRows
    <3> QED BY <3>1 DEF EntriesOf
  <2> QED BY <2>1, <2>2, <1>2, <1>5, <1>6 DEF Current
<1>10. SeenBefore(v) BY <1>2, <1>5, <1>6 DEF Shape, SeenBefore
<1> QED BY <1>2, <1>5, <1>6, <1>7, <1>8, <1>9, <1>10 DEF Entered, Shape, v, ep

LEMMA EnterShape ==
  ASSUME NEW w, NEW rs, NEW n \in Nat, Walk(w, rs, n), Ordered(rs, n + 1)
  PROVE  \E a \in 1 .. n + 1 : Entered(Enter(w, rs[n + 1]), rs, a, n, rs[n + 1])
<1> DEFINE row == rs[n + 1]
<1>1. PICK a \in 1 .. n + 1 : Shape(w, rs, a, n) /\ Settled(w, rs, a, n) BY DEF Walk
<1>2. row \in RowType BY DEF Ordered
<1>3. w.group <= row.group /\ w.group \in Nat /\ row.group \in Nat
  <2>1. w.group \in Nat /\ row.group \in Nat /\ row.group >= 1
    BY <1>1, <1>2, WalkerConstantsOK DEF Shape, WalkType, RowType
  <2>2. CASE n = 0 BY <2>1, <2>2, <1>1 DEF Settled
  <2>3. CASE n # 0
    <3>1. n \in 1 .. n + 1 /\ n + 1 \in 1 .. n + 1 /\ n <= n + 1 BY <2>3
    <3>2. rs[n].group < row.group \/ rs[n].group = row.group BY <3>1 DEF Ordered
    <3> QED BY <3>2, <2>1, <2>3, <1>1 DEF Settled
  <2> QED BY <2>2, <2>3
<1>4. CASE w.cur # NULL /\ w.group = row.group
  <2>1. Enter(w, row) = w BY <1>4 DEF Enter
  <2>2. a <= n BY <1>1, <1>4 DEF Settled
  <2>3. Entered(w, rs, a, n, row) BY <1>1, <1>4, <2>2 DEF Entered, Settled
  <2> QED BY <2>1, <2>3
<1>5. CASE ~(w.cur # NULL /\ w.group = row.group)
  <2> DEFINE f == Finalize(w)
             g == IF w.group = row.group THEN f ELSE NewGroup(f, row.group)
  <2>1. Shape(f, rs, n + 1, n) /\ f.cur = NULL /\ f.book = Zero /\ f.group = w.group
    <3>1. CASE w.cur = NULL
      <4>1. f = w /\ a = n + 1 BY <3>1, <1>1 DEF Finalize, Shape, Current
      <4> QED BY <4>1, <3>1, <1>1 DEF Settled
    <3>2. CASE w.cur # NULL
      <4>1. a <= n /\ GapIsPartial(w.cur) BY <3>2, <1>1 DEF Settled, GapIsPartial
      <4>2. w \in WalkType BY <1>1 DEF Shape
      <4> QED BY <4>1, <4>2, <3>2, <1>1, FinalizeShape, FinalizeFields
    <3> QED BY <3>1, <3>2
  <2> HIDE DEF f
  <2>2. Shape(g, rs, n + 1, n) /\ g.cur = NULL /\ g.book = Zero /\ g.group = row.group
    <3>1. CASE w.group = row.group BY <3>1, <2>1
    <3>2. CASE w.group # row.group
      <4>1. f.group < row.group /\ row.group \in DOMAIN Groups
        BY <3>2, <2>1, <1>3, <1>2 DEF RowType
      <4> QED BY <4>1, <3>2, <2>1, NewGroupShape
    <3> QED BY <3>1, <3>2
  <2>3. Enter(w, row) = [g EXCEPT !.seq = @ + 1, !.cur = NewEpisode(g, row)]
    BY <1>5 DEF Enter, f
  <2> HIDE DEF g
  <2>4. Entered([g EXCEPT !.seq = @ + 1, !.cur = NewEpisode(g, row)], rs, n + 1, n, row)
    <3> HIDE DEF row
    <3> QED BY <2>2, <1>2, BeginShape
  <2>5. n + 1 \in 1 .. n + 1 OBVIOUS
  <2> QED BY <2>3, <2>4, <2>5
<1> QED BY <1>4, <1>5

-----------------------------------------------------------------------------
(* Buy and Sell.                                                           *)

(* What one more leg does to an episode.                                   *)
LEMMA OneMoreLeg ==
  ASSUME NEW c \in EpisodeType, NEW ep \in EpisodeType, NEW rs,
         NEW n \in Nat, NEW a \in 1 .. n + 1,
         Ordered(rs, n + 1), MadeOf(c, rs, a, n), rs[n + 1].group = c.id[1],
         ep.id = c.id, ep.legs = c.legs \cup {n + 1}, ep.openedAt = c.openedAt,
         a = n + 1 => c.openedAt = rs[n + 1].ts,
         ep.sells = c.sells + (IF rs[n + 1].side = "sell" THEN 1 ELSE 0),
         ep.adds = c.adds + (IF rs[n + 1].side = "buy" /\ a <= n THEN 1 ELSE 0),
         ep.firstSellAt = IF rs[n + 1].side = "sell" /\ c.firstSellAt = 0
                          THEN rs[n + 1].ts ELSE c.firstSellAt,
         ep.gap \/ rs[n + 1].side = "buy" \/ (a <= n /\ ~c.gap),
         a <= n => ~c.gap
  PROVE  MadeOf(ep, rs, a, n + 1)
<1>1. a .. (n + 1) = (a .. n) \cup {n + 1} OBVIOUS
<1>2. ep.legs = a .. (n + 1) BY <1>1 DEF MadeOf
<1>3. \A i \in a .. (n + 1) : rs[i].group = ep.id[1] BY <1>1 DEF MadeOf
<1>4. ep.sells = Cardinality(Sells(rs, a, n + 1))
  BY OneMoreRow DEF MadeOf
<1>5. ep.adds = Cardinality(Buys(rs, a + 1, n + 1))
  <2>1. CASE a <= n
    <3>1. a + 1 \in Nat /\ a + 1 <= n + 1 BY <2>1
    <3>2. Cardinality(Buys(rs, a + 1, n + 1)) =
            Cardinality(Buys(rs, a + 1, n)) + (IF rs[n + 1].side = "buy" THEN 1 ELSE 0)
      BY <3>1, OneMoreRow
    <3> QED BY <2>1, <3>2 DEF MadeOf
  <2>2. CASE a = n + 1
    <3>1. Cardinality(Buys(rs, a + 1, n + 1)) = 0 /\ Cardinality(Buys(rs, a + 1, n)) = 0
      BY <2>2, NoRows
    <3>2. c.adds = 0 BY <3>1 DEF MadeOf
    <3>3. ep.adds = 0 BY <3>2, <2>2
    <3> QED BY <3>1, <3>3
  <2> QED BY <2>1, <2>2
<1>6. ep.openedAt = rs[a].ts /\ (ep.gap \/ rs[a].side = "buy")
  BY DEF MadeOf
<1>7. a \in 1 .. n + 1 /\ n + 1 \in 1 .. n + 1 /\ rs[a] \in RowType /\ rs[n + 1] \in RowType
  BY DEF Ordered
<1>8. rs[a].ts <= rs[n + 1].ts /\ rs[a].ts > 0 /\ rs[a].ts \in Nat /\ rs[n + 1].ts \in Nat
  <2>1. rs[a].group = rs[n + 1].group BY <1>3, <1>7
  <2>2. rs[a].group \in Nat BY <1>7, WalkerConstantsOK DEF RowType
  <2>3. rs[a].group < rs[n + 1].group \/ rs[a].ts <= rs[n + 1].ts BY <1>7 DEF Ordered
  <2> QED BY <2>1, <2>2, <2>3, <1>7 DEF RowType
<1>9. IF ep.sells > 0 THEN ep.firstSellAt >= ep.openedAt ELSE ep.firstSellAt = 0
  <2>1. c.sells \in Nat /\ c.firstSellAt \in Nat BY DEF EpisodeType
  <2>2. IF c.sells > 0 THEN c.firstSellAt >= c.openedAt ELSE c.firstSellAt = 0 BY DEF MadeOf
  <2>3. c.openedAt > 0 BY <1>6, <1>8
  <2>4. CASE rs[n + 1].side = "sell"
    <3>1. ep.sells = c.sells + 1 BY <2>4
    <3>2. ep.firstSellAt >= ep.openedAt BY <2>4, <2>1, <2>2, <2>3, <1>6, <1>8
    <3> QED BY <3>1, <3>2, <2>1
  <2>5. CASE rs[n + 1].side # "sell" BY <2>5, <2>1, <2>2
  <2> QED BY <2>4, <2>5
<1> QED BY <1>2, <1>3, <1>4, <1>5, <1>6, <1>9 DEF MadeOf

(* What one more row does to the entries.                                  *)
LEMMA NoMoreEntries ==
  ASSUME NEW E \in SUBSET EntryType, NEW c, NEW ep, NEW rs, NEW n \in Nat, NEW a \in 1 .. n + 1,
         EntriesOf(E, c, rs, a, n), ep.openedAt = c.openedAt, rs[n + 1].side = "sell"
  PROVE  EntriesOf(E, ep, rs, a, n + 1)
<1>1. a .. (n + 1) = (a .. n) \cup {n + 1} OBVIOUS
<1>2. Buys(rs, a, n + 1) = Buys(rs, a, n) BY <1>1 DEF Buys
<1> QED BY <1>2 DEF EntriesOf

LEMMA OneMoreEntry ==
  ASSUME NEW E \in SUBSET EntryType, NEW x \in EntryType, NEW c, NEW ep, NEW rs,
         NEW n \in Nat, NEW a \in 1 .. n + 1,
         EntriesOf(E, c, rs, a, n), ep.openedAt = c.openedAt, rs[n + 1].side = "buy",
         x.row = n + 1, x.initial <=> a = n + 1, x.since = rs[n + 1].ts - c.openedAt
  PROVE  EntriesOf(E \cup {x}, ep, rs, a, n + 1)
<1>1. a .. (n + 1) = (a .. n) \cup {n + 1} OBVIOUS
<1>2. Buys(rs, a, n + 1) = Buys(rs, a, n) \cup {n + 1} BY <1>1 DEF Buys
<1>3. {e.row : e \in E \cup {x}} = Buys(rs, a, n + 1) BY <1>2 DEF EntriesOf
<1>4. \A e \in E : e.row # n + 1 BY DEF EntriesOf, Buys
<1>5. \A e, f \in E \cup {x} : e.row = f.row => e = f BY <1>4 DEF EntriesOf
<1>6. \A e \in E \cup {x} : (e.initial <=> e.row = a) /\ e.since = rs[e.row].ts - ep.openedAt
  BY DEF EntriesOf
<1> QED BY <1>3, <1>5, <1>6 DEF EntriesOf

LEMMA BuyShape ==
  ASSUME NEW w, NEW rs, NEW n \in Nat, NEW a \in 1 .. n + 1, Ordered(rs, n + 1),
         rs[n + 1].side = "buy", Entered(w, rs, a, n, rs[n + 1])
  PROVE  LET v == Buy(w, rs[n + 1])
         IN  Shape(v, rs, a, n + 1) /\ Settled(v, rs, a, n + 1)
<1> DEFINE row == rs[n + 1]
           c == w.cur
           initial == IsEmpty(w.book)
           ep == IF initial
                 THEN [c EXCEPT !.openedAt = row.ts, !.gap = FALSE, !.firstSellAt = 0]
                 ELSE [c EXCEPT !.adds = @ + 1]
           leg == [ep EXCEPT !.legs = @ \cup {row.n}]
           opened == IF initial THEN row.ts ELSE c.openedAt
           x == [row |-> row.n, initial |-> initial, since |-> row.ts - opened,
                 episode |-> NULL, origin |-> ep.origin, gap |-> ep.gap]
           v == Buy(w, row)
<1>1. /\ w \in WalkType /\ c \in EpisodeType /\ c # NULL /\ w.mine \in SUBSET EntryType
      /\ w.group = row.group
  BY DEF Entered, Shape, WalkType
<1>2. row \in RowType /\ row.n = n + 1 /\ row.ts \in Nat /\ row.amount \in Nat \ {0}
  <2>1. n + 1 \in 1 .. n + 1 OBVIOUS
  <2>2. row \in RowType /\ row.n = n + 1 BY <2>1 DEF Ordered
  <2> QED BY <2>2, WalkerConstantsOK DEF RowType
<1>3. MadeOf(c, rs, a, n) /\ EntriesOf(w.mine, c, rs, a, n) /\ c.id = <<w.group, w.seq>>
  BY <1>1 DEF Entered, Shape, Current
<1>4. initial <=> a = n + 1
  <2>1. IsEmpty(Zero) BY EpsIsSmall DEF IsEmpty, Zero
  <2> QED BY <2>1 DEF Entered
<1>5. a = n + 1 => c.openedAt = row.ts /\ c.firstSellAt = 0
  <2>1. a = n + 1 => c.sells = 0 BY <1>3, NoRows DEF MadeOf
  <2> QED BY <2>1, <1>3 DEF Entered, MadeOf
<1>6. /\ leg \in EpisodeType
      /\ leg.id = c.id /\ leg.legs = c.legs \cup {n + 1} /\ leg.openedAt = c.openedAt
      /\ leg.sells = c.sells /\ leg.firstSellAt = c.firstSellAt /\ ~leg.gap
      /\ leg.adds = c.adds + (IF a <= n THEN 1 ELSE 0)
      /\ leg.status = "open" /\ leg.closedAt = 0 /\ leg.reentry = c.reentry
      /\ ep.origin = c.origin /\ ~ep.gap
  <2>1. c.status = "open" /\ c.closedAt = 0 BY DEF Entered
  <2>2. CASE initial
    <3>1. a = n + 1 /\ ~(a <= n) BY <2>2, <1>4
    <3>2. leg = [c EXCEPT !.openedAt = row.ts, !.gap = FALSE, !.firstSellAt = 0,
                          !.legs = @ \cup {n + 1}]
      BY <2>2, <1>1, <1>2 DEF EpisodeType
    <3>3. ep = [c EXCEPT !.openedAt = row.ts, !.gap = FALSE, !.firstSellAt = 0] BY <2>2
    <3>4. c.legs \cup {n + 1} \in SUBSET Nat /\ c.adds + 0 = c.adds BY <1>1 DEF EpisodeType
    <3> HIDE DEF leg, ep
    <3> QED BY <3>1, <3>2, <3>3, <3>4, <2>1, <1>1, <1>2, <1>5 DEF EpisodeType
  <2>3. CASE ~initial
    <3>1. a # n + 1 /\ a <= n BY <2>3, <1>4
    <3>2. leg = [c EXCEPT !.adds = @ + 1, !.legs = @ \cup {n + 1}]
      BY <2>3, <1>1, <1>2 DEF EpisodeType
    <3>3. ep = [c EXCEPT !.adds = @ + 1] BY <2>3
    <3>4. c.legs \cup {n + 1} \in SUBSET Nat /\ c.adds + 1 \in Nat BY <1>1 DEF EpisodeType
    <3>5. ~c.gap BY <3>1 DEF Entered
    <3> HIDE DEF leg, ep
    <3> QED BY <3>1, <3>2, <3>3, <3>4, <3>5, <2>1, <1>1 DEF EpisodeType
  <2> QED BY <2>2, <2>3
<1> HIDE DEF leg, ep
<1>7. MadeOf(leg, rs, a, n + 1)
  <2>1. row.group = c.id[1] BY <1>1, <1>3
  <2>2. row.side # "sell" /\ c.sells + 0 = c.sells BY <1>1 DEF EpisodeType
  <2>3. a <= n => ~c.gap BY DEF Entered
  <2> QED BY <1>1, <1>3, <1>5, <1>6, <2>1, <2>2, <2>3, OneMoreLeg
<1>8. opened = c.openedAt BY <1>4, <1>5
<1>9. c.openedAt <= row.ts
  <2>1. leg.openedAt = rs[a].ts /\ rs[a].group = rs[n + 1].group BY <1>7 DEF MadeOf
  <2>2. a \in 1 .. n + 1 /\ n + 1 \in 1 .. n + 1 /\ a <= n + 1 OBVIOUS
  <2>3. rs[a].group < rs[n + 1].group \/ rs[a].ts <= rs[n + 1].ts BY <2>2 DEF Ordered
  <2>4. rs[a].group \in Nat BY <2>2, WalkerConstantsOK DEF Ordered, RowType
  <2> QED BY <2>1, <2>3, <2>4, <1>6
<1>10. /\ x \in EntryType /\ x.row = n + 1 /\ (x.initial <=> a = n + 1)
       /\ x.since = row.ts - c.openedAt
  <2>1. initial \in BOOLEAN BY DEF IsEmpty
  <2>2. row.ts - opened \in Nat BY <1>8, <1>9, <1>1, <1>2 DEF EpisodeType
  <2>3. ep.origin \in Origins /\ ep.gap \in BOOLEAN
    BY <1>1, <1>6 DEF EpisodeType, ep
  <2> HIDE DEF initial, opened
  <2> QED BY <2>1, <2>2, <2>3, <1>2, <1>4, <1>8 DEF EntryType
<1> HIDE DEF x
<1>11. EntriesOf(w.mine \cup {x}, leg, rs, a, n + 1)
  BY <1>1, <1>3, <1>6, <1>10, OneMoreEntry
<1>12. Add(w.book, row.amount) \in [qty : Int, peak : Nat] /\ ~IsEmpty(Add(w.book, row.amount))
  <2> DEFINE b == w.book
             p == IF b.qty + row.amount > b.peak THEN b.qty + row.amount ELSE b.peak
  <2>1. b \in [qty : Int, peak : Nat] /\ b.qty \in Int /\ b.peak \in Nat BY <1>1 DEF WalkType
  <2>2. b.qty >= 0 /\ (a <= n => b.qty > Eps(b.peak))
    BY <2>1, EpsIsSmall DEF Entered, Zero, IsEmpty
  <2>3. Add(b, row.amount) = [qty |-> b.qty + row.amount, peak |-> p] BY DEF Add
  <2>4. p \in Nat BY <2>1, <1>2
  <2>5. b.qty + row.amount > Eps(p)
    <3>1. CASE b.qty + row.amount > b.peak
      <4>1. p = b.qty + row.amount /\ p > 0 BY <3>1, <2>1, <1>2
      <4> QED BY <4>1, <2>4, EpsIsSmall
    <3>2. CASE ~(b.qty + row.amount > b.peak)
      <4>1. p = b.peak BY <3>2
      <4>2. a <= n
        <5>1. SUFFICES ASSUME a = n + 1 PROVE FALSE OBVIOUS
        <5>2. b.qty = 0 /\ b.peak = 0 BY <5>1 DEF Entered, Zero
        <5> QED BY <5>2, <3>2, <1>2
      <4>3. Eps(b.peak) \in Nat BY <2>1, EpsIsSmall
      <4> QED BY <4>1, <4>2, <4>3, <2>1, <2>2, <1>2
    <3> QED BY <3>1, <3>2
  <2>6. b.qty + row.amount \in Int /\ Eps(p) \in Nat BY <2>1, <2>4, <1>2, EpsIsSmall
  <2> HIDE DEF p, b
  <2>7. Add(b, row.amount).qty = b.qty + row.amount /\ Add(b, row.amount).peak = p BY <2>3
  <2>8. ~IsEmpty(Add(b, row.amount)) BY <2>5, <2>6, <2>7 DEF IsEmpty
  <2>9. Add(b, row.amount) \in [qty : Int, peak : Nat] BY <2>3, <2>4, <2>6
  <2> QED BY <2>8, <2>9 DEF b
<1>13. v = [w EXCEPT !.cur = leg, !.book = Add(@, row.amount), !.mine = @ \cup {x}]
  BY DEF Buy, leg, ep, x
<1> HIDE DEF v
<1>14. /\ v.cur = leg /\ v.book = Add(w.book, row.amount) /\ v.mine = w.mine \cup {x}
       /\ v.group = w.group /\ v.seq = w.seq /\ v.seen = w.seen
       /\ v.episodes = w.episodes /\ v.entries = w.entries
  BY <1>13, <1>1 DEF WalkType
<1>15. v \in WalkType
  <2>1. leg \in EpisodeType \cup {NULL} /\ w.mine \cup {x} \in SUBSET EntryType
    BY <1>1, <1>6, <1>10
  <2> QED BY <2>1, <1>1, <1>12, <1>13 DEF WalkType
<1>16. leg # NULL BY <1>6, WalkerNullOK
<1>17. Past(v, rs, a) /\ SeenBefore(v)
  BY <1>1, <1>6, <1>14, <1>16, PastKept, SeenKept DEF Entered, Shape
<1>18. Current(v, rs, a, n + 1) BY <1>3, <1>6, <1>7, <1>11, <1>14, <1>16 DEF Current
<1>19. Settled(v, rs, a, n + 1) BY <1>1, <1>6, <1>12, <1>14, <1>16 DEF Settled
<1> QED BY <1>15, <1>17, <1>18, <1>19 DEF Shape, v

(* A sale either leaves a position, or ends the episode.                   *)
LEMMA SellShape ==
  ASSUME NEW w, NEW rs, NEW n \in Nat, NEW a \in 1 .. n + 1, Ordered(rs, n + 1),
         rs[n + 1].side = "sell", Entered(w, rs, a, n, rs[n + 1])
  PROVE  Walk(Sell(w, rs[n + 1]), rs, n + 1)
<1> DEFINE row == rs[n + 1]
           c == w.cur
           left == Sold(w.book, row.amount)
           state == SellState(w.book, row.amount)
           leg == [c EXCEPT
                     !.legs = @ \cup {row.n}, !.sells = @ + 1,
                     !.gap = @ \/ IsEmpty(w.book) \/ state = "oversold",
                     !.firstSellAt = IF @ = 0 THEN row.ts ELSE @,
                     !.partialExits = IF state = "remaining" THEN @ + 1 ELSE @]
           sold == [w EXCEPT !.cur = leg, !.book = left, !.origin = OriginAfter(state, @)]
           end == [leg EXCEPT !.closedAt = row.ts,
                              !.status = IF state = "closed" THEN state ELSE "partial"]
           ending == [sold EXCEPT !.cur = end]
           v == Sell(w, row)
<1>1. /\ w \in WalkType /\ c \in EpisodeType /\ c # NULL /\ w.mine \in SUBSET EntryType
      /\ w.group = row.group
  BY DEF Entered, Shape, WalkType
<1>2. row \in RowType /\ row.n = n + 1 /\ row.ts \in Nat /\ row.amount \in Nat \ {0}
  <2>1. n + 1 \in 1 .. n + 1 OBVIOUS
  <2>2. row \in RowType /\ row.n = n + 1 BY <2>1 DEF Ordered
  <2> QED BY <2>2, WalkerConstantsOK DEF RowType
<1>3. MadeOf(c, rs, a, n) /\ EntriesOf(w.mine, c, rs, a, n) /\ c.id = <<w.group, w.seq>>
  BY <1>1 DEF Entered, Shape, Current
<1>4. state \in {"remaining", "closed", "oversold"} BY DEF SellState
<1>5. left \in [qty : Int, peak : Nat] /\ left.qty = w.book.qty - row.amount
      /\ left.peak = w.book.peak
  BY <1>1, <1>2 DEF Sold, WalkType
<1>6. state = "remaining" <=> ~IsEmpty(left) BY DEF SellState
<1>7. a = n + 1 => IsEmpty(w.book) /\ IsEmpty(left) /\ state = "oversold"
  <2> SUFFICES ASSUME a = n + 1 PROVE IsEmpty(w.book) /\ IsEmpty(left) /\ state = "oversold"
    OBVIOUS
  <2>1. w.book.qty = 0 /\ w.book.peak = 0 BY DEF Entered, Zero
  <2>2. Eps(0) = 0 BY EpsIsSmall
  <2>3. IsEmpty(w.book) /\ IsEmpty(left) BY <2>1, <2>2, <1>2, <1>5 DEF IsEmpty
  <2>4. [left EXCEPT !.qty = - @].qty = row.amount /\ [left EXCEPT !.qty = - @].peak = 0
    BY <1>5, <2>1, <1>2
  <2>5. ~IsEmpty([left EXCEPT !.qty = - @]) BY <2>2, <2>4, <1>2 DEF IsEmpty
  <2> QED BY <2>3, <2>5 DEF SellState
<1>8. a <= n => ~IsEmpty(w.book) /\ ~c.gap BY DEF Entered
<1>9. a = n + 1 => c.openedAt = row.ts BY DEF Entered
<1>10. OriginAfter(state, w.origin) \in Origins BY <1>1 DEF OriginAfter, WalkType, Origins
<1> HIDE DEF left, state
<1>11. /\ leg \in EpisodeType
       /\ leg.id = c.id /\ leg.legs = c.legs \cup {n + 1} /\ leg.openedAt = c.openedAt
       /\ leg.sells = c.sells + 1 /\ leg.adds = c.adds /\ leg.reentry = c.reentry
       /\ leg.firstSellAt = (IF c.firstSellAt = 0 THEN row.ts ELSE c.firstSellAt)
       /\ leg.status = "open" /\ leg.closedAt = 0
       /\ leg.gap = (c.gap \/ IsEmpty(w.book) \/ state = "oversold")
  <2>1. /\ c.legs \cup {row.n} \in SUBSET Nat /\ c.sells + 1 \in Nat
        /\ (c.gap \/ IsEmpty(w.book) \/ state = "oversold") \in BOOLEAN
        /\ (IF c.firstSellAt = 0 THEN row.ts ELSE c.firstSellAt) \in Nat
        /\ (IF state = "remaining" THEN c.partialExits + 1 ELSE c.partialExits) \in Nat
    BY <1>1, <1>2 DEF EpisodeType
  <2>2. c.status = "open" /\ c.closedAt = 0 BY DEF Entered
  <2>3. leg \in EpisodeType BY <1>1, <2>1 DEF EpisodeType
  <2>4. /\ leg.id = c.id /\ leg.legs = c.legs \cup {n + 1} /\ leg.openedAt = c.openedAt
        /\ leg.sells = c.sells + 1 /\ leg.adds = c.adds /\ leg.reentry = c.reentry
        /\ leg.firstSellAt = (IF c.firstSellAt = 0 THEN row.ts ELSE c.firstSellAt)
        /\ leg.status = "open" /\ leg.closedAt = 0
    BY <1>1, <1>2, <2>2 DEF EpisodeType
  <2>5. leg.gap = (c.gap \/ IsEmpty(w.book) \/ state = "oversold") BY <1>1 DEF EpisodeType
  <2> QED BY <2>3, <2>4, <2>5
<1> HIDE DEF leg
<1>12. /\ end \in EpisodeType
       /\ end.id = leg.id /\ end.legs = leg.legs /\ end.openedAt = leg.openedAt
       /\ end.sells = leg.sells /\ end.adds = leg.adds /\ end.reentry = leg.reentry
       /\ end.firstSellAt = leg.firstSellAt /\ end.gap = leg.gap
       /\ end.status = IF state = "closed" THEN state ELSE "partial"
  <2>1. (IF state = "closed" THEN state ELSE "partial") \in {"open", "closed", "partial"}
    OBVIOUS
  <2> QED BY <1>2, <1>11, <2>1 DEF EpisodeType
<1> HIDE DEF end
<1>13. \A ep \in {leg, end} : MadeOf(ep, rs, a, n + 1) /\ EntriesOf(w.mine, ep, rs, a, n + 1)
  <2>1. row.group = c.id[1] BY <1>1, <1>3
  <2>2. row.side # "buy" /\ c.adds + 0 = c.adds BY <1>1 DEF EpisodeType
  <2>3. TAKE ep \in {leg, end}
  <2>4. /\ ep \in EpisodeType /\ ep.id = c.id /\ ep.legs = c.legs \cup {n + 1}
        /\ ep.openedAt = c.openedAt /\ ep.sells = c.sells + 1 /\ ep.adds = c.adds
        /\ ep.firstSellAt = (IF c.firstSellAt = 0 THEN row.ts ELSE c.firstSellAt)
    BY <1>11, <1>12
  <2>5. MadeOf(ep, rs, a, n + 1)
    <3>1. ep.gap \/ (a <= n /\ ~c.gap)
      <4>1. CASE a = n + 1
        <5>1. state = "oversold" BY <4>1, <1>7
        <5>2. leg.gap /\ end.gap BY <5>1, <1>11, <1>12
        <5> QED BY <5>2
      <4>2. CASE a <= n BY <4>2, <1>8
      <4> QED BY <4>1, <4>2
    <3> QED BY <1>1, <1>3, <1>8, <1>9, <2>1, <2>2, <2>4, <3>1, OneMoreLeg
  <2>6. EntriesOf(w.mine, ep, rs, a, n + 1) BY <1>1, <1>3, <2>4, NoMoreEntries
  <2> QED BY <2>5, <2>6
<1>14. /\ sold \in WalkType
       /\ sold.cur = leg /\ sold.book = left /\ sold.mine = w.mine
       /\ sold.group = w.group /\ sold.seq = w.seq /\ sold.seen = w.seen
       /\ sold.episodes = w.episodes /\ sold.entries = w.entries
  <2>1. leg \in EpisodeType \cup {NULL} BY <1>11
  <2>2. sold \in WalkType BY <2>1, <1>1, <1>5, <1>10 DEF WalkType
  <2> QED BY <2>2, <1>1 DEF WalkType
<1> HIDE DEF sold
<1>15. /\ ending \in WalkType
       /\ ending.cur = end /\ ending.mine = w.mine
       /\ ending.group = w.group /\ ending.seq = w.seq /\ ending.seen = w.seen
       /\ ending.episodes = w.episodes /\ ending.entries = w.entries
  <2>1. end \in EpisodeType \cup {NULL} BY <1>12
  <2>2. ending \in WalkType BY <2>1, <1>14 DEF WalkType
  <2> QED BY <2>2, <1>14 DEF WalkType
<1> HIDE DEF ending
<1>16. leg # NULL /\ end # NULL BY <1>11, <1>12, WalkerNullOK
<1>17. Shape(sold, rs, a, n + 1)
  <2>1. Past(sold, rs, a) /\ SeenBefore(sold)
    BY <1>1, <1>11, <1>14, <1>16, PastKept, SeenKept DEF Entered, Shape
  <2>2. Current(sold, rs, a, n + 1) BY <1>3, <1>11, <1>13, <1>14, <1>16 DEF Current
  <2> QED BY <2>1, <2>2, <1>14 DEF Shape
<1>18. Shape(ending, rs, a, n + 1)
  <2>1. Past(ending, rs, a) /\ SeenBefore(ending)
    BY <1>1, <1>11, <1>12, <1>15, <1>16, PastKept, SeenKept DEF Entered, Shape
  <2>2. Current(ending, rs, a, n + 1)
    BY <1>3, <1>11, <1>12, <1>13, <1>15, <1>16 DEF Current
  <2> QED BY <2>1, <2>2, <1>15 DEF Shape
<1>19. v = IF state = "remaining" THEN sold ELSE Finalize(ending)
  BY DEF Sell, state, left, leg, sold, end, ending
<1>20. CASE state = "remaining"
  <2>1. a <= n BY <1>7, <1>20
  <2>2. ~leg.gap BY <2>1, <1>8, <1>11, <1>20
  <2>3. Settled(sold, rs, a, n + 1)
    BY <2>1, <2>2, <1>1, <1>6, <1>11, <1>14, <1>16, <1>20 DEF Settled
  <2>4. a \in 1 .. (n + 1) + 1 OBVIOUS
  <2> QED BY <2>3, <2>4, <1>17, <1>19, <1>20 DEF Walk
<1>21. CASE state # "remaining"
  <2>1. GapIsPartial(end)
    <3>1. state = "closed" \/ state = "oversold" BY <1>4, <1>21
    <3>2. state = "oversold" => end.gap BY <1>11, <1>12
    <3> QED BY <3>1, <3>2, <1>12 DEF GapIsPartial
  <2>2. Shape(Finalize(ending), rs, (n + 1) + 1, n + 1)
    BY <2>1, <1>15, <1>16, <1>18, FinalizeShape
  <2>3. Finalize(ending).cur = NULL /\ Finalize(ending).book = Zero
        /\ Finalize(ending).group = w.group
    BY <1>15, <1>16, FinalizeFields
  <2>4. Settled(Finalize(ending), rs, (n + 1) + 1, n + 1)
    BY <2>3, <1>1 DEF Settled
  <2>5. (n + 1) + 1 \in 1 .. (n + 1) + 1 OBVIOUS
  <2> QED BY <2>2, <2>4, <2>5, <1>19, <1>21 DEF Walk
<1> QED BY <1>20, <1>21

LEMMA WalkedShape ==
  ASSUME NEW w, NEW rs, NEW n \in Nat, Walk(w, rs, n), Ordered(rs, n + 1)
  PROVE  Walk(Walked(w, rs[n + 1]), rs, n + 1)
<1> DEFINE row == rs[n + 1]
<1>1. PICK a \in 1 .. n + 1 : Entered(Enter(w, row), rs, a, n, row) BY EnterShape
<1>2. row.side \in {"buy", "sell"}
  <2>1. n + 1 \in 1 .. n + 1 OBVIOUS
  <2> QED BY <2>1 DEF Ordered, RowType
<1>3. CASE row.side = "buy"
  <2>1. Walked(w, row) = Buy(Enter(w, row), row) BY <1>3 DEF Walked
  <2>2. Shape(Walked(w, row), rs, a, n + 1) /\ Settled(Walked(w, row), rs, a, n + 1)
    BY <2>1, <1>1, <1>3, BuyShape
  <2>3. a \in 1 .. (n + 1) + 1 OBVIOUS
  <2> QED BY <2>2, <2>3 DEF Walk
<1>4. CASE row.side = "sell"
  <2>1. Walked(w, row) = Sell(Enter(w, row), row) BY <1>4 DEF Walked
  <2> QED BY <2>1, <1>1, <1>4, SellShape
<1> QED BY <1>2, <1>3, <1>4

-----------------------------------------------------------------------------
(* The walker's invariant.                                                 *)

(* What is known of the first n rows does not look at later ones.          *)
LEMMA WalkExtends ==
  ASSUME NEW w, NEW rs, NEW qs, NEW n \in Nat, Walk(w, rs, n),
         \A i \in 1 .. n : qs[i] = rs[i]
  PROVE  Walk(w, qs, n)
<1>1. PICK a \in 1 .. n + 1 : Shape(w, rs, a, n) /\ Settled(w, rs, a, n) BY DEF Walk
<1>2. \A b \in Nat \ {0} : \A c \in 0 .. n :
        Buys(qs, b, c) = Buys(rs, b, c) /\ Sells(qs, b, c) = Sells(rs, b, c)
  BY DEF Buys, Sells
<1>3. \A ep : \A b \in Nat \ {0} : \A c \in 0 .. n :
        MadeOf(ep, rs, b, c) => MadeOf(ep, qs, b, c)
  <2> TAKE ep
  <2> TAKE b \in Nat \ {0}
  <2> TAKE c \in 0 .. n
  <2> HAVE MadeOf(ep, rs, b, c)
  <2>1. b + 1 \in Nat \ {0} /\ \A i \in b .. c : i \in 1 .. n OBVIOUS
  <2>2. b <= c => b \in b .. c OBVIOUS
  <2> QED BY <2>1, <2>2, <1>2 DEF MadeOf
<1>4. \A E, ep : \A b \in Nat \ {0} : \A c \in 0 .. n :
        EntriesOf(E, ep, rs, b, c) => EntriesOf(E, ep, qs, b, c)
  <2> TAKE E, ep
  <2> TAKE b \in Nat \ {0}
  <2> TAKE c \in 0 .. n
  <2> HAVE EntriesOf(E, ep, rs, b, c)
  <2>1. \A e \in E : e.row \in 1 .. n BY DEF EntriesOf, Buys
  <2> QED BY <2>1, <1>2 DEF EntriesOf
<1>5. Past(w, qs, a)
  <2>1. \A ep \in w.episodes : PastEpisode(w, ep, qs, a)
    <3> TAKE ep \in w.episodes
    <3>1. PastEpisode(w, ep, rs, a) BY <1>1 DEF Shape, Past
    <3>2. \A b, c \in 1 .. a - 1 : b \in Nat \ {0} /\ c \in 0 .. n OBVIOUS
    <3> QED BY <3>1, <3>2, <1>3, <1>4 DEF PastEpisode
  <2> QED BY <2>1, <1>1 DEF Shape, Past
<1>6. Current(w, qs, a, n)
  <2>1. a \in Nat \ {0} /\ n \in 0 .. n OBVIOUS
  <2> QED BY <2>1, <1>1, <1>3, <1>4 DEF Shape, Current
<1>7. Settled(w, qs, a, n)
  <2>1. n # 0 => n \in 1 .. n OBVIOUS
  <2> QED BY <2>1, <1>1 DEF Settled
<1> QED BY <1>1, <1>5, <1>6, <1>7 DEF Walk, Shape

(* The rows read are in the query's order and the walk describes them; at  *)
(* the end no episode is left in hand.                                     *)
WalkInv ==
  /\ rows \in Seq(RowType) /\ Len(rows) <= MaxRows /\ ended \in BOOLEAN
  /\ Ordered(rows, Len(rows))
  /\ IF ended
     THEN /\ Shape(walk, rows, Len(rows) + 1, Len(rows))
          /\ walk.cur = NULL /\ walk.book = Zero
     ELSE Walk(walk, rows, Len(rows))

LEMMA WalkStarts == Init => WalkInv
<1> SUFFICES ASSUME Init PROVE WalkInv OBVIOUS
<1>1. rows = <<>> /\ Len(rows) = 0 /\ ended = FALSE /\ walk = StartOfWalk BY DEF Init
<1>2. walk \in WalkType
  <2>1. /\ Zero \in [qty : Int, peak : Nat] /\ 0 \in 0 .. Len(Groups)
        /\ "censored" \in Origins
    BY WalkerConstantsOK DEF Zero, Origins
  <2> HIDE DEF Zero
  <2> QED BY <2>1, <1>1 DEF StartOfWalk, WalkType
<1>3. /\ walk.cur = NULL /\ walk.mine = {} /\ walk.book = Zero /\ walk.group = 0
      /\ walk.seen = {} /\ walk.episodes = {} /\ walk.entries = {}
  BY <1>1 DEF StartOfWalk
<1>4. 1 \in 1 .. 0 + 1 /\ 1 .. 0 = {} OBVIOUS
<1>5. Shape(walk, rows, 1, 0)
  BY <1>2, <1>3, <1>4 DEF Shape, Past, Current, SeenBefore
<1>6. Settled(walk, rows, 1, 0) BY <1>3 DEF Settled
<1>7. Ordered(rows, 0) BY <1>4 DEF Ordered
<1>8. Walk(walk, rows, 0) BY <1>4, <1>5, <1>6 DEF Walk
<1>9. rows \in Seq(RowType) /\ Len(rows) <= MaxRows BY <1>1, WalkerConstantsOK
<1> QED BY <1>1, <1>7, <1>8, <1>9 DEF WalkInv

(* The next row keeps the order.                                           *)
LEMMA RowsStayOrdered ==
  ASSUME rows \in Seq(RowType), Ordered(rows, Len(rows)),
         NEW row \in Trades(NextTimes), NextRow(row), rows' = Append(rows, row)
  PROVE  /\ rows' \in Seq(RowType) /\ Len(rows') = Len(rows) + 1
         /\ rows'[Len(rows) + 1] = row /\ \A i \in 1 .. Len(rows) : rows'[i] = rows[i]
         /\ Ordered(rows', Len(rows) + 1)
<1> DEFINE n == Len(rows)
<1>1. n \in Nat /\ \A i \in 1 .. n : rows[i] \in RowType
  BY DEF Ordered
<1>2. /\ row.n = n + 1 /\ row.n \in Nat /\ row.group \in DOMAIN Groups
      /\ row.side \in {"buy", "sell"} /\ row.amount \in Amounts
      /\ row = [n |-> row.n, group |-> row.group, side |-> row.side,
                amount |-> row.amount, ts |-> row.ts]
  BY <1>1 DEF Trades
<1>3. row.ts \in Nat \ {0}
  <2>1. CASE rows # <<>> /\ row.group = rows[n].group
             /\ \E d \in Steps : row.ts = rows[n].ts + d
    <3>1. n \in 1 .. n BY <2>1, <1>1
    <3> QED BY <3>1, <2>1, <1>1, WalkerConstantsOK DEF RowType
  <2>2. CASE row.ts = 1 BY <2>2
  <2> QED BY <2>1, <2>2 DEF NextRow
<1>4. row \in RowType BY <1>2, <1>3 DEF RowType
<1>5. /\ rows' \in Seq(RowType) /\ Len(rows') = n + 1 /\ rows'[n + 1] = row
      /\ \A i \in 1 .. n : rows'[i] = rows[i]
  BY <1>4
<1>6. \A i \in 1 .. n : \/ rows[i].group < row.group
                        \/ rows[i].group = row.group /\ rows[i].ts <= row.ts
  <2> TAKE i \in 1 .. n
  <2>1. /\ rows[i].group \in Nat /\ row.group \in Nat /\ rows[i].ts \in Nat
        /\ rows[n].group \in Nat /\ rows[n].ts \in Nat /\ n \in 1 .. n
    <3>1. n \in 1 .. n BY <1>1
    <3>2. rows[i] \in RowType /\ rows[n] \in RowType BY <1>1, <3>1
    <3>3. \A g \in DOMAIN Groups : g \in Nat BY WalkerConstantsOK
    <3>4. \A r \in RowType : r.group \in Nat /\ r.ts \in Nat BY <3>3 DEF RowType
    <3> QED BY <1>4, <3>1, <3>2, <3>4
  <2>2. CASE /\ row.group = rows[n].group
             /\ \E d \in Steps : row.ts = rows[n].ts + d
    <3>1. row.ts >= rows[n].ts BY <2>2, <2>1, WalkerConstantsOK
    <3>2. \/ rows[i].group < rows[n].group
          \/ rows[i].group = rows[n].group /\ rows[i].ts <= rows[n].ts
      BY <2>1 DEF Ordered
    <3> QED BY <3>1, <3>2, <2>1, <2>2, <1>3
  <2>3. CASE \A j \in DOMAIN rows : row.group > rows[j].group
    <3>1. i \in DOMAIN rows BY <1>1
    <3> QED BY <3>1, <2>3, <2>1
  <2> QED BY <2>2, <2>3 DEF NextRow
<1>7. Ordered(rows', n + 1)
  <2>1. \A i \in 1 .. n + 1 : rows'[i] \in RowType /\ rows'[i].n = i
    BY <1>1, <1>2, <1>4, <1>5 DEF Ordered
  <2>2. ASSUME NEW i \in 1 .. n + 1, NEW j \in 1 .. n + 1, i <= j
        PROVE  \/ rows'[i].group < rows'[j].group
               \/ rows'[i].group = rows'[j].group /\ rows'[i].ts <= rows'[j].ts
    <3>1. CASE j <= n BY <3>1, <2>2, <1>1, <1>5 DEF Ordered
    <3>2. CASE j = n + 1 /\ i <= n BY <3>2, <1>1, <1>5, <1>6
    <3>3. CASE j = n + 1 /\ i = n + 1 BY <3>3, <1>3, <1>5
    <3> QED BY <3>1, <3>2, <3>3, <2>2, <1>1
  <2> QED BY <2>1, <2>2 DEF Ordered
<1> QED BY <1>5, <1>7

LEMMA WalkGoesOn == WalkInv /\ [Next]_walkerVars => WalkInv'
<1> SUFFICES ASSUME WalkInv, [Next]_walkerVars PROVE WalkInv' OBVIOUS
<1>1. CASE ReadRow
  <2>1. PICK row \in Trades(NextTimes) :
          NextRow(row) /\ rows' = Append(rows, row) /\ walk' = Walked(walk, row)
    BY <1>1 DEF ReadRow
  <2>2. ~ended /\ ended' = FALSE /\ Len(rows) < MaxRows BY <1>1 DEF ReadRow, WalkInv
  <2>3. /\ rows' \in Seq(RowType) /\ Len(rows') = Len(rows) + 1
        /\ rows'[Len(rows) + 1] = row /\ \A i \in 1 .. Len(rows) : rows'[i] = rows[i]
        /\ Ordered(rows', Len(rows) + 1)
    BY <2>1, RowsStayOrdered DEF WalkInv
  <2>4. Len(rows) \in Nat BY DEF WalkInv
  <2>5. Walk(walk, rows', Len(rows)) BY <2>2, <2>3, <2>4, WalkExtends DEF WalkInv
  <2>6. Walk(walk', rows', Len(rows) + 1) BY <2>1, <2>3, <2>4, <2>5, WalkedShape
  <2>7. Len(rows') <= MaxRows BY <2>2, <2>3, <2>4, WalkerConstantsOK
  <2> QED BY <2>2, <2>3, <2>6, <2>7 DEF WalkInv
<1>2. CASE EndOfRows
  <2>1. ~ended /\ ended' = TRUE /\ walk' = Finalize(walk) /\ rows' = rows
    BY <1>2 DEF EndOfRows
  <2>2. PICK a \in 1 .. Len(rows) + 1 :
          Shape(walk, rows, a, Len(rows)) /\ Settled(walk, rows, a, Len(rows))
    BY <2>1 DEF WalkInv, Walk
  <2>3. Len(rows) \in Nat BY DEF WalkInv
  <2>4. /\ Shape(walk', rows, Len(rows) + 1, Len(rows))
        /\ walk'.cur = NULL /\ walk'.book = Zero
    <3>1. CASE walk.cur = NULL
      <4>1. walk' = walk /\ a = Len(rows) + 1
        BY <3>1, <2>1, <2>2 DEF Finalize, Shape, Current
      <4> QED BY <4>1, <3>1, <2>2 DEF Settled
    <3>2. CASE walk.cur # NULL
      <4>1. a <= Len(rows) /\ GapIsPartial(walk.cur)
        BY <3>2, <2>2 DEF Settled, GapIsPartial
      <4>2. walk \in WalkType BY <2>2 DEF Shape
      <4> QED BY <4>1, <4>2, <3>2, <2>1, <2>2, <2>3, FinalizeShape, FinalizeFields
    <3> QED BY <3>1, <3>2
  <2> QED BY <2>1, <2>4 DEF WalkInv
<1>3. CASE UNCHANGED walkerVars BY <1>3 DEF walkerVars, WalkInv
<1> QED BY <1>1, <1>2, <1>3 DEF Next

(* The inductive invariant of the walker (episodes.go:268-393).            *)
THEOREM WalkInvHolds == Spec => []WalkInv
BY WalkStarts, WalkGoesOn, PTL DEF Spec

-----------------------------------------------------------------------------
(* What the invariant says of the dataset.                                 *)

LEMMA Described ==
  ASSUME WalkInv
  PROVE  /\ Len(rows) \in Nat /\ DOMAIN rows = 1 .. Len(rows)
         /\ \E a \in 1 .. Len(rows) + 1 :
              /\ Shape(walk, rows, a, Len(rows))
              /\ walk.cur # NULL => a <= Len(rows) /\ walk.cur.status = "open" /\ ~walk.cur.gap
<1>1. Len(rows) \in Nat /\ DOMAIN rows = 1 .. Len(rows) BY DEF WalkInv
<1>2. CASE ended
  <2>1. Len(rows) + 1 \in 1 .. Len(rows) + 1 BY <1>1
  <2> QED BY <2>1, <1>1, <1>2 DEF WalkInv
<1>3. CASE ~ended BY <1>1, <1>3 DEF WalkInv, Walk, Settled
<1> QED BY <1>2, <1>3 DEF WalkInv

LEMMA EpisodesOfRows ==
  ASSUME WalkInv
  PROVE  /\ \A ep \in Episodes :
              /\ ep \in EpisodeType
              /\ \E b, c \in 1 .. Len(rows) : b <= c /\ MadeOf(ep, rows, b, c)
         /\ \A i \in 1 .. Len(rows) : \E ep \in Episodes : i \in ep.legs
         /\ \A ep, d \in Episodes : ep.legs \cap d.legs # {} => ep = d
<1>1. PICK a \in 1 .. Len(rows) + 1 :
        /\ Shape(walk, rows, a, Len(rows))
        /\ walk.cur # NULL => a <= Len(rows)
  BY Described
<1> DEFINE n == Len(rows)
<1>2. n \in Nat BY Described
<1>3. walk.episodes \subseteq EpisodeType /\ walk.cur \in EpisodeType \cup {NULL}
  BY <1>1 DEF Shape, WalkType
<1>4. \A ep \in walk.episodes : \E b, c \in 1 .. n : b <= c /\ MadeOf(ep, rows, b, c) /\ c < a
  <2> TAKE ep \in walk.episodes
  <2>1. PICK b, c \in 1 .. a - 1 : b <= c /\ MadeOf(ep, rows, b, c)
    BY <1>1 DEF Shape, Past, PastEpisode
  <2>2. b \in 1 .. n /\ c \in 1 .. n /\ c < a BY <1>1, <1>2
  <2> QED BY <2>1, <2>2
<1>5. walk.cur # NULL => a \in 1 .. n /\ n \in 1 .. n /\ MadeOf(walk.cur, rows, a, n)
  BY <1>1, <1>2 DEF Shape, Current
<1>6. \A ep \in Episodes :
        ep \in EpisodeType /\ \E b, c \in 1 .. n : b <= c /\ MadeOf(ep, rows, b, c)
  BY <1>3, <1>4, <1>5 DEF Episodes
<1>7. \A i \in 1 .. n : \E ep \in Episodes : i \in ep.legs
  <2> TAKE i \in 1 .. n
  <2>1. CASE i < a
    <3>1. i \in 1 .. a - 1 BY <2>1, <1>1
    <3> QED BY <3>1, <1>1 DEF Shape, Past, Episodes
  <2>2. CASE i >= a
    <3>1. walk.cur # NULL BY <2>2, <1>1, <1>2 DEF Shape, Current
    <3>2. i \in walk.cur.legs BY <2>2, <3>1, <1>5, <1>2 DEF MadeOf
    <3> QED BY <3>1, <3>2 DEF Episodes
  <2> QED BY <2>1, <2>2, <1>1
<1>8. \A ep, d \in Episodes : ep.legs \cap d.legs # {} => ep = d
  <2>1. \A ep \in walk.episodes : walk.cur # NULL => ep.legs \cap walk.cur.legs = {}
    BY <1>4, <1>5, <1>1 DEF MadeOf
  <2>2. \A ep, d \in walk.episodes : ep.legs \cap d.legs # {} => ep = d
    BY <1>1 DEF Shape, Past
  <2> QED BY <2>1, <2>2 DEF Episodes
<1> QED BY <1>6, <1>7, <1>8

(* Every entry in a finished episode is one of its buys.                   *)
LEMMA EntriesOfEpisodes ==
  ASSUME WalkInv, NEW ep \in walk.episodes
  PROVE  /\ \E b, c \in 1 .. Len(rows) :
              /\ b <= c /\ MadeOf(ep, rows, b, c) /\ First(ep) = b
              /\ EntriesOf(OwnEntries(walk, ep), ep, rows, b, c)
         /\ \A e \in OwnEntries(walk, ep) : e.origin = ep.origin /\ e.gap = ep.gap
         /\ ep \in EpisodeType /\ GapIsPartial(ep)
<1>1. PICK a \in 1 .. Len(rows) + 1 : Shape(walk, rows, a, Len(rows))
  BY Described
<1>2. PastEpisode(walk, ep, rows, a) BY <1>1 DEF Shape, Past
<1>3. PICK b, c \in 1 .. a - 1 :
        b <= c /\ MadeOf(ep, rows, b, c) /\ EntriesOf(OwnEntries(walk, ep), ep, rows, b, c)
  BY <1>2 DEF PastEpisode
<1>4. b \in 1 .. Len(rows) /\ c \in 1 .. Len(rows) BY <1>1, Described
<1>5. First(ep) = b BY <1>3, <1>4, FirstOfLegs DEF MadeOf
<1>6. ep \in EpisodeType BY <1>1 DEF Shape, WalkType
<1> QED BY <1>2, <1>3, <1>4, <1>5, <1>6 DEF PastEpisode

LEMMA EntriesOfRows ==
  ASSUME WalkInv
  PROVE  /\ {e.row : e \in Entries} = Buys(rows, 1, Len(rows))
         /\ \A e, f \in Entries : e.row = f.row => e = f
         /\ \A e \in walk.entries : \E ep \in walk.episodes : ep.id = e.episode /\ e.row \in ep.legs
<1>1. PICK a \in 1 .. Len(rows) + 1 : Shape(walk, rows, a, Len(rows))
  BY Described
<1> DEFINE n == Len(rows)
<1>2. n \in Nat BY Described
<1>3. \A e \in walk.entries : \E ep \in walk.episodes : ep.id = e.episode /\ e \in OwnEntries(walk, ep)
  BY <1>1 DEF Shape, Past, OwnEntries
<1>4. \A ep \in walk.episodes : \A e \in OwnEntries(walk, ep) :
        e.row \in ep.legs /\ e.row \in Buys(rows, 1, a - 1)
  <2> TAKE ep \in walk.episodes
  <2>1. PICK b, c \in 1 .. a - 1 :
          b <= c /\ MadeOf(ep, rows, b, c) /\ EntriesOf(OwnEntries(walk, ep), ep, rows, b, c)
    BY <1>1 DEF Shape, Past, PastEpisode
  <2> QED BY <2>1, <1>1 DEF EntriesOf, MadeOf, Buys
<1>5. \A e \in walk.mine : e.row \in Buys(rows, a, n)
  BY <1>1 DEF Shape, Current, EntriesOf
<1>6. \A i \in Buys(rows, 1, a - 1) : \E e \in walk.entries : e.row = i
  <2> TAKE i \in Buys(rows, 1, a - 1)
  <2>1. i \in 1 .. a - 1 /\ rows[i].side = "buy" BY DEF Buys
  <2>2. PICK ep \in walk.episodes : i \in ep.legs BY <2>1, <1>1 DEF Shape, Past
  <2>3. PICK b, c \in 1 .. a - 1 :
          b <= c /\ MadeOf(ep, rows, b, c) /\ EntriesOf(OwnEntries(walk, ep), ep, rows, b, c)
    BY <1>1 DEF Shape, Past, PastEpisode
  <2>4. i \in Buys(rows, b, c) BY <2>1, <2>2, <2>3 DEF MadeOf, Buys
  <2> QED BY <2>3, <2>4 DEF EntriesOf, OwnEntries
<1>7. \A i \in Buys(rows, a, n) : \E e \in walk.mine : e.row = i
  <2>1. CASE walk.cur = NULL
    <3>1. a = n + 1 BY <2>1, <1>1 DEF Shape, Current
    <3>2. Buys(rows, a, n) = {} BY <3>1, <1>2, NoRows
    <3> QED BY <3>2
  <2>2. CASE walk.cur # NULL
    <3>1. {e.row : e \in walk.mine} = Buys(rows, a, n)
      BY <2>2, <1>1 DEF Shape, Current, EntriesOf
    <3> QED BY <3>1
  <2> QED BY <2>1, <2>2
<1>8. Buys(rows, 1, n) = Buys(rows, 1, a - 1) \cup Buys(rows, a, n)
  BY <1>1, <1>2 DEF Buys
<1>9. \A e, f \in walk.entries : e.row = f.row => e = f
  <2> SUFFICES ASSUME NEW e \in walk.entries, NEW f \in walk.entries, e.row = f.row
               PROVE  e = f
    OBVIOUS
  <2>1. PICK ep \in walk.episodes : e \in OwnEntries(walk, ep) BY <1>3
  <2>2. PICK d \in walk.episodes : f \in OwnEntries(walk, d) BY <1>3
  <2>3. e.row \in ep.legs \cap d.legs BY <2>1, <2>2, <1>4
  <2>4. ep = d BY <2>3, <1>1 DEF Shape, Past
  <2> QED BY <2>1, <2>2, <2>4, EntriesOfEpisodes DEF EntriesOf
<1>10. \A e, f \in walk.mine : e.row = f.row => e = f
  BY <1>1 DEF Shape, Current, EntriesOf
<1>11. \A e \in walk.entries, f \in walk.mine : e.row # f.row
  BY <1>1, <1>3, <1>4, <1>5 DEF Buys
<1>12. {e.row : e \in Entries} = Buys(rows, 1, n)
  <2>1. \A e \in Entries : e.row \in Buys(rows, 1, n)
    BY <1>3, <1>4, <1>5, <1>8 DEF Entries
  <2>2. \A i \in Buys(rows, 1, n) : \E e \in Entries : e.row = i
    BY <1>6, <1>7, <1>8 DEF Entries
  <2> QED BY <2>1, <2>2
<1>13. \A e, f \in Entries : e.row = f.row => e = f
  BY <1>9, <1>10, <1>11 DEF Entries
<1> QED BY <1>3, <1>4, <1>12, <1>13

-----------------------------------------------------------------------------
(* The properties.                                                         *)

LEMMA EveryTradeCounted == WalkInv => EveryTradeInOneEpisode
<1> SUFFICES ASSUME WalkInv PROVE EveryTradeInOneEpisode OBVIOUS
<1> DEFINE n == Len(rows)
<1>1. n \in Nat /\ DOMAIN rows = 1 .. n BY Described
<1>2. \A i \in DOMAIN rows : Cardinality({ep \in Episodes : i \in ep.legs}) = 1
  <2> TAKE i \in DOMAIN rows
  <2>1. PICK ep \in Episodes : i \in ep.legs BY <1>1, EpisodesOfRows
  <2>2. {d \in Episodes : i \in d.legs} = {ep} BY <2>1, EpisodesOfRows
  <2> QED BY <2>2, FS_Singleton
<1>3. \A ep \in Episodes :
        /\ ep.legs = First(ep) .. Last(ep)
        /\ \A i \in ep.legs : rows[i].group = ep.id[1]
        /\ ep.sells = Cardinality({i \in ep.legs : rows[i].side = "sell"})
  <2> TAKE ep \in Episodes
  <2>1. PICK b, c \in 1 .. n : b <= c /\ MadeOf(ep, rows, b, c) BY EpisodesOfRows
  <2>2. First(ep) = b /\ Last(ep) = c /\ ep.legs = b .. c
    BY <2>1, <1>1, FirstOfLegs DEF MadeOf
  <2> QED BY <2>1, <2>2 DEF MadeOf, Sells
<1>4. {e.row : e \in Entries} = {i \in DOMAIN rows : rows[i].side = "buy"}
  BY <1>1, EntriesOfRows DEF Buys
<1>5. Cardinality(Entries) = Cardinality({e.row : e \in Entries})
  <2>1. IsFiniteSet(Buys(rows, 1, n)) BY <1>1, CountsAreFinite
  <2>2. Cardinality(Entries) = Cardinality(Buys(rows, 1, n))
    BY <2>1, EntriesOfRows, AsManyAsRows
  <2> QED BY <2>2, EntriesOfRows
<1> QED BY <1>2, <1>3, <1>4, <1>5, EntriesOfRows DEF EveryTradeInOneEpisode

(* Every trade belongs to one episode and every buy is one entry           *)
(* (episodes.go:278-359).                                                  *)
THEOREM TradesBelongToEpisodes == Spec => []EveryTradeInOneEpisode
BY WalkInvHolds, EveryTradeCounted, PTL

LEMMA EvidenceIsShared == WalkInv => EvidenceAgrees
BY EntriesOfEpisodes DEF EvidenceAgrees, OwnEntries

(* An entry claims the evidence its episode ended with                     *)
(* (episodes.go:261-267, 283-291).                                         *)
THEOREM EvidenceIsTheEpisodes == Spec => []EvidenceAgrees
BY WalkInvHolds, EvidenceIsShared, PTL

(* The buys after the first are the entries that do not open.              *)
LEMMA AddsAreEntries ==
  ASSUME WalkInv, NEW ep \in walk.episodes
  PROVE  Cardinality({e \in OwnEntries(walk, ep) : ~e.initial}) = ep.adds
<1>1. PICK b, c \in 1 .. Len(rows) :
        /\ b <= c /\ MadeOf(ep, rows, b, c)
        /\ EntriesOf(OwnEntries(walk, ep), ep, rows, b, c)
  BY EntriesOfEpisodes
<1> DEFINE E == {e \in OwnEntries(walk, ep) : ~e.initial}
<1>2. b + 1 .. c = (b .. c) \ {b} BY <1>1
<1>3. Buys(rows, b + 1, c) = {e.row : e \in E}
  <2>1. Buys(rows, b + 1, c) = Buys(rows, b, c) \ {b} BY <1>2 DEF Buys
  <2>2. \A e \in E : e.row \in Buys(rows, b, c) /\ e.row # b BY <1>1 DEF EntriesOf
  <2>3. \A i \in Buys(rows, b, c) \ {b} : \E e \in E : e.row = i BY <1>1 DEF EntriesOf
  <2> QED BY <2>1, <2>2, <2>3
<1>4. IsFiniteSet(Buys(rows, b + 1, c))
  <2>1. b + 1 \in Int /\ c \in Int BY Described
  <2> QED BY <2>1, CountsAreFinite
<1>5. \A e, f \in E : e.row = f.row => e = f BY <1>1 DEF EntriesOf
<1> HIDE DEF E
<1>6. Cardinality(E) = Cardinality(Buys(rows, b + 1, c)) BY <1>3, <1>4, <1>5, AsManyAsRows
<1> QED BY <1>6, <1>1 DEF MadeOf, E

LEMMA OpeningIsFirst == WalkInv => OneOpening
<1> SUFFICES ASSUME WalkInv, NEW ep \in walk.episodes
             PROVE  LET own == {e \in walk.entries : e.episode = ep.id}
                    IN  /\ {e \in own : e.initial} = {e \in own : e.row = First(ep)}
                        /\ ep.adds = Cardinality({e \in own : ~e.initial})
                        /\ \A e \in own : e.since = rows[e.row].ts - ep.openedAt
  BY DEF OneOpening
<1>1. \A e \in OwnEntries(walk, ep) :
        (e.initial <=> e.row = First(ep)) /\ e.since = rows[e.row].ts - ep.openedAt
  BY EntriesOfEpisodes DEF EntriesOf
<1> QED BY <1>1, AddsAreEntries DEF OwnEntries

(* An episode has one opening entry at most, its earliest, and the others  *)
(* are its adds (episodes.go:330-350).                                     *)
THEOREM OneOpeningHolds == Spec => []OneOpening
BY WalkInvHolds, OpeningIsFirst, PTL

(* No two wallets trade the same token: the rows are those of one wallet.  *)
OneWalletPerToken ==
  \A g, h \in DOMAIN Groups : Groups[g].token = Groups[h].token => Groups[g] = Groups[h]

LEMMA ReentryIsKnown ==
  ASSUME WalkInv, OneWalletPerToken
  PROVE  ReentryIsOfWallet
<1>1. PICK a \in 1 .. Len(rows) + 1 : Shape(walk, rows, a, Len(rows)) /\ (walk.cur # NULL => a <= Len(rows))
  BY Described
<1>2. \A ep \in Episodes : ep.id[1] \in DOMAIN Groups
  BY EpisodesOfRows DEF EpisodeType, EpisodeIds
<1>3. \A ep, d \in Episodes :
        Groups[d.id[1]] = Groups[ep.id[1]] <=> Token(d.id) = Token(ep.id)
  BY <1>2 DEF OneWalletPerToken, Token
<1>4. \A ep \in walk.episodes : First(ep) \in Nat /\ First(ep) < a
  <2> TAKE ep \in walk.episodes
  <2>1. PICK b, c \in 1 .. a - 1 : b <= c /\ MadeOf(ep, rows, b, c)
    BY <1>1 DEF Shape, Past, PastEpisode
  <2>2. First(ep) = b BY <2>1, <1>1, FirstOfLegs DEF MadeOf
  <2> QED BY <2>2, <1>1
<1>5. walk.cur # NULL => First(walk.cur) = a
  BY <1>1, Described, FirstOfLegs DEF Shape, Current, MadeOf
<1>6. \A ep \in Episodes :
        ep.reentry <=> \E d \in Episodes : Token(d.id) = Token(ep.id) /\ First(d) < First(ep)
  <2>1. \A ep \in walk.episodes :
          ep.reentry <=> \E d \in Episodes : Token(d.id) = Token(ep.id) /\ First(d) < First(ep)
    BY <1>1, <1>4, <1>5 DEF Episodes, Shape, SeenBefore
  <2>2. walk.cur # NULL =>
          (walk.cur.reentry <=> \E d \in Episodes :
                                  Token(d.id) = Token(walk.cur.id) /\ First(d) < First(walk.cur))
    <3> SUFFICES ASSUME walk.cur # NULL
                 PROVE  walk.cur.reentry <=>
                          \E d \in Episodes :
                            Token(d.id) = Token(walk.cur.id) /\ First(d) < First(walk.cur)
      OBVIOUS
    <3>1. walk.cur.reentry <=> \E d \in walk.episodes : Token(d.id) = Token(walk.cur.id)
      BY <1>1 DEF Shape, SeenBefore
    <3>2. ~(First(walk.cur) < First(walk.cur)) BY <1>5, <1>1
    <3> QED BY <3>1, <3>2, <1>4, <1>5 DEF Episodes
  <2> QED BY <2>1, <2>2 DEF Episodes
<1> QED BY <1>3, <1>6 DEF ReentryIsOfWallet

(* Where the rows are those of one wallet, an episode is a re-entry exactly*)
(* when the wallet has had an earlier one on the token (episodes.go:270,   *)
(* 318); RebuildEpisodes walks all wallets at once, and there it is not.   *)
THEOREM ReentryNeedsOneWallet ==
  ASSUME OneWalletPerToken
  PROVE  Spec => []ReentryIsOfWallet
<1>1. WalkInv => ReentryIsOfWallet BY ReentryIsKnown
<1> QED BY <1>1, WalkInvHolds, PTL

LEMMA WalkIsTyped == WalkInv => WalkerTypeOK
<1> SUFFICES ASSUME WalkInv PROVE WalkerTypeOK OBVIOUS
<1>1. walk \in WalkType BY Described DEF Shape
<1>2. walk.cur = NULL => walk.mine = {} /\ walk.book = Zero
  BY DEF WalkInv, Walk, Shape, Current, Settled
<1>3. walk.book \in [qty : Nat, peak : Nat]
  <2>1. walk.book = Zero \/ ~IsEmpty(walk.book) BY DEF WalkInv, Walk, Settled
  <2>2. CASE walk.book = Zero BY <2>2 DEF Zero
  <2>3. CASE ~IsEmpty(walk.book)
    <3>1. walk.book \in [qty : Int, peak : Nat] BY <1>1 DEF WalkType
    <3>2. walk.book.qty > Eps(walk.book.peak) /\ Eps(walk.book.peak) \in Nat
      BY <2>3, <3>1, EpsIsSmall DEF IsEmpty
    <3> QED BY <3>1, <3>2
  <2> QED BY <2>1, <2>2, <2>3
<1> QED BY <1>1, <1>2, <1>3 DEF WalkType, WalkerTypeOK, WalkInv

(* The walker's variables keep their types: in particular the book never   *)
(* holds less than nothing between two rows (episodes.go:216-254).         *)
THEOREM WalkerIsTyped == Spec => []WalkerTypeOK
BY WalkInvHolds, WalkIsTyped, PTL

-----------------------------------------------------------------------------
(* The ledger: what the legs of an episode add up to.  Held is a recursive *)
(* function, which induction on the number of rows unfolds.                *)

(* A set that holds zero and the successor of each of its numbers holds    *)
(* them all: of the counterexamples' intervals one would be the least.     *)
LEMMA SetInduction ==
  ASSUME NEW S, 0 \in S, \A n \in Nat : n \in S => n + 1 \in S
  PROVE  \A n \in Nat : n \in S
<1> DEFINE T == {n \in Nat : n \notin S}
           W == {0 .. n : n \in T}
<1> SUFFICES ASSUME T # {} PROVE FALSE OBVIOUS
<1>1. IsWellFoundedOn(StrictSubsetOrdering(Nat), FiniteSubsetsOf(Nat))
  BY FS_StrictSubsetOrderingWellFounded
<1>2. W \subseteq FiniteSubsetsOf(Nat) /\ W # {}
  <2>1. \A n \in Nat : IsFiniteSet(0 .. n) /\ 0 .. n \in SUBSET Nat BY FS_Interval
  <2> QED BY <2>1 DEF FiniteSubsetsOf
<1> HIDE DEF W
<1>3. \E x \in W : \A y \in W : ~(<<y, x>> \in StrictSubsetOrdering(Nat)) BY <1>1, <1>2, WFMin
<1>4. PICK n \in T : \A m \in T : ~(<<0 .. m, 0 .. n>> \in StrictSubsetOrdering(Nat))
  BY <1>3 DEF W
<1>5. n - 1 \in T
  <2>1. n \in Nat /\ n # 0 BY DEF T
  <2> QED BY <2>1 DEF T
<1>6. <<0 .. n - 1, 0 .. n>> \in StrictSubsetOrdering(Nat)
  <2>1. n \in Nat /\ n - 1 \in Nat BY <1>5 DEF T
  <2>2. 0 .. n - 1 \subseteq 0 .. n /\ n \in 0 .. n /\ n \notin 0 .. n - 1 BY <2>1
  <2>3. 0 .. n - 1 \in SUBSET Nat /\ 0 .. n \in SUBSET Nat /\ 0 .. n - 1 # 0 .. n BY <2>1, <2>2
  <2> QED BY <2>2, <2>3 DEF StrictSubsetOrdering
<1> QED BY <1>4, <1>5, <1>6

(* g holds the sums of the legs up to row n, as Held defines them.         *)
SumsTo(g, rs, from, n) ==
  \A j \in 0 .. n : g[j] = IF j < from THEN 0 ELSE g[j - 1] + Change(rs, j)

(* Such sums exist up to every row, and are the only ones.                 *)
LEMMA SumsExtend ==
  ASSUME NEW rs, NEW from \in Nat \ {0}
  PROVE  \A n \in Nat : \E g : SumsTo(g, rs, from, n)
<1> DEFINE S == {n \in Nat : \E g : SumsTo(g, rs, from, n)}
<1>1. 0 \in S
  <2>1. SumsTo([j \in {0} |-> 0], rs, from, 0) BY DEF SumsTo
  <2> QED BY <2>1
<1>2. ASSUME NEW n \in Nat, n \in S PROVE n + 1 \in S
  <2>1. PICK g : SumsTo(g, rs, from, n) BY <1>2
  <2> DEFINE last == IF n + 1 < from THEN 0 ELSE g[n] + Change(rs, n + 1)
             h == [j \in 0 .. n + 1 |-> IF j = n + 1 THEN last ELSE g[j]]
  <2>2. \A j \in 0 .. n + 1 : j \in 0 .. n \/ j = n + 1 OBVIOUS
  <2>3. \A j \in 0 .. n : h[j] = g[j] /\ (j > 0 => h[j - 1] = g[j - 1]) OBVIOUS
  <2>4. h[n + 1] = last /\ h[(n + 1) - 1] = g[n] OBVIOUS
  <2> HIDE DEF h
  <2>5. \A j \in 0 .. n + 1 : h[j] = IF j < from THEN 0 ELSE h[j - 1] + Change(rs, j)
    BY <2>1, <2>2, <2>3, <2>4 DEF SumsTo
  <2>6. SumsTo(h, rs, from, n + 1) BY <2>5 DEF SumsTo
  <2> QED BY <2>6
<1> HIDE DEF S
<1>3. \A n \in Nat : n \in S BY <1>1, <1>2, SetInduction
<1> QED BY <1>3 DEF S

LEMMA SumsAgree ==
  ASSUME NEW rs, NEW from \in Nat \ {0}, NEW n \in Nat, NEW g, NEW h,
         SumsTo(g, rs, from, n), SumsTo(h, rs, from, n)
  PROVE  g[n] = h[n]
<1> DEFINE S == {j \in Nat : j <= n => g[j] = h[j]}
<1>1. 0 \in S BY DEF SumsTo
<1>2. ASSUME NEW j \in Nat, j \in S PROVE j + 1 \in S
  <2> SUFFICES ASSUME j + 1 <= n PROVE g[j + 1] = h[j + 1] OBVIOUS
  <2>1. j + 1 \in 0 .. n /\ (j + 1) - 1 = j /\ g[j] = h[j] BY <1>2
  <2> QED BY <2>1 DEF SumsTo
<1> HIDE DEF S
<1>3. \A j \in Nat : j \in S BY <1>1, <1>2, SetInduction
<1> QED BY <1>3 DEF S

(* What is held is what was held before, and the change.                   *)
LEMMA HeldUnfolds ==
  ASSUME NEW rs, NEW from \in Nat \ {0}, NEW i \in Nat
  PROVE  Held(rs, from, i) =
           IF i < from THEN 0 ELSE Held(rs, from, i - 1) + Change(rs, i)
<1> DEFINE Sums(h) == h = [j \in Nat |-> IF j < from THEN 0 ELSE h[j - 1] + Change(rs, j)]
           part(n) == CHOOSE g : SumsTo(g, rs, from, n)
           whole == [n \in Nat |-> part(n)[n]]
           held == CHOOSE h : Sums(h)
<1>1. \A n \in Nat : SumsTo(part(n), rs, from, n) BY SumsExtend
<1> HIDE DEF part
<1>2. ASSUME NEW n \in Nat
      PROVE  whole[n] = IF n < from THEN 0 ELSE whole[n - 1] + Change(rs, n)
  <2>1. n \in 0 .. n /\ part(n)[n] = IF n < from THEN 0 ELSE part(n)[n - 1] + Change(rs, n)
    BY <1>1 DEF SumsTo
  <2>2. n > 0 => part(n)[n - 1] = part(n - 1)[n - 1]
    <3> SUFFICES ASSUME n > 0 PROVE part(n)[n - 1] = part(n - 1)[n - 1] OBVIOUS
    <3>1. n - 1 \in Nat /\ n - 1 \in 0 .. n - 1 /\ 0 .. n - 1 \subseteq 0 .. n OBVIOUS
    <3>2. SumsTo(part(n), rs, from, n - 1) /\ SumsTo(part(n - 1), rs, from, n - 1)
      BY <1>1, <3>1 DEF SumsTo
    <3>3. part(n)[n - 1] = part(n - 1)[n - 1]
      BY <3>1, <3>2, SumsAgree
    <3> QED BY <3>3
  <2> QED BY <2>1, <2>2
<1>3. Sums(whole) BY <1>2
<1>4. Sums(held)
  <2> HIDE DEF whole
  <2> QED BY <1>3
<1>5. Held(rs, from, i) = held[i] /\ (i > 0 => Held(rs, from, i - 1) = held[i - 1])
  BY DEF Held
<1> HIDE DEF held
<1> QED BY <1>4, <1>5

(* What is held after a row does not look at later rows.                   *)
LEMMA HeldLooksBack ==
  ASSUME NEW rs, NEW qs, NEW from \in Nat \ {0}, NEW n \in Nat,
         \A j \in from .. n : qs[j] = rs[j]
  PROVE  \A i \in 0 .. n : Held(qs, from, i) = Held(rs, from, i)
<1> DEFINE S == {i \in Nat : i <= n => Held(qs, from, i) = Held(rs, from, i)}
<1>1. 0 \in S
  <2>1. 0 \in Nat /\ 0 < from OBVIOUS
  <2> QED BY <2>1, HeldUnfolds
<1>2. ASSUME NEW i \in Nat, i \in S PROVE i + 1 \in S
  <2> SUFFICES ASSUME i + 1 <= n PROVE Held(qs, from, i + 1) = Held(rs, from, i + 1) OBVIOUS
  <2>1. i + 1 \in Nat /\ (i + 1) - 1 = i /\ Held(qs, from, i) = Held(rs, from, i) BY <1>2
  <2>2. ~(i + 1 < from) => Change(qs, i + 1) = Change(rs, i + 1) BY DEF Change
  <2>3. Held(qs, from, i + 1) = IF i + 1 < from THEN 0 ELSE Held(qs, from, i) + Change(qs, i + 1)
    BY <2>1, HeldUnfolds
  <2>4. Held(rs, from, i + 1) = IF i + 1 < from THEN 0 ELSE Held(rs, from, i) + Change(rs, i + 1)
    BY <2>1, HeldUnfolds
  <2> QED BY <2>1, <2>2, <2>3, <2>4
<1> HIDE DEF S
<1>3. \A i \in Nat : i \in S BY <1>1, <1>2, SetInduction
<1> QED BY <1>3 DEF S

LEMMA ChangeOfRow ==
  ASSUME NEW rs, NEW n \in Nat, Ordered(rs, n)
  PROVE  \A i \in 1 .. n : /\ rs[i].amount \in Nat \ {0} /\ Change(rs, i) \in Int
                           /\ rs[i].side \in {"buy", "sell"}
<1> TAKE i \in 1 .. n
<1>1. rs[i] \in RowType BY DEF Ordered
<1>2. rs[i].amount \in Nat \ {0} /\ rs[i].side \in {"buy", "sell"}
  BY <1>1, WalkerConstantsOK DEF RowType
<1>3. rs[i].amount \in Int /\ - rs[i].amount \in Int BY <1>2
<1>4. Change(rs, i) \in Int BY <1>3 DEF Change
<1> QED BY <1>2, <1>4

(* What is held is a number, whatever was sold.                            *)
LEMMA HeldIsInt ==
  ASSUME NEW rs, NEW n \in Nat, Ordered(rs, n), NEW from \in Nat \ {0}
  PROVE  \A i \in 0 .. n : Held(rs, from, i) \in Int
<1> DEFINE S == {i \in Nat : i <= n => Held(rs, from, i) \in Int}
<1>1. 0 \in S
  <2>1. 0 \in Nat /\ 0 < from OBVIOUS
  <2>2. Held(rs, from, 0) = 0 BY <2>1, HeldUnfolds
  <2> QED BY <2>2
<1>2. ASSUME NEW i \in Nat, i \in S PROVE i + 1 \in S
  <2> SUFFICES ASSUME i + 1 <= n PROVE Held(rs, from, i + 1) \in Int OBVIOUS
  <2>1. i + 1 \in Nat /\ (i + 1) - 1 = i /\ Held(rs, from, i) \in Int BY <1>2
  <2>2. Change(rs, i + 1) \in Int BY ChangeOfRow
  <2>3. Held(rs, from, i + 1) = IF i + 1 < from THEN 0 ELSE Held(rs, from, i) + Change(rs, i + 1)
    BY <2>1, HeldUnfolds
  <2> QED BY <2>1, <2>2, <2>3
<1> HIDE DEF S
<1>3. \A i \in Nat : i \in S BY <1>1, <1>2, SetInduction
<1> QED BY <1>3 DEF S

(* p is the most that was held.                                            *)
PeakIs(p, rs, from, n) ==
  /\ p \in Nat /\ p \in {0} \cup {Held(rs, from, j) : j \in from .. n}
  /\ \A j \in from .. n : p >= Held(rs, from, j)

(* There is but one peak, and Peak is it.                                  *)
LEMMA PeakKnown ==
  ASSUME NEW rs, NEW n \in Nat, Ordered(rs, n), NEW from \in Nat \ {0},
         NEW p, PeakIs(p, rs, from, n)
  PROVE  Peak(rs, from, n) = p /\ Tolerance(rs, from, n) = Eps(p)
<1> DEFINE S == {0} \cup {Held(rs, from, j) : j \in from .. n}
<1>1. \A j \in from .. n : Held(rs, from, j) \in Int BY HeldIsInt
<1>2. S \subseteq Int /\ p \in S /\ \A x \in S : p >= x BY <1>1 DEF PeakIs
<1> HIDE DEF S
<1>3. \A m \in S : (\A x \in S : m >= x) => m = p BY <1>2
<1>4. Max(S) = p BY <1>2, <1>3 DEF Max
<1> QED BY <1>4 DEF Peak, S, Tolerance, Eps

(* The peak grows with what is held, as it does in positionBook.           *)
LEMMA PeakGrows ==
  ASSUME NEW rs, NEW n \in Nat, Ordered(rs, n + 1), NEW from \in 1 .. n + 1,
         NEW p, PeakIs(p, rs, from, n)
  PROVE  LET h == Held(rs, from, n + 1)
         IN  PeakIs(IF h > p THEN h ELSE p, rs, from, n + 1)
<1> DEFINE h == Held(rs, from, n + 1)
<1>1. h \in Int BY HeldIsInt
<1>2. from .. n + 1 = (from .. n) \cup {n + 1} OBVIOUS
<1>3. {Held(rs, from, j) : j \in from .. n + 1} = {Held(rs, from, j) : j \in from .. n} \cup {h}
  BY <1>2
<1>4. \A j \in from .. n : Held(rs, from, j) \in Int BY HeldIsInt
<1> HIDE DEF h
<1>5. CASE h > p
  <2>1. h \in Nat BY <1>5, <1>1 DEF PeakIs
  <2>2. \A j \in from .. n : h >= Held(rs, from, j) BY <1>5, <1>1, <1>4 DEF PeakIs
  <2>3. \A j \in from .. n + 1 : h >= Held(rs, from, j) BY <2>1, <2>2, <1>2 DEF h
  <2>4. PeakIs(h, rs, from, n + 1) BY <2>1, <2>3, <1>3 DEF PeakIs
  <2> QED BY <2>4, <1>5 DEF h
<1>6. CASE ~(h > p)
  <2>1. p \in Nat BY DEF PeakIs
  <2>2. \A j \in from .. n + 1 : p >= Held(rs, from, j) BY <2>1, <1>6, <1>1, <1>2 DEF PeakIs, h
  <2>3. PeakIs(p, rs, from, n + 1) BY <2>1, <2>2, <1>3 DEF PeakIs
  <2> QED BY <2>3, <1>6 DEF h
<1> QED BY <1>5, <1>6

(* The book is what the legs from row a on add up to.                      *)
BookIs(b, rs, a, n) == b.qty = Held(rs, a, n) /\ PeakIs(b.peak, rs, a, n)

LEMMA HeldOfNoLegs ==
  ASSUME NEW rs, NEW n \in Nat
  PROVE  Held(rs, n + 1, n) = 0
<1>1. n + 1 \in Nat \ {0} /\ n < n + 1 OBVIOUS
<1> QED BY <1>1, HeldUnfolds

LEMMA BookOfNoLegs ==
  ASSUME NEW rs, NEW n \in Nat
  PROVE  BookIs(Zero, rs, n + 1, n)
<1>1. Held(rs, n + 1, n) = 0 BY HeldOfNoLegs
<1>2. (n + 1) .. n = {} OBVIOUS
<1> QED BY <1>1, <1>2 DEF BookIs, PeakIs, Zero

(* positionBook follows the sums of the legs (episodes.go:216-254).        *)
LEMMA BookGoesOn ==
  ASSUME NEW rs, NEW n \in Nat, Ordered(rs, n + 1), NEW a \in 1 .. n + 1,
         NEW b \in [qty : Int, peak : Nat], BookIs(b, rs, a, n)
  PROVE  /\ rs[n + 1].side = "buy" => BookIs(Add(b, rs[n + 1].amount), rs, a, n + 1)
         /\ rs[n + 1].side = "sell" => BookIs(Sold(b, rs[n + 1].amount), rs, a, n + 1)
<1> DEFINE h == Held(rs, a, n + 1)
           m == rs[n + 1].amount
<1>1. m \in Nat \ {0} BY ChangeOfRow
<1>2. h = b.qty + Change(rs, n + 1)
  <2>1. n + 1 \in Nat /\ (n + 1) - 1 = n /\ ~(n + 1 < a) OBVIOUS
  <2>2. h = IF n + 1 < a THEN 0 ELSE Held(rs, a, (n + 1) - 1) + Change(rs, n + 1)
    <3> HIDE DEF m
    <3>1. n + 1 \in Nat /\ a \in Nat \ {0} OBVIOUS
    <3> QED BY <3>1, HeldUnfolds DEF h
  <2> QED BY <2>1, <2>2 DEF BookIs
<1>3. PeakIs(IF h > b.peak THEN h ELSE b.peak, rs, a, n + 1)
  BY PeakGrows DEF BookIs
<1>4. b.qty <= b.peak
  <2>1. CASE a = n + 1
    <3>1. b.qty = 0 BY <2>1, HeldOfNoLegs DEF BookIs
    <3> QED BY <3>1
  <2>2. CASE a <= n
    <3>1. n \in a .. n BY <2>2
    <3> QED BY <3>1 DEF BookIs, PeakIs
  <2> QED BY <2>1, <2>2
<1> HIDE DEF h
<1>5. CASE rs[n + 1].side = "buy"
  <2>1. h = b.qty + m BY <1>2, <1>5 DEF Change
  <2>2. Add(b, m).qty = h /\ Add(b, m).peak = IF h > b.peak THEN h ELSE b.peak
    BY <2>1 DEF Add
  <2> QED BY <2>2, <1>3, <1>5 DEF BookIs, h
<1>6. CASE rs[n + 1].side = "sell"
  <2>1. h = b.qty - m BY <1>1, <1>2, <1>5, <1>6 DEF Change
  <2>2. ~(h > b.peak) BY <2>1, <1>1, <1>4
  <2>3. Sold(b, m).qty = h /\ Sold(b, m).peak = b.peak BY <2>1 DEF Sold
  <2> QED BY <2>2, <2>3, <1>3, <1>6 DEF BookIs, h
<1> QED BY <1>5, <1>6

-----------------------------------------------------------------------------
(* The ledger of a walk.                                                   *)

Holds(rs, a, n) == \A i \in a .. n : Held(rs, a, i) > Tolerance(rs, a, i)

(* An episode that is said to begin at zero follows one that ended there.  *)
Backed(E, id, origin) ==
  origin = "visible_zero" =>
    \E prev \in E : prev.id = <<id[1], id[2] - 1>> /\ prev.status = "closed"

PastAddsUp(E, rs) == \A ep \in E : LegsAddUp(rs, ep) /\ Backed(E, ep.id, ep.origin)

Ledger(w, rs, a, n) ==
  /\ PastAddsUp(w.episodes, rs)
  /\ IF w.cur = NULL THEN Backed(w.episodes, <<w.group, w.seq + 1>>, w.origin)
     ELSE /\ Backed(w.episodes, w.cur.id, w.cur.origin)
          /\ BookIs(w.book, rs, a, n) /\ Holds(rs, a, n)

(* Where the current episode begins is known from the walk alone.          *)
LEMMA SamePlace ==
  ASSUME NEW w, NEW rs, NEW qs, NEW n \in Nat, NEW a \in 1 .. n + 1, NEW b \in 1 .. n + 1,
         Current(w, rs, a, n), Current(w, qs, b, n)
  PROVE  a = b
<1>1. CASE w.cur = NULL BY <1>1 DEF Current
<1>2. CASE w.cur # NULL
  <2>1. a .. n = b .. n BY <1>2 DEF Current, MadeOf
  <2>2. a <= n => a \in b .. n BY <2>1
  <2>3. b <= n => b \in a .. n BY <2>1
  <2> QED BY <2>2, <2>3
<1> QED BY <1>1, <1>2

LEMMA SamePeak ==
  ASSUME NEW rs, NEW qs, NEW from \in Nat \ {0}, NEW n \in Nat,
         \A j \in from .. n : qs[j] = rs[j]
  PROVE  \A i \in 0 .. n : Tolerance(qs, from, i) = Tolerance(rs, from, i)
<1> TAKE i \in 0 .. n
<1>1. \A j \in from .. i : Held(qs, from, j) = Held(rs, from, j) BY HeldLooksBack
<1>2. {Held(qs, from, j) : j \in from .. i} = {Held(rs, from, j) : j \in from .. i} BY <1>1
<1> QED BY <1>2 DEF Tolerance, Peak

(* The sums of rows 1 to n do not look at later ones.                      *)
LEMMA LedgerExtends ==
  ASSUME NEW w, NEW rs, NEW qs, NEW n \in Nat, NEW a \in 1 .. n + 1,
         Past(w, rs, a), Ledger(w, rs, a, n), \A i \in 1 .. n : qs[i] = rs[i]
  PROVE  Ledger(w, qs, a, n)
<1>1. \A b \in 1 .. n + 1 : \A i \in 0 .. n : /\ Held(qs, b, i) = Held(rs, b, i)
                                          /\ Tolerance(qs, b, i) = Tolerance(rs, b, i)
  <2> TAKE b \in 1 .. n + 1
  <2>1. b \in Nat \ {0} /\ \A j \in b .. n : qs[j] = rs[j] OBVIOUS
  <2> QED BY <2>1, HeldLooksBack, SamePeak
<1>2. PastAddsUp(w.episodes, qs)
  <2> SUFFICES ASSUME NEW ep \in w.episodes PROVE LegsAddUp(qs, ep)
    BY DEF PastAddsUp, Ledger
  <2>1. PICK b, c \in 1 .. a - 1 : b <= c /\ ep.legs = b .. c
    BY DEF Past, PastEpisode, MadeOf
  <2>2. First(ep) = b /\ Last(ep) = c BY <2>1, FirstOfLegs
  <2>3. LegsAddUp(rs, ep) BY DEF Ledger, PastAddsUp
  <2>4. b \in 1 .. n + 1 /\ c \in 0 .. n /\ \A i \in b .. c - 1 : i \in 0 .. n BY <2>1
  <2>5. /\ Held(qs, b, c) = Held(rs, b, c) /\ Tolerance(qs, b, c) = Tolerance(rs, b, c)
        /\ \A i \in b .. c - 1 : /\ Held(qs, b, i) = Held(rs, b, i)
                                 /\ Tolerance(qs, b, i) = Tolerance(rs, b, i)
    BY <1>1, <2>4
  <2> QED BY <2>2, <2>3, <2>5, Zenon DEF LegsAddUp
<1>3. BookIs(w.book, rs, a, n) => BookIs(w.book, qs, a, n)
  <2>1. \A j \in a .. n : Held(qs, a, j) = Held(rs, a, j) BY <1>1
  <2>2. {Held(qs, a, j) : j \in a .. n} = {Held(rs, a, j) : j \in a .. n} BY <2>1
  <2>3. Held(qs, a, n) = Held(rs, a, n) BY <1>1
  <2> QED BY <2>1, <2>2, <2>3 DEF BookIs, PeakIs
<1>4. Holds(rs, a, n) => Holds(qs, a, n)
  <2>1. \A i \in a .. n : i \in 0 .. n OBVIOUS
  <2> QED BY <2>1, <1>1 DEF Holds
<1> QED BY <1>2, <1>3, <1>4 DEF Ledger

(* A position that is not empty holds more than the tolerance.             *)
LEMMA HoldsGoesOn ==
  ASSUME NEW rs, NEW n \in Nat, Ordered(rs, n + 1), NEW a \in 1 .. n + 1, Holds(rs, a, n),
         NEW b, BookIs(b, rs, a, n + 1), ~IsEmpty(b)
  PROVE  Holds(rs, a, n + 1)
<1>1. a .. n + 1 = (a .. n) \cup {n + 1} OBVIOUS
<1>2. Tolerance(rs, a, n + 1) = Eps(b.peak) BY PeakKnown DEF BookIs
<1>3. Held(rs, a, n + 1) \in Int BY HeldIsInt
<1>4. Eps(b.peak) \in Nat BY EpsIsSmall DEF BookIs, PeakIs
<1>5. Held(rs, a, n + 1) > Tolerance(rs, a, n + 1)
  BY <1>2, <1>3, <1>4 DEF BookIs, IsEmpty
<1> QED BY <1>1, <1>5 DEF Holds

(* The steps of the walker keep the ledger.                                *)
LEMMA FinalizeLedger ==
  ASSUME NEW w \in WalkType, NEW rs, w.cur # NULL, PastAddsUp(w.episodes, rs),
         LegsAddUp(rs, w.cur), Backed(w.episodes, w.cur.id, w.cur.origin)
  PROVE  PastAddsUp(Finalize(w).episodes, rs)
<1>1. Finalize(w).episodes = w.episodes \cup {w.cur} BY FinalizeFields
<1> QED BY <1>1 DEF PastAddsUp, Backed

(* An open episode adds up as long as something is held.                   *)
LEMMA OpenAddsUp ==
  ASSUME NEW ep, NEW rs, NEW a \in Nat, NEW n \in Nat, a <= n, ep.legs = a .. n,
         ep.status = "open", Holds(rs, a, n)
  PROVE  LegsAddUp(rs, ep)
<1>1. First(ep) = a /\ Last(ep) = n BY FirstOfLegs
<1>2. n \in a .. n /\ \A i \in a .. n - 1 : i \in a .. n OBVIOUS
<1> QED BY <1>1, <1>2 DEF LegsAddUp, Holds

LEMMA EnterLedger ==
  ASSUME NEW w, NEW rs, NEW n \in Nat, Ordered(rs, n + 1), NEW a \in 1 .. n + 1,
         Shape(w, rs, a, n), Settled(w, rs, a, n), Ledger(w, rs, a, n)
  PROVE  \E b \in 1 .. n + 1 : LET v == Enter(w, rs[n + 1])
                               IN  Entered(v, rs, b, n, rs[n + 1]) /\ Ledger(v, rs, b, n)
<1> DEFINE row == rs[n + 1]
           v == Enter(w, row)
<1>1. PICK b \in 1 .. n + 1 : Entered(v, rs, b, n, row)
  <2>1. Walk(w, rs, n) BY DEF Walk
  <2> QED BY <2>1, EnterShape
<1>2. w \in WalkType BY DEF Shape
<1>3. CASE w.cur # NULL /\ w.group = row.group
  <2>1. v = w BY <1>3 DEF Enter
  <2>2. a = b BY <2>1, <1>1, SamePlace DEF Entered, Shape
  <2> QED BY <2>1, <2>2, <1>1
<1>4. CASE ~(w.cur # NULL /\ w.group = row.group)
  <2> DEFINE f == Finalize(w)
             g == IF w.group = row.group THEN f ELSE NewGroup(f, row.group)
  <2>1. /\ f \in WalkType /\ PastAddsUp(f.episodes, rs) /\ f.group = w.group
        /\ w.cur = NULL => f = w
    <3>1. CASE w.cur = NULL
      <4>1. f = w BY <3>1 DEF Finalize
      <4> QED BY <4>1, <1>2 DEF Ledger
    <3>2. CASE w.cur # NULL
      <4>1. a <= n /\ w.cur.status = "open" BY <3>2 DEF Settled
      <4>2. w.cur.legs = a .. n BY <3>2 DEF Shape, Current, MadeOf
      <4>3. LegsAddUp(rs, w.cur) BY <3>2, <4>1, <4>2, OpenAddsUp DEF Ledger
      <4> QED BY <4>3, <3>2, <1>2, FinalizeLedger, FinalizeFields DEF Ledger
    <3> QED BY <3>1, <3>2
  <2> HIDE DEF f
  <2>2. /\ g.episodes = f.episodes /\ g.seq \in Nat /\ g.group = row.group
        /\ Backed(g.episodes, <<row.group, g.seq + 1>>, g.origin)
    <3>1. CASE w.group = row.group
      <4>1. w.cur = NULL /\ g = w BY <3>1, <1>4, <2>1
      <4> QED BY <4>1, <2>1, <3>1, <1>2 DEF Ledger, WalkType
    <3>2. CASE w.group # row.group
      <4>1. /\ g.episodes = f.episodes /\ g.seq = 0 /\ g.group = row.group
            /\ g.origin = "censored"
        BY <3>2, <2>1 DEF NewGroup, WalkType
      <4> QED BY <4>1 DEF Backed
    <3> QED BY <3>1, <3>2
  <2>3. g \in WalkType
    <3>1. row.group \in DOMAIN Groups
      <4>1. n + 1 \in 1 .. n + 1 OBVIOUS
      <4> QED BY <4>1 DEF Ordered, RowType
    <3>2. /\ row.group \in 0 .. Len(Groups) /\ "censored" \in Origins /\ 0 \in Nat
          /\ Zero \in [qty : Int, peak : Nat]
      BY <3>1, WalkerConstantsOK DEF Zero, Origins
    <3>3. NewGroup(f, row.group) =
            [f EXCEPT !.origin = "censored", !.book = Zero, !.seq = 0, !.group = row.group]
      BY DEF NewGroup
    <3>4. NewGroup(f, row.group) \in WalkType BY <2>1, <3>2, <3>3 DEF WalkType
    <3> QED BY <2>1, <3>4
  <2>4. v = [g EXCEPT !.seq = @ + 1, !.cur = NewEpisode(g, row)] BY <1>4 DEF Enter, f
  <2> HIDE DEF g
  <2> DEFINE ep == NewEpisode(g, row)
  <2>5. /\ ep.id = <<row.group, g.seq + 1>> /\ ep.legs = {}
        /\ ep.origin = IF row.side = "sell" THEN "censored" ELSE g.origin
    BY DEF NewEpisode
  <2> HIDE DEF ep
  <2>6. v.cur = ep /\ v.episodes = g.episodes BY <2>3, <2>4 DEF WalkType, ep
  <2> HIDE DEF v
  <2>7. v.cur # NULL BY <1>1 DEF Entered
  <2>8. b = n + 1
    <3>1. b .. n = {} BY <1>1, <2>5, <2>6, <2>7 DEF Entered, Shape, Current, MadeOf
    <3>2. b <= n => b \in b .. n OBVIOUS
    <3> QED BY <3>1, <3>2
  <2>9. BookIs(v.book, rs, b, n) BY <2>8, <1>1, BookOfNoLegs DEF Entered
  <2>10. Holds(rs, b, n)
    <3>1. b .. n = {} BY <2>8
    <3> QED BY <3>1 DEF Holds
  <2>11. Backed(v.episodes, v.cur.id, v.cur.origin) BY <2>2, <2>5, <2>6 DEF Backed
  <2>12. PastAddsUp(v.episodes, rs) BY <2>1, <2>2, <2>6
  <2>13. Ledger(v, rs, b, n) BY <2>7, <2>9, <2>10, <2>11, <2>12 DEF Ledger
  <2> QED BY <2>13, <1>1 DEF v
<1> QED BY <1>3, <1>4

LEMMA BuyLedger ==
  ASSUME NEW w, NEW rs, NEW n \in Nat, NEW a \in 1 .. n + 1, Ordered(rs, n + 1),
         rs[n + 1].side = "buy", Entered(w, rs, a, n, rs[n + 1]), Ledger(w, rs, a, n)
  PROVE  Ledger(Buy(w, rs[n + 1]), rs, a, n + 1)
<1> DEFINE row == rs[n + 1]
           v == Buy(w, row)
<1>1. /\ w \in WalkType /\ w.cur \in EpisodeType /\ w.cur # NULL
      /\ w.book \in [qty : Int, peak : Nat]
  BY DEF Entered, Shape, WalkType
<1>2. /\ v.book = Add(w.book, row.amount) /\ v.episodes = w.episodes
      /\ v.cur.id = w.cur.id /\ v.cur.origin = w.cur.origin
  BY <1>1 DEF Buy, WalkType, EpisodeType
<1>3. v.cur # NULL /\ ~IsEmpty(v.book)
  <2>1. Settled(v, rs, a, n + 1) /\ Current(v, rs, a, n + 1) BY BuyShape DEF Shape
  <2>2. a # (n + 1) + 1 OBVIOUS
  <2> QED BY <2>1, <2>2 DEF Settled, Current
<1> HIDE DEF v
<1>4. BookIs(v.book, rs, a, n + 1) BY <1>1, <1>2, BookGoesOn DEF Ledger
<1>5. Holds(rs, a, n + 1) BY <1>1, <1>3, <1>4, HoldsGoesOn DEF Ledger
<1>6. PastAddsUp(v.episodes, rs) /\ Backed(v.episodes, v.cur.id, v.cur.origin)
  BY <1>1, <1>2 DEF Ledger
<1>7. Ledger(v, rs, a, n + 1) BY <1>3, <1>4, <1>5, <1>6 DEF Ledger
<1> QED BY <1>7 DEF v

(* A sale that ends an episode leaves what its status says.                *)
LEMMA EndAddsUp ==
  ASSUME NEW rs, NEW n \in Nat, NEW a \in 1 .. n + 1, Ordered(rs, n + 1),
         rs[n + 1].side = "sell", Holds(rs, a, n),
         NEW b \in [qty : Int, peak : Nat], BookIs(b, rs, a, n),
         SellState(b, rs[n + 1].amount) # "remaining",
         NEW ep, ep.legs = a .. n + 1,
         ep.status = IF SellState(b, rs[n + 1].amount) = "closed" THEN "closed" ELSE "partial"
  PROVE  LegsAddUp(rs, ep)
<1> DEFINE left == Sold(b, rs[n + 1].amount)
           h == Held(rs, a, n + 1)
           p == left.peak
<1>1. First(ep) = a /\ Last(ep) = n + 1 /\ (n + 1) - 1 = n
  BY FirstOfLegs
<1>2. BookIs(left, rs, a, n + 1) BY BookGoesOn
<1>3. Tolerance(rs, a, n + 1) = Eps(p) BY <1>2, PeakKnown DEF BookIs
<1>4. h \in Int /\ left.qty = h /\ p \in Nat /\ Eps(p) \in Nat
  <2>1. h \in Int BY HeldIsInt
  <2>2. left.qty = h /\ p \in Nat BY <1>2 DEF BookIs, PeakIs
  <2> QED BY <2>1, <2>2, EpsIsSmall
<1>5. h <= Eps(p)
  <2>1. IsEmpty(left) BY DEF SellState
  <2> QED BY <2>1, <1>4 DEF IsEmpty
<1>6. SellState(b, rs[n + 1].amount) = "closed" <=> - h <= Eps(p)
  <2> DEFINE r == [left EXCEPT !.qty = - @]
  <2>1. IsEmpty(left) BY DEF SellState
  <2>2. r.qty = - h /\ r.peak = p BY <1>4 DEF Sold
  <2>3. SellState(b, rs[n + 1].amount) = IF IsEmpty(r) THEN "closed" ELSE "oversold"
    BY <2>1 DEF SellState
  <2> HIDE DEF left, r
  <2>4. IsEmpty(r) <=> - h <= Eps(p) BY <2>2 DEF IsEmpty
  <2> QED BY <2>3, <2>4
<1>7. \A i \in a .. n : Held(rs, a, i) > Tolerance(rs, a, i) BY DEF Holds
<1> HIDE DEF left, h, p
<1>8. CASE ep.status = "closed"
  <2>1. - h <= Eps(p) BY <1>6, <1>8
  <2>2. h \in - Eps(p) .. Eps(p) BY <2>1, <1>4, <1>5
  <2> QED BY <2>2, <1>1, <1>3, <1>7, <1>8 DEF LegsAddUp, h
<1>9. CASE ep.status = "partial"
  <2>1. ~(- h <= Eps(p)) BY <1>6, <1>9
  <2>2. h < - Eps(p) BY <2>1, <1>4
  <2> QED BY <2>2, <1>1, <1>3, <1>7, <1>9 DEF LegsAddUp, h
<1> QED BY <1>8, <1>9

LEMMA SellLedger ==
  ASSUME NEW w, NEW rs, NEW n \in Nat, NEW a \in 1 .. n + 1, Ordered(rs, n + 1),
         rs[n + 1].side = "sell", Entered(w, rs, a, n, rs[n + 1]), Ledger(w, rs, a, n),
         NEW b \in 1 .. (n + 1) + 1, LET v == Sell(w, rs[n + 1])
                                     IN  Shape(v, rs, b, n + 1) /\ Settled(v, rs, b, n + 1)
  PROVE  Ledger(Sell(w, rs[n + 1]), rs, b, n + 1)
<1> DEFINE row == rs[n + 1]
           c == w.cur
           left == Sold(w.book, row.amount)
           state == SellState(w.book, row.amount)
           leg == [c EXCEPT
                     !.legs = @ \cup {row.n}, !.sells = @ + 1,
                     !.gap = @ \/ IsEmpty(w.book) \/ state = "oversold",
                     !.firstSellAt = IF @ = 0 THEN row.ts ELSE @,
                     !.partialExits = IF state = "remaining" THEN @ + 1 ELSE @]
           sold == [w EXCEPT !.cur = leg, !.book = left, !.origin = OriginAfter(state, @)]
           end == [leg EXCEPT !.closedAt = row.ts,
                              !.status = IF state = "closed" THEN state ELSE "partial"]
           ending == [sold EXCEPT !.cur = end]
           v == Sell(w, row)
<1>1. /\ w \in WalkType /\ c \in EpisodeType /\ c # NULL
      /\ w.book \in [qty : Int, peak : Nat] /\ row.n = n + 1
      /\ c.legs = a .. n /\ c.id = <<w.group, w.seq>> /\ w.seq \in Nat
  <2>1. n + 1 \in 1 .. n + 1 OBVIOUS
  <2> QED BY <2>1 DEF Entered, Shape, Current, MadeOf, WalkType, Ordered
<1>2. v = IF state = "remaining" THEN sold ELSE Finalize(ending)
  BY DEF Sell
<1>3. state \in {"remaining", "closed", "oversold"} BY DEF SellState
<1>4. BookIs(left, rs, a, n + 1) BY <1>1, BookGoesOn DEF Ledger
<1> HIDE DEF left, state
<1>5. /\ leg.id = c.id /\ leg.origin = c.origin /\ leg.legs = a .. n + 1
      /\ end.id = c.id /\ end.origin = c.origin /\ end.legs = a .. n + 1
      /\ end.status = IF state = "closed" THEN "closed" ELSE "partial"
  <2>1. c.legs \cup {row.n} = a .. n + 1 BY <1>1
  <2> QED BY <2>1, <1>1 DEF EpisodeType
<1> HIDE DEF leg, end
<1>6. /\ sold.cur = leg /\ sold.book = left /\ sold.episodes = w.episodes
      /\ ending.cur = end /\ ending.episodes = w.episodes
      /\ ending.group = w.group /\ ending.seq = w.seq
      /\ ending.origin = OriginAfter(state, w.origin)
  BY <1>1 DEF WalkType
<1>7. CASE state = "remaining"
  <2>1. v = sold BY <1>2, <1>7
  <2> HIDE DEF sold, v
  <2>2. leg # NULL /\ Current(v, rs, b, n + 1)
    <3>1. Settled(v, rs, b, n + 1) /\ Shape(v, rs, b, n + 1) BY DEF v
    <3>2. leg = NULL => v.book = Zero BY <3>1, <2>1, <1>6 DEF Settled
    <3>3. ~IsEmpty(left) BY <1>7 DEF state, SellState, left
    <3>4. IsEmpty(Zero) BY EpsIsSmall DEF IsEmpty, Zero
    <3> QED BY <3>1, <3>2, <3>3, <3>4, <2>1, <1>6 DEF Shape
  <2>3. b = a /\ ~IsEmpty(left)
    <3>1. leg.legs = b .. n + 1 BY <2>1, <2>2, <1>6 DEF Current, MadeOf
    <3>2. a \in b .. n + 1 /\ (b <= n + 1 => b \in a .. n + 1)
      <4>1. a \in a .. n + 1 OBVIOUS
      <4> QED BY <4>1, <3>1, <1>5
    <3>3. ~IsEmpty(left) BY <1>7 DEF state, SellState, left
    <3> QED BY <3>2, <3>3
  <2>4. Holds(rs, a, n + 1) BY <2>3, <1>1, <1>4, HoldsGoesOn DEF Ledger
  <2>5. PastAddsUp(v.episodes, rs) /\ Backed(v.episodes, v.cur.id, v.cur.origin)
    BY <2>1, <1>1, <1>5, <1>6 DEF Ledger
  <2>6. Ledger(v, rs, b, n + 1) BY <2>1, <2>2, <2>3, <2>4, <2>5, <1>4, <1>6 DEF Ledger
  <2> QED BY <2>6 DEF v
<1>8. CASE state # "remaining"
  <2>1. v = Finalize(ending) BY <1>2, <1>8
  <2>2. LegsAddUp(rs, end)
    BY <1>1, <1>5, <1>8, EndAddsUp DEF Ledger, state
  <2>3. /\ v.episodes = w.episodes \cup {end} /\ v.cur = NULL /\ v.group = w.group
        /\ v.seq = w.seq /\ v.origin = OriginAfter(state, w.origin)
    <3>1. end # NULL
      <4>0. c \in EpisodeType BY <1>1
      <4>1. row \in RowType /\ row.n \in Nat /\ row.ts \in Nat
        <5>1. n + 1 \in 1 .. n + 1 OBVIOUS
        <5>2. row \in RowType BY <5>1 DEF Ordered
        <5> QED BY <5>2 DEF RowType
      <4>2. /\ c.legs \cup {row.n} \in SUBSET Nat /\ c.sells + 1 \in Nat
            /\ (c.gap \/ IsEmpty(w.book) \/ state = "oversold") \in BOOLEAN
            /\ (IF c.firstSellAt = 0 THEN row.ts ELSE c.firstSellAt) \in Nat
            /\ (IF state = "remaining" THEN c.partialExits + 1 ELSE c.partialExits) \in Nat
        BY <4>0, <4>1 DEF EpisodeType
      <4>3. leg \in EpisodeType BY <1>1, <4>2 DEF EpisodeType, leg
      <4>4. end \in EpisodeType BY <4>3, <4>1 DEF EpisodeType, end
      <4> QED BY <4>4, WalkerNullOK
    <3> HIDE DEF ending, v
    <3>2. Finalize(ending) = [ending EXCEPT
              !.seen = @ \cup {Token(ending.cur.id)},
              !.entries = @ \cup {Lineage(e, ending.cur) : e \in ending.mine},
              !.episodes = @ \cup {ending.cur},
              !.cur = NULL, !.mine = {}, !.book = Reset(@)]
      BY <3>1, <1>6 DEF Finalize
    <3>3. DOMAIN ending = DOMAIN w BY DEF ending, sold
    <3>4. DOMAIN w = {"cur", "mine", "book", "group", "seq", "origin", "seen", "episodes",
                      "entries"}
      BY <1>1 DEF WalkType
    <3> QED BY <2>1, <3>2, <3>3, <3>4, <1>6
  <2> HIDE DEF v
  <2>4. PastAddsUp(v.episodes, rs)
    <3>1. PastAddsUp(w.episodes, rs) /\ Backed(w.episodes, end.id, end.origin)
      BY <1>1, <1>5 DEF Ledger
    <3> QED BY <2>2, <2>3, <3>1 DEF PastAddsUp, Backed
  <2>5. Backed(v.episodes, <<v.group, v.seq + 1>>, v.origin)
    <3>1. CASE state = "closed"
      <4>1. end.status = "closed" /\ end.id = <<v.group, (v.seq + 1) - 1>>
        BY <3>1, <2>3, <1>1, <1>5
      <4> QED BY <4>1, <2>3 DEF Backed
    <3>2. CASE state = "oversold"
      <4>1. v.origin = "censored" BY <3>2, <2>3 DEF OriginAfter
      <4> QED BY <4>1 DEF Backed
    <3> QED BY <3>1, <3>2, <1>3, <1>8
  <2>6. Ledger(v, rs, b, n + 1) BY <2>3, <2>4, <2>5 DEF Ledger
  <2> QED BY <2>6 DEF v
<1> QED BY <1>7, <1>8

(* The finished episodes add up, and the book follows the one in hand.     *)
LedgerInv ==
  IF ended THEN PastAddsUp(walk.episodes, rows)
  ELSE \E a \in 1 .. Len(rows) + 1 : /\ Shape(walk, rows, a, Len(rows))
                                    /\ Settled(walk, rows, a, Len(rows))
                                    /\ Ledger(walk, rows, a, Len(rows))

LEMMA LedgerStarts == Init => LedgerInv
<1> SUFFICES ASSUME Init PROVE LedgerInv OBVIOUS
<1>1. WalkInv /\ ~ended /\ Len(rows) = 0 BY WalkStarts DEF Init
<1>2. PICK a \in 1 .. Len(rows) + 1 :
        Shape(walk, rows, a, Len(rows)) /\ Settled(walk, rows, a, Len(rows))
  BY <1>1 DEF WalkInv, Walk
<1>3. walk.cur = NULL /\ walk.episodes = {} /\ walk.origin = "censored"
  BY DEF Init, StartOfWalk
<1>4. Ledger(walk, rows, a, Len(rows)) BY <1>3 DEF Ledger, PastAddsUp, Backed
<1> QED BY <1>1, <1>2, <1>4 DEF LedgerInv

LEMMA LedgerGoesOn == WalkInv /\ LedgerInv /\ [Next]_walkerVars => LedgerInv'
<1> SUFFICES ASSUME WalkInv, LedgerInv, [Next]_walkerVars PROVE LedgerInv' OBVIOUS
<1>1. CASE ReadRow
  <2> DEFINE n == Len(rows)
             rs == rows'
  <2>1. PICK row \in Trades(NextTimes) :
          NextRow(row) /\ rows' = Append(rows, row) /\ walk' = Walked(walk, row)
    BY <1>1 DEF ReadRow
  <2>2. ~ended /\ ended' = FALSE BY <1>1 DEF ReadRow
  <2>3. /\ n \in Nat /\ Len(rs) = n + 1 /\ rs[n + 1] = row
        /\ \A i \in 1 .. n : rs[i] = rows[i]
        /\ Ordered(rs, n + 1)
    BY <2>1, RowsStayOrdered DEF WalkInv
  <2>4. PICK a \in 1 .. n + 1 :
          Shape(walk, rows, a, n) /\ Settled(walk, rows, a, n) /\ Ledger(walk, rows, a, n)
    BY <2>2 DEF LedgerInv
  <2> HIDE DEF n, rs
  <2>5. Shape(walk, rs, a, n) /\ Settled(walk, rs, a, n)
    <3>1. Walk(walk, rs, n) BY <2>3, <2>4, WalkExtends DEF Walk
    <3>2. PICK b \in 1 .. n + 1 : Shape(walk, rs, b, n) /\ Settled(walk, rs, b, n)
      BY <3>1 DEF Walk
    <3>3. a = b BY <2>3, <2>4, <3>2, SamePlace DEF Shape
    <3> QED BY <3>2, <3>3
  <2>6. Ledger(walk, rs, a, n) BY <2>3, <2>4, LedgerExtends DEF Shape
  <2> DEFINE v == Enter(walk, row)
  <2>7. PICK b \in 1 .. n + 1 : Entered(v, rs, b, n, row) /\ Ledger(v, rs, b, n)
    BY <2>3, <2>5, <2>6, EnterLedger
  <2>8. row.side \in {"buy", "sell"} BY <2>1 DEF Trades
  <2> HIDE DEF v
  <2>9. \E d \in 1 .. (n + 1) + 1 : /\ Shape(walk', rs, d, n + 1)
                                    /\ Settled(walk', rs, d, n + 1)
                                    /\ Ledger(walk', rs, d, n + 1)
    <3>1. CASE row.side = "buy"
      <4>1. walk' = Buy(v, row) BY <3>1, <2>1 DEF Walked, v
      <4>2. Shape(walk', rs, b, n + 1) /\ Settled(walk', rs, b, n + 1)
        BY <4>1, <3>1, <2>3, <2>7, BuyShape
      <4>3. Ledger(walk', rs, b, n + 1) BY <4>1, <3>1, <2>3, <2>7, BuyLedger
      <4>4. b \in 1 .. (n + 1) + 1 BY <2>3
      <4> QED BY <4>2, <4>3, <4>4
    <3>2. CASE row.side = "sell"
      <4>1. walk' = Sell(v, row) BY <3>2, <2>1 DEF Walked, v
      <4>2. Walk(walk', rs, n + 1) BY <4>1, <3>2, <2>3, <2>7, SellShape
      <4>3. PICK d \in 1 .. (n + 1) + 1 :
              Shape(walk', rs, d, n + 1) /\ Settled(walk', rs, d, n + 1)
        BY <4>2 DEF Walk
      <4>4. Ledger(walk', rs, d, n + 1)
        BY <4>1, <4>3, <3>2, <2>3, <2>7, SellLedger
      <4> QED BY <4>3, <4>4
    <3> QED BY <3>1, <3>2, <2>8
  <2> QED BY <2>2, <2>3, <2>9 DEF LedgerInv, rs
<1>2. CASE EndOfRows
  <2>1. ~ended /\ ended' = TRUE /\ walk' = Finalize(walk) /\ rows' = rows
    BY <1>2 DEF EndOfRows
  <2>2. PICK a \in 1 .. Len(rows) + 1 : /\ Shape(walk, rows, a, Len(rows))
                                        /\ Settled(walk, rows, a, Len(rows))
                                        /\ Ledger(walk, rows, a, Len(rows))
    BY <2>1 DEF LedgerInv
  <2>3. Len(rows) \in Nat BY DEF WalkInv
  <2>4. PastAddsUp(walk'.episodes, rows)
    <3>1. CASE walk.cur = NULL BY <3>1, <2>1, <2>2 DEF Finalize, Ledger
    <3>2. CASE walk.cur # NULL
      <4>1. a <= Len(rows) /\ walk.cur.status = "open" BY <3>2, <2>2 DEF Settled
      <4>2. walk.cur.legs = a .. Len(rows) BY <3>2, <2>2 DEF Shape, Current, MadeOf
      <4>3. LegsAddUp(rows, walk.cur)
        BY <3>2, <4>1, <4>2, <2>2, <2>3, OpenAddsUp DEF Ledger
      <4>4. walk \in WalkType BY <2>2 DEF Shape
      <4> QED BY <4>3, <4>4, <3>2, <2>1, <2>2, FinalizeLedger DEF Ledger
    <3> QED BY <3>1, <3>2
  <2> QED BY <2>1, <2>4 DEF LedgerInv
<1>3. CASE UNCHANGED walkerVars BY <1>3 DEF walkerVars, LedgerInv
<1> QED BY <1>1, <1>2, <1>3 DEF Next

(* The inductive invariant of the ledger (episodes.go:216-254).            *)
THEOREM LedgerHolds == Spec => [](WalkInv /\ LedgerInv)
<1>1. Init => WalkInv /\ LedgerInv BY WalkStarts, LedgerStarts
<1>2. WalkInv /\ LedgerInv /\ [Next]_walkerVars => (WalkInv /\ LedgerInv)'
  BY WalkGoesOn, LedgerGoesOn
<1> QED BY <1>1, <1>2, PTL DEF Spec

(* The open episode adds up as the finished ones do.                       *)
LEMMA EpisodesAddUp ==
  ASSUME WalkInv, LedgerInv
  PROVE  \A ep \in Episodes : LegsAddUp(rows, ep) /\ Backed(Episodes, ep.id, ep.origin)
<1>1. CASE ended BY <1>1 DEF LedgerInv, WalkInv, Episodes, PastAddsUp
<1>2. CASE ~ended
  <2>1. PICK a \in 1 .. Len(rows) + 1 : /\ Shape(walk, rows, a, Len(rows))
                                        /\ Settled(walk, rows, a, Len(rows))
                                        /\ Ledger(walk, rows, a, Len(rows))
    BY <1>2 DEF LedgerInv
  <2>2. walk.cur # NULL => LegsAddUp(rows, walk.cur)
    <3> SUFFICES ASSUME walk.cur # NULL PROVE LegsAddUp(rows, walk.cur) OBVIOUS
    <3>1. a <= Len(rows) /\ walk.cur.status = "open" BY <2>1 DEF Settled
    <3>2. walk.cur.legs = a .. Len(rows) BY <2>1 DEF Shape, Current, MadeOf
    <3>3. Len(rows) \in Nat BY DEF WalkInv
    <3> QED BY <3>1, <3>2, <3>3, <2>1, OpenAddsUp DEF Ledger
  <2> QED BY <2>1, <2>2 DEF Episodes, Ledger, PastAddsUp, Backed
<1> QED BY <1>1, <1>2

(* The status of an episode is what its legs add up to                     *)
(* (episodes.go:216-254, 352-385).                                         *)
THEOREM StatusIsTheLedger == Spec => []StatusIsLedger
<1>1. WalkInv /\ LedgerInv => StatusIsLedger BY EpisodesAddUp DEF StatusIsLedger
<1> QED BY <1>1, LedgerHolds, PTL

(* What begins with a sale of nothing does not end at zero.                *)
LEMMA ClosedBeginsWithBuy ==
  ASSUME NEW rs, NEW n \in Nat, Ordered(rs, n), NEW b \in 1 .. n, NEW c \in b .. n,
         NEW ep, ep.legs = b .. c, ep.status = "closed", LegsAddUp(rs, ep)
  PROVE  rs[b].side = "buy"
<1> SUFFICES ASSUME rs[b].side = "sell" PROVE FALSE BY ChangeOfRow
<1>1. First(ep) = b /\ Last(ep) = c BY FirstOfLegs
<1>2. Held(rs, b, b) < 0 /\ Held(rs, b, b) \in Int
  <2>1. /\ b \in Nat \ {0} /\ b \in Nat /\ ~(b < b) /\ b - 1 \in Nat /\ b - 1 < b
    OBVIOUS
  <2>2. Held(rs, b, b) = Held(rs, b, b - 1) + Change(rs, b) /\ Held(rs, b, b - 1) = 0
    BY <2>1, HeldUnfolds
  <2>3. Change(rs, b) = - rs[b].amount /\ rs[b].amount \in Nat \ {0}
    BY ChangeOfRow DEF Change
  <2> QED BY <2>2, <2>3
<1>3. Tolerance(rs, b, b) = 0
  <2>1. PeakIs(0, rs, b, b) BY <1>2 DEF PeakIs
  <2>2. Ordered(rs, b) BY DEF Ordered
  <2>3. Tolerance(rs, b, b) = Eps(0) BY <2>1, <2>2, PeakKnown
  <2> QED BY <2>3, EpsIsSmall
<1>4. CASE b = c
  <2>1. Held(rs, b, b) \in - 0 .. 0 BY <1>1, <1>3, <1>4 DEF LegsAddUp
  <2> QED BY <2>1, <1>2
<1>5. CASE b < c
  <2>1. b \in b .. c - 1 BY <1>5
  <2>2. Held(rs, b, b) > Tolerance(rs, b, b) BY <2>1, <1>1 DEF LegsAddUp
  <2> QED BY <2>2, <1>2, <1>3
<1> QED BY <1>4, <1>5

(* The tolerance is never negative.                                        *)
LEMMA ToleranceIsNat ==
  ASSUME NEW rs, NEW n \in Nat, Ordered(rs, n), NEW b \in 1 .. n
  PROVE  \A i \in b .. n : Tolerance(rs, b, i) \in Nat
<1> DEFINE S == {i \in Nat : i \in b .. n => \E p : PeakIs(p, rs, b, i)}
<1>1. 0 \in S OBVIOUS
<1>2. ASSUME NEW i \in Nat, i \in S PROVE i + 1 \in S
  <2> SUFFICES ASSUME i + 1 \in b .. n PROVE \E p : PeakIs(p, rs, b, i + 1) OBVIOUS
  <2>1. Ordered(rs, i + 1) /\ b \in 1 .. i + 1 BY DEF Ordered
  <2>2. \E p : PeakIs(p, rs, b, i)
    <3>1. CASE b <= i BY <3>1, <1>2
    <3>2. CASE b = i + 1
      <4>1. b .. i = {} BY <3>2
      <4>2. PeakIs(0, rs, b, i) BY <4>1 DEF PeakIs
      <4> QED BY <4>2
    <3> QED BY <3>1, <3>2, <2>1
  <2>3. PICK p : PeakIs(p, rs, b, i) BY <2>2
  <2> QED BY <2>1, <2>3, PeakGrows
<1> HIDE DEF S
<1>3. \A i \in Nat : i \in S BY <1>1, <1>2, SetInduction
<1>4. ASSUME NEW i \in b .. n PROVE Tolerance(rs, b, i) \in Nat
  <2>1. PICK p : PeakIs(p, rs, b, i) BY <1>3 DEF S
  <2>2. Ordered(rs, i) BY DEF Ordered
  <2>3. Tolerance(rs, b, i) = Eps(p) /\ p \in Nat BY <2>1, <2>2, PeakKnown DEF PeakIs
  <2> QED BY <2>3, EpsIsSmall
<1> QED BY <1>4

(* An episode without a gap never sells more than was seen.                *)
LEMMA NeverOversold ==
  ASSUME NEW rs, NEW n \in Nat, Ordered(rs, n), NEW b \in 1 .. n, NEW c \in b .. n,
         NEW ep, ep.legs = b .. c, ep.status \in {"closed", "open"}, LegsAddUp(rs, ep)
  PROVE  \A i \in b .. c : Held(rs, b, i) >= - Tolerance(rs, b, i)
<1> TAKE i \in b .. c
<1>1. First(ep) = b /\ Last(ep) = c BY FirstOfLegs
<1>2. Held(rs, b, i) \in Int /\ Tolerance(rs, b, i) \in Nat
  <2>1. b \in Nat \ {0} /\ i \in 0 .. n /\ i \in b .. n OBVIOUS
  <2>2. Held(rs, b, i) \in Int BY <2>1, HeldIsInt
  <2>3. Tolerance(rs, b, i) \in Nat BY <2>1, ToleranceIsNat
  <2> QED BY <2>2, <2>3
<1>3. CASE i < c
  <2>1. i \in b .. c - 1 BY <1>3
  <2>2. Held(rs, b, i) > Tolerance(rs, b, i) BY <2>1, <1>1 DEF LegsAddUp
  <2> QED BY <2>2, <1>2
<1>4. CASE i = c /\ ep.status = "closed"
  <2>1. Held(rs, b, i) \in - Tolerance(rs, b, i) .. Tolerance(rs, b, i)
    BY <1>1, <1>4 DEF LegsAddUp
  <2> QED BY <2>1, <1>2
<1>5. CASE i = c /\ ep.status = "open"
  <2>1. Held(rs, b, i) > Tolerance(rs, b, i) BY <1>1, <1>5 DEF LegsAddUp
  <2> QED BY <2>1, <1>2
<1> QED BY <1>3, <1>4, <1>5

(* The episode, and the one before it that backs it, began with a buy.     *)
LEMMA NoGapInResearch == WalkInv /\ LedgerInv => ResearchHasNoGap
<1> SUFFICES ASSUME WalkInv, LedgerInv, NEW ep \in Episodes,
                    ep.origin = "visible_zero", ~ep.gap
             PROVE  \E prev \in Episodes :
                      /\ prev.id = <<ep.id[1], ep.id[2] - 1>> /\ prev.status = "closed"
                      /\ \A d \in {prev, ep} :
                           /\ rows[First(d)].side = "buy"
                           /\ \A i \in d.legs :
                                Held(rows, First(d), i) >= - Tolerance(rows, First(d), i)
  BY DEF ResearchHasNoGap
<1>1. PICK prev \in Episodes :
        prev.id = <<ep.id[1], ep.id[2] - 1>> /\ prev.status = "closed"
  BY EpisodesAddUp DEF Backed
<1>2. Len(rows) \in Nat /\ Ordered(rows, Len(rows)) BY DEF WalkInv
<1>3. ASSUME NEW d \in Episodes, d.status \in {"closed", "open"}, d.status = "open" => ~d.gap
      PROVE  /\ rows[First(d)].side = "buy"
             /\ \A i \in d.legs : Held(rows, First(d), i) >= - Tolerance(rows, First(d), i)
  <2>1. PICK b, c \in 1 .. Len(rows) : b <= c /\ MadeOf(d, rows, b, c) BY EpisodesOfRows
  <2>2. d.legs = b .. c /\ c \in b .. Len(rows) BY <2>1, <1>2 DEF MadeOf
  <2>3. First(d) = b BY <2>1, <2>2, <1>2, FirstOfLegs
  <2>4. LegsAddUp(rows, d) BY EpisodesAddUp
  <2>5. rows[b].side = "buy"
    <3>1. CASE d.status = "closed" BY <3>1, <1>2, <2>2, <2>4, ClosedBeginsWithBuy
    <3>2. CASE d.status = "open" BY <3>2, <1>3, <2>1 DEF MadeOf
    <3> QED BY <3>1, <3>2, <1>3
  <2>6. \A i \in b .. c : Held(rows, b, i) >= - Tolerance(rows, b, i)
    BY <1>2, <1>3, <2>2, <2>4, NeverOversold
  <2> QED BY <2>2, <2>3, <2>5, <2>6
<1>4. ep.status \in {"closed", "open"}
  <2>1. ep \in EpisodeType BY EpisodesOfRows
  <2>2. ep.status # "partial"
    <3>1. CASE ep \in walk.episodes BY <3>1, EntriesOfEpisodes DEF GapIsPartial
    <3>2. CASE ep = walk.cur /\ walk.cur # NULL BY <3>2, Described
    <3> QED BY <3>1, <3>2 DEF Episodes
  <2> QED BY <2>1, <2>2 DEF EpisodeType
<1> QED BY <1>1, <1>3, <1>4

(* Research never rests on a position whose beginning was not seen         *)
(* (profile.go:10-19, episodes.go:371-382).                                *)
THEOREM ResearchIsWhole == Spec => []ResearchHasNoGap
BY LedgerHolds, NoGapInResearch, PTL

-----------------------------------------------------------------------------
(* The card.                                                               *)

LEMMA ResearchIsCounted ==
  ASSUME NEW S
  PROVE  /\ ResearchOf(EvidenceCounts(S)) = {x \in S : Research(x)}
         /\ EvidenceCounts(S)["confirmed"] = {x \in S : Strict(x)}
<1>1. \A x \in S : Research(x) <=> Bucket(x) \in {"confirmed", "visible"}
  BY DEF Research, Bucket
<1>2. \A x \in S : Strict(x) <=> Bucket(x) = "confirmed" BY DEF Strict, Bucket
<1>3. EvidenceCounts(S)["confirmed"] = {x \in S : Bucket(x) = "confirmed"}
      /\ EvidenceCounts(S)["visible"] = {x \in S : Bucket(x) = "visible"}
  BY DEF EvidenceCounts
<1> QED BY <1>1, <1>2, <1>3 DEF ResearchOf

LEMMA PnlCountedOnce == WalkInv => PnlInOneBucket
<1> SUFFICES ASSUME WalkInv, NEW since \in Sinces, NEW ep \in EpisodesSince(since)
             PROVE  LET x == BuildProfile(since).exit
                    IN  Cardinality({b \in {"research", "censored", "gap"} :
                               \/ b = "research" /\ ep \in x.closedPnl.research
                               \/ b = "censored" /\ ep \in x.censoredPnl
                               \/ b = "gap" /\ ep \in x.incompletePnl})
                          = IF ep.status = "open" THEN 0 ELSE 1
  BY DEF PnlInOneBucket
<1> DEFINE x == BuildProfile(since).exit
           B == {b \in {"research", "censored", "gap"} :
                   \/ b = "research" /\ ep \in x.closedPnl.research
                   \/ b = "censored" /\ ep \in x.censoredPnl
                   \/ b = "gap" /\ ep \in x.incompletePnl}
<1>1. ep \in walk.episodes BY DEF EpisodesSince
<1>2. ep \in EpisodeType /\ GapIsPartial(ep) BY <1>1, EntriesOfEpisodes
<1>3. ep.status \in {"open", "closed", "partial"} /\ ep.gap \in BOOLEAN BY <1>2 DEF EpisodeType
<1>4. /\ ep \in x.closedPnl.research <=> ep.status = "closed" /\ Research(ep)
      /\ ep \in x.censoredPnl <=> ~Strict(ep) /\ ~Research(ep) /\ ep.status = "closed" /\ ~ep.gap
      /\ ep \in x.incompletePnl <=> ep.gap
  BY DEF BuildProfile, ExitStats, Two, CensoredPnl, IncompletePnl
<1>5. (Research(ep) => ~ep.gap) /\ (Strict(ep) => Research(ep)) BY DEF Research, Strict
<1> HIDE DEF x
<1>6. CASE ep.status = "open"
  <2>1. B = {} BY <1>2, <1>4, <1>6 DEF GapIsPartial
  <2> QED BY <2>1, <1>6, FS_EmptySet DEF x
<1>7. CASE ep.gap
  <2>1. ep.status # "open" BY <1>2, <1>7 DEF GapIsPartial
  <2>2. B = {"gap"} BY <1>4, <1>5, <1>7
  <2> QED BY <2>1, <2>2, FS_Singleton DEF x
<1>8. CASE ep.status = "closed" /\ ~ep.gap
  <2>1. CASE Research(ep)
    <3>1. B = {"research"} BY <1>4, <1>8, <2>1
    <3> QED BY <3>1, <1>8, FS_Singleton DEF x
  <2>2. CASE ~Research(ep)
    <3>1. B = {"censored"} BY <1>4, <1>5, <1>8, <2>2
    <3> QED BY <3>1, <1>8, FS_Singleton DEF x
  <2> QED BY <2>1, <2>2
<1> QED BY <1>2, <1>3, <1>6, <1>7, <1>8 DEF GapIsPartial

(* A finished episode's profit is in one of three figures, an open one's in*)
(* none (profile.go:150-160).                                              *)
THEOREM PnlIsCountedOnce == Spec => []PnlInOneBucket
BY WalkInvHolds, PnlCountedOnce, PTL

(* An entry is in the cohort exactly when its episode is.                  *)
LEMMA CohortOfEpisode ==
  ASSUME WalkInv, NEW since \in Nat, NEW ep \in walk.episodes, NEW e \in OwnEntries(walk, ep)
  PROVE  /\ InCohort(e, since) <=> ep.openedAt >= since
         /\ Research(e) <=> Research(ep)
         /\ e.initial => rows[e.row].ts = ep.openedAt
<1>1. PICK b, c \in 1 .. Len(rows) :
        /\ b <= c /\ MadeOf(ep, rows, b, c)
        /\ EntriesOf(OwnEntries(walk, ep), ep, rows, b, c)
  BY EntriesOfEpisodes
<1>2. (e.initial <=> e.row = b) /\ e.since = rows[e.row].ts - ep.openedAt
  BY <1>1 DEF EntriesOf
<1>3. e.row \in b .. c BY <1>1 DEF EntriesOf, Buys
<1>4. e.row \in 1 .. Len(rows) BY <1>1, <1>3, Described
<1>5. rows[e.row].ts \in Nat /\ ep.openedAt \in Nat
  BY <1>4, EntriesOfEpisodes DEF WalkInv, Ordered, RowType, EpisodeType
<1>6. e.initial => rows[e.row].ts = ep.openedAt BY <1>1, <1>2 DEF MadeOf
<1>7. rows[e.row].ts - e.since = ep.openedAt BY <1>2, <1>5
<1>8. Research(e) <=> Research(ep) BY EntriesOfEpisodes DEF Research
<1> QED BY <1>6, <1>7, <1>8 DEF InCohort

LEMMA EntryHasEpisode ==
  ASSUME WalkInv, NEW e \in walk.entries
  PROVE  \E ep \in walk.episodes : e \in OwnEntries(walk, ep)
BY EntriesOfRows DEF OwnEntries

LEMMA CohortIsOne == WalkInv => OneCohort
<1> SUFFICES ASSUME WalkInv, NEW since \in Sinces
             PROVE  LET p == BuildProfile(since)
                        research == ResearchOf(p.position.evidence)
                        opens(ep) == {e \in ResearchOf(p.entry.initial) : e.episode = ep.id}
                        scales(ep) == {e \in ResearchOf(p.entry.add) : e.episode = ep.id}
                    IN  /\ \A ep \in research :
                             Cardinality(opens(ep)) = 1 /\ Cardinality(scales(ep)) = ep.adds
                        /\ {e.episode : e \in ResearchOf(p.entry.initial) \cup
                                              ResearchOf(p.entry.add)}
                             = {ep.id : ep \in research}
                        /\ p.entry.chase.research =
                             {e \in ResearchOf(p.entry.initial) : e.row \in Sampled}
  BY DEF OneCohort
<1> DEFINE p == BuildProfile(since)
           research == ResearchOf(p.position.evidence)
           RI == ResearchOf(p.entry.initial)
           RA == ResearchOf(p.entry.add)
<1>1. since \in Nat BY WalkerConstantsOK DEF Sinces
<1>2. research = {ep \in walk.episodes : ep.openedAt >= since /\ Research(ep)}
  BY ResearchIsCounted DEF BuildProfile, PositionStats, EpisodesSince
<1>3. RI = {e \in walk.entries : InCohort(e, since) /\ e.initial /\ Research(e)}
  BY ResearchIsCounted DEF BuildProfile, EntryStats, Facts
<1>4. RA = {e \in walk.entries : InCohort(e, since) /\ ~e.initial /\ Research(e)}
  BY ResearchIsCounted DEF BuildProfile, EntryStats, Facts
<1>5. p.entry.chase.research =
        {e \in walk.entries : InCohort(e, since) /\ e.initial /\ HasChase(e, since) /\ Research(e)}
  BY DEF BuildProfile, EntryStats, Facts, Two
<1> HIDE DEF p, research, RI, RA
<1>6. ASSUME NEW ep \in research
      PROVE  /\ {e \in RI : e.episode = ep.id} = {e \in OwnEntries(walk, ep) : e.initial}
             /\ {e \in RA : e.episode = ep.id} = {e \in OwnEntries(walk, ep) : ~e.initial}
  <2>1. ep \in walk.episodes /\ ep.openedAt >= since /\ Research(ep) BY <1>2
  <2>2. \A e \in OwnEntries(walk, ep) : InCohort(e, since) /\ Research(e)
    BY <2>1, <1>1, CohortOfEpisode
  <2> QED BY <2>2, <1>3, <1>4 DEF OwnEntries
<1>7. \A ep \in research : \E e \in OwnEntries(walk, ep) :
        {f \in OwnEntries(walk, ep) : f.initial} = {e}
  <2> TAKE ep \in research
  <2>1. ep \in walk.episodes /\ ~ep.gap BY <1>2 DEF Research
  <2>2. PICK b, c \in 1 .. Len(rows) :
          /\ b <= c /\ MadeOf(ep, rows, b, c)
          /\ EntriesOf(OwnEntries(walk, ep), ep, rows, b, c)
    BY <2>1, EntriesOfEpisodes
  <2>3. b \in Buys(rows, b, c) BY <2>1, <2>2 DEF MadeOf, Buys
  <2>4. PICK e \in OwnEntries(walk, ep) : e.row = b BY <2>2, <2>3 DEF EntriesOf
  <2>5. {f \in OwnEntries(walk, ep) : f.initial} = {e} BY <2>2, <2>4 DEF EntriesOf
  <2> QED BY <2>4, <2>5
<1>8. \A ep \in research :
        /\ Cardinality({e \in RI : e.episode = ep.id}) = 1
        /\ Cardinality({e \in RA : e.episode = ep.id}) = ep.adds
  <2> TAKE ep \in research
  <2>1. ep \in walk.episodes BY <1>2
  <2>2. PICK e \in OwnEntries(walk, ep) : {f \in OwnEntries(walk, ep) : f.initial} = {e}
    BY <1>7
  <2>3. {f \in RI : f.episode = ep.id} = {e} BY <2>2, <1>6
  <2>4. Cardinality({f \in RI : f.episode = ep.id}) = 1 BY <2>3, FS_Singleton
  <2>5. Cardinality({f \in RA : f.episode = ep.id}) = ep.adds BY <2>1, <1>6, AddsAreEntries
  <2> QED BY <2>4, <2>5
<1>9. {e.episode : e \in RI \cup RA} = {ep.id : ep \in research}
  <2>1. \A e \in RI \cup RA : \E ep \in research : e.episode = ep.id
    <3> TAKE e \in RI \cup RA
    <3>1. e \in walk.entries /\ InCohort(e, since) /\ Research(e) BY <1>3, <1>4
    <3>2. PICK ep \in walk.episodes : e \in OwnEntries(walk, ep) BY <3>1, EntryHasEpisode
    <3>3. ep \in research BY <3>1, <3>2, <1>1, <1>2, CohortOfEpisode
    <3> QED BY <3>2, <3>3 DEF OwnEntries
  <2>2. \A ep \in research : \E e \in RI \cup RA : e.episode = ep.id
    <3> TAKE ep \in research
    <3>1. PICK e \in OwnEntries(walk, ep) : {f \in OwnEntries(walk, ep) : f.initial} = {e}
      BY <1>7
    <3> QED BY <3>1, <1>6
  <2> QED BY <2>1, <2>2
<1>10. p.entry.chase.research = {e \in RI : e.row \in Sampled}
  <2>1. \A e \in RI : rows[e.row].ts >= since BY <1>3 DEF InCohort
  <2> QED BY <2>1, <1>3, <1>5 DEF HasChase
<1> QED BY <1>8, <1>9, <1>10 DEF p, research, RI, RA

(* Entries and episodes of a card are those of the same positions          *)
(* (behavior.go:193-205, profile.go:21-25).                                *)
THEOREM CohortHolds == Spec => []OneCohort
BY WalkInvHolds, CohortIsOne, PTL

LEMMA SamplesAgree == WalkInv => SamplesMatchEvidence
<1> SUFFICES ASSUME WalkInv, NEW since \in Sinces
             PROVE  LET p == BuildProfile(since)
                        row == MatrixRow(p)
                    IN  /\ p.entry.age.research = ResearchOf(p.entry.initial)
                        /\ p.entry.sinceInitial.research = ResearchOf(p.entry.add)
                        /\ p.position.adds.research = ResearchOf(p.position.evidence)
                        /\ p.entry.age.strict = p.entry.initial["confirmed"]
                        /\ p.exit.firstSell.research = p.exit.partialExit.of.research
                        /\ \A ep \in p.exit.firstSell.research : ep.firstSellAt >= ep.openedAt
                        /\ ResearchOf(p.position.evidence) = {} =>
                             \A f \in DOMAIN row : row[f] = {}
  BY DEF SamplesMatchEvidence
<1> DEFINE p == BuildProfile(since)
           eps == EpisodesSince(since)
           facts == Facts(since)
           initial == {e \in facts : e.initial}
           adds == facts \ initial
           exits == {ep \in eps : ep.sells > 0 /\ ~ep.gap}
<1>1. since \in Nat BY WalkerConstantsOK DEF Sinces
<1>2. /\ p.entry.age = Two(initial) /\ p.entry.initial = EvidenceCounts(initial)
      /\ p.entry.sinceInitial = Two(adds) /\ p.entry.add = EvidenceCounts(adds)
      /\ p.position.adds = Two(eps) /\ p.position.evidence = EvidenceCounts(eps)
  BY DEF BuildProfile, EntryStats, PositionStats
<1>3. /\ p.exit.firstSell = Two({ep \in exits : ep.firstSellAt > 0})
      /\ p.exit.partialExit.of = Two(exits)
  BY DEF BuildProfile, ExitStats, TwoRatio
<1>4. \A ep \in exits : ep.firstSellAt > 0 /\ ep.firstSellAt >= ep.openedAt
  <2> TAKE ep \in exits
  <2>1. ep \in walk.episodes /\ ep.sells > 0 BY DEF EpisodesSince
  <2>2. PICK b, c \in 1 .. Len(rows) : b <= c /\ MadeOf(ep, rows, b, c)
    BY <2>1, EntriesOfEpisodes
  <2>3. ep.firstSellAt >= ep.openedAt /\ ep.openedAt = rows[b].ts BY <2>1, <2>2 DEF MadeOf
  <2>4. rows[b].ts \in Nat \ {0} BY DEF WalkInv, Ordered, RowType
  <2>5. ep.firstSellAt \in Nat BY <2>1, EntriesOfEpisodes DEF EpisodeType
  <2> QED BY <2>3, <2>4, <2>5
<1>5. {ep \in exits : ep.firstSellAt > 0} = exits BY <1>4
<1>6. \A S : Two(S).research = {x \in S : Research(x)} /\ Two(S).strict = {x \in S : Strict(x)}
  BY DEF Two
<1>7. \A ep \in p.exit.firstSell.research : ep \in exits BY <1>3, <1>5, <1>6
<1>8. ResearchOf(p.position.evidence) = {} =>
        \A f \in DOMAIN MatrixRow(p) : MatrixRow(p)[f] = {}
  <2> HAVE ResearchOf(p.position.evidence) = {}
  <2>1. \A ep \in eps : ~Research(ep) BY <1>2, ResearchIsCounted
  <2>2. \A e \in facts : ~Research(e)
    <3> TAKE e \in facts
    <3>1. e \in walk.entries /\ InCohort(e, since) BY DEF Facts
    <3>2. PICK ep \in walk.episodes : e \in OwnEntries(walk, ep) BY <3>1, EntryHasEpisode
    <3>3. ep \in eps BY <3>1, <3>2, <1>1, CohortOfEpisode DEF EpisodesSince
    <3> QED BY <2>1, <3>2, <3>3, <1>1, CohortOfEpisode
  <2> HIDE DEF eps, facts
  <2>3. \A S \in SUBSET eps : Two(S).research = {} BY <2>1, <1>6
  <2>4. \A S \in SUBSET facts : Two(S).research = {} BY <2>2, <1>6
  <2>5. /\ p.entry.chase.research = {} /\ p.entry.prior.research = {}
        /\ p.entry.sinceInitial.research = {} /\ p.entry.addChase.research = {}
    <3>1. /\ initial \in SUBSET facts /\ adds \in SUBSET facts
          /\ {e \in initial : HasChase(e, since)} \in SUBSET facts
          /\ {e \in adds : HasChase(e, since)} \in SUBSET facts
          /\ {e \in initial : PriorValid(e)} \in SUBSET facts
      OBVIOUS
    <3>2. /\ p.entry.chase = Two({e \in initial : HasChase(e, since)})
          /\ p.entry.prior = Two({e \in initial : PriorValid(e)})
          /\ p.entry.sinceInitial = Two(adds)
          /\ p.entry.addChase = Two({e \in adds : HasChase(e, since)})
      BY DEF BuildProfile, EntryStats, facts
    <3> HIDE DEF p, initial, adds
    <3> QED BY <3>1, <3>2, <2>4
  <2>6. /\ p.entry.initialBuy.research = {} /\ p.entry.addRate.of.research = {}
        /\ p.entry.reentry.of.research = {}
    <3>1. /\ p.entry.initialBuy = Two(eps) /\ p.entry.addRate.of = Two(eps)
          /\ p.entry.reentry.of = Two(eps)
      BY DEF BuildProfile, EntryStats, TwoRatio, eps
    <3> HIDE DEF p
    <3> QED BY <3>1, <2>3
  <2>7. /\ p.position.hold.research = {} /\ p.exit.partialExit.of.research = {}
        /\ p.exit.firstSell.research = {}
    <3>1. p.position.hold = Two({ep \in eps : ep.status = "closed"})
      BY DEF BuildProfile, PositionStats, eps
    <3>2. exits \in SUBSET eps /\ {ep \in eps : ep.status = "closed"} \in SUBSET eps OBVIOUS
    <3> HIDE DEF p, exits
    <3> QED BY <3>1, <3>2, <2>3, <1>3, <1>5
  <2> HIDE DEF p
  <2> QED BY <2>5, <2>6, <2>7 DEF MatrixRow
<1> HIDE DEF p, eps, exits, initial, adds, facts
<1>9. p.exit.firstSell.research = p.exit.partialExit.of.research BY <1>3, <1>5
<1>10. \A ep \in p.exit.firstSell.research : ep.firstSellAt >= ep.openedAt BY <1>4, <1>7
<1>11. /\ p.entry.age.research = ResearchOf(p.entry.initial)
       /\ p.entry.sinceInitial.research = ResearchOf(p.entry.add)
       /\ p.position.adds.research = ResearchOf(p.position.evidence)
       /\ p.entry.age.strict = p.entry.initial["confirmed"]
  <2> HIDE DEF p, eps, facts, initial, adds
  <2>1. /\ ResearchOf(EvidenceCounts(initial)) = Two(initial).research
        /\ ResearchOf(EvidenceCounts(adds)) = Two(adds).research
        /\ ResearchOf(EvidenceCounts(eps)) = Two(eps).research
    BY <1>6, ResearchIsCounted
  <2>2. EvidenceCounts(initial)["confirmed"] = Two(initial).strict
    BY <1>6, ResearchIsCounted
  <2> QED BY <1>2, <2>1, <2>2
<1> QED BY <1>8, <1>9, <1>10, <1>11, Zenon DEF p

(* Every figure of a policy is over the observations its evidence counts   *)
(* name, and without a research episode the matrix row is empty            *)
(* (profile.go:177-181, analyze/matrix.go:344-352, 384).                   *)
THEOREM SamplesAreTheEvidence == Spec => []SamplesMatchEvidence
BY WalkInvHolds, SamplesAgree, PTL

-----------------------------------------------------------------------------
(* The table of episodes.go:111-189.  It is made by a second walker, who   *)
(* starts late; of him nothing is known but the types of what he works     *)
(* with, and what each step does.                                          *)

(* A walker of which nothing is known but the types of what it works with. *)
Known(t) ==
  /\ t \in [cur : EpisodeType \cup {NULL}, mine : {t.mine}, book : [qty : Int, peak : Nat],
            group : 0 .. Len(Groups), seq : Nat, origin : Origins, seen : {t.seen},
            episodes : SUBSET EpisodeType, entries : {t.entries}]
  /\ t.cur = NULL => t.book = Zero
  /\ t.cur # NULL => t.cur.id[1] = t.group

(* The finished episodes and the current one.                              *)
AllOf(t) == t.episodes \cup (IF t.cur = NULL THEN {} ELSE {t.cur})

LEMMA StartKnown == Known(StartOfWalk)
<1>1. /\ Zero \in [qty : Int, peak : Nat] /\ 0 \in 0 .. Len(Groups) /\ "censored" \in Origins
      /\ 0 \in Nat
  BY WalkerConstantsOK DEF Zero, Origins
<1> HIDE DEF Zero
<1> QED BY <1>1 DEF Known, StartOfWalk

LEMMA FinalizeKnown ==
  ASSUME NEW t, Known(t)
  PROVE  LET v == Finalize(t)
         IN  /\ Known(v) /\ v.cur = NULL /\ v.book = Zero /\ v.group = t.group
             /\ v.origin = t.origin /\ v.episodes = AllOf(t)
<1>1. CASE t.cur = NULL BY <1>1 DEF Finalize, Known, AllOf
<1>2. CASE t.cur # NULL
  <2> DEFINE v == Finalize(t)
             seen == t.seen \cup {Token(t.cur.id)}
             entries == t.entries \cup {Lineage(e, t.cur) : e \in t.mine}
  <2>1. v = [t EXCEPT !.seen = seen, !.entries = entries, !.episodes = @ \cup {t.cur},
                      !.cur = NULL, !.mine = {}, !.book = Zero]
    BY <1>2 DEF Finalize, Reset
  <2> HIDE DEF v, seen, entries
  <2>2. Zero \in [qty : Int, peak : Nat] BY DEF Zero
  <2>3. t.cur \in EpisodeType /\ t.episodes \cup {t.cur} \in SUBSET EpisodeType
    BY <1>2 DEF Known
  <2>4. /\ v.cur = NULL /\ v.mine = {} /\ v.book = Zero /\ v.group = t.group /\ v.seq = t.seq
        /\ v.origin = t.origin /\ v.seen = seen /\ v.episodes = t.episodes \cup {t.cur}
        /\ v.entries = entries
    BY <2>1 DEF Known
  <2>5. Known(v) BY <2>1, <2>2, <2>3, <2>4 DEF Known
  <2> QED BY <1>2, <2>4, <2>5 DEF v, AllOf
<1> QED BY <1>1, <1>2

(* A new episode, which the row begins.                                    *)
Begins(ep, row, origin) ==
  /\ ep.id[1] = row.group /\ ep.legs = {} /\ ep.openedAt = row.ts /\ ep.closedAt = 0
  /\ ep.status = "open" /\ ep.adds = 0 /\ ep.sells = 0 /\ ep.gap = (row.side = "sell")
  /\ ep.origin = IF row.side = "sell" THEN "censored" ELSE origin

LEMMA EnterKnown ==
  ASSUME NEW t, Known(t), NEW row \in RowType
  PROVE  LET v == Enter(t, row)
         IN  /\ Known(v) /\ v.cur # NULL /\ v.group = row.group
             /\ IF t.cur # NULL /\ t.group = row.group THEN v = t
                ELSE /\ v.episodes = AllOf(t) /\ v.book = Zero
                     /\ v.origin = IF t.group = row.group THEN t.origin ELSE "censored"
                     /\ Begins(v.cur, row, v.origin)
<1>1. CASE t.cur # NULL /\ t.group = row.group BY <1>1 DEF Enter
<1>2. CASE ~(t.cur # NULL /\ t.group = row.group)
  <2> DEFINE f == Finalize(t)
             g == IF t.group = row.group THEN f ELSE NewGroup(f, row.group)
             ep == NewEpisode(g, row)
             v == Enter(t, row)
  <2>1. /\ Known(f) /\ f.cur = NULL /\ f.book = Zero /\ f.group = t.group
        /\ f.origin = t.origin /\ f.episodes = AllOf(t)
    BY FinalizeKnown
  <2>2. row.group \in 0 .. Len(Groups) /\ row.group \in DOMAIN Groups /\ row.ts \in Nat
    BY WalkerConstantsOK DEF RowType
  <2> HIDE DEF f
  <2>3. /\ Known(g) /\ g.cur = NULL /\ g.book = Zero /\ g.group = row.group
        /\ g.origin = (IF t.group = row.group THEN t.origin ELSE "censored")
        /\ g.episodes = AllOf(t)
    <3>1. CASE t.group = row.group BY <2>1, <3>1
    <3>2. CASE t.group # row.group
      <4>1. g = [f EXCEPT !.origin = "censored", !.book = Zero, !.seq = 0, !.group = row.group]
        BY <3>2 DEF NewGroup
      <4>2. Zero \in [qty : Int, peak : Nat] /\ "censored" \in Origins /\ 0 \in Nat
        BY DEF Zero, Origins
      <4> HIDE DEF g
      <4>3. /\ g.cur = f.cur /\ g.mine = f.mine /\ g.book = Zero /\ g.group = row.group
            /\ g.seq = 0 /\ g.origin = "censored" /\ g.seen = f.seen
            /\ g.episodes = f.episodes /\ g.entries = f.entries
        BY <2>1, <4>1 DEF Known
      <4>4. Known(g) BY <2>1, <2>2, <4>1, <4>2, <4>3 DEF Known
      <4> QED BY <2>1, <3>2, <4>3, <4>4
    <3> QED BY <3>1, <3>2
  <2>4. v = [g EXCEPT !.seq = @ + 1, !.cur = ep] BY <1>2 DEF Enter, f
  <2> HIDE DEF g
  <2>5. g.seq \in Nat /\ g.origin \in Origins BY <2>3 DEF Known
  <2>6. ep \in EpisodeType
    BY <2>2, <2>5 DEF NewEpisode, EpisodeType, EpisodeIds, Origins
  <2>7. Begins(ep, row, g.origin) BY DEF NewEpisode, Begins
  <2>8. ep # NULL BY <2>6, WalkerNullOK
  <2> HIDE DEF ep, v
  <2>9. /\ v.cur = ep /\ v.mine = g.mine /\ v.book = g.book /\ v.group = g.group
        /\ v.seq = g.seq + 1 /\ v.origin = g.origin /\ v.seen = g.seen
        /\ v.episodes = g.episodes /\ v.entries = g.entries
    BY <2>3, <2>4 DEF Known
  <2>10. Known(v)
    <3>1. ep.id[1] = row.group BY <2>7 DEF Begins
    <3>2. g.seq + 1 \in Nat /\ ep \in EpisodeType \cup {NULL} BY <2>5, <2>6
    <3> QED BY <2>3, <2>4, <2>8, <2>9, <3>1, <3>2 DEF Known
  <2> QED BY <1>2, <2>3, <2>7, <2>8, <2>9, <2>10 DEF v
<1> QED BY <1>1, <1>2

(* The current episode has one more leg.                                   *)
OneLegMore(ep, d, row) ==
  /\ d \in EpisodeType /\ d.id = ep.id /\ d.legs = ep.legs \cup {row.n} /\ d.origin = ep.origin

LEMMA BuyKnown ==
  ASSUME NEW t, Known(t), t.cur # NULL, NEW row \in RowType, row.n \in Nat
  PROVE  LET v == Buy(t, row)
             first == IsEmpty(t.book)
         IN  /\ Known(v) /\ v.cur # NULL /\ v.group = t.group
             /\ v.episodes = t.episodes /\ v.origin = t.origin
             /\ v.book = Add(t.book, row.amount)
             /\ OneLegMore(t.cur, v.cur, row)
             /\ v.cur.openedAt = (IF first THEN row.ts ELSE t.cur.openedAt)
             /\ v.cur.closedAt = t.cur.closedAt /\ v.cur.status = t.cur.status
             /\ v.cur.sells = t.cur.sells
             /\ v.cur.adds = (IF first THEN t.cur.adds ELSE t.cur.adds + 1)
             /\ v.cur.gap = (IF first THEN FALSE ELSE t.cur.gap)
<1> DEFINE c == t.cur
           initial == IsEmpty(t.book)
           ep == IF initial
                 THEN [c EXCEPT !.openedAt = row.ts, !.gap = FALSE, !.firstSellAt = 0]
                 ELSE [c EXCEPT !.adds = @ + 1]
           leg == [ep EXCEPT !.legs = @ \cup {row.n}]
           opened == IF initial THEN row.ts ELSE c.openedAt
           x == [row |-> row.n, initial |-> initial, since |-> row.ts - opened,
                 episode |-> NULL, origin |-> ep.origin, gap |-> ep.gap]
           v == Buy(t, row)
<1>1. c \in EpisodeType /\ row.ts \in Nat /\ row.amount \in Nat \ {0}
  BY WalkerConstantsOK DEF Known, RowType
<1>2. /\ leg \in EpisodeType /\ leg.id = c.id /\ leg.legs = c.legs \cup {row.n}
      /\ leg.origin = c.origin
      /\ leg.openedAt = (IF initial THEN row.ts ELSE c.openedAt)
      /\ leg.closedAt = c.closedAt /\ leg.status = c.status /\ leg.sells = c.sells
      /\ leg.adds = (IF initial THEN c.adds ELSE c.adds + 1)
      /\ leg.gap = (IF initial THEN FALSE ELSE c.gap)
  <2>1. c.legs \cup {row.n} \in SUBSET Nat /\ c.adds + 1 \in Nat BY <1>1 DEF EpisodeType
  <2>2. CASE initial
    <3>1. leg = [c EXCEPT !.openedAt = row.ts, !.gap = FALSE, !.firstSellAt = 0,
                          !.legs = @ \cup {row.n}]
      BY <1>1, <2>2 DEF EpisodeType
    <3> HIDE DEF leg
    <3> QED BY <1>1, <2>1, <2>2, <3>1 DEF EpisodeType
  <2>3. CASE ~initial
    <3>1. leg = [c EXCEPT !.adds = @ + 1, !.legs = @ \cup {row.n}]
      BY <1>1, <2>3 DEF EpisodeType
    <3> HIDE DEF leg
    <3> QED BY <1>1, <2>1, <2>3, <3>1 DEF EpisodeType
  <2> QED BY <2>2, <2>3
<1>3. Add(t.book, row.amount) \in [qty : Int, peak : Nat]
  <2>1. t.book.qty \in Int /\ t.book.peak \in Nat BY DEF Known
  <2>2. t.book.qty + row.amount > t.book.peak => t.book.qty + row.amount \in Nat
    BY <1>1, <2>1
  <2> QED BY <1>1, <2>1, <2>2 DEF Add
<1>4. v = [t EXCEPT !.cur = leg, !.book = Add(@, row.amount), !.mine = @ \cup {x}]
  BY DEF Buy
<1> HIDE DEF leg, x, v, ep
<1>5. /\ v.cur = leg /\ v.book = Add(t.book, row.amount) /\ v.mine = t.mine \cup {x}
      /\ v.group = t.group /\ v.seq = t.seq /\ v.origin = t.origin /\ v.seen = t.seen
      /\ v.episodes = t.episodes /\ v.entries = t.entries
  BY <1>4 DEF Known
<1>6. leg # NULL BY <1>2, WalkerNullOK
<1>7. Known(v)
  <2>1. leg.id[1] = t.group /\ leg \in EpisodeType \cup {NULL} BY <1>2 DEF Known
  <2> QED BY <1>3, <1>4, <1>5, <1>6, <2>1 DEF Known
<1> QED BY <1>2, <1>5, <1>6, <1>7 DEF OneLegMore, v

(* The leg of a sale.                                                      *)
SoldLeg(ep, d, row, book) ==
  /\ OneLegMore(ep, d, row)
  /\ d.openedAt = ep.openedAt /\ d.adds = ep.adds /\ d.sells = ep.sells + 1
  /\ d.gap = (ep.gap \/ IsEmpty(book) \/ SellState(book, row.amount) = "oversold")

LEMMA SellKnown ==
  ASSUME NEW t, Known(t), t.cur # NULL, NEW row \in RowType, row.n \in Nat
  PROVE  LET v == Sell(t, row)
             state == SellState(t.book, row.amount)
         IN  /\ Known(v) /\ v.group = t.group
             /\ v.origin = OriginAfter(state, t.origin)
             /\ state = "remaining" =>
                  /\ v.cur # NULL /\ v.episodes = t.episodes /\ v.book = Sold(t.book, row.amount)
                  /\ SoldLeg(t.cur, v.cur, row, t.book)
                  /\ v.cur.closedAt = t.cur.closedAt /\ v.cur.status = t.cur.status
             /\ state # "remaining" =>
                  /\ v.cur = NULL
                  /\ \E x \in EpisodeType :
                       /\ v.episodes = t.episodes \cup {x} /\ SoldLeg(t.cur, x, row, t.book)
                       /\ x.closedAt = row.ts
                       /\ x.status = IF state = "closed" THEN state ELSE "partial"
<1> DEFINE c == t.cur
           left == Sold(t.book, row.amount)
           state == SellState(t.book, row.amount)
           leg == [c EXCEPT
                     !.legs = @ \cup {row.n}, !.sells = @ + 1,
                     !.gap = @ \/ IsEmpty(t.book) \/ state = "oversold",
                     !.firstSellAt = IF @ = 0 THEN row.ts ELSE @,
                     !.partialExits = IF state = "remaining" THEN @ + 1 ELSE @]
           sold == [t EXCEPT !.cur = leg, !.book = left, !.origin = OriginAfter(state, @)]
           end == [leg EXCEPT !.closedAt = row.ts,
                              !.status = IF state = "closed" THEN state ELSE "partial"]
           ending == [sold EXCEPT !.cur = end]
           v == Sell(t, row)
<1>1. c \in EpisodeType /\ row.ts \in Nat /\ row.amount \in Nat \ {0}
  BY WalkerConstantsOK DEF Known, RowType
<1>2. left \in [qty : Int, peak : Nat]
  BY <1>1 DEF Sold, Known
<1>3. OriginAfter(state, t.origin) \in Origins BY DEF OriginAfter, Known, Origins
<1>4. v = IF state = "remaining" THEN sold ELSE Finalize(ending) BY DEF Sell
<1>5. SoldLeg(c, leg, row, t.book) /\ leg.closedAt = c.closedAt /\ leg.status = c.status
  <2>1. /\ c.legs \cup {row.n} \in SUBSET Nat /\ c.sells + 1 \in Nat
        /\ (c.gap \/ IsEmpty(t.book) \/ state = "oversold") \in BOOLEAN
        /\ (IF c.firstSellAt = 0 THEN row.ts ELSE c.firstSellAt) \in Nat
        /\ (IF state = "remaining" THEN c.partialExits + 1 ELSE c.partialExits) \in Nat
    BY <1>1 DEF EpisodeType
  <2> HIDE DEF state
  <2>2. leg \in EpisodeType BY <1>1, <2>1 DEF EpisodeType
  <2>3. /\ leg.id = c.id /\ leg.legs = c.legs \cup {row.n} /\ leg.openedAt = c.openedAt
        /\ leg.sells = c.sells + 1 /\ leg.adds = c.adds /\ leg.origin = c.origin
        /\ leg.status = c.status /\ leg.closedAt = c.closedAt
    BY <1>1 DEF EpisodeType
  <2>4. leg.gap = (c.gap \/ IsEmpty(t.book) \/ state = "oversold") BY <1>1 DEF EpisodeType
  <2> HIDE DEF leg
  <2> QED BY <2>2, <2>3, <2>4 DEF SoldLeg, OneLegMore, state
<1> HIDE DEF leg, left, state
<1>6. /\ SoldLeg(c, end, row, t.book) /\ end.closedAt = row.ts
      /\ end.status = IF state = "closed" THEN state ELSE "partial"
  <2>1. (IF state = "closed" THEN state ELSE "partial") \in {"open", "closed", "partial"}
    OBVIOUS
  <2>2. leg \in EpisodeType BY <1>5 DEF SoldLeg, OneLegMore
  <2>3. /\ end \in EpisodeType
        /\ end.id = leg.id /\ end.legs = leg.legs /\ end.openedAt = leg.openedAt
        /\ end.sells = leg.sells /\ end.adds = leg.adds /\ end.gap = leg.gap
        /\ end.origin = leg.origin /\ end.closedAt = row.ts
        /\ end.status = IF state = "closed" THEN state ELSE "partial"
    BY <1>1, <2>1, <2>2 DEF EpisodeType
  <2> HIDE DEF end
  <2> QED BY <1>5, <2>3 DEF SoldLeg, OneLegMore
<1> HIDE DEF end
<1>7. /\ leg \in EpisodeType /\ end \in EpisodeType /\ leg # NULL /\ end # NULL
      /\ leg.id[1] = t.group /\ end.id[1] = t.group
  BY <1>5, <1>6, WalkerNullOK DEF SoldLeg, OneLegMore, Known
<1>8. /\ sold.cur = leg /\ sold.book = left /\ sold.mine = t.mine /\ sold.group = t.group
      /\ sold.seq = t.seq /\ sold.origin = OriginAfter(state, t.origin) /\ sold.seen = t.seen
      /\ sold.episodes = t.episodes /\ sold.entries = t.entries
  BY DEF Known
<1>9. Known(sold)
  <2>1. leg \in EpisodeType \cup {NULL} BY <1>7
  <2> QED BY <1>2, <1>3, <1>7, <1>8, <2>1 DEF Known
<1> HIDE DEF sold
<1>10. /\ ending.cur = end /\ ending.book = left /\ ending.mine = t.mine
       /\ ending.group = t.group /\ ending.seq = t.seq
       /\ ending.origin = OriginAfter(state, t.origin) /\ ending.seen = t.seen
       /\ ending.episodes = t.episodes /\ ending.entries = t.entries
  BY <1>8, <1>9 DEF Known
<1>11. Known(ending)
  <2>1. end \in EpisodeType \cup {NULL} BY <1>7
  <2> QED BY <1>2, <1>3, <1>7, <1>8, <1>9, <1>10, <2>1 DEF Known
<1> HIDE DEF ending
<1>12. CASE state = "remaining"
  BY <1>4, <1>5, <1>7, <1>8, <1>9, <1>12 DEF state, left
<1>13. CASE state # "remaining"
  <2>1. v = Finalize(ending) BY <1>4, <1>13
  <2> HIDE DEF v
  <2>2. /\ Known(v) /\ v.cur = NULL /\ v.group = ending.group /\ v.origin = ending.origin
        /\ v.episodes = AllOf(ending)
    BY <1>11, <2>1, FinalizeKnown
  <2>3. v.episodes = t.episodes \cup {end} BY <1>7, <1>10, <2>2 DEF AllOf
  <2> QED BY <1>6, <1>7, <1>10, <1>13, <2>2, <2>3 DEF v, state
<1> QED BY <1>12, <1>13

-----------------------------------------------------------------------------
(* The second walk is a recursive function too.                            *)

(* The cut walk step by step.                                              *)
WalkStep(t, row, since) == IF TradedSince(row, since) THEN Walked(t, row) ELSE t

WalksTo(h, rs, since, n) ==
  \A j \in 0 .. n : h[j] = IF j = 0 THEN StartOfWalk ELSE WalkStep(h[j - 1], rs[j], since)

LEMMA WalksExtend ==
  ASSUME NEW rs, NEW since
  PROVE  \A n \in Nat : \E h : WalksTo(h, rs, since, n)
<1> DEFINE S == {n \in Nat : \E h : WalksTo(h, rs, since, n)}
<1>1. 0 \in S
  <2>1. WalksTo([j \in {0} |-> StartOfWalk], rs, since, 0)
    <3> HIDE DEF StartOfWalk
    <3> QED BY DEF WalksTo
  <2> QED BY <2>1
<1>2. ASSUME NEW n \in Nat, n \in S PROVE n + 1 \in S
  <2>1. PICK h : WalksTo(h, rs, since, n) BY <1>2
  <2> DEFINE last == WalkStep(h[n], rs[n + 1], since)
             k == [j \in 0 .. n + 1 |-> IF j = n + 1 THEN last ELSE h[j]]
  <2> HIDE DEF last
  <2>2. \A j \in 0 .. n + 1 : j \in 0 .. n \/ j = n + 1 OBVIOUS
  <2>3. \A j \in 0 .. n : k[j] = h[j] /\ (j > 0 => k[j - 1] = h[j - 1]) OBVIOUS
  <2>4. k[n + 1] = last /\ k[(n + 1) - 1] = h[n] OBVIOUS
  <2> HIDE DEF k
  <2>5. \A j \in 0 .. n + 1 : k[j] = IF j = 0 THEN StartOfWalk ELSE WalkStep(k[j - 1], rs[j], since)
    BY <2>1, <2>2, <2>3, <2>4 DEF WalksTo, last
  <2>6. WalksTo(k, rs, since, n + 1) BY <2>5 DEF WalksTo
  <2> QED BY <2>6
<1> HIDE DEF S
<1>3. \A n \in Nat : n \in S BY <1>1, <1>2, SetInduction
<1> QED BY <1>3 DEF S

LEMMA WalksAgree ==
  ASSUME NEW rs, NEW qs, NEW since, NEW n \in Nat, NEW g, NEW h,
         WalksTo(g, rs, since, n), WalksTo(h, qs, since, n), \A j \in 1 .. n : qs[j] = rs[j]
  PROVE  g[n] = h[n]
<1> DEFINE S == {j \in Nat : j <= n => g[j] = h[j]}
<1>1. 0 \in S BY DEF WalksTo
<1>2. ASSUME NEW j \in Nat, j \in S PROVE j + 1 \in S
  <2> SUFFICES ASSUME j + 1 <= n PROVE g[j + 1] = h[j + 1] OBVIOUS
  <2>1. j + 1 \in 0 .. n /\ j + 1 \in 1 .. n /\ (j + 1) - 1 = j /\ j + 1 # 0 /\ g[j] = h[j] BY <1>2
  <2> QED BY <2>1 DEF WalksTo
<1> HIDE DEF S
<1>3. \A j \in Nat : j \in S BY <1>1, <1>2, SetInduction
<1> QED BY <1>3 DEF S

(* The walk over n rows is the walk over all but the last, and a step.     *)
LEMMA WalkSinceUnfolds ==
  ASSUME NEW rs, NEW since, NEW i \in Nat
  PROVE  WalkSince(rs, since, i) =
           IF i = 0 THEN StartOfWalk ELSE WalkStep(WalkSince(rs, since, i - 1), rs[i], since)
<1> DEFINE Walks(h) == h = [j \in Nat |->
                              IF j = 0 THEN StartOfWalk
                              ELSE IF TradedSince(rs[j], since) THEN Walked(h[j - 1], rs[j])
                              ELSE h[j - 1]]
           part(n) == CHOOSE g : WalksTo(g, rs, since, n)
           whole == [n \in Nat |-> part(n)[n]]
           walks == CHOOSE h : Walks(h)
<1>1. \A n \in Nat : WalksTo(part(n), rs, since, n) BY WalksExtend
<1> HIDE DEF part
<1>2. ASSUME NEW n \in Nat
      PROVE  whole[n] = IF n = 0 THEN StartOfWalk ELSE WalkStep(whole[n - 1], rs[n], since)
  <2>1. n \in 0 .. n /\ part(n)[n] = IF n = 0 THEN StartOfWalk
                                     ELSE WalkStep(part(n)[n - 1], rs[n], since)
    BY <1>1 DEF WalksTo
  <2>2. n > 0 => part(n)[n - 1] = part(n - 1)[n - 1]
    <3> SUFFICES ASSUME n > 0 PROVE part(n)[n - 1] = part(n - 1)[n - 1] OBVIOUS
    <3>1. n - 1 \in Nat /\ 0 .. n - 1 \subseteq 0 .. n OBVIOUS
    <3>2. WalksTo(part(n), rs, since, n - 1) /\ WalksTo(part(n - 1), rs, since, n - 1)
      BY <1>1, <3>1 DEF WalksTo
    <3> QED BY <3>1, <3>2, WalksAgree
  <2> QED BY <2>1, <2>2
<1>3. Walks(whole) BY <1>2 DEF WalkStep
<1>4. Walks(walks)
  <2> HIDE DEF whole
  <2> QED BY <1>3
<1>5. WalkSince(rs, since, i) = walks[i] /\ (i > 0 => WalkSince(rs, since, i - 1) = walks[i - 1])
  BY DEF WalkSince
<1> HIDE DEF walks
<1> QED BY <1>4, <1>5 DEF WalkStep

(* It does not look at later rows.                                         *)
LEMMA WalkLooksBack ==
  ASSUME NEW rs, NEW qs, NEW since, NEW n \in Nat, \A j \in 1 .. n : qs[j] = rs[j]
  PROVE  WalkSince(qs, since, n) = WalkSince(rs, since, n)
<1> DEFINE S == {i \in Nat : i <= n => WalkSince(qs, since, i) = WalkSince(rs, since, i)}
<1>1. 0 \in S
  <2>1. WalkSince(qs, since, 0) = StartOfWalk /\ WalkSince(rs, since, 0) = StartOfWalk
    BY WalkSinceUnfolds
  <2> QED BY <2>1
<1>2. ASSUME NEW i \in Nat, i \in S PROVE i + 1 \in S
  <2> SUFFICES ASSUME i + 1 <= n
               PROVE  WalkSince(qs, since, i + 1) = WalkSince(rs, since, i + 1)
    OBVIOUS
  <2>1. /\ i + 1 \in Nat /\ i + 1 # 0 /\ (i + 1) - 1 = i /\ qs[i + 1] = rs[i + 1]
        /\ WalkSince(qs, since, i) = WalkSince(rs, since, i)
    BY <1>2
  <2>2. /\ WalkSince(qs, since, i + 1) = WalkStep(WalkSince(qs, since, i), qs[i + 1], since)
        /\ WalkSince(rs, since, i + 1) = WalkStep(WalkSince(rs, since, i), rs[i + 1], since)
    BY <2>1, WalkSinceUnfolds
  <2> QED BY <2>1, <2>2
<1> HIDE DEF S
<1>3. \A i \in Nat : i \in S BY <1>1, <1>2, SetInduction
<1> QED BY <1>3 DEF S

-----------------------------------------------------------------------------
(* What the two walkers tell of a position.                                *)

InGroup(S, g) == {ep \in S : ep.id[1] = g}

OpenedSince(S, g, since) == {ep \in InGroup(S, g) : ep.openedAt >= since}

(* No position of group g is cut in two by "since".                        *)
Uncut(S, rs, since, g) ==
  \A ep \in InGroup(S, g) :
    (\A i \in ep.legs : rs[i].ts < since) \/ (\A i \in ep.legs : rs[i].ts >= since)

(* The cut walk tells of episode x as y: the same position, on no better   *)
(* evidence.                                                               *)
ToldAs(x, y) ==
  /\ y.id[1] = x.id[1] /\ y.legs = x.legs /\ y.status = x.status
  /\ y.openedAt = x.openedAt /\ y.closedAt = x.closedAt
  /\ y.adds = x.adds /\ y.sells = x.sells
  /\ y.gap = x.gap
  /\ y.origin = "visible_zero" => x.origin = "visible_zero"

AllTold(S, T) ==
  /\ \A x \in S : \E y \in T : ToldAs(x, y)
  /\ \A y \in T : \E x \in S : ToldAs(x, y)

(* What a row does to the episode it belongs to.                           *)
Leg(e, row) == IF row.side = "buy" THEN Buy(e, row) ELSE Sell(e, row)

(* Episode x is what the leg makes of the current episode of e, in u.      *)
LegOf(e, u, row, x) ==
  /\ OneLegMore(e.cur, x, row)
  /\ x.openedAt = IF row.side = "buy" /\ IsEmpty(e.book) THEN row.ts ELSE e.cur.openedAt
  /\ IF u.cur = NULL THEN u.episodes = e.episodes \cup {x}
     ELSE u.cur = x /\ u.episodes = e.episodes

LEMMA LegKnown ==
  ASSUME NEW e, Known(e), e.cur # NULL, NEW row \in RowType
  PROVE  LET u == Leg(e, row)
         IN  /\ Known(u) /\ u.group = e.group
             /\ \E x : LegOf(e, u, row, x)
<1> DEFINE u == Leg(e, row)
<1>1. row.n \in Nat BY DEF RowType
<1>2. CASE row.side = "buy"
  <2>1. u = Buy(e, row) BY <1>2 DEF Leg
  <2> HIDE DEF u
  <2>2. /\ Known(u) /\ u.cur # NULL /\ u.group = e.group /\ u.episodes = e.episodes
        /\ OneLegMore(e.cur, u.cur, row)
        /\ u.cur.openedAt = (IF IsEmpty(e.book) THEN row.ts ELSE e.cur.openedAt)
    BY <1>1, <2>1, BuyKnown
  <2>3. LegOf(e, u, row, u.cur) BY <2>2, <1>2 DEF LegOf
  <2> QED BY <2>2, <2>3 DEF u
<1>3. CASE row.side # "buy"
  <2>1. u = Sell(e, row) BY <1>3 DEF Leg
  <2> DEFINE state == SellState(e.book, row.amount)
  <2> HIDE DEF u, state
  <2>2. Known(u) /\ u.group = e.group BY <1>1, <2>1, SellKnown
  <2>3. CASE state = "remaining"
    <3>1. /\ u.cur # NULL /\ u.episodes = e.episodes /\ SoldLeg(e.cur, u.cur, row, e.book)
      BY <1>1, <2>1, <2>3, SellKnown DEF state
    <3>2. LegOf(e, u, row, u.cur) BY <3>1, <1>3 DEF LegOf, SoldLeg
    <3> QED BY <2>2, <3>2 DEF u
  <2>4. CASE state # "remaining"
    <3>1. /\ u.cur = NULL
          /\ \E x \in EpisodeType :
               u.episodes = e.episodes \cup {x} /\ SoldLeg(e.cur, x, row, e.book)
      BY <1>1, <2>1, <2>4, SellKnown DEF state
    <3>2. PICK x \in EpisodeType :
            u.episodes = e.episodes \cup {x} /\ SoldLeg(e.cur, x, row, e.book)
      BY <3>1
    <3>3. LegOf(e, u, row, x) BY <3>1, <3>2, <1>3 DEF LegOf, SoldLeg
    <3> QED BY <2>2, <3>3 DEF u
  <2> QED BY <2>3, <2>4
<1> QED BY <1>2, <1>3

(* Two walkers that tell the same of the current position, and a row.      *)
Level(e, f) ==
  /\ e.cur # NULL /\ f.cur # NULL /\ f.book = e.book /\ ToldAs(e.cur, f.cur)
  /\ f.origin = "visible_zero" => e.origin = "visible_zero"

LEMMA LegLevel ==
  ASSUME NEW e, NEW f, Known(e), Known(f), Level(e, f), NEW row \in RowType
  PROVE  LET u == Leg(e, row)
             v == Leg(f, row)
         IN  /\ u.cur = NULL <=> v.cur = NULL
             /\ u.cur # NULL => v.book = u.book
             /\ v.origin = "visible_zero" => u.origin = "visible_zero"
             /\ \E x, y : LegOf(e, u, row, x) /\ LegOf(f, v, row, y) /\ ToldAs(x, y)
<1> DEFINE u == Leg(e, row)
           v == Leg(f, row)
<1>1. /\ row.n \in Nat /\ e.cur # NULL /\ f.cur # NULL /\ f.book = e.book
      /\ ToldAs(e.cur, f.cur)
      /\ f.origin = "visible_zero" => e.origin = "visible_zero"
  BY DEF RowType, Level
<1>2. CASE row.side = "buy"
  <2>1. u = Buy(e, row) /\ v = Buy(f, row) BY <1>2 DEF Leg
  <2> HIDE DEF u, v
  <2>2. /\ u.cur # NULL /\ u.origin = e.origin /\ u.book = Add(e.book, row.amount)
        /\ OneLegMore(e.cur, u.cur, row) /\ u.episodes = e.episodes
        /\ u.cur.openedAt = (IF IsEmpty(e.book) THEN row.ts ELSE e.cur.openedAt)
        /\ u.cur.closedAt = e.cur.closedAt /\ u.cur.status = e.cur.status
        /\ u.cur.sells = e.cur.sells
        /\ u.cur.adds = (IF IsEmpty(e.book) THEN e.cur.adds ELSE e.cur.adds + 1)
        /\ u.cur.gap = (IF IsEmpty(e.book) THEN FALSE ELSE e.cur.gap)
    BY <1>1, <2>1, BuyKnown
  <2>3. /\ v.cur # NULL /\ v.origin = f.origin /\ v.book = Add(f.book, row.amount)
        /\ OneLegMore(f.cur, v.cur, row) /\ v.episodes = f.episodes
        /\ v.cur.openedAt = (IF IsEmpty(f.book) THEN row.ts ELSE f.cur.openedAt)
        /\ v.cur.closedAt = f.cur.closedAt /\ v.cur.status = f.cur.status
        /\ v.cur.sells = f.cur.sells
        /\ v.cur.adds = (IF IsEmpty(f.book) THEN f.cur.adds ELSE f.cur.adds + 1)
        /\ v.cur.gap = (IF IsEmpty(f.book) THEN FALSE ELSE f.cur.gap)
    BY <1>1, <2>1, BuyKnown
  <2>4. ToldAs(u.cur, v.cur) BY <1>1, <2>2, <2>3 DEF ToldAs, OneLegMore
  <2>5. LegOf(e, u, row, u.cur) /\ LegOf(f, v, row, v.cur) BY <1>2, <2>2, <2>3 DEF LegOf
  <2> QED BY <1>1, <2>2, <2>3, <2>4, <2>5 DEF u, v
<1>3. CASE row.side # "buy"
  <2>1. u = Sell(e, row) /\ v = Sell(f, row) BY <1>3 DEF Leg
  <2> DEFINE state == SellState(e.book, row.amount)
  <2> HIDE DEF u, v
  <2>2. state = SellState(f.book, row.amount) BY <1>1
  <2> HIDE DEF state
  <2>3. /\ u.origin = OriginAfter(state, e.origin) /\ v.origin = OriginAfter(state, f.origin)
    <3>1. u.origin = OriginAfter(state, e.origin) BY <1>1, <2>1, SellKnown DEF state
    <3>2. v.origin = OriginAfter(state, f.origin) BY <1>1, <2>1, <2>2, SellKnown
    <3> QED BY <3>1, <3>2
  <2>4. v.origin = "visible_zero" => u.origin = "visible_zero" BY <1>1, <2>3 DEF OriginAfter
  <2>5. CASE state = "remaining"
    <3>1. /\ u.cur # NULL /\ u.episodes = e.episodes /\ u.book = Sold(e.book, row.amount)
          /\ SoldLeg(e.cur, u.cur, row, e.book)
          /\ u.cur.closedAt = e.cur.closedAt /\ u.cur.status = e.cur.status
      BY <1>1, <2>1, <2>5, SellKnown DEF state
    <3>2. /\ v.cur # NULL /\ v.episodes = f.episodes /\ v.book = Sold(f.book, row.amount)
          /\ SoldLeg(f.cur, v.cur, row, f.book)
          /\ v.cur.closedAt = f.cur.closedAt /\ v.cur.status = f.cur.status
      BY <1>1, <2>1, <2>2, <2>5, SellKnown
    <3>3. ToldAs(u.cur, v.cur) BY <1>1, <3>1, <3>2 DEF ToldAs, SoldLeg, OneLegMore
    <3>4. LegOf(e, u, row, u.cur) /\ LegOf(f, v, row, v.cur)
      BY <1>3, <3>1, <3>2 DEF LegOf, SoldLeg
    <3> QED BY <1>1, <2>4, <3>1, <3>2, <3>3, <3>4 DEF u, v
  <2>6. CASE state # "remaining"
    <3>1. /\ u.cur = NULL
          /\ \E x \in EpisodeType :
               /\ u.episodes = e.episodes \cup {x} /\ SoldLeg(e.cur, x, row, e.book)
               /\ x.closedAt = row.ts
               /\ x.status = IF state = "closed" THEN state ELSE "partial"
      BY <1>1, <2>1, <2>6, SellKnown DEF state
    <3>2. /\ v.cur = NULL
          /\ \E y \in EpisodeType :
               /\ v.episodes = f.episodes \cup {y} /\ SoldLeg(f.cur, y, row, f.book)
               /\ y.closedAt = row.ts
               /\ y.status = IF state = "closed" THEN state ELSE "partial"
      BY <1>1, <2>1, <2>2, <2>6, SellKnown
    <3>3. PICK x \in EpisodeType :
               /\ u.episodes = e.episodes \cup {x} /\ SoldLeg(e.cur, x, row, e.book)
               /\ x.closedAt = row.ts
               /\ x.status = IF state = "closed" THEN state ELSE "partial"
      BY <3>1
    <3>4. PICK y \in EpisodeType :
               /\ v.episodes = f.episodes \cup {y} /\ SoldLeg(f.cur, y, row, f.book)
               /\ y.closedAt = row.ts
               /\ y.status = IF state = "closed" THEN state ELSE "partial"
      BY <3>2
    <3>5. ToldAs(x, y) BY <1>1, <3>3, <3>4 DEF ToldAs, SoldLeg, OneLegMore
    <3>6. LegOf(e, u, row, x) /\ LegOf(f, v, row, y)
      BY <1>3, <3>1, <3>2, <3>3, <3>4 DEF LegOf, SoldLeg
    <3> QED BY <2>4, <3>1, <3>2, <3>5, <3>6 DEF u, v
  <2> QED BY <2>5, <2>6
<1> QED BY <1>2, <1>3

-----------------------------------------------------------------------------
(* Steps of one walker, and of two that are in the same group.             *)

(* A row makes episode x of episode c, which it may have begun, and leaves *)
(* the rest.                                                               *)
Adds(t, u, row, rest, c, x) ==
  /\ AllOf(t) \ {c} \subseteq rest /\ rest \subseteq AllOf(t)
  /\ AllOf(u) = rest \cup {x} /\ u.episodes \in {rest, rest \cup {x}}
  /\ c.legs = {} \/ c \in AllOf(t)
  /\ c.id[1] = row.group /\ x.id[1] = row.group /\ x.legs = c.legs \cup {row.n}

LEMMA WalkedAdds ==
  ASSUME NEW t, Known(t), NEW row \in RowType
  PROVE  LET u == Walked(t, row)
         IN  /\ u = Leg(Enter(t, row), row)
             /\ Known(u) /\ u.group = row.group
             /\ \E rest, c, x : Adds(t, u, row, rest, c, x)
<1> DEFINE u == Walked(t, row)
           e == Enter(t, row)
<1>1. u = Leg(e, row) BY DEF Walked, Leg
<1>2. /\ Known(e) /\ e.cur # NULL /\ e.group = row.group
      /\ IF t.cur # NULL /\ t.group = row.group THEN e = t
         ELSE e.episodes = AllOf(t) /\ Begins(e.cur, row, e.origin)
  BY EnterKnown
<1> HIDE DEF u, e
<1>3. Known(u) /\ u.group = row.group /\ \E x : LegOf(e, u, row, x) BY <1>1, <1>2, LegKnown
<1>4. PICK x : LegOf(e, u, row, x) BY <1>3
<1>5. e.cur.id[1] = row.group BY <1>2 DEF Known
<1>6. x.id[1] = row.group /\ x.legs = e.cur.legs \cup {row.n}
  BY <1>4, <1>5 DEF LegOf, OneLegMore
<1>7. AllOf(u) = e.episodes \cup {x} /\ u.episodes \in {e.episodes, e.episodes \cup {x}}
  BY <1>4 DEF LegOf, AllOf
<1>8. AllOf(t) \ {e.cur} \subseteq e.episodes /\ e.episodes \subseteq AllOf(t)
  BY <1>2 DEF AllOf
<1>9. e.cur.legs = {} \/ e.cur \in AllOf(t) BY <1>2 DEF AllOf, Begins
<1>10. Adds(t, u, row, e.episodes, e.cur, x) BY <1>5, <1>6, <1>7, <1>8, <1>9 DEF Adds
<1> QED BY <1>1, <1>3, <1>10 DEF u, e

(* Of the other groups a row changes nothing, but that it may finish an    *)
(* episode; of its own it drops nothing.                                   *)
LEMMA WalkedKnown ==
  ASSUME NEW t, Known(t), NEW row \in RowType
  PROVE  LET u == Walked(t, row)
         IN  /\ u = Leg(Enter(t, row), row)
             /\ Known(u) /\ u.group = row.group
             /\ \A g : g # row.group => /\ InGroup(AllOf(u), g) = InGroup(AllOf(t), g)
                                        /\ InGroup(u.episodes, g) = InGroup(AllOf(t), g)
<1> DEFINE u == Walked(t, row)
<1>1. PICK rest, c, x : Adds(t, u, row, rest, c, x) BY WalkedAdds
<1>2. Known(u) /\ u.group = row.group /\ u = Leg(Enter(t, row), row) BY WalkedAdds
<1> HIDE DEF u
<1>3. ASSUME NEW g, g # row.group
      PROVE  /\ InGroup(AllOf(u), g) = InGroup(AllOf(t), g)
             /\ InGroup(u.episodes, g) = InGroup(AllOf(t), g)
  <2>1. InGroup(rest, g) = InGroup(AllOf(t), g) BY <1>1, <1>3 DEF Adds, InGroup
  <2>2. InGroup(rest \cup {x}, g) = InGroup(rest, g) BY <1>1, <1>3 DEF Adds, InGroup
  <2> QED BY <2>1, <2>2, <1>1 DEF Adds
<1> QED BY <1>2, <1>3 DEF u

LEMMA LegsGoOn ==
  ASSUME NEW t, Known(t), NEW row \in RowType, NEW ep \in AllOf(t)
  PROVE  \E d \in AllOf(Walked(t, row)) : d.id[1] = ep.id[1] /\ ep.legs \subseteq d.legs
<1>1. PICK rest, c, x : Adds(t, Walked(t, row), row, rest, c, x) BY WalkedAdds
<1>2. CASE ep = c
  <2>1. x.id[1] = ep.id[1] /\ ep.legs \subseteq x.legs /\ x \in AllOf(Walked(t, row))
    BY <1>1, <1>2 DEF Adds
  <2> QED BY <2>1
<1>3. CASE ep # c
  <2>1. ep \in AllOf(Walked(t, row)) BY <1>1, <1>3 DEF Adds
  <2> QED BY <2>1
<1> QED BY <1>2, <1>3

OwnLegs(t, rs, n) ==
  \A ep \in AllOf(t) : \A i \in ep.legs : i \in 1 .. n /\ rs[i].group = ep.id[1]

LEMMA LegsStayOwn ==
  ASSUME NEW t, Known(t), NEW rs, NEW n \in Nat, OwnLegs(t, rs, n),
         rs[n + 1] \in RowType, rs[n + 1].n = n + 1
  PROVE  OwnLegs(Walked(t, rs[n + 1]), rs, n + 1)
<1> DEFINE row == rs[n + 1]
           u == Walked(t, row)
<1>1. PICK rest, c, x : Adds(t, u, row, rest, c, x) BY WalkedAdds
<1> HIDE DEF u
<1>2. \A ep \in rest : \A i \in ep.legs : i \in 1 .. n + 1 /\ rs[i].group = ep.id[1]
  <2> TAKE ep \in rest
  <2>1. ep \in AllOf(t) BY <1>1 DEF Adds
  <2> QED BY <2>1 DEF OwnLegs
<1>3. \A i \in x.legs : i \in 1 .. n + 1 /\ rs[i].group = x.id[1]
  <2> TAKE i \in x.legs
  <2>1. CASE i = n + 1 BY <2>1, <1>1 DEF Adds
  <2>2. CASE i # n + 1
    <3>1. i \in c.legs BY <2>2, <1>1 DEF Adds
    <3>2. c \in AllOf(t) /\ c.id[1] = x.id[1] BY <3>1, <1>1 DEF Adds
    <3> QED BY <3>1, <3>2 DEF OwnLegs
  <2> QED BY <2>1, <2>2
<1>4. AllOf(u) = rest \cup {x} BY <1>1 DEF Adds
<1> QED BY <1>2, <1>3, <1>4 DEF OwnLegs, u

(* A cut through a position is not mended by what comes after.             *)
LEMMA CutStaysCut ==
  ASSUME NEW t, Known(t), NEW row \in RowType, NEW rs, NEW since, NEW g,
         Uncut(AllOf(Walked(t, row)), rs, since, g)
  PROVE  Uncut(AllOf(t), rs, since, g)
<1> SUFFICES ASSUME NEW ep \in InGroup(AllOf(t), g)
             PROVE  \/ \A i \in ep.legs : rs[i].ts < since
                    \/ \A i \in ep.legs : rs[i].ts >= since
  BY DEF Uncut
<1>1. ep \in AllOf(t) /\ ep.id[1] = g BY DEF InGroup
<1>2. \E d \in AllOf(Walked(t, row)) : d.id[1] = ep.id[1] /\ ep.legs \subseteq d.legs
  BY <1>1, LegsGoOn
<1>3. PICK d \in InGroup(AllOf(Walked(t, row)), g) : ep.legs \subseteq d.legs
  BY <1>1, <1>2 DEF InGroup
<1> QED BY <1>3 DEF Uncut

(* No position at all, and one more that both know.                        *)
LEMMA ToldOneMore ==
  ASSUME NEW S, NEW T, AllTold(S, T), NEW x, NEW y, ToldAs(x, y)
  PROVE  AllTold(S \cup {x}, T \cup {y})
BY DEF AllTold

LEMMA NothingTold == AllTold({}, {})
BY DEF AllTold

(* What is said of the group that both may be in the midst of.             *)
Beside(w, t, since) ==
  /\ AllTold(OpenedSince(w.episodes, w.group, since), InGroup(t.episodes, w.group))
  /\ t.group = w.group /\ t.origin = "visible_zero" => w.origin = "visible_zero"
  /\ IF w.cur # NULL /\ w.cur.openedAt >= since
     THEN /\ t.cur # NULL /\ t.group = w.group /\ t.book = w.book /\ ToldAs(w.cur, t.cur)
     ELSE t.cur = NULL \/ t.group # w.group

(* Both take the row.                                                      *)
LEMMA BothTake ==
  ASSUME NEW e, NEW f, Known(e), Known(f), Level(e, f), NEW row \in RowType, NEW since \in Nat,
         e.group = row.group, f.group = row.group, e.cur.openedAt >= since, row.ts >= since,
         AllTold(OpenedSince(e.episodes, row.group, since), InGroup(f.episodes, row.group))
  PROVE  Beside(Leg(e, row), Leg(f, row), since)
<1> DEFINE u == Leg(e, row)
           v == Leg(f, row)
           g == row.group
<1>1. e.cur # NULL /\ f.cur # NULL BY DEF Level
<1>2. Known(u) /\ u.group = g /\ Known(v) /\ v.group = g BY <1>1, LegKnown
<1>3. /\ u.cur = NULL <=> v.cur = NULL
      /\ u.cur # NULL => v.book = u.book
      /\ v.origin = "visible_zero" => u.origin = "visible_zero"
      /\ \E x, y : LegOf(e, u, row, x) /\ LegOf(f, v, row, y) /\ ToldAs(x, y)
  BY LegLevel
<1> HIDE DEF u, v
<1>4. PICK x, y : LegOf(e, u, row, x) /\ LegOf(f, v, row, y) /\ ToldAs(x, y) BY <1>3
<1>5. x.openedAt >= since BY <1>4 DEF LegOf
<1>6. x.id[1] = g /\ y.id[1] = g
  BY <1>1, <1>4 DEF LegOf, OneLegMore, Known
<1>7. CASE u.cur = NULL
  <2>1. u.episodes = e.episodes \cup {x} /\ v.episodes = f.episodes \cup {y} /\ v.cur = NULL
    BY <1>3, <1>4, <1>7 DEF LegOf
  <2>2. /\ OpenedSince(u.episodes, g, since) = OpenedSince(e.episodes, g, since) \cup {x}
        /\ InGroup(v.episodes, g) = InGroup(f.episodes, g) \cup {y}
    BY <2>1, <1>5, <1>6 DEF OpenedSince, InGroup
  <2>3. AllTold(OpenedSince(u.episodes, g, since), InGroup(v.episodes, g))
    BY <2>2, <1>4, ToldOneMore
  <2> QED BY <2>1, <2>3, <1>2, <1>3, <1>7 DEF Beside, u, v
<1>8. CASE u.cur # NULL
  <2>1. /\ u.episodes = e.episodes /\ v.episodes = f.episodes /\ u.cur = x /\ v.cur = y
        /\ v.cur # NULL
    BY <1>3, <1>4, <1>8 DEF LegOf
  <2> QED BY <2>1, <1>2, <1>3, <1>4, <1>5, <1>8 DEF Beside, u, v
<1> QED BY <1>7, <1>8

(* Only the whole walk takes the row, which is too old or of a position    *)
(* that is.                                                                *)
LEMMA OneTakes ==
  ASSUME NEW e, NEW t, Known(e), Known(t), e.cur # NULL, NEW row \in RowType, NEW since \in Nat,
         e.group = row.group, t.group # row.group, e.cur.openedAt < since,
         row.side = "buy" /\ IsEmpty(e.book) => row.ts < since,
         AllTold(OpenedSince(e.episodes, row.group, since), InGroup(t.episodes, row.group))
  PROVE  Beside(Leg(e, row), t, since)
<1> DEFINE u == Leg(e, row)
<1>1. Known(u) /\ u.group = row.group /\ \E x : LegOf(e, u, row, x) BY LegKnown
<1> HIDE DEF u
<1>2. PICK x : LegOf(e, u, row, x) BY <1>1
<1>3. x.openedAt < since /\ x.openedAt \in Nat
  BY <1>2 DEF LegOf, OneLegMore, EpisodeType
<1>4. /\ u.cur # NULL => u.cur = x
      /\ OpenedSince(u.episodes, row.group, since) = OpenedSince(e.episodes, row.group, since)
  BY <1>2, <1>3 DEF LegOf, OpenedSince, InGroup
<1> QED BY <1>1, <1>3, <1>4 DEF Beside, u

-----------------------------------------------------------------------------
(* The two walks side by side.                                             *)

(* Walker t, who started late, beside walker w, who saw all n rows.        *)
Follows(w, t, rs, n, since) ==
  /\ Known(t) /\ t.group <= w.group
  /\ \A ep \in t.episodes : ep.id[1] <= t.group
  /\ OwnLegs(t, rs, n)
  /\ t.group = w.group /\ n > 0 => rs[n].ts >= since
  /\ \A g \in DOMAIN Groups \ {w.group} :
       Uncut(AllOf(w), rs, since, g) =>
         AllTold(OpenedSince(w.episodes, g, since), InGroup(AllOf(t), g))
  /\ Uncut(AllOf(w), rs, since, w.group) => Beside(w, t, since)

LEMMA GroupsAreNumbers ==
  ASSUME NEW t, Known(t)
  PROVE  /\ t.group \in Nat
         /\ \A ep \in t.episodes : ep.id[1] \in Nat
<1>1. t.group \in 0 .. Len(Groups) /\ t.episodes \in SUBSET EpisodeType BY DEF Known
<1>2. \A ep \in EpisodeType : ep.id[1] \in Nat
  BY WalkerConstantsOK DEF EpisodeType, EpisodeIds
<1> QED BY <1>1, <1>2, WalkerConstantsOK

LEMMA WalkIsKnown ==
  ASSUME NEW w, NEW rs, NEW n \in Nat, Walk(w, rs, n)
  PROVE  /\ Known(w) /\ \A ep \in w.episodes : ep.id[1] <= w.group
         /\ w.group = (IF n = 0 THEN 0 ELSE rs[n].group)
         /\ w.cur # NULL => /\ ~IsEmpty(w.book)
                            /\ \E i \in w.cur.legs : i \in 1 .. n /\ rs[i].ts = w.cur.openedAt
<1>1. PICK a \in 1 .. n + 1 : Shape(w, rs, a, n) /\ Settled(w, rs, a, n) BY DEF Walk
<1>2. w \in WalkType /\ Past(w, rs, a) /\ Current(w, rs, a, n) BY <1>1 DEF Shape
<1>3. w.cur # NULL => w.cur.id[1] = w.group BY <1>2 DEF Current
<1>4. Known(w)
  <2>1. w.cur = NULL => w.book = Zero BY <1>1 DEF Settled
  <2> QED BY <1>2, <1>3, <2>1 DEF WalkType, Known
<1>5. \A ep \in w.episodes : ep.id[1] <= w.group BY <1>2 DEF Past, PastEpisode
<1>6. w.cur # NULL => \E i \in w.cur.legs : i \in 1 .. n /\ rs[i].ts = w.cur.openedAt
  <2> SUFFICES ASSUME w.cur # NULL
               PROVE  \E i \in w.cur.legs : i \in 1 .. n /\ rs[i].ts = w.cur.openedAt
    OBVIOUS
  <2>1. a <= n BY <1>1 DEF Settled
  <2>2. w.cur.legs = a .. n /\ rs[a].ts = w.cur.openedAt
    BY <1>2, <2>1 DEF Current, MadeOf
  <2> QED BY <2>1, <2>2
<1> QED BY <1>1, <1>4, <1>5, <1>6 DEF Settled

(* The rows' groups and times are numbers, and the order is theirs.        *)
LEMMA NextIsLater ==
  ASSUME NEW rs, NEW n \in Nat, Ordered(rs, n + 1)
  PROVE  /\ rs[n + 1] \in RowType /\ rs[n + 1].n = n + 1
         /\ rs[n + 1].group \in DOMAIN Groups /\ rs[n + 1].group \in Nat \ {0}
         /\ \A i \in 1 .. n + 1 : rs[i].ts \in Nat /\ rs[i].group \in Nat \ {0}
         /\ n > 0 => \/ rs[n].group < rs[n + 1].group
                     \/ rs[n].group = rs[n + 1].group /\ rs[n].ts <= rs[n + 1].ts
<1>1. \A i \in 1 .. n + 1 : rs[i] \in RowType /\ rs[i].n = i BY DEF Ordered
<1>2. n + 1 \in 1 .. n + 1 /\ (n > 0 => n \in 1 .. n + 1) OBVIOUS
<1>3. \A g \in DOMAIN Groups : g \in Nat \ {0} BY WalkerConstantsOK
<1>4. \A r \in RowType : r.ts \in Nat /\ r.group \in DOMAIN Groups BY DEF RowType
<1>5. n > 0 => \/ rs[n].group < rs[n + 1].group
               \/ rs[n].group = rs[n + 1].group /\ rs[n].ts <= rs[n + 1].ts
  BY <1>2 DEF Ordered
<1> QED BY <1>1, <1>2, <1>3, <1>4, <1>5

(* All positions of a group that is not cut, the one in hand included.     *)
LEMMA TellsAll ==
  ASSUME NEW w, NEW t, NEW rs, NEW n \in Nat, NEW since \in Nat,
         Known(w), Follows(w, t, rs, n, since),
         NEW g \in DOMAIN Groups, Uncut(AllOf(w), rs, since, g)
  PROVE  AllTold(OpenedSince(AllOf(w), g, since), InGroup(AllOf(t), g))
<1>1. Known(t) BY DEF Follows
<1>2. CASE g # w.group
  <2>1. OpenedSince(AllOf(w), g, since) = OpenedSince(w.episodes, g, since)
    BY <1>2 DEF AllOf, OpenedSince, InGroup, Known
  <2> QED BY <1>2, <2>1 DEF Follows
<1>3. CASE g = w.group
  <2>1. Beside(w, t, since) BY <1>3 DEF Follows
  <2>2. CASE w.cur # NULL /\ w.cur.openedAt >= since
    <3>1. /\ t.cur # NULL /\ t.group = g /\ ToldAs(w.cur, t.cur)
          /\ AllTold(OpenedSince(w.episodes, g, since), InGroup(t.episodes, g))
      BY <2>1, <2>2, <1>3 DEF Beside
    <3>2. OpenedSince(AllOf(w), g, since) = OpenedSince(w.episodes, g, since) \cup {w.cur}
      BY <2>2, <1>3 DEF AllOf, OpenedSince, InGroup, Known
    <3>3. InGroup(AllOf(t), g) = InGroup(t.episodes, g) \cup {t.cur}
      BY <3>1, <1>1 DEF AllOf, InGroup, Known
    <3> QED BY <3>1, <3>2, <3>3, ToldOneMore
  <2>3. CASE ~(w.cur # NULL /\ w.cur.openedAt >= since)
    <3>1. /\ t.cur = NULL \/ t.group # g
          /\ AllTold(OpenedSince(w.episodes, g, since), InGroup(t.episodes, g))
      BY <2>1, <2>3, <1>3 DEF Beside
    <3>2. OpenedSince(AllOf(w), g, since) = OpenedSince(w.episodes, g, since)
      BY <2>3 DEF AllOf, OpenedSince, InGroup
    <3>3. InGroup(AllOf(t), g) = InGroup(t.episodes, g)
      BY <3>1, <1>1 DEF AllOf, InGroup, Known
    <3> QED BY <3>1, <3>2, <3>3
  <2> QED BY <2>2, <2>3
<1> QED BY <1>2, <1>3

(* The other groups, once the row's group is set aside.                    *)
LEMMA OthersFollow ==
  ASSUME NEW w, NEW t, NEW rs, NEW n \in Nat, NEW since \in Nat,
         Known(w), Follows(w, t, rs, n, since), NEW row \in RowType,
         NEW g \in DOMAIN Groups \ {row.group}, Uncut(AllOf(Walked(w, row)), rs, since, g)
  PROVE  AllTold(OpenedSince(Walked(w, row).episodes, g, since),
                 InGroup(AllOf(WalkStep(t, row, since)), g))
<1> DEFINE u == Walked(w, row)
           v == WalkStep(t, row, since)
<1>1. Uncut(AllOf(w), rs, since, g) BY CutStaysCut
<1>2. Known(t) BY DEF Follows
<1>3. InGroup(u.episodes, g) = InGroup(AllOf(w), g) BY WalkedKnown
<1>4. InGroup(AllOf(v), g) = InGroup(AllOf(t), g) BY <1>2, WalkedKnown DEF WalkStep
<1> HIDE DEF u, v
<1>5. OpenedSince(u.episodes, g, since) = OpenedSince(AllOf(w), g, since)
  BY <1>3 DEF OpenedSince
<1>6. AllTold(OpenedSince(AllOf(w), g, since), InGroup(AllOf(t), g)) BY <1>1, TellsAll
<1> QED BY <1>4, <1>5, <1>6 DEF u, v

(* A row of the group both may be in the midst of, or of the next.         *)
LEMMA BesideGoesOn ==
  ASSUME NEW w, NEW t, NEW rs, NEW n \in Nat, NEW since \in Nat,
         Walk(w, rs, n), Ordered(rs, n + 1), Follows(w, t, rs, n, since),
         Uncut(AllOf(Walked(w, rs[n + 1])), rs, since, rs[n + 1].group)
  PROVE  Beside(Walked(w, rs[n + 1]), WalkStep(t, rs[n + 1], since), since)
<1> DEFINE row == rs[n + 1]
           g == row.group
           e == Enter(w, row)
           f == Enter(t, row)
           u == Walked(w, row)
           v == WalkStep(t, row, since)
<1>1. /\ row \in RowType /\ row.n = n + 1 /\ g \in DOMAIN Groups /\ g \in Nat \ {0}
      /\ \A i \in 1 .. n + 1 : rs[i].ts \in Nat /\ rs[i].group \in Nat \ {0}
      /\ n > 0 => \/ rs[n].group < g
                  \/ rs[n].group = g /\ rs[n].ts <= row.ts
  BY NextIsLater
<1>2. /\ Known(w) /\ \A ep \in w.episodes : ep.id[1] <= w.group
      /\ w.group = (IF n = 0 THEN 0 ELSE rs[n].group)
      /\ w.cur # NULL => /\ ~IsEmpty(w.book)
                         /\ \E i \in w.cur.legs : i \in 1 .. n /\ rs[i].ts = w.cur.openedAt
  BY WalkIsKnown
<1>3. /\ Known(t) /\ t.group <= w.group /\ \A ep \in t.episodes : ep.id[1] <= t.group
      /\ t.group = w.group /\ n > 0 => rs[n].ts >= since
  BY DEF Follows
<1>4. w.group \in Nat /\ t.group \in Nat /\ row.ts \in Nat
  <2>1. n + 1 \in 1 .. n + 1 OBVIOUS
  <2> QED BY <2>1, <1>1, <1>2, <1>3, GroupsAreNumbers
<1>5. w.group <= g BY <1>1, <1>2, <1>4
<1>6. t.group = g => row.ts >= since
  <2>1. t.group = g => w.group = g BY <1>1, <1>3, <1>4, <1>5
  <2>2. w.group = g => n > 0 /\ n \in 1 .. n + 1 BY <1>1, <1>2
  <2> QED BY <2>1, <2>2, <1>1, <1>2, <1>3, <1>4
<1>7. /\ Known(e) /\ e.cur # NULL /\ e.group = g
      /\ IF w.cur # NULL /\ w.group = g THEN e = w
         ELSE /\ e.episodes = AllOf(w) /\ e.book = Zero
              /\ e.origin = IF w.group = g THEN w.origin ELSE "censored"
              /\ Begins(e.cur, row, e.origin)
  BY <1>1, <1>2, EnterKnown
<1>8. /\ Known(f) /\ f.cur # NULL /\ f.group = g
      /\ IF t.cur # NULL /\ t.group = g THEN f = t
         ELSE /\ f.episodes = AllOf(t) /\ f.book = Zero
              /\ f.origin = IF t.group = g THEN t.origin ELSE "censored"
              /\ Begins(f.cur, row, f.origin)
  BY <1>1, <1>3, EnterKnown
<1>9. u = Leg(e, row) /\ Walked(t, row) = Leg(f, row) BY <1>1, <1>2, <1>3, WalkedKnown
<1>10. Uncut(AllOf(w), rs, since, g) BY <1>1, <1>2, CutStaysCut
<1>11. Uncut(AllOf(u), rs, since, g) OBVIOUS
<1>12. v = IF row.ts >= since THEN Leg(f, row) ELSE t BY <1>9 DEF WalkStep, TradedSince
<1> SUFFICES Beside(u, v, since) OBVIOUS
<1> HIDE DEF e, f, u, v, row
\* A position that the cut walk knows: both go on with it.
<1>13. CASE w.cur # NULL /\ w.group = g /\ w.cur.openedAt >= since
  <2>1. Beside(w, t, since) BY <1>10, <1>13 DEF Follows
  <2>2. /\ t.cur # NULL /\ t.group = g /\ t.book = w.book /\ ToldAs(w.cur, t.cur)
        /\ t.origin = "visible_zero" => w.origin = "visible_zero"
        /\ AllTold(OpenedSince(w.episodes, g, since), InGroup(t.episodes, g))
    BY <2>1, <1>13 DEF Beside
  <2>3. e = w /\ f = t /\ row.ts >= since BY <2>2, <1>6, <1>7, <1>8, <1>13
  <2>4. Level(e, f) BY <2>2, <2>3, <1>13 DEF Level
  <2>5. Beside(Leg(e, row), Leg(f, row), since)
    BY <2>2, <2>3, <2>4, <1>1, <1>7, <1>8, <1>13, BothTake
  <2> QED BY <2>3, <2>5, <1>9, <1>12
\* A position that began before: its row is as old, for nothing is cut.
<1>14. CASE w.cur # NULL /\ w.group = g /\ ~(w.cur.openedAt >= since)
  <2>1. Beside(w, t, since) BY <1>10, <1>14 DEF Follows
  <2>2. AllTold(OpenedSince(w.episodes, g, since), InGroup(t.episodes, g))
    BY <2>1, <1>14 DEF Beside
  <2>3. e = w /\ ~IsEmpty(e.book) BY <1>2, <1>7, <1>14
  <2>4. w.cur.openedAt \in Nat BY <1>2, <1>14 DEF Known, EpisodeType
  <2>5. PICK i \in w.cur.legs : i \in 1 .. n /\ rs[i].ts = w.cur.openedAt BY <1>2, <1>14
  <2>6. row.ts < since
    <3>1. PICK x : LegOf(e, u, row, x) BY <1>1, <1>7, <1>9, LegKnown
    <3>2. x.id[1] = g /\ i \in x.legs /\ n + 1 \in x.legs
      BY <3>1, <2>3, <2>5, <1>1, <1>2, <1>14 DEF LegOf, OneLegMore, Known
    <3>3. x \in InGroup(AllOf(u), g) BY <3>1, <3>2 DEF LegOf, AllOf, InGroup
    <3>4. \/ \A j \in x.legs : rs[j].ts < since
          \/ \A j \in x.legs : rs[j].ts >= since
      BY <1>11, <3>3 DEF Uncut
    <3> QED BY <3>2, <3>4, <2>4, <2>5, <1>14 DEF row
  <2>7. t.group # g /\ v = t BY <2>6, <1>4, <1>6, <1>12
  <2> QED BY <2>2, <2>3, <2>4, <2>6, <2>7, <1>1, <1>3, <1>7, <1>9, <1>14, OneTakes
\* A position that the row begins.
<1>15. CASE ~(w.cur # NULL /\ w.group = g)
  <2>1. /\ e.episodes = AllOf(w) /\ e.book = Zero
        /\ e.origin = (IF w.group = g THEN w.origin ELSE "censored")
        /\ Begins(e.cur, row, e.origin)
    BY <1>7, <1>15
  <2>2. e.cur.openedAt = row.ts BY <2>1 DEF Begins
  <2>3. /\ w.group = g => /\ t.cur = NULL \/ t.group # g
                          /\ t.group = g /\ t.origin = "visible_zero" => w.origin = "visible_zero"
        /\ AllTold(OpenedSince(AllOf(w), g, since), InGroup(AllOf(t), g))
    <3>1. CASE w.group = g
      <4>1. Beside(w, t, since) BY <1>10, <3>1 DEF Follows
      <4>2. w.cur = NULL BY <1>15, <3>1
      <4>3. /\ t.cur = NULL \/ t.group # g
            /\ t.group = g /\ t.origin = "visible_zero" => w.origin = "visible_zero"
            /\ AllTold(OpenedSince(w.episodes, g, since), InGroup(t.episodes, g))
        BY <3>1, <4>1, <4>2 DEF Beside
      <4>4. AllOf(w) = w.episodes /\ InGroup(AllOf(t), g) = InGroup(t.episodes, g)
        BY <4>2, <4>3, <1>3 DEF AllOf, InGroup, Known
      <4> QED BY <4>3, <4>4
    <3>2. CASE w.group # g
      <4>1. w.group < g /\ t.group < g BY <3>2, <1>1, <1>3, <1>4, <1>5
      <4>2. InGroup(AllOf(w), g) = {}
        <5>1. \A ep \in AllOf(w) : ep.id[1] # g
          <6>1. \A ep \in w.episodes : ep.id[1] # g
            <7> TAKE ep \in w.episodes
            <7>1. ep.id[1] <= w.group /\ ep.id[1] \in Nat BY <1>2, GroupsAreNumbers
            <7> QED BY <7>1, <4>1, <1>1, <1>4
          <6>2. w.cur # NULL => w.cur.id[1] # g BY <1>2, <3>2 DEF Known
          <6> QED BY <6>1, <6>2 DEF AllOf
        <5> QED BY <5>1 DEF InGroup
      <4>3. InGroup(AllOf(t), g) = {}
        <5>1. \A ep \in AllOf(t) : ep.id[1] # g
          <6>1. \A ep \in t.episodes : ep.id[1] # g
            <7> TAKE ep \in t.episodes
            <7>1. ep.id[1] <= t.group /\ ep.id[1] \in Nat BY <1>3, GroupsAreNumbers
            <7> QED BY <7>1, <4>1, <1>1, <1>4
          <6>2. t.cur # NULL => t.cur.id[1] # g BY <1>1, <1>3, <1>4, <4>1 DEF Known
          <6> QED BY <6>1, <6>2 DEF AllOf
        <5> QED BY <5>1 DEF InGroup
      <4>4. OpenedSince(AllOf(w), g, since) = {} BY <4>2 DEF OpenedSince
      <4> QED BY <3>2, <4>3, <4>4, NothingTold
    <3> QED BY <3>1, <3>2
  <2>4. CASE row.ts >= since
    <3>1. ~(t.cur # NULL /\ t.group = g) BY <2>3, <1>1, <1>3, <1>4, <1>5
    <3>2. /\ f.episodes = AllOf(t) /\ f.book = Zero
          /\ f.origin = (IF t.group = g THEN t.origin ELSE "censored")
          /\ Begins(f.cur, row, f.origin)
      BY <1>8, <3>1
    <3>3. f.origin = "visible_zero" => e.origin = "visible_zero"
      <4>1. t.group = g => w.group = g BY <1>1, <1>3, <1>4, <1>5
      <4> QED BY <4>1, <3>2, <2>1, <2>3
    <3>4. ToldAs(e.cur, f.cur) BY <3>2, <3>3, <2>1 DEF Begins, ToldAs
    <3>5. Level(e, f) BY <3>2, <3>3, <3>4, <2>1, <1>7, <1>8 DEF Level
    <3>6. AllTold(OpenedSince(e.episodes, g, since), InGroup(f.episodes, g))
      BY <3>2, <2>1, <2>3
    <3>7. Beside(Leg(e, row), Leg(f, row), since)
      BY <3>5, <3>6, <2>2, <2>4, <1>1, <1>7, <1>8, BothTake
    <3> QED BY <3>7, <2>4, <1>9, <1>12
  <2>5. CASE ~(row.ts >= since)
    <3>1. row.ts < since /\ t.group # g /\ v = t BY <2>5, <1>4, <1>6, <1>12
    <3>2. InGroup(AllOf(t), g) = InGroup(t.episodes, g)
      BY <3>1, <1>3 DEF AllOf, InGroup, Known
    <3>3. AllTold(OpenedSince(e.episodes, g, since), InGroup(t.episodes, g))
      BY <3>2, <2>1, <2>3
    <3> QED BY <3>1, <3>3, <2>2, <1>1, <1>3, <1>7, <1>9, OneTakes
  <2> QED BY <2>4, <2>5
<1> QED BY <1>13, <1>14, <1>15

-----------------------------------------------------------------------------
(* The invariant of the two walks.                                         *)

LEMMA FollowsGoesOn ==
  ASSUME NEW w, NEW t, NEW rs, NEW n \in Nat, NEW since \in Nat,
         Walk(w, rs, n), Ordered(rs, n + 1), Follows(w, t, rs, n, since)
  PROVE  Follows(Walked(w, rs[n + 1]), WalkStep(t, rs[n + 1], since), rs, n + 1, since)
<1> DEFINE row == rs[n + 1]
           u == Walked(w, row)
           v == WalkStep(t, row, since)
<1>1. /\ row \in RowType /\ row.n = n + 1 /\ row.group \in DOMAIN Groups
      /\ row.group \in Nat \ {0}
      /\ \A i \in 1 .. n + 1 : rs[i].ts \in Nat /\ rs[i].group \in Nat \ {0}
      /\ n > 0 => \/ rs[n].group < row.group
                  \/ rs[n].group = row.group /\ rs[n].ts <= row.ts
  BY NextIsLater
<1>2. /\ Known(w) /\ w.group = (IF n = 0 THEN 0 ELSE rs[n].group) BY WalkIsKnown
<1>3. /\ Known(t) /\ t.group <= w.group /\ \A ep \in t.episodes : ep.id[1] <= t.group
      /\ OwnLegs(t, rs, n)
      /\ t.group = w.group /\ n > 0 => rs[n].ts >= since
  BY DEF Follows
<1>4. w.group \in Nat /\ t.group \in Nat /\ row.ts \in Nat /\ w.group <= row.group
  <2>1. n + 1 \in 1 .. n + 1 /\ (n > 0 => n \in 1 .. n + 1) OBVIOUS
  <2> QED BY <2>1, <1>1, <1>2, <1>3, GroupsAreNumbers
<1>5. /\ Known(u) /\ u.group = row.group BY <1>1, <1>2, WalkedKnown
<1>6. v = IF row.ts >= since THEN Walked(t, row) ELSE t BY DEF WalkStep, TradedSince
<1>7. /\ Known(Walked(t, row)) /\ Walked(t, row).group = row.group
      /\ \A g : g # row.group =>
           InGroup(Walked(t, row).episodes, g) = InGroup(AllOf(t), g)
  BY <1>1, <1>3, WalkedKnown
<1>8. \A g \in DOMAIN Groups \ {row.group} :
        Uncut(AllOf(u), rs, since, g) =>
          AllTold(OpenedSince(u.episodes, g, since), InGroup(AllOf(v), g))
  BY <1>1, <1>2, OthersFollow
<1>9. Uncut(AllOf(u), rs, since, row.group) => Beside(u, v, since) BY BesideGoesOn
<1> HIDE DEF u, v
<1>10. Known(v) BY <1>3, <1>6, <1>7
<1>11. v.group <= u.group BY <1>1, <1>3, <1>4, <1>5, <1>6, <1>7
<1>12. ASSUME NEW ep \in v.episodes PROVE ep.id[1] <= v.group
  <2>1. CASE v = t BY <2>1, <1>3
  <2>2. CASE v = Walked(t, row) /\ ep.id[1] = row.group BY <2>2, <1>1, <1>7
  <2>3. CASE v = Walked(t, row) /\ ep.id[1] # row.group
    <3>1. ep \in InGroup(AllOf(t), ep.id[1]) BY <2>3, <1>7 DEF InGroup
    <3>2. ep \in AllOf(t) BY <3>1 DEF InGroup
    <3>3. ep.id[1] <= t.group BY <3>2, <1>3, <1>4 DEF AllOf, Known
    <3>4. ep.id[1] \in Nat BY <1>10, GroupsAreNumbers
    <3> QED BY <3>3, <3>4, <2>3, <1>1, <1>3, <1>4, <1>7
  <2> QED BY <2>1, <2>2, <2>3, <1>6
<1>13. OwnLegs(v, rs, n + 1)
  <2>1. OwnLegs(Walked(t, row), rs, n + 1) BY <1>1, <1>3, LegsStayOwn
  <2>2. OwnLegs(t, rs, n + 1) BY <1>3 DEF OwnLegs
  <2> QED BY <2>1, <2>2, <1>6
<1>14. v.group = u.group => row.ts >= since
  <2> SUFFICES ASSUME v.group = u.group, ~(row.ts >= since) PROVE FALSE OBVIOUS
  <2>1. t.group = row.group BY <1>5, <1>6
  <2>2. w.group = row.group BY <2>1, <1>1, <1>3, <1>4
  <2>3. n > 0 /\ n \in 1 .. n + 1 BY <2>2, <1>1, <1>2
  <2>4. rs[n].ts >= since /\ rs[n].ts <= row.ts /\ rs[n].ts \in Nat
    BY <2>1, <2>2, <2>3, <1>1, <1>2, <1>3
  <2> QED BY <2>4, <1>4
<1>15. \A g \in DOMAIN Groups \ {u.group} :
         Uncut(AllOf(u), rs, since, g) =>
           AllTold(OpenedSince(u.episodes, g, since), InGroup(AllOf(v), g))
  BY <1>5, <1>8
<1>16. Uncut(AllOf(u), rs, since, u.group) => Beside(u, v, since) BY <1>5, <1>9
<1>17. v.group = u.group /\ n + 1 > 0 => rs[n + 1].ts >= since BY <1>14
<1>18. \A ep \in v.episodes : ep.id[1] <= v.group BY <1>12
<1>19. Follows(u, v, rs, n + 1, since)
  BY <1>10, <1>11, <1>13, <1>15, <1>16, <1>17, <1>18 DEF Follows
<1> QED BY <1>19 DEF u, v

(* What is known of the first n rows does not look at later ones.          *)
LEMMA FollowsExtends ==
  ASSUME NEW w, NEW t, NEW rs, NEW qs, NEW n \in Nat, NEW since \in Nat,
         Walk(w, rs, n), Follows(w, t, rs, n, since), \A i \in 1 .. n : qs[i] = rs[i]
  PROVE  Follows(w, t, qs, n, since)
<1>1. \A ep \in AllOf(w) : ep.legs \subseteq 1 .. n
  <2>1. PICK a \in 1 .. n + 1 : Shape(w, rs, a, n) BY DEF Walk
  <2>2. Past(w, rs, a) /\ Current(w, rs, a, n) BY <2>1 DEF Shape
  <2>3. ASSUME NEW ep \in w.episodes PROVE ep.legs \subseteq 1 .. n
    <3>1. PICK b, c \in 1 .. a - 1 : ep.legs = b .. c BY <2>2 DEF Past, PastEpisode, MadeOf
    <3> QED BY <3>1
  <2>4. w.cur # NULL => w.cur.legs \subseteq 1 .. n BY <2>2 DEF Current, MadeOf
  <2> QED BY <2>3, <2>4 DEF AllOf
<1>2. ASSUME NEW g, Uncut(AllOf(w), qs, since, g) PROVE Uncut(AllOf(w), rs, since, g)
  <2> SUFFICES ASSUME NEW ep \in InGroup(AllOf(w), g)
               PROVE  \/ \A i \in ep.legs : rs[i].ts < since
                      \/ \A i \in ep.legs : rs[i].ts >= since
    BY DEF Uncut
  <2>1. \A i \in ep.legs : qs[i] = rs[i] BY <1>1 DEF InGroup
  <2> QED BY <2>1, <1>2 DEF Uncut
<1>3. OwnLegs(t, qs, n) BY DEF Follows, OwnLegs
<1>4. t.group = w.group /\ n > 0 => qs[n].ts >= since
  <2>1. n > 0 => n \in 1 .. n OBVIOUS
  <2> QED BY <2>1 DEF Follows
<1> QED BY <1>2, <1>3, <1>4 DEF Follows

LEMMA FollowsStarts ==
  ASSUME NEW rs, NEW since \in Nat
  PROVE  Follows(StartOfWalk, StartOfWalk, rs, 0, since)
<1> DEFINE w == StartOfWalk
<1>1. /\ w.cur = NULL /\ w.episodes = {} /\ w.group = 0 BY DEF StartOfWalk
<1>2. Known(w) BY StartKnown
<1> HIDE DEF w
<1>3. AllOf(w) = {} /\ \A g : OpenedSince(w.episodes, g, since) = {} /\ InGroup(AllOf(w), g) = {}
                              /\ InGroup(w.episodes, g) = {}
  BY <1>1 DEF AllOf, OpenedSince, InGroup
<1>4. Beside(w, w, since) BY <1>1, <1>3, NothingTold DEF Beside
<1>5. Follows(w, w, rs, 0, since) BY <1>1, <1>2, <1>3, <1>4, NothingTold DEF Follows, OwnLegs
<1> QED BY <1>5 DEF w

(* The reconstruction of the rows since, beside the whole walk.            *)
CutInv ==
  \A since \in Nat :
    IF ended
    THEN /\ OwnLegs(Reconstructed(since), rows, Len(rows))
         /\ Known(Reconstructed(since)) /\ Reconstructed(since).cur = NULL
         /\ \A g \in DOMAIN Groups :
              Uncut(walk.episodes, rows, since, g) =>
                AllTold(OpenedSince(walk.episodes, g, since),
                        InGroup(Reconstructed(since).episodes, g))
    ELSE Follows(walk, WalkSince(rows, since, Len(rows)), rows, Len(rows), since)

LEMMA CutStarts == Init => CutInv
<1> SUFFICES ASSUME Init, NEW since \in Nat
             PROVE  ~ended /\ Follows(walk, WalkSince(rows, since, Len(rows)), rows, Len(rows), since)
  BY DEF CutInv
<1>1. ~ended /\ walk = StartOfWalk /\ Len(rows) = 0 BY DEF Init
<1>2. WalkSince(rows, since, 0) = StartOfWalk BY WalkSinceUnfolds
<1> QED BY <1>1, <1>2, FollowsStarts

LEMMA CutGoesOn == WalkInv /\ CutInv /\ [Next]_walkerVars => CutInv'
<1> SUFFICES ASSUME WalkInv, CutInv, [Next]_walkerVars PROVE CutInv' OBVIOUS
<1>1. CASE ReadRow
  <2> DEFINE n == Len(rows)
             rs == rows'
  <2>1. PICK row \in Trades(NextTimes) :
          NextRow(row) /\ rows' = Append(rows, row) /\ walk' = Walked(walk, row)
    BY <1>1 DEF ReadRow
  <2>2. ~ended /\ ended' = FALSE BY <1>1 DEF ReadRow
  <2>3. /\ n \in Nat /\ Len(rs) = n + 1 /\ rs[n + 1] = row
        /\ \A i \in 1 .. n : rs[i] = rows[i]
        /\ Ordered(rs, n + 1)
    BY <2>1, RowsStayOrdered DEF WalkInv
  <2> SUFFICES ASSUME NEW since \in Nat
               PROVE  Follows(walk', WalkSince(rs, since, n + 1), rs, n + 1, since)
    BY <2>2, <2>3 DEF CutInv
  <2>4. Walk(walk, rows, n) /\ Follows(walk, WalkSince(rows, since, n), rows, n, since)
    BY <2>2 DEF WalkInv, CutInv
  <2> HIDE DEF n, rs
  <2>5. WalkSince(rs, since, n) = WalkSince(rows, since, n) BY <2>3, WalkLooksBack
  <2>6. Walk(walk, rs, n) BY <2>3, <2>4, WalkExtends
  <2>7. Follows(walk, WalkSince(rs, since, n), rs, n, since)
    BY <2>3, <2>4, <2>5, FollowsExtends
  <2>8. WalkSince(rs, since, n + 1) = WalkStep(WalkSince(rs, since, n), rs[n + 1], since)
    <3>1. n + 1 \in Nat /\ n + 1 # 0 /\ (n + 1) - 1 = n BY <2>3
    <3> QED BY <3>1, WalkSinceUnfolds
  <2> QED BY <2>1, <2>3, <2>6, <2>7, <2>8, FollowsGoesOn
<1>2. CASE EndOfRows
  <2>1. ~ended /\ ended' = TRUE /\ walk' = Finalize(walk) /\ rows' = rows
    BY <1>2 DEF EndOfRows
  <2> SUFFICES ASSUME NEW since \in Nat
               PROVE  /\ OwnLegs(Reconstructed(since), rows, Len(rows))
                      /\ Known(Reconstructed(since)) /\ Reconstructed(since).cur = NULL
                      /\ \A g \in DOMAIN Groups :
                           Uncut(walk'.episodes, rows, since, g) =>
                             AllTold(OpenedSince(walk'.episodes, g, since),
                                     InGroup(Reconstructed(since).episodes, g))
    BY <2>1 DEF CutInv, Reconstructed
  <2> DEFINE t == WalkSince(rows, since, Len(rows))
  <2>2. /\ Len(rows) \in Nat /\ Walk(walk, rows, Len(rows))
        /\ Follows(walk, t, rows, Len(rows), since)
    BY <2>1 DEF WalkInv, CutInv
  <2>3. Reconstructed(since) = Finalize(t) BY DEF Reconstructed
  <2> HIDE DEF t
  <2>4. Known(walk) /\ Known(t) /\ OwnLegs(t, rows, Len(rows))
    BY <2>2, WalkIsKnown DEF Follows
  <2>5. walk'.episodes = AllOf(walk) BY <2>1, <2>4, FinalizeKnown
  <2>6. /\ Known(Reconstructed(since)) /\ Reconstructed(since).cur = NULL
        /\ Reconstructed(since).episodes = AllOf(t)
    BY <2>3, <2>4, FinalizeKnown
  <2>7. OwnLegs(Reconstructed(since), rows, Len(rows)) BY <2>4, <2>6 DEF OwnLegs, AllOf
  <2> QED BY <2>2, <2>4, <2>5, <2>6, <2>7, TellsAll
<1>3. CASE UNCHANGED walkerVars BY <1>3 DEF walkerVars, CutInv, Reconstructed
<1> QED BY <1>1, <1>2, <1>3 DEF Next

(* The walk since a time runs beside the walk over the whole history, and  *)
(* tells the same of every position that is not cut (episodes.go:111-125). *)
THEOREM CutHolds == Spec => [](WalkInv /\ CutInv)
<1>1. Init => WalkInv /\ CutInv BY WalkStarts, CutStarts
<1>2. WalkInv /\ CutInv /\ [Next]_walkerVars => (WalkInv /\ CutInv)'
  BY WalkGoesOn, CutGoesOn
<1> QED BY <1>1, <1>2, PTL DEF Spec

LEMMA TableIsTold ==
  ASSUME NEW S, NEW T, AllTold(S, T)
  PROVE  {TableRow(ep) : ep \in S} = {TableRow(ep) : ep \in T}
<1>1. \A x, y : ToldAs(x, y) => TableRow(x) = TableRow(y) BY DEF ToldAs, TableRow
<1>2. \A x \in S : \E y \in T : TableRow(x) = TableRow(y) BY <1>1 DEF AllTold
<1>3. \A y \in T : \E x \in S : TableRow(x) = TableRow(y) BY <1>1 DEF AllTold
<1> QED BY <1>2, <1>3

LEMMA TableOfGroup ==
  ASSUME NEW S, NEW g
  PROVE  OfGroup(g, {TableRow(ep) : ep \in S}) = {TableRow(ep) : ep \in InGroup(S, g)}
<1>1. \A ep : TableRow(ep).group = ep.id[1] BY DEF TableRow
<1> HIDE DEF TableRow
<1> QED BY <1>1 DEF OfGroup, InGroup

(* The truncated table and the full history tell the same of every token   *)
(* that is flat when the table's history begins (episodes.go:101-158).     *)
THEOREM TruncationCuts == Spec => []TruncationOnlyCuts
<1>1. WalkInv /\ CutInv => TruncationOnlyCuts
  <2> SUFFICES ASSUME WalkInv, CutInv, ended, NEW since \in Sinces, NEW g \in DOMAIN Groups,
                      FlatAt(since, g)
               PROVE  OfGroup(g, RebuildEpisodes(since))
                        = OfGroup(g, {TableRow(ep) : ep \in EpisodesSince(since)})
    BY DEF TruncationOnlyCuts
  <2>1. since \in Nat BY WalkerConstantsOK DEF Sinces
  <2>2. Uncut(walk.episodes, rows, since, g) BY DEF FlatAt, Uncut, InGroup
  <2>3. AllTold(OpenedSince(walk.episodes, g, since), InGroup(Reconstructed(since).episodes, g))
    BY <2>1, <2>2 DEF CutInv
  <2>4. OpenedSince(walk.episodes, g, since) = InGroup(EpisodesSince(since), g)
    BY DEF OpenedSince, InGroup, EpisodesSince
  <2>5. {TableRow(ep) : ep \in InGroup(EpisodesSince(since), g)}
          = {TableRow(ep) : ep \in InGroup(Reconstructed(since).episodes, g)}
    BY <2>3, <2>4, TableIsTold
  <2>6. OfGroup(g, RebuildEpisodes(since))
          = {TableRow(ep) : ep \in InGroup(Reconstructed(since).episodes, g)}
    BY TableOfGroup DEF RebuildEpisodes
  <2>7. OfGroup(g, {TableRow(ep) : ep \in EpisodesSince(since)})
          = {TableRow(ep) : ep \in InGroup(EpisodesSince(since), g)}
    BY TableOfGroup
  <2> QED BY <2>5, <2>6, <2>7
<1> QED BY <1>1, CutHolds, PTL

(* The truncated table has no better evidence than the full history        *)
(* (episodes.go:104-107).                                                  *)
THEOREM TruncationWeakens == Spec => []TruncationLowersEvidence
<1>1. WalkInv /\ CutInv => TruncationLowersEvidence
  <2> SUFFICES ASSUME WalkInv, CutInv, ended, NEW since \in Sinces,
                      NEW ep \in Reconstructed(since).episodes, NEW d \in walk.episodes,
                      ep.legs = d.legs, FlatAt(since, d.id[1]), Research(ep)
               PROVE  Research(d)
    BY DEF TruncationLowersEvidence
  <2> DEFINE g == d.id[1]
  <2>1. since \in Nat BY WalkerConstantsOK DEF Sinces
  <2>2. Uncut(walk.episodes, rows, since, g) BY DEF FlatAt, Uncut, InGroup
  <2>3. Past(walk, rows, Len(rows) + 1) /\ walk.episodes \subseteq EpisodeType
    BY DEF WalkInv, Shape, WalkType
  <2>4. g \in DOMAIN Groups BY <2>3 DEF EpisodeType, EpisodeIds
  <2>5. AllTold(OpenedSince(walk.episodes, g, since), InGroup(Reconstructed(since).episodes, g))
    BY <2>1, <2>2, <2>4 DEF CutInv
  <2>6. PICK b, c \in 1 .. (Len(rows) + 1) - 1 : b <= c /\ MadeOf(d, rows, b, c)
    BY <2>3 DEF Past, PastEpisode
  <2>7. b \in d.legs /\ rows[b].group = g BY <2>6 DEF MadeOf
  <2>8. ep.id[1] = g
    <3>1. OwnLegs(Reconstructed(since), rows, Len(rows)) BY <2>1 DEF CutInv
    <3> QED BY <3>1, <2>7 DEF OwnLegs, AllOf
  <2>9. PICK x \in OpenedSince(walk.episodes, g, since) : ToldAs(x, ep)
    BY <2>5, <2>8 DEF AllTold, InGroup
  <2>10. x = d
    <3>1. x \in walk.episodes /\ x.legs \cap d.legs # {}
      BY <2>7, <2>9 DEF OpenedSince, InGroup, ToldAs
    <3> QED BY <3>1, <2>3 DEF Past
  <2>11. ep.origin \in Origins
    <3>1. Reconstructed(since).episodes \in SUBSET EpisodeType BY <2>1 DEF CutInv, Known
    <3> QED BY <3>1 DEF EpisodeType
  <2> QED BY <2>9, <2>10, <2>11 DEF ToldAs, Research, Origins
<1> QED BY <1>1, CutHolds, PTL
=============================================================================
