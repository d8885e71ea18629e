----------------------------- MODULE MarkoutProof -----------------------------
(***************************************************************************)
(* Proofs about the markout engine, for every number of events, tokens and *)
(* horizons, every market, and every order of faults and restarts.         *)
(***************************************************************************)
EXTENDS MarkoutCensus, FiniteSetTheorems, TLAPS

USE DEF Kinds

-----------------------------------------------------------------------------
(* Type correctness.  TypeOK is not inductive: a window start is computed  *)
(* from the base time of a listed row, which must therefore be reserved.   *)

Reserved ==
  \A r \in Rows : status[r] # "absent" => base[<<r.event, r.kind>>] # NULL

ListedAreReserved == \A r \in batch \cup targets : status[r] # "absent"

(* A request is for a token; the row whose entry was just looked up is     *)
(* still to be classified.                                                 *)
PassShape ==
  /\ row # NULL => pc = "apply" /\ row \in targets
  /\ pc \in {"sent", "apply"} => token \in Tokens

TypeInv == TypeOK /\ Reserved /\ ListedAreReserved /\ PassShape

(* The pass variables on their own: most actions touch only a few.         *)
PassTypeOK ==
  /\ pc \in {"idle", "next", "sent", "apply"}
  /\ now \in Int /\ attempted \in Nat /\ from \in Int
  /\ batch \subseteq Rows /\ targets \subseteq Rows
  /\ token \in Tokens \cup {NULL}
  /\ candles \subseteq Slots /\ garbage \subseteq candles
  /\ row \in Rows \cup {NULL}
  /\ PassShape

(* What every step but CreateMarkouts does to the status column.           *)
StatusStep ==
  /\ status' \in [Rows -> Statuses]
  /\ \A r \in Rows : status[r] # "absent" <=> status'[r] # "absent"

(* The pass lists no new row.                                              *)
ListShrinks == batch' \cup targets' \subseteq batch \cup targets

NewStatuses == Statuses \ {"absent"}

LEMMA MarkedStep ==
  ASSUME TypeOK, NEW S, NEW st \in NewStatuses, status' = Marked(S, st)
  PROVE  StatusStep
BY DEF Marked, TypeOK, StatusStep, NewStatuses, Retryable

(* markStatus keeps the status column well typed, whichever writes fail.   *)
LEMMA MarkStatusStep ==
  ASSUME TypeOK, NEW S, NEW st \in NewStatuses, MarkStatus(S, st)
  PROVE  StatusStep /\ faultsLeft' \in Nat
<1>1. CASE WriteSucceeds /\ status' = Marked(S, st)
  BY <1>1, MarkedStep DEF WriteSucceeds, TypeOK
<1>2. CASE Fault("write") /\ MarkSome(S, st)
  BY <1>2, MarkedStep DEF Fault, MayFault, MarkSome, TypeOK
<1> QED BY <1>1, <1>2 DEF MarkStatus

LEMMA FaultThenMarkStep ==
  ASSUME TypeOK, NEW kind, NEW st \in NewStatuses, FaultThenMark(kind, st)
  PROVE  StatusStep /\ faultsLeft' \in Nat
<1>1. faultsLeft' \in Nat
  BY DEF FaultThenMark, Fault, MayFault, TypeOK
<1>2. StatusStep
  BY MarkedStep DEF FaultThenMark, MarkSome
<1> QED BY <1>1, <1>2

LEMMA EndOfPassType ==
  ASSUME ConstantsOK, EndOfPass PROVE PassTypeOK' /\ ListShrinks
BY DEF ConstantsOK, EndOfPass, PassTypeOK, ListShrinks, PassShape

LEMMA EndOfTokenType ==
  ASSUME TypeOK, ConstantsOK, EndOfToken PROVE PassTypeOK' /\ ListShrinks
BY DEF ConstantsOK, EndOfToken, PassTypeOK, TypeOK, ListShrinks, PassShape

LEMMA DoneWithType ==
  ASSUME TypeInv, ConstantsOK, NEW r \in Rows, DoneWith(r)
  PROVE  PassTypeOK' /\ ListShrinks
<1>0. TypeOK BY DEF TypeInv
<1>1. CASE targets = {r}
  BY <1>0, <1>1, EndOfTokenType DEF DoneWith
<1>2. CASE targets # {r}
  BY <1>2 DEF DoneWith, PassTypeOK, TypeInv, TypeOK, ListShrinks, PassShape
<1> QED BY <1>1, <1>2

(* A step that reserves no row and lists no row keeps the two conjuncts.   *)
LEMMA KeepReserved ==
  ASSUME TypeInv, StatusStep, ListShrinks, UNCHANGED base, PassTypeOK'
  PROVE  Reserved' /\ ListedAreReserved'
BY DEF TypeInv, TypeOK, Reserved, ListedAreReserved, StatusStep, ListShrinks, PassTypeOK

LEMMA ClassifyType ==
  ASSUME TypeInv, ConstantsOK, NEW r \in Rows, NEW st \in NewStatuses, Classify(r, st)
  PROVE  TypeInv'
<1>0. TypeOK BY DEF TypeInv
<1>1. StatusStep /\ faultsLeft' \in Nat
  BY <1>0, MarkStatusStep DEF Classify
<1>2. PassTypeOK' /\ ListShrinks
  BY <1>0, DoneWithType DEF Classify
<1>3. Reserved' /\ ListedAreReserved'
  BY <1>1, <1>2, KeepReserved DEF Classify
<1> QED BY <1>0, <1>1, <1>2, <1>3 DEF Classify, TypeInv, TypeOK, PassTypeOK, memory, StatusStep

LEMMA InitType == ASSUME ConstantsOK, Init PROVE TypeInv
<1>1. TypeOK
  BY DEF ConstantsOK, Init, NoPass, TypeOK, Statuses, Retryable, Terminal
<1>2. Reserved /\ ListedAreReserved /\ PassShape
  BY DEF Init, NoPass, Reserved, ListedAreReserved, PassShape
<1> QED BY <1>1, <1>2 DEF TypeInv

LEMMA CurrentIsTarget ==
  ASSUME TypeInv, NEW r, Current(r) PROVE r \in targets /\ r \in Rows
BY DEF TypeInv, TypeOK, PassShape, Current, Foremost

LEMMA ApplyType ==
  ASSUME ConstantsOK, TypeInv, NEW r \in Rows, ApplyRow(r) PROVE TypeInv'
<1>0. TypeOK BY DEF TypeInv
<1>1. CASE \/ LookbackMiss(r) \/ EntryParseError(r) \/ NoCandle(r)
           \/ OutcomeParseError(r) \/ StaleOutcome(r)
  <2>1. PICK st \in NewStatuses : Classify(r, st)
    BY <1>1 DEF LookbackMiss, EntryParseError, NoCandle, OutcomeParseError,
                StaleOutcome, NewStatuses, Statuses, Retryable, Terminal
  <2> QED BY <2>1, ClassifyType
<1>2. CASE SetFollowerEntry(r)
  <2>1. PICK o \in LastOpening(EntryBound(r)) \ garbage :
          \/ /\ WriteSucceeds
             /\ entry' = [s \in Rows |-> IF s \in EntryTargets(r) THEN o + Res ELSE entry[s]]
          \/ Fault("write") /\ UNCHANGED entry
    BY <1>2 DEF SetFollowerEntry
  <2>2. o \in Int
    BY <1>0, <2>1 DEF LastOpening, OpeningBy, TypeOK, ConstantsOK
  <2>3. entry' \in [Rows -> Int \cup {NULL}] /\ faultsLeft' \in Nat
    BY <1>0, <2>1, <2>2 DEF WriteSucceeds, Fault, MayFault, TypeOK, ConstantsOK
  <2>4. PassTypeOK' /\ ListShrinks /\ StatusStep
    <3>1. r \in targets /\ pc = "apply"
      BY <1>2, CurrentIsTarget DEF SetFollowerEntry, Current
    <3> QED BY <1>0, <1>2, <3>1
            DEF SetFollowerEntry, TypeInv, TypeOK, PassTypeOK, ListShrinks, StatusStep, PassShape
  <2>5. Reserved' /\ ListedAreReserved'
    BY <1>2, <2>4, KeepReserved DEF SetFollowerEntry
  <2> QED BY <1>0, <1>2, <2>3, <2>4, <2>5
          DEF SetFollowerEntry, TypeInv, TypeOK, PassTypeOK, memory
<1>3. CASE FillMarkout(r)
  <2>1. PICK o \in FirstClosing(Due(r)) \ garbage :
          \/ /\ WriteSucceeds
             /\ outcome' = [outcome EXCEPT ![r] = IF @ = NULL THEN o + Res ELSE @]
             /\ status' = [status EXCEPT ![r] = IF outcome[r] = NULL THEN "filled" ELSE @]
          \/ Fault("write") /\ UNCHANGED <<outcome, status>>
    BY <1>3 DEF FillMarkout
  <2>2. o \in Int
    BY <1>0, <2>1 DEF FirstClosing, ClosingFrom, TypeOK, ConstantsOK
  <2>3. outcome' \in [Rows -> Int \cup {NULL}] /\ faultsLeft' \in Nat
    BY <1>0, <2>1, <2>2 DEF WriteSucceeds, Fault, MayFault, TypeOK, ConstantsOK
  <2>4. status' \in [Rows -> Statuses]
    BY <1>0, <2>1 DEF TypeOK, Statuses
  <2>5. PassTypeOK' /\ ListShrinks
    BY <1>0, <1>3, DoneWithType DEF FillMarkout
  <2>6. r \in targets
    BY <1>3, CurrentIsTarget DEF FillMarkout
  <2>7. StatusStep
    BY <1>0, <2>1, <2>4, <2>6 DEF StatusStep, TypeInv, ListedAreReserved, TypeOK
  <2>8. Reserved' /\ ListedAreReserved'
    BY <1>3, <2>5, <2>7, KeepReserved DEF FillMarkout
  <2> QED BY <1>0, <1>3, <2>3, <2>4, <2>5, <2>8
          DEF FillMarkout, TypeInv, TypeOK, PassTypeOK, memory
<1> QED BY <1>1, <1>2, <1>3 DEF ApplyRow

LEMMA CreateType ==
  ASSUME ConstantsOK, TypeInv, NEW e \in Events, NEW k \in Kinds, NEW b \in Instants,
         CreateMarkouts(e, k, b)
  PROVE  TypeInv'
<1>1. b \in Int /\ b # NULL
  BY DEF Instants, ConstantsOK
<1>2. base' \in [Events \X Kinds -> Int \cup {NULL}]
  BY <1>1 DEF CreateMarkouts, TypeInv, TypeOK
<1>3. status' \in [Rows -> Statuses]
  BY DEF CreateMarkouts, TypeInv, TypeOK, Statuses, Retryable
<1>4. entry' \in [Rows -> Int \cup {NULL}]
  BY <1>1 DEF CreateMarkouts, TypeInv, TypeOK
<1>5. TypeOK'
  BY <1>2, <1>3, <1>4 DEF CreateMarkouts, TypeInv, TypeOK, memory, pass
<1>6. Reserved'
  <2> SUFFICES ASSUME NEW r \in Rows, status'[r] # "absent"
               PROVE  base'[<<r.event, r.kind>>] # NULL
    BY DEF Reserved
  <2>1. r.event \in Events /\ r.kind \in Kinds
    BY DEF Rows
  <2>2. CASE r \in RowsOf(e, k)
    BY <1>1, <2>1, <2>2 DEF RowsOf, CreateMarkouts, TypeInv, TypeOK
  <2>3. CASE r \notin RowsOf(e, k)
    <3>1. status[r] # "absent" /\ <<r.event, r.kind>> # <<e, k>>
      BY <2>1, <2>3 DEF RowsOf, CreateMarkouts
    <3> QED BY <2>1, <3>1 DEF CreateMarkouts, TypeInv, TypeOK, Reserved
  <2> QED BY <2>2, <2>3
<1>7. ListedAreReserved'
  BY DEF CreateMarkouts, pass, TypeInv, TypeOK, ListedAreReserved
<1>8. PassShape'
  BY DEF CreateMarkouts, pass, TypeInv, PassShape
<1> QED BY <1>5, <1>6, <1>7, <1>8 DEF TypeInv

(* A due time is a number once its row is reserved.                        *)
LEMMA DueType ==
  ASSUME ConstantsOK, TypeInv, NEW r \in Rows, status[r] # "absent"
  PROVE  Due(r) \in Int /\ base[<<r.event, r.kind>>] \in Int /\ r.horizon \in Nat
<1>1. /\ r.event \in Events /\ r.kind \in Kinds /\ r.horizon \in Horizons
      /\ <<r.event, r.kind>> \in Events \X Kinds
  BY DEF Rows
<1>2. base[<<r.event, r.kind>>] \in Int
  BY <1>1 DEF TypeInv, TypeOK, Reserved
<1>3. r.horizon \in Nat
  BY <1>1 DEF ConstantsOK
<1> QED BY <1>2, <1>3 DEF Due

LEMMA RequestType ==
  ASSUME ConstantsOK, TypeInv, SampleDue \/ TakeToken \/ EndPass PROVE TypeInv'
<1>0. TypeOK BY DEF TypeInv
<1>1. CASE SampleDue
  <2>1. PICK S \in SUBSET DueRows :
          IF S = {} THEN UNCHANGED pass
          ELSE /\ pc' = "next" /\ now' = clock /\ batch' = S
               /\ UNCHANGED <<attempted, token, targets, from, candles, garbage, row>>
    BY <1>1 DEF SampleDue
  <2>2. \A r \in S : r \in Rows /\ status[r] # "absent"
    BY <2>1 DEF DueRows, Retryable
  <2>3. row = NULL \/ pc = "apply"
    BY DEF TypeInv, PassShape
  <2>4. PassTypeOK'
    BY <1>0, <1>1, <2>1, <2>2, <2>3 DEF PassTypeOK, TypeOK, pass, SampleDue, TypeInv, PassShape
  <2>5. ListedAreReserved'
    BY <1>1, <2>1, <2>2 DEF TypeInv, ListedAreReserved, SampleDue, store, pass
  <2> QED BY <1>0, <1>1, <2>4, <2>5
          DEF SampleDue, TypeInv, TypeOK, PassTypeOK, Reserved, store, memory
<1>2. CASE TakeToken
  <2>1. PICK r \in Foremost(batch) :
          LET mine == {s \in batch : Tok(s) = Tok(r)} IN
          /\ token' = Tok(r) /\ targets' = mine /\ batch' = batch \ mine
          /\ \E s \in mine : /\ \A u \in mine : Due(s) <= Due(u)
                             /\ from' = WindowStart(Due(s))
    BY <1>2 DEF TakeToken
  <2>2. token' \in Tokens
    BY <1>0, <2>1 DEF Foremost, TypeOK, Rows, Tok, ConstantsOK
  <2>3. from' \in Int
    <3>1. PICK s \in batch : from' = Due(s) - 2 * Res
      BY <2>1 DEF WindowStart
    <3>2. Due(s) \in Int
      BY <1>0, <3>1, DueType DEF TypeOK, TypeInv, ListedAreReserved
    <3> QED BY <3>1, <3>2 DEF ConstantsOK
  <2>4. row = NULL
    BY <1>2 DEF TakeToken, TypeInv, PassShape
  <2>5. PassTypeOK' /\ ListShrinks
    BY <1>0, <1>2, <2>1, <2>2, <2>3, <2>4
       DEF TakeToken, TypeOK, PassTypeOK, ListShrinks, PassShape
  <2>6. StatusStep /\ UNCHANGED base
    BY <1>0, <1>2 DEF TakeToken, StatusStep, TypeOK, store
  <2>7. Reserved' /\ ListedAreReserved'
    BY <2>5, <2>6, KeepReserved
  <2> QED BY <1>0, <1>2, <2>5, <2>7 DEF TakeToken, TypeInv, TypeOK, PassTypeOK, store, memory
<1>3. CASE EndPass
  <2>1. PassTypeOK' /\ ListShrinks
    BY <1>3, EndOfPassType DEF EndPass
  <2>2. StatusStep /\ UNCHANGED base
    BY <1>0, <1>3 DEF EndPass, StatusStep, TypeOK, store
  <2>3. Reserved' /\ ListedAreReserved'
    BY <2>1, <2>2, KeepReserved
  <2> QED BY <1>0, <1>3, <2>1, <2>3 DEF EndPass, TypeInv, TypeOK, PassTypeOK, store, memory
<1> QED BY <1>1, <1>2, <1>3

LEMMA ResponseType ==
  ASSUME ConstantsOK, TypeInv, RateLimited \/ APIError \/ EmptyKline \/ KlineReply
  PROVE  TypeInv'
<1>0. TypeOK BY DEF TypeInv
<1>1. CASE RateLimited
  <2>1. StatusStep /\ faultsLeft' \in Nat
    BY <1>0, <1>1, FaultThenMarkStep DEF RateLimited, NewStatuses, Statuses, Retryable
  <2>2. PassTypeOK' /\ ListShrinks
    BY <1>1, EndOfPassType DEF RateLimited
  <2>3. Reserved' /\ ListedAreReserved'
    BY <1>1, <2>1, <2>2, KeepReserved DEF RateLimited
  <2> QED BY <1>0, <1>1, <2>1, <2>2, <2>3
          DEF RateLimited, TypeInv, TypeOK, PassTypeOK, StatusStep, memory
<1>2. CASE APIError
  <2>1. StatusStep /\ faultsLeft' \in Nat
    BY <1>0, <1>2, FaultThenMarkStep DEF APIError, NewStatuses, Statuses, Retryable
  <2>2. PassTypeOK' /\ ListShrinks
    BY <1>0, <1>2, EndOfTokenType DEF APIError
  <2>3. Reserved' /\ ListedAreReserved'
    BY <1>2, <2>1, <2>2, KeepReserved DEF APIError
  <2> QED BY <1>0, <1>2, <2>1, <2>2, <2>3
          DEF APIError, TypeInv, TypeOK, PassTypeOK, StatusStep, memory
<1>3. CASE EmptyKline
  <2>1. StatusStep /\ faultsLeft' \in Nat
    <3>1. "no_kline_data" \in NewStatuses
      BY DEF NewStatuses, Statuses, Retryable
    <3> QED BY <1>0, <1>3, <3>1, FaultThenMarkStep, MarkStatusStep DEF EmptyKline
  <2>2. PassTypeOK' /\ ListShrinks
    BY <1>0, <1>3, EndOfTokenType DEF EmptyKline
  <2>3. Reserved' /\ ListedAreReserved'
    BY <1>3, <2>1, <2>2, KeepReserved DEF EmptyKline
  <2>4. emptyStreak' \in [Tokens -> Nat] /\ skipUntil' \in [Tokens -> Int]
    <3> DEFINE streak == emptyStreak[token] + 1
               backoff == IF streak * BackoffUnit > BackoffMax
                          THEN BackoffMax ELSE streak * BackoffUnit
    <3>1. /\ emptyStreak' = [emptyStreak EXCEPT ![token] = streak]
          /\ skipUntil' = [skipUntil EXCEPT ![token] = now + backoff]
      BY <1>3 DEF EmptyKline
    <3>2. streak \in Nat /\ backoff \in Int
      <4>1. streak \in Nat
        BY <1>0, <1>3 DEF TypeOK, EmptyKline, TypeInv, PassShape
      <4>2. streak * BackoffUnit \in Int
        BY <4>1 DEF ConstantsOK
      <4> HIDE DEF streak
      <4> QED BY <4>1, <4>2 DEF ConstantsOK
    <3>3. now + backoff \in Int
      BY <1>0, <3>2 DEF TypeOK
    <3> HIDE DEF streak, backoff
    <3>4. emptyStreak' \in [Tokens -> Nat]
      BY <1>0, <3>1, <3>2 DEF TypeOK
    <3>5. skipUntil' \in [Tokens -> Int]
      BY <1>0, <3>1, <3>3 DEF TypeOK
    <3> QED BY <3>4, <3>5
  <2> QED BY <1>0, <1>3, <2>1, <2>2, <2>3, <2>4
          DEF EmptyKline, TypeInv, TypeOK, PassTypeOK, StatusStep
<1>4. CASE KlineReply
  <2>1. PICK S \in SUBSET Servable :
          /\ candles' = S
          /\ \/ garbage' = {} /\ UNCHANGED faultsLeft
             \/ Fault("garbage") /\ garbage' \in SUBSET S \ {{}}
    BY <1>4 DEF KlineReply
  <2>2. faultsLeft' \in Nat /\ garbage' \subseteq S
    BY <1>0, <2>1 DEF Fault, MayFault, TypeOK
  <2>3. token \in Tokens
    BY <1>4 DEF KlineReply, TypeInv, PassShape
  <2>4. Servable \subseteq Slots
    BY <1>0, <2>3 DEF Servable, TypeOK
  <2>5. PassTypeOK' /\ ListShrinks
    BY <1>0, <1>4, <2>1, <2>2, <2>4
       DEF KlineReply, PassTypeOK, TypeOK, ListShrinks, TypeInv, PassShape
  <2>6. StatusStep /\ UNCHANGED base
    BY <1>0, <1>4 DEF KlineReply, StatusStep, TypeOK, store
  <2>7. Reserved' /\ ListedAreReserved'
    BY <2>5, <2>6, KeepReserved
  <2>8. emptyStreak' \in [Tokens -> Nat]
    BY <1>0, <1>4, <2>3 DEF KlineReply, TypeOK
  <2> QED BY <1>0, <1>4, <2>2, <2>5, <2>7, <2>8
          DEF KlineReply, TypeInv, TypeOK, PassTypeOK, store
<1> QED BY <1>1, <1>2, <1>3, <1>4

LEMMA StepType == ASSUME ConstantsOK, TypeInv, [Next]_vars PROVE TypeInv'
<1>0. TypeOK BY DEF TypeInv
<1>1. CASE Tick
  BY <1>1 DEF Tick, TypeInv, TypeOK, Reserved, ListedAreReserved, PassShape,
              store, memory, pass
<1>2. CASE Create
  BY <1>2, CreateType DEF Create
<1>3. CASE Restart
  <2>1. PassTypeOK' /\ ListShrinks
    BY <1>3, EndOfPassType DEF Restart
  <2>2. faultsLeft' \in Nat
    BY <1>0, <1>3 DEF Restart, Fault, MayFault, TypeOK
  <2>3. skipUntil' \in [Tokens -> Int] /\ emptyStreak' \in [Tokens -> Nat]
    BY <1>3 DEF Restart, ConstantsOK
  <2>4. StatusStep /\ UNCHANGED base
    BY <1>0, <1>3 DEF Restart, StatusStep, TypeOK, store
  <2>5. Reserved' /\ ListedAreReserved'
    BY <2>1, <2>4, KeepReserved
  <2> QED BY <1>0, <1>3, <2>1, <2>2, <2>3, <2>5
          DEF Restart, TypeInv, TypeOK, PassTypeOK, store
<1>4. CASE EngineStep
  BY <1>4, RequestType, ResponseType, ApplyType DEF EngineStep
<1>5. CASE UNCHANGED vars
  BY <1>5 DEF vars, TypeInv, TypeOK, Reserved, ListedAreReserved, PassShape,
              store, memory, pass
<1> QED BY <1>1, <1>2, <1>3, <1>4, <1>5 DEF Next

(* The engine's state is well typed, and no listed row is unreserved.      *)
THEOREM TypeCorrect == Spec => []TypeInv
<1>1. Init => TypeInv
  BY ConstantsOK, InitType
<1>2. TypeInv /\ [Next]_vars => TypeInv'
  BY ConstantsOK, StepType
<1> QED BY <1>1, <1>2, PTL DEF Spec

(* The type invariant of the engine, for every value of the constants.     *)
THEOREM TypeSafe == Spec => []TypeOK
<1>1. TypeInv => TypeOK
  BY DEF TypeInv
<1> QED BY <1>1, TypeCorrect, PTL

-----------------------------------------------------------------------------
(* Pricing.  The three pricing properties are not inductive: that a row is *)
(* priced right depends on what the pass knows when it prices it - that    *)
(* the row is ripe, that the window reaches back to its entry candle, and  *)
(* that every closed candle of the window was served.                      *)

FilledIffPriced ==
  \A r \in Rows : outcome[r] # NULL <=> status[r] = "filled"

UnreservedIsBlank == \A r \in Rows : base[<<r.event, r.kind>>] = NULL => entry[r] = NULL

Pricing ==
  /\ EntryIsLastKnownClose
  /\ OutcomeIsFirstClose
  /\ VerdictIsJustified

StoreInv == Start <= clock /\ FilledIffPriced /\ UnreservedIsBlank /\ Pricing

(* The pass works on open rows whose horizon candle has closed by now.     *)
ListedAreRipe ==
  \A r \in batch \cup targets : status[r] \in Retryable /\ Due(r) + Grace <= now

WindowReachesBack ==
  pc \in {"sent", "apply"} =>
    \A r \in targets : Tok(r) = token /\ from <= Due(r) - 2 * Res

(* The response holds every candle of the window that closed FeedLag ago.  *)
ResponseIsComplete ==
  pc = "apply" =>
    /\ \A o \in candles : o \in market[token] /\ from < o + Res
    /\ \A o \in market[token] : from <= o /\ o + Res + FeedLag <= now => o \in candles

PassInv ==
  /\ now <= clock
  /\ batch \cap targets = {}
  /\ pc \in {"idle", "next"} => targets = {}
  /\ ListedAreRipe
  /\ WindowReachesBack
  /\ ResponseIsComplete

PricingInv == TypeInv /\ StoreInv /\ PassInv

(* lastCloseAtOrBefore on a complete response finds the last known close:  *)
(* a candle it could have overlooked would lie in the window.              *)
LEMMA EntryLookupIsSound ==
  ASSUME ConstantsOK, GraceCoversFeed, PricingInv, pc = "apply",
         NEW r \in targets, r.kind = "follower", NEW o \in LastOpening(EntryBound(r))
  PROVE  Ledger!IsLastClose(market[Tok(r)], base[<<r.event, r.kind>>], o + Res)
<1> DEFINE b == base[<<r.event, r.kind>>]
<1>1. /\ r \in Rows /\ status[r] # "absent" /\ Tok(r) = token /\ token \in Tokens
      /\ Due(r) + Grace <= now
  BY DEF PricingInv, PassInv, WindowReachesBack, ListedAreRipe, Retryable,
         TypeInv, TypeOK, PassShape
<1>2. Due(r) = b + r.horizon /\ b \in Int /\ r.horizon \in Nat
  BY <1>1, DueType DEF Due, PricingInv
<1>3. /\ o \in market[token] /\ o <= b - Res /\ from < o + Res
      /\ \A q \in candles : q <= b - Res => q <= o
  BY DEF LastOpening, OpeningBy, EntryBound, PricingInv, PassInv, ResponseIsComplete
<1>4. market[token] \subseteq Slots /\ Slots \subseteq Int /\ now \in Int /\ from \in Int
  BY <1>1 DEF PricingInv, TypeInv, TypeOK, ConstantsOK
<1>5. Res \in Nat \ {0} /\ Grace \in Nat /\ FeedLag \in Nat /\ Grace >= Res + FeedLag
  BY DEF ConstantsOK, GraceCoversFeed
<1>6. ASSUME NEW q \in market[token], o + Res + 1 <= q + Res, q + Res <= b
      PROVE  FALSE
  <2>0. o \in Int /\ q \in Int
    BY <1>3, <1>4
  <2> HIDE DEF b
  <2>1. o \in Int /\ q \in Int /\ o < q /\ q <= b - Res
    BY <1>2, <1>5, <1>6, <2>0
  <2>2. o + Res <= q
    BY <1>3, <1>4, <2>1 DEF ConstantsOK
  <2>3. from <= q
    BY <1>3, <1>4, <1>5, <2>1, <2>2
  <2>4. q + Res + FeedLag <= now
    <3>1. q + Res + FeedLag <= b + FeedLag
      BY <1>2, <1>5, <2>1
    <3>2. b + FeedLag <= Due(r) + Grace
      BY <1>2, <1>5
    <3> QED BY <1>1, <1>2, <1>4, <1>5, <2>1, <3>1, <3>2
  <2>5. q \in candles
    BY <2>3, <2>4 DEF PricingInv, PassInv, ResponseIsComplete
  <2> QED BY <1>3, <2>1, <2>5
<1>7. o \in Int BY <1>3, <1>4
<1>8. (o + Res) - Res = o BY <1>5, <1>7
<1>9. o + Res <= b BY <1>2, <1>3, <1>5, <1>7
<1>10. Ledger!ClosingIn(market[token], o + Res + 1, b) = {}
  BY <1>6 DEF Ledger!ClosingIn
<1> QED BY <1>1, <1>3, <1>8, <1>9, <1>10 DEF Ledger!IsLastClose

(* A candle closing in the row's outcome interval is in the response.      *)
LEMMA OutcomeCandleIsServed ==
  ASSUME ConstantsOK, GraceCoversFeed, PricingInv, pc = "apply", NEW r \in targets,
         NEW q \in market[Tok(r)], Due(r) <= q + Res, q <= Due(r)
  PROVE  q \in ClosingFrom(Due(r))
<1>1. /\ r \in Rows /\ status[r] # "absent" /\ Tok(r) = token /\ token \in Tokens
      /\ Due(r) + Grace <= now /\ from <= Due(r) - 2 * Res
  BY DEF PricingInv, PassInv, WindowReachesBack, ListedAreRipe, Retryable,
         TypeInv, TypeOK, PassShape
<1>2. Due(r) \in Int
  BY <1>1, DueType DEF PricingInv
<1>3. q \in Int /\ now \in Int /\ from \in Int
  BY <1>1 DEF PricingInv, TypeInv, TypeOK, ConstantsOK
<1>4. Res \in Nat \ {0} /\ Grace \in Nat /\ FeedLag \in Nat /\ Grace >= Res + FeedLag
  BY DEF ConstantsOK, GraceCoversFeed
<1>5. from <= q /\ q + Res + FeedLag <= now /\ q >= Due(r) - Res
  BY <1>1, <1>2, <1>3, <1>4
<1>6. q \in candles
  BY <1>1, <1>5 DEF PricingInv, PassInv, ResponseIsComplete
<1> QED BY <1>5, <1>6 DEF ClosingFrom

(* firstCandleClosingAtOrAfter finds the first close at or after due.      *)
LEMMA OutcomeLookupIsSound ==
  ASSUME ConstantsOK, GraceCoversFeed, PricingInv, pc = "apply", NEW r \in targets,
         NEW o \in FirstClosing(Due(r)), o + Res <= Due(r) + Res
  PROVE  /\ Ledger!IsFirstClose(market[Tok(r)], Due(r), o + Res)
         /\ o + Res <= clock
<1>1. /\ r \in Rows /\ status[r] # "absent" /\ Tok(r) = token /\ token \in Tokens
      /\ Due(r) + Grace <= now /\ now <= clock
  BY DEF PricingInv, PassInv, WindowReachesBack, ListedAreRipe, Retryable,
         TypeInv, TypeOK, PassShape
<1>2. Due(r) \in Int /\ now \in Int /\ clock \in Int
  BY <1>1, DueType DEF PricingInv, TypeInv, TypeOK
<1>3. /\ o \in market[Tok(r)] /\ o >= Due(r) - Res
      /\ \A q \in ClosingFrom(Due(r)) : o <= q
  BY <1>1 DEF FirstClosing, ClosingFrom, PricingInv, PassInv, ResponseIsComplete
<1>4. market[Tok(r)] \subseteq Int
  BY <1>1 DEF PricingInv, TypeInv, TypeOK, ConstantsOK
<1>5. Res \in Nat \ {0} /\ Grace \in Nat /\ FeedLag \in Nat /\ Grace >= Res + FeedLag
  BY DEF ConstantsOK, GraceCoversFeed
<1>6. o \in Int
  BY <1>3, <1>4
<1>7. ASSUME NEW q \in market[Tok(r)], Due(r) <= q + Res, q + Res <= o + Res - 1
      PROVE  FALSE
  <2>1. q \in Int BY <1>4
  <2>2. q < o /\ q <= Due(r) BY <1>2, <1>5, <1>6, <1>7, <2>1
  <2>3. q \in ClosingFrom(Due(r)) BY <1>7, <2>2, OutcomeCandleIsServed
  <2> QED BY <1>3, <1>6, <2>1, <2>2, <2>3
<1>8. Ledger!ClosingIn(market[Tok(r)], Due(r), o + Res - 1) = {}
  BY <1>7 DEF Ledger!ClosingIn
<1>9. (o + Res) - Res = o /\ Due(r) <= o + Res /\ o + Res <= clock
  BY <1>1, <1>2, <1>3, <1>5, <1>6
<1>10. (o + Res) - Res \in market[Tok(r)]
  BY <1>3, <1>9
<1>11. ASSUME NEW at, at = o + Res PROVE Ledger!IsFirstClose(market[Tok(r)], Due(r), at)
  BY <1>8, <1>9, <1>10, <1>11 DEF Ledger!IsFirstClose
<1> QED BY <1>9, <1>11

(* When no candle of the response closes in [due, due+res], the market has *)
(* none either.                                                            *)
LEMMA VerdictIsSound ==
  ASSUME ConstantsOK, GraceCoversFeed, PricingInv, pc = "apply", NEW r \in targets,
         \A q \in ClosingFrom(Due(r)) : ~(q <= Due(r))
  PROVE  /\ Due(r) + Res <= clock
         /\ Ledger!ClosingIn(market[Tok(r)], Due(r), Due(r) + Res) = {}
<1>1. /\ r \in Rows /\ status[r] # "absent" /\ Tok(r) \in Tokens
      /\ Due(r) + Grace <= now /\ now <= clock
  BY DEF PricingInv, PassInv, WindowReachesBack, ListedAreRipe, Retryable,
         TypeInv, TypeOK, PassShape
<1>2. Due(r) \in Int /\ now \in Int /\ clock \in Int
  BY <1>1, DueType DEF PricingInv, TypeInv, TypeOK
<1>3. market[Tok(r)] \subseteq Int
  BY <1>1 DEF PricingInv, TypeInv, TypeOK, ConstantsOK
<1>4. Res \in Nat \ {0} /\ Grace \in Nat /\ FeedLag \in Nat /\ Grace >= Res + FeedLag
  BY DEF ConstantsOK, GraceCoversFeed
<1>5. ASSUME NEW q \in market[Tok(r)], Due(r) <= q + Res, q + Res <= Due(r) + Res
      PROVE  FALSE
  <2>1. q <= Due(r) BY <1>2, <1>3, <1>4, <1>5
  <2> QED BY <1>5, <2>1, OutcomeCandleIsServed
<1> QED BY <1>1, <1>2, <1>4, <1>5 DEF Ledger!ClosingIn

(* When the first close is too late, so is every other one.                *)
LEMMA StaleMeansNone ==
  ASSUME ConstantsOK, PricingInv, NEW r \in targets,
         NEW o \in FirstClosing(Due(r)), o + Res > Due(r) + Res
  PROVE  \A q \in ClosingFrom(Due(r)) : ~(q <= Due(r))
<1>1. candles \subseteq Int /\ Res \in Int
  BY DEF PricingInv, TypeInv, TypeOK, ConstantsOK
<1>2. Due(r) \in Int
  BY DueType DEF PricingInv, PassInv, ListedAreRipe, TypeInv, TypeOK, Retryable
<1> QED BY <1>1, <1>2 DEF FirstClosing, ClosingFrom

-----------------------------------------------------------------------------
(* What the writes do to the store's invariant.                            *)

LEMMA StatusKinds ==
  /\ \A st \in Retryable : st \notin Terminal /\ st # "filled" /\ st # "absent"
  /\ \A st \in Terminal : st \notin Retryable /\ st # "filled" /\ st # "absent"
BY DEF Retryable, Terminal

(* A retryable status overwrites only retryable ones.                      *)
LEMMA MarkRetryable ==
  ASSUME TypeInv, StoreInv, NEW S, NEW st \in Retryable, status' = Marked(S, st),
         UNCHANGED <<clock, market, base, entry, outcome>>
  PROVE  StoreInv' /\ \A r \in Rows : status[r] \in Retryable => status'[r] \in Retryable
<1>1. \A r \in Rows : \/ status'[r] = status[r]
                      \/ status[r] \in Retryable /\ status'[r] = st
  BY DEF Marked
<1>2. FilledIffPriced' /\ UnreservedIsBlank'
  BY <1>1, StatusKinds DEF StoreInv, FilledIffPriced, UnreservedIsBlank
<1>3. Pricing'
  BY <1>1, StatusKinds DEF StoreInv, Pricing, EntryIsLastKnownClose, OutcomeIsFirstClose,
                           VerdictIsJustified, Due
<1> QED BY <1>1, <1>2, <1>3 DEF StoreInv

(* A terminal status is written to a row whose verdict is justified.       *)
LEMMA MarkTerminal ==
  ASSUME TypeInv, StoreInv, NEW r \in Rows, NEW S \in SUBSET {r}, NEW st \in Terminal,
         status' = Marked(S, st), UNCHANGED <<clock, market, base, entry, outcome>>,
         Due(r) + Res <= clock,
         Ledger!ClosingIn(market[Tok(r)], Due(r), Due(r) + Res) = {}
  PROVE  StoreInv' /\ \A s \in Rows \ {r} : status'[s] = status[s]
<1>1. \A s \in Rows : \/ status'[s] = status[s]
                      \/ s = r /\ status[s] \in Retryable /\ status'[s] = st
  BY DEF Marked
<1>2. FilledIffPriced' /\ UnreservedIsBlank'
  BY <1>1, StatusKinds DEF StoreInv, FilledIffPriced, UnreservedIsBlank
<1>3. Pricing'
  BY <1>1, StatusKinds DEF StoreInv, Pricing, EntryIsLastKnownClose, OutcomeIsFirstClose,
                           VerdictIsJustified, Due
<1> QED BY <1>1, <1>2, <1>3 DEF StoreInv

(* What the ends of a row, a token and a pass do to the pass's invariant.  *)
LEMMA EndOfPassInv ==
  ASSUME EndOfPass, UNCHANGED clock, StoreInv PROVE PassInv'
BY DEF EndOfPass, PassInv, ListedAreRipe, WindowReachesBack, ResponseIsComplete, StoreInv

LEMMA EndOfTokenInv ==
  ASSUME PricingInv, EndOfToken, UNCHANGED <<clock, base>>,
         \A s \in batch : status'[s] \in Retryable
  PROVE  PassInv'
BY DEF EndOfToken, PricingInv, PassInv, ListedAreRipe, WindowReachesBack,
       ResponseIsComplete, Due

LEMMA DoneWithInv ==
  ASSUME PricingInv, NEW r \in targets, DoneWith(r), UNCHANGED <<clock, base, market>>,
         \A s \in (batch \cup targets) \ {r} : status'[s] \in Retryable
  PROVE  PassInv'
<1>1. r \notin batch
  BY DEF PricingInv, PassInv
<1>2. CASE targets = {r}
  <2>1. EndOfToken /\ \A s \in batch : status'[s] \in Retryable
    BY <1>1, <1>2 DEF DoneWith
  <2> QED BY <2>1, EndOfTokenInv
<1>3. CASE targets # {r}
  BY <1>1, <1>3 DEF DoneWith, PricingInv, PassInv, ListedAreRipe, WindowReachesBack,
                    ResponseIsComplete, Due
<1> QED BY <1>2, <1>3

-----------------------------------------------------------------------------
(* Every action keeps the pricing invariant.                               *)

LEMMA ClassifyPricing ==
  ASSUME ConstantsOK, PricingInv, NEW r \in targets, r \in Rows,
         NEW st \in Retryable \cup Terminal, Classify(r, st),
         st \in Terminal => /\ Due(r) + Res <= clock
                           /\ Ledger!ClosingIn(market[Tok(r)], Due(r), Due(r) + Res) = {}
  PROVE  StoreInv' /\ PassInv'
<1>1. PICK S \in SUBSET {r} : status' = Marked(S, st)
  BY DEF Classify, MarkStatus, MarkSome
<1>2. \A s \in batch \cup targets : s \in Rows /\ status[s] \in Retryable
  BY DEF PricingInv, PassInv, ListedAreRipe, TypeInv, TypeOK
<1>3. CASE st \in Retryable
  <2>1. StoreInv' /\ \A s \in batch \cup targets : status'[s] \in Retryable
    BY <1>1, <1>2, <1>3, MarkRetryable DEF Classify, PricingInv
  <2> QED BY <2>1, DoneWithInv DEF Classify
<1>4. CASE st \in Terminal
  <2>1. StoreInv' /\ \A s \in Rows \ {r} : status'[s] = status[s]
    BY <1>1, <1>4, MarkTerminal DEF Classify, PricingInv
  <2>2. PassInv'
    BY <1>2, <2>1, DoneWithInv DEF Classify
  <2> QED BY <2>1, <2>2
<1> QED BY <1>3, <1>4

LEMMA ApplyPricing ==
  ASSUME ConstantsOK, GraceCoversFeed, PricingInv, NEW r \in Rows, ApplyRow(r)
  PROVE  StoreInv' /\ PassInv'
<1>1. r \in targets /\ pc = "apply"
  BY CurrentIsTarget DEF PricingInv, ApplyRow, LookbackMiss, EntryParseError, NoCandle,
     OutcomeParseError, StaleOutcome, SetFollowerEntry, FillMarkout, Current
<1>2. \A s \in batch \cup targets : s \in Rows /\ status[s] \in Retryable
  BY DEF PricingInv, PassInv, ListedAreRipe, TypeInv, TypeOK
<1>3. CASE LookbackMiss(r) \/ EntryParseError(r) \/ OutcomeParseError(r)
  <2>1. PICK st \in Retryable : Classify(r, st)
    BY <1>3 DEF LookbackMiss, EntryParseError, OutcomeParseError, Retryable
  <2>2. st \notin Terminal
    BY StatusKinds
  <2> QED BY <1>1, <2>1, <2>2, ClassifyPricing
<1>4. CASE NoCandle(r)
  <2>1. ClosingFrom(Due(r)) = {} /\ Classify(r, "no_candle") /\ "no_candle" \in Terminal
    BY <1>4 DEF NoCandle, Terminal
  <2> QED BY <1>1, <2>1, VerdictIsSound, ClassifyPricing
<1>5. CASE StaleOutcome(r)
  <2>1. PICK o \in FirstClosing(Due(r)) : o + Res > Due(r) + Res
    BY <1>5 DEF StaleOutcome
  <2>3. \A q \in ClosingFrom(Due(r)) : ~(q <= Due(r))
    BY <1>1, <2>1, StaleMeansNone
  <2>4. Classify(r, "stale_outcome") /\ "stale_outcome" \in Terminal
    BY <1>5 DEF StaleOutcome, Terminal
  <2> QED BY <1>1, <2>3, <2>4, VerdictIsSound, ClassifyPricing
<1>6. CASE SetFollowerEntry(r)
  <2>1. PICK o \in LastOpening(EntryBound(r)) \ garbage :
          \/ entry' = [s \in Rows |-> IF s \in EntryTargets(r) THEN o + Res ELSE entry[s]]
          \/ UNCHANGED entry
    BY <1>6 DEF SetFollowerEntry
  <2>2. UNCHANGED <<clock, market, base, status, outcome>>
    BY <1>6 DEF SetFollowerEntry
  <2>3. Ledger!IsLastClose(market[Tok(r)], base[<<r.event, r.kind>>], o + Res)
    BY <1>1, <1>6, <2>1, EntryLookupIsSound DEF SetFollowerEntry, NeedsEntry
  <2>4. \A s \in Rows :
          \/ entry'[s] = entry[s]
          \/ /\ s.event = r.event /\ s.kind = r.kind /\ s.kind = "follower"
             /\ entry'[s] = o + Res
    BY <1>6, <2>1 DEF EntryTargets, RowsOf, SetFollowerEntry, NeedsEntry
  <2>5. EntryIsLastKnownClose'
    <3> SUFFICES ASSUME NEW s \in Rows, s.kind = "follower", entry'[s] # NULL
                 PROVE  Ledger!IsLastClose(market[Tok(s)], base[<<s.event, s.kind>>], entry'[s])
      BY <2>2 DEF EntryIsLastKnownClose, Ledger!IsLastClose, Ledger!ClosingIn
    <3>1. CASE entry'[s] = entry[s]
      BY <3>1 DEF PricingInv, StoreInv, Pricing, EntryIsLastKnownClose
    <3>2. CASE s.event = r.event /\ s.kind = r.kind /\ entry'[s] = o + Res
      BY <2>3, <3>2 DEF Tok
    <3> QED BY <2>4, <3>1, <3>2
  <2>6. UnreservedIsBlank'
    <3>1. base[<<r.event, r.kind>>] # NULL
      BY <1>1, <1>2, StatusKinds DEF PricingInv, TypeInv, Reserved
    <3> QED BY <2>2, <2>4, <3>1 DEF UnreservedIsBlank, PricingInv, StoreInv
  <2>7. OutcomeIsFirstClose' /\ VerdictIsJustified' /\ FilledIffPriced'
    BY <2>2 DEF PricingInv, StoreInv, Pricing, OutcomeIsFirstClose, VerdictIsJustified,
                FilledIffPriced, Due
  <2>8. StoreInv'
    BY <2>2, <2>5, <2>6, <2>7 DEF StoreInv, Pricing, PricingInv
  <2>9. PassInv'
    BY <1>6, <2>2 DEF SetFollowerEntry, PricingInv, PassInv, ListedAreRipe,
                      WindowReachesBack, ResponseIsComplete, Due
  <2> QED BY <2>8, <2>9
<1>7. CASE FillMarkout(r)
  <2>1. PICK o \in FirstClosing(Due(r)) \ garbage :
          /\ o + Res <= Due(r) + Res
          /\ \/ /\ outcome' = [outcome EXCEPT ![r] = IF @ = NULL THEN o + Res ELSE @]
                /\ status' = [status EXCEPT ![r] = IF outcome[r] = NULL THEN "filled" ELSE @]
             \/ UNCHANGED <<outcome, status>>
    BY <1>7 DEF FillMarkout
  <2>2. UNCHANGED <<clock, market, base, entry>> /\ DoneWith(r)
    BY <1>7 DEF FillMarkout
  <2>3. Ledger!IsFirstClose(market[Tok(r)], Due(r), o + Res) /\ o + Res <= clock
    BY <1>1, <2>1, OutcomeLookupIsSound
  <2>4. outcome[r] = NULL /\ o + Res # NULL
    <3>1. o \in Int /\ Res \in Int
      BY <2>1 DEF FirstClosing, ClosingFrom, PricingInv, TypeInv, TypeOK, ConstantsOK
    <3>2. o + Res # NULL
      BY <3>1 DEF ConstantsOK
    <3> QED BY <1>1, <1>2, <3>2, StatusKinds DEF PricingInv, StoreInv, FilledIffPriced
  <2>5. \/ outcome' = outcome /\ status' = status
        \/ /\ outcome' = [outcome EXCEPT ![r] = o + Res]
           /\ status' = [status EXCEPT ![r] = "filled"]
    BY <2>1, <2>4
  <2>6. \A s \in Rows :
          \/ outcome'[s] = outcome[s] /\ status'[s] = status[s]
          \/ s = r /\ outcome'[s] = o + Res /\ status'[s] = "filled"
    BY <2>5 DEF PricingInv, TypeInv, TypeOK
  <2>7. FilledIffPriced' /\ UnreservedIsBlank' /\ EntryIsLastKnownClose' /\ VerdictIsJustified'
    BY <2>2, <2>4, <2>6, StatusKinds
       DEF PricingInv, StoreInv, Pricing, FilledIffPriced, UnreservedIsBlank,
           EntryIsLastKnownClose, VerdictIsJustified, Due
  <2>8. OutcomeIsFirstClose'
    BY <2>2, <2>3, <2>6 DEF PricingInv, StoreInv, Pricing, OutcomeIsFirstClose, Due
  <2>9. StoreInv'
    BY <2>2, <2>7, <2>8 DEF StoreInv, Pricing, PricingInv
  <2>10. PassInv'
    BY <1>1, <1>2, <1>7, <2>2, <2>6, DoneWithInv DEF FillMarkout
  <2> QED BY <2>9, <2>10
<1> QED BY <1>3, <1>4, <1>5, <1>6, <1>7 DEF ApplyRow

LEMMA CreatePricing ==
  ASSUME ConstantsOK, PricingInv, NEW e \in Events, NEW k \in Kinds, NEW b \in Instants,
         CreateMarkouts(e, k, b)
  PROVE  StoreInv' /\ PassInv'
<1> DEFINE B(r) == base[<<r.event, r.kind>>]
<1>1. UNCHANGED <<clock, market, outcome, pass>>
  BY DEF CreateMarkouts
<1>2. ASSUME NEW r \in Rows, r \in RowsOf(e, k)
      PROVE  /\ r.event = e /\ r.kind = k /\ status[r] = "absent" /\ entry[r] = NULL
             /\ outcome[r] = NULL /\ status'[r] = "pending"
             /\ entry'[r] = IF k = "leader" THEN b ELSE NULL
  <2>1. r.event = e /\ r.kind = k /\ base[<<r.event, r.kind>>] = NULL
    BY <1>2 DEF RowsOf, CreateMarkouts
  <2>2. status[r] = "absent" /\ entry[r] = NULL
    BY <2>1 DEF PricingInv, TypeInv, Reserved, StoreInv, UnreservedIsBlank
  <2>3. outcome[r] = NULL
    BY <2>2 DEF PricingInv, StoreInv, FilledIffPriced
  <2> QED BY <1>2, <2>1, <2>2, <2>3 DEF CreateMarkouts
<1>3. ASSUME NEW r \in Rows, r \notin RowsOf(e, k)
      PROVE  /\ status'[r] = status[r] /\ entry'[r] = entry[r]
             /\ base'[<<r.event, r.kind>>] = base[<<r.event, r.kind>>]
             /\ Due(r)' = Due(r)
  <2>1. <<r.event, r.kind>> # <<e, k>> /\ <<r.event, r.kind>> \in Events \X Kinds
    BY <1>3 DEF RowsOf, Rows
  <2>2. base'[<<r.event, r.kind>>] = base[<<r.event, r.kind>>]
    BY <2>1 DEF CreateMarkouts, PricingInv, TypeInv, TypeOK
  <2>3. status'[r] = status[r] /\ entry'[r] = entry[r]
    BY <1>3 DEF CreateMarkouts
  <2> QED BY <2>2, <2>3 DEF Due
<1>4. FilledIffPriced'
  BY <1>1, <1>2, <1>3 DEF FilledIffPriced, PricingInv, StoreInv
<1>5. UnreservedIsBlank'
  <2>1. base'[<<e, k>>] = b /\ b # NULL
    BY DEF CreateMarkouts, PricingInv, TypeInv, TypeOK, Instants, ConstantsOK
  <2> QED BY <1>2, <1>3, <2>1 DEF UnreservedIsBlank, PricingInv, StoreInv
<1>6. EntryIsLastKnownClose'
  BY <1>1, <1>2, <1>3 DEF EntryIsLastKnownClose, PricingInv, StoreInv, Pricing
<1>7. OutcomeIsFirstClose' /\ VerdictIsJustified'
  BY <1>1, <1>2, <1>3
     DEF OutcomeIsFirstClose, VerdictIsJustified, PricingInv, StoreInv, Pricing, Terminal
<1>8. StoreInv'
  BY <1>1, <1>4, <1>5, <1>6, <1>7 DEF StoreInv, Pricing, PricingInv
<1>9. \A r \in batch \cup targets : r \in Rows /\ r \notin RowsOf(e, k)
  BY <1>2 DEF PricingInv, TypeInv, TypeOK, ListedAreReserved
<1>10. PassInv'
  BY <1>1, <1>3, <1>9
     DEF pass, PricingInv, PassInv, ListedAreRipe, WindowReachesBack, ResponseIsComplete
<1> QED BY <1>8, <1>10

LEMMA RequestPricing ==
  ASSUME ConstantsOK, PricingInv, SampleDue \/ TakeToken \/ EndPass
  PROVE  StoreInv' /\ PassInv'
<1>1. UNCHANGED <<clock, market, store>>
  BY DEF SampleDue, TakeToken, EndPass
<1>2. StoreInv'
  BY <1>1 DEF store, PricingInv, StoreInv, Pricing, FilledIffPriced, UnreservedIsBlank,
              EntryIsLastKnownClose, OutcomeIsFirstClose, VerdictIsJustified, Due
<1>3. CASE SampleDue
  <2>1. PICK S \in SUBSET DueRows :
          IF S = {} THEN UNCHANGED pass
          ELSE /\ pc' = "next" /\ now' = clock /\ batch' = S
               /\ UNCHANGED <<attempted, token, targets, from, candles, garbage, row>>
    BY <1>3 DEF SampleDue
  <2>2. CASE S = {}
    BY <1>1, <1>2, <2>1, <2>2 DEF pass, store, PricingInv, PassInv, ListedAreRipe,
                            WindowReachesBack, ResponseIsComplete, Due
  <2>3. CASE S # {}
    <3>1. \A r \in S : r \in Rows /\ status[r] \in Retryable /\ Due(r) <= clock - Grace
      BY <2>1 DEF DueRows
    <3>2. \A r \in S : Due(r) \in Int
      BY <3>1, DueType, StatusKinds DEF PricingInv
    <3>3. \A r \in S : Due(r) + Grace <= clock
      BY <3>1, <3>2 DEF PricingInv, TypeInv, TypeOK, ConstantsOK
    <3>4. targets = {} /\ pc' = "next" /\ now' = clock /\ batch' = S /\ targets' = {}
      BY <1>3, <2>1, <2>3 DEF SampleDue, PricingInv, PassInv
    <3>5. ListedAreRipe'
      BY <1>1, <3>1, <3>3, <3>4 DEF ListedAreRipe, Due, store
    <3> QED BY <1>1, <1>2, <3>4, <3>5 DEF PassInv, WindowReachesBack, ResponseIsComplete, PricingInv,
                                    TypeInv, TypeOK
  <2> QED BY <2>2, <2>3
<1>4. CASE TakeToken
  <2>1. PICK r \in Foremost(batch) :
          LET mine == {s \in batch : Tok(s) = Tok(r)} IN
          /\ token' = Tok(r) /\ targets' = mine /\ batch' = batch \ mine
          /\ \E s \in mine : /\ \A u \in mine : Due(s) <= Due(u)
                             /\ from' = WindowStart(Due(s))
    BY <1>4 DEF TakeToken
  <2>2. PICK s \in targets' : /\ \A u \in targets' : Due(s) <= Due(u)
                              /\ from' = Due(s) - 2 * Res
    BY <2>1 DEF WindowStart
  <2>3. batch' \cap targets' = {} /\ batch' \cup targets' \subseteq batch
        /\ \A u \in targets' : Tok(u) = token'
    BY <2>1
  <2>4. \A u \in targets' : Due(u) \in Int
    BY <2>3, DueType, StatusKinds DEF PricingInv, PassInv, ListedAreRipe, TypeInv, TypeOK
  <2>5. \A u \in targets' : from' <= Due(u) - 2 * Res
    BY <2>2, <2>4 DEF ConstantsOK
  <2>6. WindowReachesBack'
    BY <1>1, <2>3, <2>5 DEF WindowReachesBack, Due, Tok, store
  <2>7. ListedAreRipe'
    BY <1>1, <1>4, <2>3 DEF ListedAreRipe, Due, store, TakeToken, PricingInv, PassInv
  <2> QED BY <1>1, <1>2, <1>4, <2>3, <2>6, <2>7 DEF TakeToken, PassInv, ResponseIsComplete, PricingInv
<1>5. CASE EndPass
  BY <1>1, <1>2, <1>5, EndOfPassInv DEF EndPass, PricingInv, store
<1> QED BY <1>2, <1>3, <1>4, <1>5

LEMMA ResponsePricing ==
  ASSUME ConstantsOK, PricingInv, RateLimited \/ APIError \/ EmptyKline \/ KlineReply
  PROVE  StoreInv' /\ PassInv'
<1>0. \A s \in batch \cup targets : s \in Rows /\ status[s] \in Retryable
  BY DEF PricingInv, PassInv, ListedAreRipe, TypeInv, TypeOK
<1>1. CASE RateLimited \/ APIError \/ EmptyKline
  <2>1. PICK st \in Retryable : MarkSome(targets, st)
    <3>1. ASSUME NEW kind, NEW st, FaultThenMark(kind, st) PROVE MarkSome(targets, st)
      BY <3>1 DEF FaultThenMark, MarkSome
    <3>2. ASSUME NEW st, MarkStatus(targets, st) PROVE MarkSome(targets, st)
      BY <3>2 DEF MarkStatus, MarkSome
    <3> QED BY <1>1, <3>1, <3>2 DEF RateLimited, APIError, EmptyKline, Retryable
  <2>2. UNCHANGED <<clock, market, base, entry, outcome>>
    BY <1>1 DEF RateLimited, APIError, EmptyKline
  <2>3. StoreInv' /\ \A s \in batch \cup targets : status'[s] \in Retryable
    BY <1>0, <2>1, <2>2, MarkRetryable DEF PricingInv, MarkSome
  <2>4. PassInv'
    BY <1>1, <2>2, <2>3, EndOfPassInv, EndOfTokenInv
       DEF RateLimited, APIError, EmptyKline, PricingInv
  <2> QED BY <2>3, <2>4
<1>2. CASE KlineReply
  <2>1. UNCHANGED <<clock, market, base, status, entry, outcome>>
    BY <1>2 DEF KlineReply, store
  <2>2. StoreInv'
    BY <2>1 DEF PricingInv, StoreInv, Pricing, FilledIffPriced, UnreservedIsBlank,
                EntryIsLastKnownClose, OutcomeIsFirstClose, VerdictIsJustified, Due
  <2>3. /\ pc = "sent" /\ pc' = "apply"
        /\ UNCHANGED <<now, attempted, batch, token, targets, from, row>>
        /\ candles' \subseteq Servable /\ Served \subseteq candles'
    BY <1>2 DEF KlineReply
  <2>4. ResponseIsComplete'
    <3>1. \A o \in market[token] : o \in Int
      BY <2>3 DEF PricingInv, TypeInv, TypeOK, PassShape, ConstantsOK
    <3>2. ASSUME NEW o \in market[token], from <= o, o + Res + FeedLag <= now
          PROVE  o \in Served
      <4>1. o \in Int /\ Res \in Nat \ {0} /\ FeedLag \in Nat /\ now \in Int /\ clock \in Int
            /\ from \in Int /\ now <= clock
        BY <3>1 DEF PricingInv, PassInv, TypeInv, TypeOK, ConstantsOK
      <4>2. from < o + Res /\ o <= now /\ o + Res + FeedLag <= clock
        BY <3>2, <4>1
      <4> QED BY <3>2, <4>2 DEF Served, Servable
    <3> QED BY <2>1, <2>3, <3>2 DEF ResponseIsComplete, Servable
  <2>5. ListedAreRipe' /\ WindowReachesBack'
    BY <2>1, <2>3 DEF PricingInv, PassInv, ListedAreRipe, WindowReachesBack, Due
  <2> QED BY <2>1, <2>2, <2>3, <2>4, <2>5 DEF PassInv, PricingInv
<1> QED BY <1>1, <1>2

LEMMA PricingStep ==
  ASSUME ConstantsOK, GraceCoversFeed, PricingInv, [Next]_vars PROVE PricingInv'
<1>1. TypeInv'
  BY StepType DEF PricingInv
<1>2. CASE Tick
  <2>1. clock' = clock + 1 /\ UNCHANGED <<market, store, pass>>
    BY <1>2 DEF Tick
  <2>2. clock \in Int /\ now \in Int /\ Start \in Int
    BY DEF PricingInv, TypeInv, TypeOK, ConstantsOK
  <2>3. ASSUME NEW x \in Int, x <= clock PROVE x <= clock'
    BY <2>1, <2>2, <2>3
  <2>4. Start <= clock' /\ now' <= clock'
    BY <2>1, <2>2, <2>3 DEF PricingInv, PassInv, StoreInv, pass
  <2>5. OutcomeIsFirstClose'
    BY <2>1, <2>3 DEF store, OutcomeIsFirstClose, PricingInv, StoreInv, Pricing, Due,
                      TypeInv, TypeOK
  <2>6. VerdictIsJustified'
    <3>1. ASSUME NEW r \in Rows, status[r] \in Terminal PROVE Due(r) + Res \in Int
      <4>1. Due(r) \in Int
        BY <3>1, DueType, StatusKinds DEF PricingInv
      <4> QED BY <4>1 DEF ConstantsOK
    <3> QED BY <2>1, <2>3, <3>1 DEF store, VerdictIsJustified, PricingInv, StoreInv, Pricing, Due
  <2>7. StoreInv'
    BY <2>1, <2>4, <2>5, <2>6 DEF store, StoreInv, Pricing, FilledIffPriced,
       UnreservedIsBlank, EntryIsLastKnownClose, PricingInv
  <2>8. PassInv'
    BY <2>1, <2>4 DEF store, pass, PassInv, ListedAreRipe, WindowReachesBack,
                      ResponseIsComplete, PricingInv, Due
  <2> QED BY <1>1, <2>7, <2>8 DEF PricingInv
<1>3. CASE Create
  BY <1>1, <1>3, CreatePricing DEF Create, PricingInv
<1>4. CASE Restart
  <2>1. UNCHANGED <<clock, market, base, status, entry, outcome>> /\ EndOfPass
    BY <1>4 DEF Restart, store
  <2>2. StoreInv'
    BY <2>1 DEF PricingInv, StoreInv, Pricing, FilledIffPriced, UnreservedIsBlank,
                EntryIsLastKnownClose, OutcomeIsFirstClose, VerdictIsJustified, Due
  <2> QED BY <1>1, <2>1, <2>2, EndOfPassInv DEF PricingInv
<1>5. CASE EngineStep
  BY <1>1, <1>5, RequestPricing, ResponsePricing, ApplyPricing DEF EngineStep, PricingInv
<1>6. CASE UNCHANGED vars
  BY <1>1, <1>6 DEF vars, store, pass, PricingInv, StoreInv, Pricing, FilledIffPriced,
     UnreservedIsBlank, EntryIsLastKnownClose, OutcomeIsFirstClose, VerdictIsJustified, Due,
     PassInv, ListedAreRipe, WindowReachesBack, ResponseIsComplete
<1> QED BY <1>2, <1>3, <1>4, <1>5, <1>6 DEF Next

LEMMA InitPricing == ASSUME ConstantsOK, Init PROVE PricingInv
<1>1. TypeInv
  BY InitType
<1>2. StoreInv
  BY DEF Init, StoreInv, Pricing, FilledIffPriced, UnreservedIsBlank, EntryIsLastKnownClose,
         OutcomeIsFirstClose, VerdictIsJustified, Terminal, ConstantsOK
<1>3. PassInv
  BY DEF Init, NoPass, PassInv, ListedAreRipe, WindowReachesBack, ResponseIsComplete
<1> QED BY <1>1, <1>2, <1>3 DEF PricingInv

(* When the grace period covers the resolution and the feed's lag, every   *)
(* reachable state satisfies the pricing invariant.                        *)
THEOREM PricingInvariant == GraceCoversFeed => (Spec => []PricingInv)
<1>1. Init => PricingInv
  BY ConstantsOK, InitPricing
<1>2. GraceCoversFeed /\ PricingInv /\ [Next]_vars => PricingInv'
  BY ConstantsOK, PricingStep
<1> SUFFICES ASSUME GraceCoversFeed PROVE Spec => []PricingInv
  OBVIOUS
<1>3. PricingInv /\ [Next]_vars => PricingInv'
  BY <1>2
<1> QED BY <1>1, <1>3, PTL DEF Spec

(* A follower's entry price is never looked ahead and never overlooked.    *)
THEOREM EntryCorrect == GraceCoversFeed => (Spec => []EntryIsLastKnownClose)
<1>1. PricingInv => EntryIsLastKnownClose
  BY DEF PricingInv, StoreInv, Pricing
<1> SUFFICES ASSUME GraceCoversFeed PROVE Spec => []EntryIsLastKnownClose
  OBVIOUS
<1>2. Spec => []PricingInv
  BY PricingInvariant
<1> QED BY <1>1, <1>2, PTL

(* A filled row carries the first close at or after its due time.          *)
THEOREM OutcomeCorrect == GraceCoversFeed => (Spec => []OutcomeIsFirstClose)
<1>1. PricingInv => OutcomeIsFirstClose
  BY DEF PricingInv, StoreInv, Pricing
<1> SUFFICES ASSUME GraceCoversFeed PROVE Spec => []OutcomeIsFirstClose
  OBVIOUS
<1>2. Spec => []PricingInv
  BY PricingInvariant
<1> QED BY <1>1, <1>2, PTL

(* A row given up as unpriced has no executable close, now or later.       *)
THEOREM VerdictCorrect == GraceCoversFeed => (Spec => []VerdictIsJustified)
<1>1. PricingInv => VerdictIsJustified
  BY DEF PricingInv, StoreInv, Pricing
<1> SUFFICES ASSUME GraceCoversFeed PROVE Spec => []VerdictIsJustified
  OBVIOUS
<1>2. Spec => []PricingInv
  BY PricingInvariant
<1> QED BY <1>1, <1>2, PTL

-----------------------------------------------------------------------------
(* Refinement.  Every step of the engine is a step of the ledger or leaves *)
(* the ledger's variables alone; the pricing invariant discharges the      *)
(* ledger's guards.                                                        *)

VerdictColumn == [r \in Rows |-> Verdict(status[r])]

LEMMA SameRows ==
  /\ Ledger!Rows = Rows
  /\ \A e, k : Ledger!RowsOf(e, k) = RowsOf(e, k)
  /\ \A r : Ledger!Tok(r) = Tok(r)
  /\ \A r : Ledger!DueAt(base, r) = Due(r)
BY DEF Ledger!Rows, Rows, Ledger!Kinds, Ledger!RowsOf, RowsOf, Ledger!Tok, Tok,
       Ledger!DueAt, Due

LEMMA Verdicts ==
  /\ \A st \in Retryable : Verdict(st) = "open"
  /\ \A st \in Terminal : Verdict(st) = "unpriced"
  /\ Verdict("filled") = "filled" /\ Verdict("absent") = "absent"
BY StatusKinds DEF Verdict, Retryable, Terminal

(* A retryable status on retryable rows does not show in the ledger.       *)
LEMMA MarkRetryableStutters ==
  ASSUME NEW S, NEW st \in Retryable, status' = Marked(S, st)
  PROVE  VerdictColumn' = VerdictColumn
<1>1. ASSUME NEW r \in Rows PROVE Verdict(status'[r]) = Verdict(status[r])
  BY Verdicts DEF Marked
<1> QED BY <1>1 DEF VerdictColumn

LEMMA ClassifyRefines ==
  ASSUME ConstantsOK, PricingInv, NEW r \in Rows, r \in targets,
         NEW st \in Retryable \cup Terminal, Classify(r, st),
         st \in Terminal => /\ Due(r) + Res <= clock
                           /\ Ledger!ClosingIn(market[Tok(r)], Due(r), Due(r) + Res) = {}
  PROVE  \/ Ledger!GiveUp(r)
         \/ UNCHANGED <<clock, market, base, VerdictColumn, entry, outcome>>
<1>1. PICK S \in SUBSET {r} : status' = Marked(S, st)
  BY DEF Classify, MarkStatus, MarkSome
<1>2. UNCHANGED <<clock, market, base, entry, outcome>>
  BY DEF Classify
<1>3. CASE st \in Retryable
  BY <1>1, <1>2, <1>3, MarkRetryableStutters
<1>4. CASE S = {}
  BY <1>1, <1>2, <1>4 DEF Marked, VerdictColumn
<1>5. CASE st \in Terminal /\ S = {r}
  <2>1. status[r] \in Retryable
    BY DEF PricingInv, PassInv, ListedAreRipe
  <2>2. VerdictColumn' = [VerdictColumn EXCEPT ![r] = "unpriced"]
    BY <1>1, <1>5, <2>1, Verdicts DEF VerdictColumn, Marked
  <2>3. VerdictColumn[r] = "open"
    BY <2>1, Verdicts DEF VerdictColumn
  <2> QED BY <1>2, <1>5, <2>2, <2>3, SameRows DEF Ledger!GiveUp, VerdictColumn
<1> QED BY <1>1, <1>3, <1>4, <1>5

LEMMA ApplyRefines ==
  ASSUME ConstantsOK, GraceCoversFeed, PricingInv, NEW r \in Rows, ApplyRow(r)
  PROVE  [Ledger!Next]_(Ledger!ledgerVars)
<1>1. r \in targets /\ pc = "apply"
  BY CurrentIsTarget DEF PricingInv, ApplyRow, LookbackMiss, EntryParseError, NoCandle,
     OutcomeParseError, StaleOutcome, SetFollowerEntry, FillMarkout, Current
<1>2. status[r] \in Retryable
  BY <1>1 DEF PricingInv, PassInv, ListedAreRipe
<1>3. CASE LookbackMiss(r) \/ EntryParseError(r) \/ OutcomeParseError(r)
  <2>1. PICK st \in Retryable : Classify(r, st)
    BY <1>3 DEF LookbackMiss, EntryParseError, OutcomeParseError, Retryable
  <2>2. st \notin Terminal
    BY StatusKinds
  <2> QED BY <1>1, <2>1, <2>2, ClassifyRefines, SameRows
          DEF Ledger!Next, Ledger!ledgerVars, VerdictColumn
<1>4. CASE NoCandle(r)
  <2>1. ClosingFrom(Due(r)) = {} /\ Classify(r, "no_candle") /\ "no_candle" \in Terminal
    BY <1>4 DEF NoCandle, Terminal
  <2> QED BY <1>1, <2>1, VerdictIsSound, ClassifyRefines, SameRows
          DEF Ledger!Next, Ledger!ledgerVars, VerdictColumn
<1>5. CASE StaleOutcome(r)
  <2>1. PICK o \in FirstClosing(Due(r)) : o + Res > Due(r) + Res
    BY <1>5 DEF StaleOutcome
  <2>2. \A q \in ClosingFrom(Due(r)) : ~(q <= Due(r))
    BY <1>1, <2>1, StaleMeansNone DEF PricingInv
  <2>3. Classify(r, "stale_outcome") /\ "stale_outcome" \in Terminal
    BY <1>5 DEF StaleOutcome, Terminal
  <2> QED BY <1>1, <2>2, <2>3, VerdictIsSound, ClassifyRefines, SameRows
          DEF Ledger!Next, Ledger!ledgerVars, VerdictColumn
<1>6. CASE SetFollowerEntry(r)
  <2>1. PICK o \in LastOpening(EntryBound(r)) \ garbage :
          \/ entry' = [s \in Rows |-> IF s \in EntryTargets(r) THEN o + Res ELSE entry[s]]
          \/ UNCHANGED entry
    BY <1>6 DEF SetFollowerEntry
  <2>2. UNCHANGED <<clock, market, base, status, outcome>> /\ r.kind = "follower"
    BY <1>6 DEF SetFollowerEntry, NeedsEntry
  <2>3. VerdictColumn' = VerdictColumn
    BY <2>2 DEF VerdictColumn
  <2>4. CASE UNCHANGED entry
    BY <2>2, <2>3, <2>4 DEF Ledger!ledgerVars, VerdictColumn
  <2>5. CASE entry' = [s \in Rows |-> IF s \in EntryTargets(r) THEN o + Res ELSE entry[s]]
    <3>1. Ledger!IsLastClose(market[Tok(r)], base[<<r.event, r.kind>>], o + Res)
      BY <1>1, <2>1, <2>2, EntryLookupIsSound
    <3>2. base[<<r.event, r.kind>>] # NULL
      BY <1>2, StatusKinds DEF PricingInv, TypeInv, Reserved
    <3>3. entry' = [s \in Rows |-> IF s \in RowsOf(r.event, "follower") /\ entry[s] = NULL
                                   THEN o + Res ELSE entry[s]]
      BY <2>5 DEF EntryTargets
    <3>4. Ledger!LearnEntry(r.event, o + Res)
      BY <2>2, <2>3, <3>1, <3>2, <3>3, SameRows DEF Ledger!LearnEntry, Tok, VerdictColumn
    <3>5. r.event \in Events /\ o \in Slots
      BY <2>1 DEF Rows, LastOpening, OpeningBy, PricingInv, TypeInv, TypeOK
    <3> QED BY <3>4, <3>5 DEF Ledger!Next
  <2> QED BY <2>1, <2>4, <2>5
<1>7. CASE FillMarkout(r)
  <2>1. PICK o \in FirstClosing(Due(r)) \ garbage :
          /\ o + Res <= Due(r) + Res
          /\ \/ /\ outcome' = [outcome EXCEPT ![r] = IF @ = NULL THEN o + Res ELSE @]
                /\ status' = [status EXCEPT ![r] = IF outcome[r] = NULL THEN "filled" ELSE @]
             \/ UNCHANGED <<outcome, status>>
    BY <1>7 DEF FillMarkout
  <2>2. UNCHANGED <<clock, market, base, entry>>
    BY <1>7 DEF FillMarkout
  <2>3. outcome[r] = NULL
    BY <1>2, StatusKinds DEF PricingInv, StoreInv, FilledIffPriced
  <2>4. CASE UNCHANGED <<outcome, status>>
    BY <2>2, <2>4 DEF Ledger!ledgerVars, VerdictColumn
  <2>5. CASE /\ outcome' = [outcome EXCEPT ![r] = o + Res]
             /\ status' = [status EXCEPT ![r] = "filled"]
    <3>1. Ledger!IsFirstClose(market[Tok(r)], Due(r), o + Res) /\ o + Res <= clock
      BY <1>1, <2>1, OutcomeLookupIsSound
    <3>2. VerdictColumn' = [VerdictColumn EXCEPT ![r] = "filled"]
      BY <2>5, Verdicts DEF VerdictColumn, PricingInv, TypeInv, TypeOK
    <3>3. VerdictColumn[r] = "open"
      BY <1>2, Verdicts DEF VerdictColumn
    <3>4. Ledger!Fill(r, o + Res)
      BY <2>2, <2>5, <3>1, <3>2, <3>3, SameRows DEF Ledger!Fill, VerdictColumn
    <3>5. o \in Slots
      BY <2>1 DEF FirstClosing, ClosingFrom, PricingInv, TypeInv, TypeOK
    <3> QED BY <3>4, <3>5, SameRows DEF Ledger!Next
  <2> QED BY <2>1, <2>3, <2>4, <2>5
<1> QED BY <1>3, <1>4, <1>5, <1>6, <1>7 DEF ApplyRow

LEMMA StepRefines ==
  ASSUME ConstantsOK, GraceCoversFeed, PricingInv, [Next]_vars
  PROVE  [Ledger!Next]_(Ledger!ledgerVars)
<1>1. CASE Tick
  BY <1>1 DEF Tick, store, Ledger!Next, Ledger!Tick
<1>2. CASE Create
  <2>1. PICK e \in Events, k \in Kinds, b \in Instants : CreateMarkouts(e, k, b)
    BY <1>2 DEF Create
  <2>2. VerdictColumn' = [r \in Rows |-> IF r \in RowsOf(e, k) THEN "open" ELSE VerdictColumn[r]]
    BY <2>1, Verdicts DEF CreateMarkouts, VerdictColumn, Retryable
  <2>3. Ledger!Reserve(e, k, b)
    BY <2>1, <2>2, SameRows DEF CreateMarkouts, Ledger!Reserve, VerdictColumn
  <2> QED BY <2>3 DEF Ledger!Next, Ledger!Kinds
<1>3. CASE Restart \/ SampleDue \/ TakeToken \/ EndPass \/ KlineReply \/ UNCHANGED vars
  BY <1>3 DEF Restart, SampleDue, TakeToken, EndPass, KlineReply, vars, store, Ledger!ledgerVars
<1>4. CASE RateLimited \/ APIError \/ EmptyKline
  <2>1. PICK st \in Retryable : MarkSome(targets, st)
    <3>1. ASSUME NEW kind, NEW st, FaultThenMark(kind, st) PROVE MarkSome(targets, st)
      BY <3>1 DEF FaultThenMark, MarkSome
    <3>2. ASSUME NEW st, MarkStatus(targets, st) PROVE MarkSome(targets, st)
      BY <3>2 DEF MarkStatus, MarkSome
    <3> QED BY <1>4, <3>1, <3>2 DEF RateLimited, APIError, EmptyKline, Retryable
  <2>2. VerdictColumn' = VerdictColumn
    BY <2>1, MarkRetryableStutters DEF MarkSome
  <2> QED BY <1>4, <2>2
          DEF RateLimited, APIError, EmptyKline, Ledger!ledgerVars, VerdictColumn
<1>5. CASE \E r \in Rows : ApplyRow(r)
  BY <1>5, ApplyRefines
<1> QED BY <1>1, <1>2, <1>3, <1>4, <1>5 DEF Next, EngineStep

(* The engine implements the ledger, for every number of events and tokens,*)
(* every market and every order of faults, restarts and late responses.    *)
THEOREM EngineImplementsLedger == GraceCoversFeed => (Spec => ImplementsLedger)
<1>1. Init => Ledger!Init
  <2> SUFFICES ASSUME Init PROVE Ledger!Init
    OBVIOUS
  <2>1. clock \in Int
    BY ConstantsOK DEF ConstantsOK, Init
  <2>2. VerdictColumn = [r \in Rows |-> "absent"]
    BY Verdicts DEF Init, VerdictColumn
  <2> QED BY <2>1, <2>2, SameRows DEF Init, Ledger!Init, Ledger!Kinds, VerdictColumn
<1> SUFFICES ASSUME GraceCoversFeed PROVE Spec => ImplementsLedger
  OBVIOUS
<1>2. PricingInv /\ [Next]_vars => [Ledger!Next]_(Ledger!ledgerVars)
  BY ConstantsOK, StepRefines
<1>3. Spec => []PricingInv
  BY PricingInvariant
<1> QED BY <1>1, <1>2, <1>3, PTL DEF Spec, ImplementsLedger, Ledger!Spec

-----------------------------------------------------------------------------
(* The reports.  One goes by the prices and two by the statuses: they agree*)
(* because no status but "filled" stands beside an outcome.                *)

(* A mark is never "filled", and is written over a retryable status only.  *)
MarksOnly(S) ==
  \A r \in Rows : status'[r] = status[r] \/ (status[r] # "filled" /\ status'[r] # "filled" /\ r \in S)

LEMMA MarkedMarks ==
  ASSUME NEW S, NEW W \in SUBSET S, NEW st \in Retryable \cup Terminal, status' = Marked(W, st)
  PROVE  MarksOnly(S)
<1>1. \A r \in Rows : \/ status'[r] = status[r]
                      \/ r \in W /\ status[r] \in Retryable /\ status'[r] = st
  BY DEF Marked
<1>2. st # "filled" /\ \A r \in Rows : status[r] \in Retryable => status[r] # "filled"
  BY DEF Retryable, Terminal
<1>3. W \subseteq S
  OBVIOUS
<1> QED BY <1>1, <1>2, <1>3 DEF MarksOnly

LEMMA MarksKeepFilled ==
  ASSUME FilledIffPriced, NEW S, MarksOnly(S), UNCHANGED outcome PROVE FilledIffPriced'
BY DEF FilledIffPriced, MarksOnly

LEMMA ApplyFilled ==
  ASSUME FilledIffPriced, TypeOK, NEW r \in Rows, ApplyRow(r) PROVE FilledIffPriced'
<1>1. CASE FillMarkout(r)
  <2>1. PICK o \in FirstClosing(Due(r)) \ garbage :
          \/ /\ outcome' = [outcome EXCEPT ![r] = IF @ = NULL THEN o + Res ELSE @]
             /\ status' = [status EXCEPT ![r] = IF outcome[r] = NULL THEN "filled" ELSE @]
          \/ UNCHANGED <<outcome, status>>
    BY <1>1 DEF FillMarkout
  <2>2. o + Res # NULL
    BY ConstantsOK DEF TypeOK, FirstClosing, ClosingFrom, ConstantsOK
  <2> QED BY <2>1, <2>2 DEF FilledIffPriced, TypeOK
<1>2. CASE SetFollowerEntry(r)
  BY <1>2 DEF SetFollowerEntry, FilledIffPriced
<1>3. CASE \/ LookbackMiss(r) \/ EntryParseError(r) \/ NoCandle(r)
           \/ OutcomeParseError(r) \/ StaleOutcome(r)
  <2>1. PICK st \in Retryable \cup Terminal : Classify(r, st)
    BY <1>3 DEF LookbackMiss, EntryParseError, NoCandle, OutcomeParseError, StaleOutcome,
                Retryable, Terminal
  <2>2. PICK W \in SUBSET {r} : status' = Marked(W, st)
    BY <2>1 DEF Classify, MarkStatus, MarkSome
  <2>3. MarksOnly({r})
    BY <2>2, MarkedMarks
  <2> QED BY <2>1, <2>3, MarksKeepFilled DEF Classify
<1> QED BY <1>1, <1>2, <1>3 DEF ApplyRow

LEMMA StepFilled ==
  ASSUME TypeInv, FilledIffPriced, [Next]_vars PROVE FilledIffPriced'
<1>1. CASE Create
  <2>1. PICK e \in Events, k \in Kinds, b \in Instants : CreateMarkouts(e, k, b)
    BY <1>1 DEF Create
  <2>2. \A r \in RowsOf(e, k) : status[r] # "filled" /\ outcome[r] = NULL
    BY <2>1 DEF CreateMarkouts, RowsOf, TypeInv, Reserved, FilledIffPriced
  <2> QED BY <2>1, <2>2 DEF CreateMarkouts, FilledIffPriced
<1>2. CASE \/ RateLimited \/ APIError \/ EmptyKline
  <2>1. PICK st \in Retryable, W \in SUBSET targets : status' = Marked(W, st)
    BY <1>2 DEF RateLimited, APIError, EmptyKline, FaultThenMark, MarkStatus, MarkSome, Retryable
  <2>2. MarksOnly(targets)
    BY <2>1, MarkedMarks
  <2> QED BY <1>2, <2>2, MarksKeepFilled DEF RateLimited, APIError, EmptyKline
<1>3. CASE \/ Tick \/ Restart \/ SampleDue \/ TakeToken \/ EndPass \/ KlineReply
           \/ UNCHANGED vars
  BY <1>3 DEF Tick, Restart, SampleDue, TakeToken, EndPass, KlineReply, vars, store,
              FilledIffPriced
<1>4. ASSUME NEW r \in Rows, ApplyRow(r) PROVE FilledIffPriced'
  BY <1>4, ApplyFilled DEF TypeInv
<1> QED BY <1>1, <1>2, <1>3, <1>4 DEF Next, EngineStep

(* A row is filled exactly when its outcome is stored, whatever fails and  *)
(* whenever the process dies (markouts.go:146-170).                        *)
THEOREM FilledRowsArePriced == Spec => []FilledIffPriced
<1>1. Init => FilledIffPriced
  BY DEF Init, FilledIffPriced
<1>2. TypeInv /\ FilledIffPriced /\ [Next]_vars => FilledIffPriced'
  BY StepFilled
<1> QED BY <1>1, <1>2, TypeCorrect, PTL DEF Spec

LEMMA OneClassEach ==
  ASSUME TypeOK, FilledIffPriced PROVE CensusesAgree
<1> SUFFICES ASSUME NEW h \in Horizons, NEW r \in DueFollowers(h) \ LostEntries
             PROVE  \E c \in Classes :
               /\ r \in ReplicationCensus(h)[c] /\ r \in LatencyEV(h)[c] /\ r \in Coverage(h)[c]
               /\ \A d \in Classes \ {c} :
                    /\ r \notin ReplicationCensus(h)[d] /\ r \notin LatencyEV(h)[d]
                    /\ r \notin Coverage(h)[d]
  BY DEF CensusesAgree
<1> USE DEF ReplicationCensus, LatencyEV, Coverage, WithStatus, Classes, LostEntries
<1>1. r \in Rows /\ status[r] \in Statuses \ {"absent"}
  BY DEF DueFollowers, TypeOK
<1>2. outcome[r] # NULL <=> status[r] = "filled"
  BY <1>1 DEF FilledIffPriced
<1>3. CASE status[r] = "filled"
  <2>1. HasReturn(r)
    BY <1>1, <1>2, <1>3 DEF HasReturn
  <2> QED BY <1>1, <1>3, <2>1 DEF MarketStatuses, MeasStatuses
<1>4. CASE status[r] # "filled"
  <2>1. ~HasReturn(r)
    BY <1>2, <1>4 DEF HasReturn
  <2>2. CASE status[r] \in MarketStatuses
    BY <1>1, <1>4, <2>1, <2>2 DEF MarketStatuses, MeasStatuses
  <2>3. CASE status[r] = "pending"
    BY <1>1, <1>4, <2>1, <2>3 DEF MarketStatuses, MeasStatuses
  <2>4. CASE status[r] \in MeasStatuses
    BY <1>1, <1>4, <2>1, <2>4 DEF MarketStatuses, MeasStatuses
  <2> QED BY <1>1, <1>4, <2>2, <2>3, <2>4
      DEF MarketStatuses, MeasStatuses, Statuses, Retryable, Terminal
<1> QED BY <1>3, <1>4

(* The three reports put every due row whose entry was not lost in the same*)
(* single class, whatever the grace period: the statuses each of them lists*)
(* leave none out.                                                         *)
THEOREM ReportsAgree == Spec => []CensusesAgree
<1>1. TypeOK /\ FilledIffPriced => CensusesAgree
  BY OneClassEach
<1> QED BY <1>1, TypeSafe, FilledRowsArePriced, PTL

-----------------------------------------------------------------------------
(* What lost writes cost.                                                  *)

(* Rows without the entry they were, or are about to be, filled with.      *)
Owed == LostEntries \cup {r \in Rows : row = r /\ entry[r] = NULL}

(* The leader's price comes with the event.                                *)
LeadersPriced == \A r \in Rows : r.kind = "leader" /\ status[r] # "absent" => entry[r] # NULL

CostInv ==
  /\ LeadersPriced
  /\ IsFiniteSet(Owed) /\ faultsLeft <= MaxFaults /\ Cardinality(Owed) <= MaxFaults - faultsLeft

(* A step that adds nothing, and one that adds a row for a fault.          *)
LEMMA OwesNoMore ==
  ASSUME TypeOK, CostInv, LeadersPriced', Owed' \subseteq Owed,
         faultsLeft' \in Nat, faultsLeft' <= faultsLeft
  PROVE  CostInv'
<1>1. IsFiniteSet(Owed') /\ Cardinality(Owed') <= Cardinality(Owed)
  BY FS_Subset DEF CostInv
<1>2. Cardinality(Owed) \in Nat /\ Cardinality(Owed') \in Nat
  BY <1>1, FS_CardinalityType DEF CostInv
<1> QED BY <1>1, <1>2, ConstantsOK DEF CostInv, TypeOK, ConstantsOK

LEMMA OwesOneMore ==
  ASSUME TypeOK, CostInv, LeadersPriced', NEW r, Owed' \subseteq Owed \cup {r}, Fault("write")
  PROVE  CostInv'
<1>1. /\ IsFiniteSet(Owed \cup {r})
      /\ Cardinality(Owed \cup {r}) = IF r \in Owed THEN Cardinality(Owed) ELSE Cardinality(Owed) + 1
  BY FS_AddElement DEF CostInv
<1>2. IsFiniteSet(Owed') /\ Cardinality(Owed') <= Cardinality(Owed \cup {r})
  BY <1>1, FS_Subset
<1>3. Cardinality(Owed) \in Nat /\ Cardinality(Owed') \in Nat
  BY <1>2, FS_CardinalityType DEF CostInv
<1>4. faultsLeft \in Nat /\ faultsLeft' = faultsLeft - 1 /\ faultsLeft' <= MaxFaults
  BY ConstantsOK DEF Fault, TypeOK, CostInv, ConstantsOK
<1> QED BY <1>1, <1>2, <1>3, <1>4, ConstantsOK DEF CostInv, ConstantsOK

LEMMA FewerFaults ==
  ASSUME TypeOK, NEW kind, Fault(kind) \/ WriteSucceeds
  PROVE  faultsLeft' \in Nat /\ faultsLeft' <= faultsLeft
BY DEF Fault, MayFault, WriteSucceeds, TypeOK

(* Whatever status is marked, nothing is filled by it.                     *)
LEMMA MarksOweNoMore ==
  ASSUME TypeInv, CostInv, NEW S \in SUBSET targets, MarksOnly(S), UNCHANGED entry,
         row' = NULL \/ UNCHANGED row, faultsLeft' \in Nat, faultsLeft' <= faultsLeft
  PROVE  CostInv'
<1>1. \A r \in Rows : r \in S => status[r] # "absent"
  BY DEF TypeInv, ListedAreReserved
<1>2. LeadersPriced'
  BY <1>1 DEF CostInv, LeadersPriced, MarksOnly
<1>3. LostEntries' \subseteq LostEntries
  BY DEF LostEntries, MarksOnly
<1>4. \A r \in Rows : row' = r /\ entry'[r] = NULL => row = r /\ entry[r] = NULL
  BY NullIsNoRow
<1>5. Owed' \subseteq Owed
  BY <1>3, <1>4 DEF Owed
<1> QED BY <1>2, <1>5, OwesNoMore DEF TypeInv

LEMMA CreateCosts == ASSUME TypeInv, CostInv, Create PROVE CostInv'
<1>1. PICK e \in Events, k \in Kinds, b \in Instants : CreateMarkouts(e, k, b)
  BY DEF Create
<1>2. /\ \A r \in Rows : status'[r] = IF r \in RowsOf(e, k) THEN "pending" ELSE status[r]
      /\ \A r \in Rows : entry'[r] = IF r \in RowsOf(e, k) /\ k = "leader" THEN b ELSE entry[r]
      /\ UNCHANGED <<row, faultsLeft>>
  BY <1>1 DEF CreateMarkouts, pass
<1>3. b # NULL
  BY ConstantsOK DEF ConstantsOK, Instants
<1>4. LeadersPriced'
  BY <1>2, <1>3 DEF CostInv, LeadersPriced, RowsOf
<1>5. Owed' \subseteq Owed
  BY <1>2, <1>3 DEF Owed, LostEntries
<1> QED BY <1>2, <1>4, <1>5, OwesNoMore DEF TypeInv, TypeOK

(* The entry of a row is written to all the rows that have none, and if it *)
(* is not, then the row at hand is the only one to be filled without it.   *)
LEMMA EntryCosts ==
  ASSUME TypeInv, CostInv, NEW r \in Rows, SetFollowerEntry(r) PROVE CostInv'
<1>1. row = NULL /\ row' = r /\ entry[r] = NULL /\ UNCHANGED status
  BY NullIsNoRow DEF SetFollowerEntry, Current, NeedsEntry
<1>2. PICK o \in LastOpening(EntryBound(r)) \ garbage :
        \/ /\ WriteSucceeds
           /\ entry' = [s \in Rows |-> IF s \in EntryTargets(r) THEN o + Res ELSE entry[s]]
        \/ Fault("write") /\ UNCHANGED entry
  BY DEF SetFollowerEntry
<1>3. CASE Fault("write") /\ UNCHANGED entry
  <2>1. Owed' \subseteq Owed \cup {r} /\ LeadersPriced'
    BY <1>1, <1>3 DEF Owed, LostEntries, CostInv, LeadersPriced
  <2> QED BY <1>3, <2>1, OwesOneMore DEF TypeInv
<1>4. CASE WriteSucceeds /\ entry' = [s \in Rows |-> IF s \in EntryTargets(r) THEN o + Res
                                                                           ELSE entry[s]]
  <2>1. o + Res # NULL
    BY ConstantsOK DEF ConstantsOK, TypeInv, TypeOK, LastOpening, OpeningBy
  <2>2. r \in EntryTargets(r)
    BY <1>1 DEF EntryTargets, RowsOf, SetFollowerEntry, NeedsEntry
  <2>3. \A s \in Rows : entry'[s] = NULL => entry[s] = NULL /\ s # r
    BY <1>4, <2>1, <2>2
  <2>4. Owed' \subseteq Owed /\ LeadersPriced'
    BY <1>1, <2>3 DEF Owed, LostEntries, CostInv, LeadersPriced
  <2> QED BY <1>4, <2>4, FewerFaults, OwesNoMore DEF TypeInv
<1> QED BY <1>2, <1>3, <1>4

LEMMA FillCosts ==
  ASSUME TypeInv, CostInv, NEW r \in Rows, FillMarkout(r) PROVE CostInv'
<1>1. /\ Current(r) /\ ~NeedsEntry(r) /\ UNCHANGED entry
      /\ \A s \in Rows \ {r} : status'[s] = status[s]
      /\ UNCHANGED faultsLeft \/ Fault("write")
  BY DEF FillMarkout, WriteSucceeds, TypeInv, TypeOK
<1>2. row' = NULL
  BY DEF FillMarkout, DoneWith, EndOfToken
<1>3. r \in targets
  BY <1>1 DEF Current, Foremost, TypeInv, PassShape
<1>4. status[r] # "absent"
  BY <1>3 DEF TypeInv, ListedAreReserved
<1>5. entry[r] = NULL => r \in Owed
  BY <1>1, <1>4, NullIsNoRow DEF Owed, NeedsEntry, CostInv, LeadersPriced, Rows, Kinds
<1>6. LeadersPriced'
  BY <1>1, <1>4 DEF CostInv, LeadersPriced
<1>7. Owed' \subseteq Owed
  BY <1>1, <1>2, <1>5, NullIsNoRow DEF Owed, LostEntries
<1>8. faultsLeft' \in Nat /\ faultsLeft' <= faultsLeft
  BY <1>1, FewerFaults DEF WriteSucceeds, TypeInv
<1> QED BY <1>6, <1>7, <1>8, OwesNoMore DEF TypeInv

LEMMA ClassifyCosts ==
  ASSUME TypeInv, CostInv, NEW r \in targets, NEW st \in Retryable \cup Terminal, Classify(r, st)
  PROVE  CostInv'
<1>1. PICK W \in SUBSET {r} : status' = Marked(W, st)
  BY DEF Classify, MarkStatus, MarkSome
<1>2. MarksOnly({r})
  BY <1>1, MarkedMarks
<1>3. UNCHANGED entry /\ row' = NULL
  BY DEF Classify, DoneWith, EndOfToken
<1>4. faultsLeft' \in Nat /\ faultsLeft' <= faultsLeft
  BY FewerFaults DEF Classify, MarkStatus, TypeInv
<1> QED BY <1>2, <1>3, <1>4, MarksOweNoMore

LEMMA ApplyCosts ==
  ASSUME TypeInv, CostInv, NEW r \in Rows, ApplyRow(r) PROVE CostInv'
<1>1. CASE \/ LookbackMiss(r) \/ EntryParseError(r) \/ NoCandle(r)
           \/ OutcomeParseError(r) \/ StaleOutcome(r)
  <2>1. PICK st \in Retryable \cup Terminal : Current(r) /\ Classify(r, st)
    BY <1>1 DEF LookbackMiss, EntryParseError, NoCandle, OutcomeParseError, StaleOutcome,
                Retryable, Terminal
  <2>2. r \in targets
    BY <2>1 DEF Current, Foremost, TypeInv, PassShape
  <2> QED BY <2>1, <2>2, ClassifyCosts
<1> QED BY <1>1, EntryCosts, FillCosts DEF ApplyRow

(* The replies that end a request, the pass or the process.                *)
LEMMA ReplyCosts ==
  ASSUME TypeInv, CostInv, RateLimited \/ APIError \/ EmptyKline PROVE CostInv'
<1>1. PICK st \in Retryable, W \in SUBSET targets : status' = Marked(W, st)
  BY DEF RateLimited, APIError, EmptyKline, FaultThenMark, MarkStatus, MarkSome, Retryable
<1>2. MarksOnly(targets)
  BY <1>1, MarkedMarks
<1>3. UNCHANGED entry /\ row' = NULL
  BY DEF RateLimited, APIError, EmptyKline, EndOfPass, EndOfToken
<1>4. faultsLeft' \in Nat /\ faultsLeft' <= faultsLeft
  BY FewerFaults DEF RateLimited, APIError, EmptyKline, FaultThenMark, MarkStatus, TypeInv
<1> QED BY <1>2, <1>3, <1>4, MarksOweNoMore

LEMMA OtherCosts ==
  ASSUME TypeInv, CostInv,
         Tick \/ Restart \/ SampleDue \/ TakeToken \/ EndPass \/ KlineReply \/ UNCHANGED vars
  PROVE  CostInv'
<1>1. UNCHANGED <<status, entry>> /\ (row' = NULL \/ UNCHANGED row)
  BY DEF Tick, Restart, SampleDue, TakeToken, EndPass, KlineReply, vars, store, pass, EndOfPass
<1>2. faultsLeft' \in Nat /\ faultsLeft' <= faultsLeft
  <2>1. UNCHANGED faultsLeft \/ \E kind \in FaultKinds : Fault(kind)
    BY DEF Tick, Restart, SampleDue, TakeToken, EndPass, KlineReply, vars, FaultKinds
  <2> QED BY <2>1, FewerFaults DEF TypeInv, TypeOK
<1>3. LeadersPriced' /\ Owed' \subseteq Owed
  BY <1>1, NullIsNoRow DEF CostInv, LeadersPriced, Owed, LostEntries
<1> QED BY <1>2, <1>3, OwesNoMore DEF TypeInv

(* Whatever writes fail: as many rows at most are filled without an entry  *)
(* as writes failed (engine.go:228-243).                                   *)
THEOREM OneRowPerLostWrite == Spec => []LostWriteCostsOneRow
<1>1. Init => CostInv
  <2> SUFFICES ASSUME Init PROVE CostInv
    OBVIOUS
  <2>1. Owed = {} /\ LeadersPriced
    BY NullIsNoRow DEF Init, NoPass, Owed, LostEntries, LeadersPriced
  <2> QED BY <2>1, FS_EmptySet, ConstantsOK DEF Init, CostInv, ConstantsOK
<1>2. TypeInv /\ CostInv /\ [Next]_vars => CostInv'
  BY CreateCosts, ApplyCosts, ReplyCosts, OtherCosts DEF Next, EngineStep
<1>3. TypeInv /\ CostInv => LostWriteCostsOneRow
  <2> SUFFICES ASSUME TypeInv, CostInv PROVE LostWriteCostsOneRow
    OBVIOUS
  <2>1. LostEntries \in SUBSET Owed
    BY DEF Owed
  <2>2. IsFiniteSet(LostEntries) /\ Cardinality(LostEntries) <= Cardinality(Owed)
    BY <2>1, FS_Subset DEF CostInv
  <2>3. Cardinality(LostEntries) \in Nat /\ Cardinality(Owed) \in Nat
    BY <2>2, FS_CardinalityType DEF CostInv
  <2> QED BY <2>2, <2>3, ConstantsOK DEF CostInv, LostWriteCostsOneRow, TypeInv, TypeOK, ConstantsOK
<1> QED BY <1>1, <1>2, <1>3, TypeCorrect, PTL DEF Spec

-----------------------------------------------------------------------------
(* No request is spent on a token without a pending follower row while a   *)
(* listed one waits, for any backlog (storage/markouts.go:69-86).          *)
THEOREM PendingFollowersFirst == Spec => FollowerPendingFirst
<1> DEFINE First == token' # token /\ token' # NULL =>
                      PendingFollowers(targets') # {} \/ PendingFollowers(batch) = {}
<1>1. ASSUME TypeOK, [Next]_vars PROVE First
  <2>1. CASE TakeToken
    <3>1. PICK r \in Foremost(batch) : targets' = {s \in batch : Tok(s) = Tok(r)}
      BY <2>1 DEF TakeToken
    <3>2. r \in batch /\ r \in targets' /\ \A s \in batch : ~Before(s, r)
      BY <3>1 DEF Foremost
    <3>3. ASSUME NEW s \in PendingFollowers(batch) PROVE r \in PendingFollowers(targets')
      <4>1. s \in batch /\ s.kind = "follower" /\ status[s] = "pending"
        BY <3>3 DEF PendingFollowers
      <4>2. r.kind \in {"leader", "follower"}
        BY <1>1, <3>2 DEF TypeOK, Rows, Kinds
      <4>3. r.kind = "follower" /\ status[r] = "pending"
        BY <3>2, <4>1, <4>2 DEF Before
      <4>4. UNCHANGED status
        BY <2>1 DEF TakeToken, store
      <4> QED BY <3>2, <4>3, <4>4 DEF PendingFollowers
    <3> QED BY <3>3
  <2>2. CASE ~TakeToken
    <3>1. token' = token \/ token' = NULL
      BY <1>1, <2>2
      DEF Next, vars, pass, Tick, Create, CreateMarkouts, Restart, EndOfPass, EngineStep,
          SampleDue, EndPass, RateLimited, APIError, EmptyKline, KlineReply, EndOfToken,
          ApplyRow, LookbackMiss, EntryParseError, SetFollowerEntry, NoCandle,
          OutcomeParseError, StaleOutcome, FillMarkout, Classify, DoneWith
    <3> QED BY <3>1
  <2> QED BY <2>1, <2>2
<1> QED BY <1>1, TypeSafe, PTL DEF Spec, FollowerPendingFirst
=============================================================================
