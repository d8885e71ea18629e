----------------------------- MODULE ClusterProof -----------------------------
(***************************************************************************)
(* Two calls that work on a token at the same time cannot both miss the    *)
(* other's event, for any pollers, events, windows, faults and restarts.   *)
(*                                                                         *)
(* ConvergenceIsCounted speaks of rows; the invariant speaks of rows that  *)
(* are written and of those the calls under way may still write.  A call   *)
(* that queries the database finds every event somebody has a row for, or  *)
(* will, because an event is stored before its call begins.                *)
(***************************************************************************)
EXTENDS ClusterWindows, FiniteSetTheorems, TLAPS

Writing == {f \in Feeds : call[f] # NULL /\ call[f].stage = "write"}

Rows == samples \cup {Sample(call[f], w) : f \in Writing, w \in Windows}

Agree(s, t) ==
  /\ s.window = t.window /\ Token[s.of] = Token[t.of]
  /\ TradeTime[t.of] >= s.at - s.window
  /\ TradeTime[s.of] >= t.at - t.window
  => t.of \in s.counted \/ s.of \in t.counted

RowsAgree == \A s, t \in Rows : Agree(s, t)

RowsOfStored == \A f \in Feeds : call[f] # NULL => call[f].of \in stored

SamplesOfStored == \A s \in samples : s.of \in stored

ClusterInv == ClusterTypeOK /\ RowsOfStored /\ SamplesOfStored /\ RowsAgree

(* The scan of a newest-first list stops at nothing that it should count.  *)
LEMMA ScannedMembers ==
  ASSUME NEW recent \in SUBSET Events, NEW cutoff \in Int
  PROVE  Scanned(recent, cutoff) = {e \in recent : TradeTime[e] >= cutoff}
<1>1. \A e \in recent : TradeTime[e] \in Nat
  BY ClusterConstantsOK
<1> QED BY <1>1 DEF Scanned

(* The query reaches as far back as the widest window.                     *)
LEMMA WidestBounds == Widest \in Windows /\ \A w \in Windows : Widest >= w
BY ClusterConstantsOK DEF Widest, Max

LEMMA InitCluster == Init => ClusterInv
<1> SUFFICES ASSUME Init PROVE ClusterInv
  OBVIOUS
<1>1. ClusterTypeOK
  BY ClusterConstantsOK DEF Init, ClusterTypeOK
<1>2. Rows = {}
  BY DEF Init, Rows, Writing
<1> QED BY <1>1, <1>2 DEF Init, ClusterInv, RowsOfStored, SamplesOfStored, RowsAgree

(* A step that begins no query adds no rows.                               *)
LEMMA NoNewRows ==
  ASSUME ClusterInv, ClusterTypeOK', RowsOfStored', SamplesOfStored', Rows' \subseteq Rows
  PROVE  ClusterInv'
<1>1. RowsAgree'
  BY DEF ClusterInv, RowsAgree, Agree
<1> QED BY <1>1 DEF ClusterInv

LEMMA FaultCounts ==
  ASSUME ClusterTypeOK, Fault PROVE faultsLeft' \in 0 .. MaxFaults
<1>1. PICK n \in Int : n = faultsLeft' /\ n = faultsLeft - 1
  BY ClusterConstantsOK DEF Fault, ClusterTypeOK
<1> QED BY <1>1, ClusterConstantsOK DEF Fault, ClusterTypeOK

LEMMA RestartCluster == ASSUME ClusterInv, Restart PROVE ClusterInv'
<1>1. ClusterTypeOK'
  BY FaultCounts DEF Restart, ClusterInv, ClusterTypeOK
<1>2. RowsOfStored' /\ SamplesOfStored'
  BY DEF Restart, ClusterInv, RowsOfStored, SamplesOfStored
<1>3. Rows' \subseteq Rows
  BY DEF Restart, Rows, Writing
<1> QED BY <1>1, <1>2, <1>3, NoNewRows

LEMMA TickCluster == ASSUME ClusterInv, Tick PROVE ClusterInv'
<1>1. ClusterTypeOK'
  <2>1. PICK n \in Int : n = now' /\ n \in 0 .. MaxTime
    BY ClusterConstantsOK DEF Tick, ClusterInv, ClusterTypeOK
  <2> QED BY <2>1 DEF Tick, ClusterInv, ClusterTypeOK
<1>2. RowsOfStored' /\ SamplesOfStored' /\ Rows' = Rows
  BY DEF Tick, ClusterInv, RowsOfStored, SamplesOfStored, Rows, Writing
<1> QED BY <1>1, <1>2, NoNewRows

LEMMA StoreCluster ==
  ASSUME ClusterInv, NEW f \in Feeds, StoreEvent(f) PROVE ClusterInv'
<1>1. PICK e \in Events \ stored :
         /\ stored' = stored \cup {e}
         /\ call' = [call EXCEPT ![f] = [of |-> e, stage |-> "pipeline", at |-> 0,
                                         recent |-> {}, left |-> Windows]]
         /\ UNCHANGED <<now, faultsLeft, samples>>
  BY DEF StoreEvent
<1>2. ClusterTypeOK'
  BY <1>1 DEF ClusterInv, ClusterTypeOK, Calls
<1>3. RowsOfStored' /\ SamplesOfStored'
  BY <1>1 DEF ClusterInv, ClusterTypeOK, RowsOfStored, SamplesOfStored
<1>4. \A g \in Writing' : g \in Writing /\ call'[g] = call[g]
  BY <1>1 DEF ClusterInv, ClusterTypeOK, Writing
<1>5. Rows' \subseteq Rows
  BY <1>1, <1>4 DEF Rows, Sample, Scanned
<1> QED BY <1>2, <1>3, <1>5, NoNewRows

(* The calls that leave the engine, and the one that reads the clock.      *)
LEMMA LeaveCluster ==
  ASSUME ClusterInv, NEW f \in Feeds, ReadFails(f) \/ OnEventReturns(f)
  PROVE  ClusterInv'
<1>1. /\ call' = [call EXCEPT ![f] = NULL]
      /\ UNCHANGED <<now, stored, samples>>
  BY DEF ReadFails, OnEventReturns, Return
<1>2. ClusterTypeOK'
  <2>1. faultsLeft' \in 0 .. MaxFaults
    BY FaultCounts DEF ReadFails, OnEventReturns, ClusterInv, ClusterTypeOK
  <2> QED BY <1>1, <2>1 DEF ClusterInv, ClusterTypeOK
<1>3. RowsOfStored' /\ SamplesOfStored'
  BY <1>1 DEF ClusterInv, ClusterTypeOK, RowsOfStored, SamplesOfStored
<1>4. \A g \in Writing' : g \in Writing /\ call'[g] = call[g]
  BY <1>1 DEF ClusterInv, ClusterTypeOK, Writing
<1>5. Rows' \subseteq Rows
  BY <1>1, <1>4 DEF Rows, Sample, Scanned
<1> QED BY <1>2, <1>3, <1>5, NoNewRows

LEMMA OnEventCluster ==
  ASSUME ClusterInv, NEW f \in Feeds, OnEvent(f) PROVE ClusterInv'
<1>1. call[f] \in Calls /\ call[f].of \in stored
  BY DEF OnEvent, ClusterInv, ClusterTypeOK, RowsOfStored
<1>2. /\ call' = [call EXCEPT ![f] = [call[f] EXCEPT !.stage = "read", !.at = now]]
      /\ UNCHANGED <<now, faultsLeft, stored, samples>>
  BY DEF OnEvent
<1>3. ClusterTypeOK'
  <2>1. now \in Nat
    BY ClusterConstantsOK DEF ClusterInv, ClusterTypeOK
  <2>2. [call[f] EXCEPT !.stage = "read", !.at = now] \in Calls
    BY <1>1, <2>1 DEF Calls
  <2> QED BY <1>2, <2>2 DEF ClusterInv, ClusterTypeOK
<1>4. RowsOfStored' /\ SamplesOfStored'
  BY <1>1, <1>2 DEF ClusterInv, ClusterTypeOK, RowsOfStored, SamplesOfStored, Calls
<1>5. \A g \in Writing' : g \in Writing /\ call'[g] = call[g]
  BY <1>1, <1>2 DEF ClusterInv, ClusterTypeOK, Writing, Calls
<1>6. Rows' \subseteq Rows
  <2>1. samples' = samples
    BY <1>2
  <2> QED BY <2>1, <1>5 DEF Rows, Sample, Scanned
<1> QED BY <1>3, <1>4, <1>6, NoNewRows

LEMMA WriteCluster ==
  ASSUME ClusterInv, NEW f \in Feeds, InsertClusterSample(f) PROVE ClusterInv'
<1>1. call[f] \in Calls /\ call[f].of \in stored /\ f \in Writing
  BY DEF InsertClusterSample, ClusterInv, ClusterTypeOK, RowsOfStored, Writing
<1>2. PICK w \in call[f].left :
         /\ \/ samples' = samples \cup {Sample(call[f], w)} /\ UNCHANGED faultsLeft
            \/ Fault /\ UNCHANGED samples
         /\ call' = [call EXCEPT ![f] = [call[f] EXCEPT !.left = call[f].left \ {w}]]
         /\ UNCHANGED <<now, stored>>
  BY DEF InsertClusterSample
<1>3. w \in Windows /\ w \in Int
  <2>1. call[f].left \subseteq Windows
    BY <1>1 DEF Calls
  <2> QED BY <1>2, <2>1, ClusterConstantsOK
<1>4. Sample(call[f], w) \in
        [of : Events, window : Windows, at : Nat, counted : SUBSET Events]
  BY <1>1, <1>3 DEF Sample, Scanned, Calls
<1>5. ClusterTypeOK'
  <2>1. call'[f] \in Calls
    BY <1>1, <1>2 DEF ClusterInv, ClusterTypeOK, Calls
  <2>2. call' \in [Feeds -> Calls \cup {NULL}]
    BY <2>1, <1>2 DEF ClusterInv, ClusterTypeOK
  <2>3. faultsLeft' \in 0 .. MaxFaults
    BY <1>2, FaultCounts DEF ClusterInv, ClusterTypeOK
  <2> QED BY <1>2, <1>4, <2>2, <2>3 DEF ClusterInv, ClusterTypeOK
<1>6. RowsOfStored' /\ SamplesOfStored'
  BY <1>1, <1>2 DEF ClusterInv, ClusterTypeOK, RowsOfStored, SamplesOfStored, Calls, Sample
<1>7. \A g \in Writing' : /\ g \in Writing /\ call'[g].of = call[g].of
                          /\ call'[g].at = call[g].at /\ call'[g].recent = call[g].recent
  BY <1>1, <1>2 DEF ClusterInv, ClusterTypeOK, Writing, Calls
<1>8. \A g \in Writing', v \in Windows : Sample(call'[g], v) = Sample(call[g], v)
  BY <1>7 DEF Sample, Scanned
<1>9. Rows' \subseteq Rows
  <2>1. samples' \subseteq samples \cup {Sample(call[f], w)}
    BY <1>2
  <2>2. samples' \subseteq Rows
    BY <1>1, <1>3, <2>1 DEF Rows
  <2> QED BY <1>7, <1>8, <2>2 DEF Rows
<1> QED BY <1>5, <1>6, <1>9, NoNewRows

(* The query finds every event that has a row, or a call that will write   *)
(* one, and that the window still covers.                                  *)
LEMMA ReadCluster ==
  ASSUME ClusterInv, NEW f \in Feeds, ReadRecent(f) PROVE ClusterInv'
<1> DEFINE c == call[f]
           fresh == Visible(f)
<1>1. c \in Calls /\ c.of \in stored /\ c.at \in Nat /\ fresh \in SUBSET Events
  BY DEF ReadRecent, ClusterInv, ClusterTypeOK, RowsOfStored, Calls, Visible, Recent
<1>2. /\ call' = [call EXCEPT ![f] = [c EXCEPT !.stage = "write", !.recent = fresh]]
      /\ UNCHANGED <<now, faultsLeft, stored, samples>>
  BY DEF ReadRecent
<1>3. ClusterTypeOK'
  <2>1. call'[f] \in Calls
    BY <1>1, <1>2 DEF ClusterInv, ClusterTypeOK, Calls
  <2> QED BY <1>2, <2>1 DEF ClusterInv, ClusterTypeOK
<1>4. /\ call'[f].of = c.of /\ call'[f].at = c.at /\ call'[f].recent = fresh
      /\ \A g \in Feeds \ {f} : call'[g] = call[g]
  BY <1>1, <1>2 DEF ClusterInv, ClusterTypeOK, Calls
<1>5. RowsOfStored' /\ SamplesOfStored'
  BY <1>1, <1>2, <1>4 DEF ClusterInv, RowsOfStored, SamplesOfStored
<1>6. \A s \in Rows : /\ s.of \in stored /\ s.window \in Windows
  BY DEF ClusterInv, ClusterTypeOK, RowsOfStored, SamplesOfStored, Rows, Writing, Sample
<1> DEFINE new(w) == Sample(call'[f], w)
<1>7. ASSUME NEW w \in Windows
      PROVE  /\ new(w).of = c.of /\ new(w).window = w /\ new(w).at = c.at
             /\ \A e \in stored :
                  /\ Token[e] = Token[c.of] /\ TradeTime[e] >= c.at - w
                  => e \in new(w).counted
  <2>1. c.at - w \in Int /\ w \in Int /\ Widest \in Int
    BY <1>1, WidestBounds, ClusterConstantsOK
  <2>2. new(w).counted = {e \in fresh : TradeTime[e] >= c.at - w}
    BY <1>1, <1>4, <2>1, ScannedMembers DEF Sample
  <2>3. ASSUME NEW e \in stored, Token[e] = Token[c.of], TradeTime[e] >= c.at - w
        PROVE  e \in fresh
    <3>1. TradeTime[e] \in Int /\ w <= Widest
      BY WidestBounds, ClusterConstantsOK DEF ClusterInv, ClusterTypeOK
    <3>2. TradeTime[e] >= c.at - Widest
      BY <1>1, <2>1, <2>3, <3>1
    <3> QED BY <2>3, <3>2 DEF Visible, Recent
  <2> QED BY <1>4, <2>2, <2>3 DEF Sample
<1>8. \A s \in Rows' : s \in Rows \/ \E w \in Windows : s = new(w)
  <2>1. \A g \in Writing' : g = f \/ (g \in Writing /\ call'[g] = call[g])
    BY <1>4 DEF Writing
  <2>2. samples' = samples
    BY <1>2
  <2>3. \A g \in Writing', w \in Windows :
          g # f => Sample(call'[g], w) = Sample(call[g], w)
    BY <2>1 DEF Sample, Scanned
  <2> QED BY <2>1, <2>2, <2>3 DEF Rows
<1>9. RowsAgree'
  <2> SUFFICES ASSUME NEW s \in Rows', NEW t \in Rows' PROVE Agree(s, t)
    BY DEF RowsAgree, Agree
  <2>1. CASE s \in Rows /\ t \in Rows
    BY <2>1 DEF ClusterInv, RowsAgree
  <2>2. CASE \E w \in Windows : s = new(w)
    BY <1>1, <1>6, <1>7, <1>8, <2>2 DEF Agree
  <2>3. CASE \E w \in Windows : t = new(w)
    BY <1>1, <1>6, <1>7, <1>8, <2>3 DEF Agree
  <2> QED BY <1>8, <2>1, <2>2, <2>3
<1> QED BY <1>3, <1>5, <1>9 DEF ClusterInv

LEMMA StepCluster == ClusterInv /\ [Next]_clusterVars => ClusterInv'
<1> SUFFICES ASSUME ClusterInv, [Next]_clusterVars PROVE ClusterInv'
  OBVIOUS
<1>1. CASE UNCHANGED clusterVars
  <2>1. ClusterTypeOK' /\ RowsOfStored' /\ SamplesOfStored' /\ Rows' = Rows
    BY <1>1 DEF clusterVars, ClusterInv, ClusterTypeOK, RowsOfStored, SamplesOfStored,
                Rows, Writing
  <2> QED BY <2>1, NoNewRows
<1>2. CASE \E f \in Feeds : PollerStep(f)
  BY <1>2, StoreCluster, OnEventCluster, ReadCluster, LeaveCluster, WriteCluster
  DEF PollerStep
<1> QED BY <1>1, <1>2, TickCluster, RestartCluster DEF Next

THEOREM ClusterInvariant == Spec => []ClusterInv
BY InitCluster, StepCluster, PTL DEF Spec

(* Two events of a token, each inside the window when the other is         *)
(* processed, are counted together by at least one of the two calls.       *)
THEOREM ConvergenceCounted == Spec => []ConvergenceIsCounted
<1>1. ClusterInv => ConvergenceIsCounted
  BY DEF ClusterInv, RowsAgree, Agree, Rows, ConvergenceIsCounted
<1> QED BY <1>1, ClusterInvariant, PTL

(* Calls and samples keep their types (cluster/engine.go, clusters.go).    *)
THEOREM ClusterIsTyped == Spec => []ClusterTypeOK
<1>1. ClusterInv => ClusterTypeOK BY DEF ClusterInv
<1> QED BY <1>1, ClusterInvariant, PTL

-----------------------------------------------------------------------------
(* The report grows with the window.                                       *)

CoveredBy(s, t) == t.of = s.of /\ t.at = s.at /\ s.counted \subseteq t.counted

(* The row for the window v of the call that wrote s is there or comes.    *)
Follows(s, v) ==
  \/ \E t \in samples : t.window = v /\ CoveredBy(s, t)
  \/ \E f \in Writing : v \in call[f].left /\ CoveredBy(s, Sample(call[f], v))

(* A call still writes every window wider than one it still writes.        *)
LeftUpward ==
  \A f \in Feeds : call[f] # NULL =>
    \A w \in call[f].left, v \in Windows : w <= v => v \in call[f].left

CountsOfStored ==
  /\ IsFiniteSet(stored) /\ IsFiniteSet(samples)
  /\ \A f \in Feeds : call[f] # NULL => call[f].recent \subseteq stored
  /\ \A s \in samples : s.counted \subseteq stored

AllFollow == \A s \in samples, v \in Windows : s.window <= v => Follows(s, v)

GrowInv == CountsOfStored /\ LeftUpward /\ (faultsLeft = MaxFaults => AllFollow)

(* A fault spoils the premise for good.                                    *)
LEMMA FaultShows ==
  ASSUME ClusterTypeOK, Fault PROVE faultsLeft' # MaxFaults
BY ClusterConstantsOK DEF Fault, ClusterTypeOK

LEMMA InitGrow == Init => GrowInv
<1> SUFFICES ASSUME Init PROVE GrowInv
  OBVIOUS
<1>1. CountsOfStored
  BY FS_EmptySet DEF Init, CountsOfStored
<1> QED BY <1>1 DEF Init, GrowInv, LeftUpward, AllFollow

(* A step of f that writes nothing, of a call that has written nothing or  *)
(* has nothing left to write.                                              *)
LEMMA QuietGrow ==
  ASSUME GrowInv, ClusterTypeOK, NEW f \in Feeds, CountsOfStored', UNCHANGED samples,
         faultsLeft' = MaxFaults => faultsLeft = MaxFaults,
         \A g \in Feeds \ {f} : call'[g] = call[g],
         f \in Writing => call[f].left = {},
         call'[f] # NULL =>
           call'[f].left = Windows \/ (call[f] # NULL /\ call'[f].left = call[f].left)
  PROVE  GrowInv'
<1>1. LeftUpward'
  <2> SUFFICES ASSUME NEW g \in Feeds, call'[g] # NULL, NEW w \in call'[g].left,
                      NEW v \in Windows, w <= v
               PROVE  v \in call'[g].left
    BY DEF LeftUpward
  <2> QED BY DEF GrowInv, LeftUpward
<1>2. ASSUME faultsLeft' = MaxFaults PROVE AllFollow'
  <2> SUFFICES ASSUME NEW s \in samples, NEW v \in Windows, s.window <= v
               PROVE  Follows(s, v)'
    BY DEF AllFollow
  <2>1. Follows(s, v)
    BY <1>2 DEF GrowInv, AllFollow
  <2>2. CASE \E t \in samples : t.window = v /\ CoveredBy(s, t)
    BY <2>2 DEF Follows, CoveredBy
  <2>3. CASE \E g \in Writing : v \in call[g].left /\ CoveredBy(s, Sample(call[g], v))
    <3>1. PICK g \in Writing : v \in call[g].left /\ CoveredBy(s, Sample(call[g], v))
      BY <2>3
    <3>2. g \in Feeds \ {f} /\ call'[g] = call[g]
      BY <3>1 DEF Writing
    <3>3. g \in Writing' /\ Sample(call'[g], v) = Sample(call[g], v)
      BY <3>1, <3>2 DEF Writing, Sample, Scanned
    <3> QED BY <3>1, <3>2, <3>3 DEF Follows, CoveredBy
  <2> QED BY <2>1, <2>2, <2>3 DEF Follows
<1> QED BY <1>1, <1>2 DEF GrowInv

LEMMA StoreGrow ==
  ASSUME ClusterInv, GrowInv, NEW f \in Feeds, StoreEvent(f) PROVE GrowInv'
<1>1. PICK e \in Events \ stored :
         /\ call[f] = NULL
         /\ stored' = stored \cup {e}
         /\ call' = [call EXCEPT ![f] = [of |-> e, stage |-> "pipeline", at |-> 0,
                                         recent |-> {}, left |-> Windows]]
         /\ UNCHANGED <<now, faultsLeft, samples>>
  BY DEF StoreEvent
<1>2. /\ call'[f].recent = {} /\ call'[f].left = Windows
      /\ \A g \in Feeds \ {f} : call'[g] = call[g]
  BY <1>1 DEF ClusterInv, ClusterTypeOK
<1>3. CountsOfStored'
  <2>1. IsFiniteSet(stored')
    BY <1>1, FS_AddElement DEF GrowInv, CountsOfStored
  <2> QED BY <1>1, <1>2, <2>1 DEF GrowInv, CountsOfStored
<1> QED BY <1>1, <1>2, <1>3, QuietGrow DEF ClusterInv, Writing

LEMMA EngineGrow ==
  ASSUME ClusterInv, GrowInv, NEW f \in Feeds,
         OnEvent(f) \/ ReadRecent(f) \/ OnEventReturns(f)
  PROVE  GrowInv'
<1>1. /\ UNCHANGED <<now, faultsLeft, stored, samples>>
      /\ \A g \in Feeds \ {f} : call'[g] = call[g]
      /\ f \in Writing => call[f].left = {}
  BY DEF OnEvent, ReadRecent, OnEventReturns, Return, ClusterInv, ClusterTypeOK, Writing
<1>2. call'[f] # NULL => /\ call[f] # NULL /\ call'[f].left = call[f].left
                         /\ call'[f].recent \subseteq stored
  <2>1. CASE OnEvent(f)
    BY <2>1 DEF OnEvent, ClusterInv, ClusterTypeOK, Calls, GrowInv, CountsOfStored
  <2>2. CASE ReadRecent(f)
    BY <2>2 DEF ReadRecent, Visible, Recent, ClusterInv, ClusterTypeOK, Calls
  <2>3. CASE OnEventReturns(f)
    BY <2>3 DEF OnEventReturns, Return, ClusterInv, ClusterTypeOK
  <2> QED BY <2>1, <2>2, <2>3
<1>3. CountsOfStored'
  BY <1>1, <1>2 DEF GrowInv, CountsOfStored
<1>4. ClusterTypeOK /\ (faultsLeft' = MaxFaults => faultsLeft = MaxFaults) /\ UNCHANGED samples
  BY <1>1 DEF ClusterInv
<1>5. call'[f] # NULL => call[f] # NULL /\ call'[f].left = call[f].left
  BY <1>2
<1> QED BY <1>1, <1>3, <1>4, <1>5, QuietGrow

LEMMA LeaveGrow ==
  ASSUME ClusterInv, ClusterInv', GrowInv, NEW f \in Feeds, ReadFails(f) PROVE GrowInv'
<1>1. /\ UNCHANGED <<now, stored, samples>> /\ call' = [call EXCEPT ![f] = NULL]
      /\ faultsLeft' # MaxFaults
  BY FaultShows DEF ReadFails, Return, ClusterInv
<1>2. \A g \in Feeds : call'[g] = NULL \/ call'[g] = call[g]
  BY <1>1 DEF ClusterInv, ClusterTypeOK
<1> QED BY <1>1, <1>2 DEF GrowInv, CountsOfStored, LeftUpward

LEMMA RestartGrow ==
  ASSUME ClusterInv, GrowInv, Restart PROVE GrowInv'
<1>1. faultsLeft' # MaxFaults
  BY FaultShows DEF Restart, ClusterInv
<1> QED BY <1>1 DEF Restart, GrowInv, CountsOfStored, LeftUpward

LEMMA SameGrow ==
  ASSUME GrowInv, UNCHANGED <<faultsLeft, stored, call, samples>> PROVE GrowInv'
BY DEF GrowInv, CountsOfStored, LeftUpward, AllFollow, Follows, CoveredBy, Writing, Sample,
       Scanned

(* The rows of one call count the more events the wider the window.        *)
LEMMA WiderCountsMore ==
  ASSUME NEW c \in Calls, NEW w \in Windows, NEW v \in Windows, w <= v
  PROVE  CoveredBy(Sample(c, w), Sample(c, v))
<1>1. w \in Int /\ v \in Int /\ c.at \in Int /\ c.recent \in SUBSET Events
  BY ClusterConstantsOK DEF Calls
<1>2. /\ Sample(c, w).counted = {e \in c.recent : TradeTime[e] >= c.at - w}
      /\ Sample(c, v).counted = {e \in c.recent : TradeTime[e] >= c.at - v}
  BY <1>1, ScannedMembers DEF Sample
<1>3. \A e \in c.recent : TradeTime[e] \in Int
  BY <1>1, ClusterConstantsOK
<1>4. Sample(c, w).counted \subseteq Sample(c, v).counted
  BY <1>1, <1>2, <1>3
<1> QED BY <1>4 DEF CoveredBy, Sample

(* Windows are written from the narrowest on: what is wider follows.       *)
LEMMA WriteGrow ==
  ASSUME ClusterInv, ClusterInv', GrowInv, NEW f \in Feeds, InsertClusterSample(f)
  PROVE  GrowInv'
<1> DEFINE c == call[f]
<1>1. c \in Calls /\ c # NULL /\ f \in Writing /\ c.recent \subseteq stored
  BY DEF InsertClusterSample, ClusterInv, ClusterTypeOK, Writing, GrowInv, CountsOfStored
<1>2. PICK w \in c.left :
         /\ \A v \in c.left : w <= v
         /\ \/ samples' = samples \cup {Sample(c, w)} /\ UNCHANGED faultsLeft
            \/ Fault /\ UNCHANGED samples
         /\ call' = [call EXCEPT ![f] = [c EXCEPT !.left = c.left \ {w}]]
         /\ UNCHANGED <<now, stored>>
  BY DEF InsertClusterSample
<1>3. w \in Windows /\ Windows \subseteq Int
  BY <1>1, <1>2, ClusterConstantsOK DEF Calls
<1>4. /\ call'[f].of = c.of /\ call'[f].at = c.at /\ call'[f].recent = c.recent
      /\ call'[f].left = c.left \ {w} /\ f \in Writing'
      /\ \A g \in Feeds \ {f} : call'[g] = call[g]
  BY <1>1, <1>2, ClusterConstantsOK DEF ClusterInv, ClusterTypeOK, Calls, Writing
<1> HIDE DEF c
<1>5. CountsOfStored'
  <2>1. Sample(c, w).counted \subseteq stored
    BY <1>1 DEF Sample, Scanned
  <2>2. IsFiniteSet(samples')
    BY <1>2, FS_AddElement DEF GrowInv, CountsOfStored
  <2>3. \A s \in samples' : s.counted \subseteq stored
    BY <1>2, <2>1 DEF GrowInv, CountsOfStored
  <2> QED BY <1>1, <1>2, <1>4, <2>2, <2>3 DEF GrowInv, CountsOfStored
<1>6. LeftUpward'
  <2> SUFFICES ASSUME NEW g \in Feeds, call'[g] # NULL, NEW u \in call'[g].left,
                      NEW v \in Windows, u <= v
               PROVE  v \in call'[g].left
    BY DEF LeftUpward
  <2>1. CASE g = f
    <3>1. u \in c.left /\ u # w /\ w <= u /\ u \in Windows
      BY <1>1, <1>2, <1>4, <2>1 DEF Calls
    <3>2. v \in c.left
      BY <1>1, <3>1 DEF GrowInv, LeftUpward, c
    <3>3. v # w
      BY <1>3, <3>1
    <3> QED BY <1>4, <2>1, <3>2, <3>3
  <2>2. CASE g # f
    BY <1>4, <2>2 DEF GrowInv, LeftUpward
  <2> QED BY <2>1, <2>2
<1>7. ASSUME faultsLeft' = MaxFaults PROVE AllFollow'
  <2>1. samples' = samples \cup {Sample(c, w)} /\ faultsLeft = MaxFaults
    BY <1>2, <1>7, FaultShows DEF ClusterInv
  <2>2. \A v : Sample(call'[f], v) = Sample(c, v)
    BY <1>4 DEF Sample, Scanned
  <2>3. \A v : Sample(c, v).window = v
    BY DEF Sample
  <2>4. ASSUME NEW s, NEW v \in c.left, CoveredBy(s, Sample(c, v)) PROVE Follows(s, v)'
    <3>1. CASE v = w
      <4>1. Sample(c, w) \in samples' /\ Sample(c, w).window = v
        BY <2>1, <2>3, <3>1
      <4> QED BY <2>4, <3>1, <4>1 DEF Follows, CoveredBy
    <3>2. CASE v # w
      <4>1. v \in call'[f].left /\ CoveredBy(s, Sample(call'[f], v))
        BY <1>4, <2>2, <2>4, <3>2
      <4> QED BY <1>4, <4>1 DEF Follows, CoveredBy
    <3> QED BY <3>1, <3>2
  <2>5. PICK row : row = Sample(c, w)
    OBVIOUS
  <2>6. ASSUME NEW v \in Windows, w <= v PROVE Follows(row, v)'
    <3>1. v \in c.left
      BY <1>1, <1>2, <2>6 DEF GrowInv, LeftUpward, c
    <3>2. CoveredBy(row, Sample(c, v))
      BY <1>1, <1>3, <2>6, <2>5, WiderCountsMore
    <3> QED BY <2>4, <3>1, <3>2
  <2>7. ASSUME NEW s \in samples, NEW v \in Windows, s.window <= v PROVE Follows(s, v)'
    <3>1. Follows(s, v)
      BY <2>1, <2>7 DEF GrowInv, AllFollow
    <3>2. CASE \E t \in samples : t.window = v /\ CoveredBy(s, t)
      BY <2>1, <3>2 DEF Follows, CoveredBy
    <3>3. CASE \E g \in Writing : v \in call[g].left /\ CoveredBy(s, Sample(call[g], v))
      <4>1. PICK g \in Writing : v \in call[g].left /\ CoveredBy(s, Sample(call[g], v))
        BY <3>3
      <4>2. CASE g = f
        BY <2>4, <4>1, <4>2 DEF c
      <4>3. CASE g # f
        <5>1. call'[g] = call[g] /\ g \in Writing'
          BY <1>4, <4>1, <4>3 DEF Writing
        <5>2. Sample(call'[g], v) = Sample(call[g], v)
          BY <5>1 DEF Sample, Scanned
        <5> QED BY <4>1, <5>1, <5>2 DEF Follows, CoveredBy
      <4> QED BY <4>2, <4>3
    <3> QED BY <3>1, <3>2, <3>3 DEF Follows
  <2>8. \A s \in samples', v \in Windows : s.window <= v => Follows(s, v)'
    <3> SUFFICES ASSUME NEW s \in samples', NEW v \in Windows, s.window <= v
                 PROVE  Follows(s, v)'
      OBVIOUS
    <3>1. CASE s \in samples
      BY <2>7, <3>1
    <3>2. CASE s = row
      BY <2>3, <2>6, <2>5, <3>2
    <3> QED BY <2>1, <2>5, <3>1, <3>2
  <2> QED BY <2>8 DEF AllFollow
<1> QED BY <1>5, <1>6, <1>7 DEF GrowInv

LEMMA StepGrow == ClusterInv /\ GrowInv /\ ClusterInv' /\ [Next]_clusterVars => GrowInv'
<1> SUFFICES ASSUME ClusterInv, GrowInv, ClusterInv', [Next]_clusterVars PROVE GrowInv'
  OBVIOUS
<1>1. CASE UNCHANGED clusterVars
  BY <1>1, SameGrow DEF clusterVars
<1>2. CASE Tick
  BY <1>2, SameGrow DEF Tick
<1>3. CASE \E f \in Feeds : PollerStep(f)
  BY <1>3, StoreGrow, EngineGrow, LeaveGrow, WriteGrow DEF PollerStep
<1> QED BY <1>1, <1>2, <1>3, RestartGrow DEF Next

THEOREM GrowInvHolds == Spec => []GrowInv
BY InitGrow, StepGrow, ClusterInvariant, PTL DEF Spec

(* Some element of a finite set comes last in any order by numbers.        *)
LEMMA GreatestExists ==
  ASSUME NEW S, IsFiniteSet(S), S # {}, NEW f \in [S -> Int]
  PROVE  \E n \in S : \A m \in S : f[n] >= f[m]
<1> DEFINE Above(n) == {m \in S : f[m] > f[n]}
           Fam == {Above(n) : n \in S}
           R == StrictSubsetOrdering(S)
<1>1. IsWellFoundedOn(R, FiniteSubsetsOf(S))
  BY FS_StrictSubsetOrderingWellFounded
<1>2. FiniteSubsetsOf(S) = SUBSET S
  BY FS_FiniteSubsetsOfFinite
<1>3. Fam \subseteq SUBSET S /\ Fam # {}
  <2>1. \A n \in S : Above(n) \in SUBSET S OBVIOUS
  <2>2. Fam \subseteq SUBSET S BY <2>1
  <2>3. PICK n : n \in S OBVIOUS
  <2>4. Above(n) \in Fam BY <2>3
  <2> QED BY <2>2, <2>4
<1>4. PICK X \in Fam : \A Y \in Fam : <<Y, X>> \notin R
  <2> HIDE DEF R, Fam
  <2> QED BY <1>1, <1>2, <1>3, WFMin
<1>5. PICK n \in S : X = Above(n)
  OBVIOUS
<1>6. ASSUME NEW m \in S, f[m] > f[n] PROVE FALSE
  <2>1. Above(m) \subseteq Above(n)
    BY <1>6
  <2>2. m \in Above(n) /\ m \notin Above(m)
    BY <1>6
  <2>3. <<Above(m), Above(n)>> \in R
    BY <2>1, <2>2 DEF StrictSubsetOrdering
  <2> QED BY <1>4, <1>5, <2>3
<1> QED BY <1>6

LEMMA MaxOfFinite ==
  ASSUME NEW S \in SUBSET Nat, IsFiniteSet(S), S # {}
  PROVE  Max(S) \in S /\ \A n \in S : Max(S) >= n
<1> DEFINE f == [n \in S |-> n]
<1>1. f \in [S -> Int] /\ \A n \in S : f[n] = n
  OBVIOUS
<1> HIDE DEF f
<1>2. PICK n \in S : \A m \in S : f[n] >= f[m]
  BY <1>1, GreatestExists
<1>3. \E x \in S : \A y \in S : x >= y
  BY <1>1, <1>2
<1> QED BY <1>3 DEF Max

(* What a function makes of a finite set is finite.                        *)
LEMMA FiniteImage ==
  ASSUME NEW S, IsFiniteSet(S), NEW f
  PROVE  IsFiniteSet({f[x] : x \in S})
<1> DEFINE T == {f[x] : x \in S}
           g == [x \in S |-> f[x]]
<1>1. g \in Surjection(S, T)
  <2>1. g \in [S -> T] OBVIOUS
  <2>2. \A y \in T : \E x \in S : g[x] = y OBVIOUS
  <2> QED BY <2>1, <2>2 DEF Surjection
<1> HIDE DEF T, g
<1>2. IsFiniteSet(T) BY <1>1, FS_Surjection
<1> QED BY <1>2 DEF T

(* A row that counts more events shows no fewer wallets and no earlier last*)
(* event.                                                                  *)
LEMMA MoreWallets ==
  ASSUME NEW s, NEW t, s.counted \subseteq t.counted, IsFiniteSet(t.counted),
         t.counted \subseteq Events, NEW lane
  PROVE  /\ Wallets(s, lane) \in Nat /\ Wallets(t, lane) \in Nat
         /\ Wallets(s, lane) <= Wallets(t, lane)
<1> DEFINE Of(r) == {Wallet[e] : e \in {d \in r.counted : Lane[d] = lane}}
<1>1. IsFiniteSet({d \in t.counted : Lane[d] = lane})
  BY FS_Subset
<1>2. IsFiniteSet(Of(t))
  BY <1>1, FiniteImage
<1>3. Of(s) \in SUBSET Of(t)
  OBVIOUS
<1> QED BY <1>2, <1>3, FS_Subset, FS_CardinalityType DEF Wallets

LEMMA LaterLastEvent ==
  ASSUME NEW s, NEW t, s.counted \subseteq t.counted, IsFiniteSet(t.counted),
         t.counted \subseteq Events
  PROVE  /\ LastEventAt(s) \in Nat /\ LastEventAt(t) \in Nat
         /\ LastEventAt(s) <= LastEventAt(t)
<1> DEFINE Times(r) == {TradeTime[e] : e \in r.counted}
<1>1. IsFiniteSet(s.counted)
  BY FS_Subset
<1>2. IsFiniteSet(Times(s)) /\ IsFiniteSet(Times(t))
  BY <1>1, FiniteImage
<1>3. Times(s) \subseteq Times(t) /\ Times(t) \in SUBSET Nat
  BY ClusterConstantsOK
<1>4. \A r : (Times(r) = {}) <=> (r.counted = {})
  OBVIOUS
<1>5. \A r : LastEventAt(r) = IF Times(r) = {} THEN 0 ELSE Max(Times(r))
  BY <1>4 DEF LastEventAt
<1> HIDE DEF Times
<1>6. Times(s) # {} => Max(Times(s)) \in Times(s)
  BY <1>2, <1>3, MaxOfFinite
<1>7. Times(t) # {} => Max(Times(t)) \in Times(t) /\ \A n \in Times(t) : Max(Times(t)) >= n
  BY <1>2, <1>3, MaxOfFinite
<1> QED BY <1>3, <1>5, <1>6, <1>7

LEMMA GrowTells == ClusterInv /\ GrowInv => ReportGrowsWithWindow
<1> SUFFICES ASSUME ClusterInv, GrowInv, faultsLeft = MaxFaults,
                    \A f \in Feeds : call[f] = NULL,
                    NEW w \in Windows, NEW v \in Windows, NEW e \in Events,
                    NEW since \in 0 .. MaxTime, w <= v
             PROVE  MaxSmart(Token[e], w, since) <= MaxSmart(Token[e], v, since)
  BY DEF ReportGrowsWithWindow
<1> DEFINE Of(u) == {r \in ClusterSamples(u, since) : Token[r.of] = Token[e]}
           Shown(u) == {0} \cup {Wallets(s, "smart_buy") : s \in Of(u)}
<1>1. \A s \in samples : /\ IsFiniteSet(s.counted) /\ s.counted \subseteq Events
  BY FS_Subset DEF ClusterInv, ClusterTypeOK, GrowInv, CountsOfStored
<1>2. ASSUME NEW u \in Windows
      PROVE  Max(Shown(u)) \in Shown(u) /\ \A n \in Shown(u) : Max(Shown(u)) >= n
  <2>1. Of(u) \in SUBSET samples
    BY DEF ClusterSamples
  <2>2. IsFiniteSet(Of(u))
    BY <2>1, FS_Subset DEF GrowInv, CountsOfStored
  <2>3. IsFiniteSet({Wallets(s, "smart_buy") : s \in Of(u)})
    <3> DEFINE S == Of(u)
               f == [s \in S |-> Wallets(s, "smart_buy")]
    <3> HIDE DEF S
    <3>1. {f[s] : s \in S} = {Wallets(s, "smart_buy") : s \in S}
      OBVIOUS
    <3>2. IsFiniteSet(S)
      BY <2>2 DEF S
    <3> HIDE DEF f
    <3>3. IsFiniteSet({f[s] : s \in S})
      BY <3>2, FiniteImage
    <3> QED BY <3>1, <3>3 DEF S
  <2>4. IsFiniteSet(Shown(u))
    BY <2>3, FS_Singleton, FS_Union
  <2>5. \A s \in Of(u) : Wallets(s, "smart_buy") \in Nat
    BY <1>1, <2>1, MoreWallets
  <2>6. Shown(u) \in SUBSET Nat /\ Shown(u) # {}
    BY <2>5
  <2> QED BY <2>4, <2>6, MaxOfFinite
<1>3. ASSUME NEW s \in Of(w)
      PROVE  \E t \in Of(v) : /\ Wallets(s, "smart_buy") \in Nat
                               /\ Wallets(t, "smart_buy") \in Nat
                               /\ Wallets(s, "smart_buy") <= Wallets(t, "smart_buy")
  <2>1. s \in samples /\ s.window = w /\ LastEventAt(s) >= since /\ Token[s.of] = Token[e]
    BY DEF ClusterSamples
  <2>2. Follows(s, v)
    BY <2>1 DEF GrowInv, AllFollow
  <2>3. PICK t \in samples : t.window = v /\ CoveredBy(s, t)
    BY <2>2 DEF Follows, Writing
  <2>4. LastEventAt(t) >= since
    <3>1. /\ LastEventAt(s) \in Nat /\ LastEventAt(t) \in Nat
          /\ LastEventAt(s) <= LastEventAt(t)
      BY <1>1, <2>3, LaterLastEvent DEF CoveredBy
    <3>2. since \in Int BY ClusterConstantsOK
    <3> QED BY <2>1, <3>1, <3>2
  <2>5. t \in Of(v)
    BY <2>1, <2>3, <2>4 DEF ClusterSamples, CoveredBy
  <2>6. /\ Wallets(s, "smart_buy") \in Nat /\ Wallets(t, "smart_buy") \in Nat
        /\ Wallets(s, "smart_buy") <= Wallets(t, "smart_buy")
    BY <1>1, <2>3, MoreWallets DEF CoveredBy
  <2> QED BY <2>5, <2>6
<1>4. \A u \in Windows : MaxSmart(Token[e], u, since) = Max(Shown(u))
  BY DEF MaxSmart
<1>5. \A m \in Shown(w) : m \in Nat /\ \E n \in Shown(v) : n \in Nat /\ m <= n
  <2> SUFFICES ASSUME NEW m \in Shown(w)
               PROVE  m \in Nat /\ \E n \in Shown(v) : n \in Nat /\ m <= n
    OBVIOUS
  <2>1. CASE m = 0
    BY <2>1
  <2>2. CASE m # 0
    <3>1. PICK s \in Of(w) : m = Wallets(s, "smart_buy")
      BY <2>2
    <3> QED BY <1>3, <3>1
  <2> QED BY <2>1, <2>2
<1>6. \A n \in Shown(v) : n \in Nat
  <2>1. \A s \in Of(v) : Wallets(s, "smart_buy") \in Nat
    BY <1>1, MoreWallets DEF ClusterSamples
  <2> QED BY <2>1
<1> HIDE DEF Shown
<1> QED BY <1>2, <1>4, <1>5, <1>6

(* As long as no write failed the report's maximum never falls when the    *)
(* window grows, for any events, windows and pollers                       *)
(* (cluster/engine.go:42-83, analyze/clusters.go:26-38).                   *)
THEOREM ReportGrows == Spec => []ReportGrowsWithWindow
BY GrowInvHolds, ClusterInvariant, GrowTells, PTL
=============================================================================
