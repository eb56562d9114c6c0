--------------------------- MODULE RiskGateProofs ---------------------------
(***************************************************************************)
(* The rapid-flip guard, the limits and the cap of RiskGate hold for any   *)
(* settings, any number of orders and any interleaving of the worker with  *)
(* the queue, reclaim, reconcile, the clock, the source, crashes and       *)
(* errors.                                                                 *)
(***************************************************************************)
EXTENDS RiskGate, SumLemmas, SequenceTheorems, FiniteSetTheorems, TLAPS

Statuses == {"pending", "dispatched", "submitted", "filled", "skipped", "failed", "cancelled"}
Row == [token : Tokens, follow : Follows, side : {"buy", "sell"}, size : Nat \ {0},
        status : Statuses]

\* The orders of the window that count against the limit: at the venue or filled.
Sent == {o \in Orders : o >= window /\ rows[o].status \in {"dispatched", "submitted", "filled"}}

\* The order in hand, when it has passed the guard and is not sent yet.
PastGuard == {"breaker", "follow", "followDaily", "followOpen", "cap", "through", "closing"}
Passed    == {o \in Orders : o >= window /\ o = exec.order /\ exec.pc \in PastGuard}

Stages == {"daily", "open", "recent"} \cup PastGuard \cup {"idle", "refused", "posting"}

\* Rows are rows, and the worker holds what the name of its stage says.
RowsOK  == rows \in Seq(Row) /\ window \in Nat /\ regime \in DOMAIN Regimes
BatchOK == \A o \in exec.batch : o \in Orders /\ rows[o].status = "pending"
HandOK  ==
  /\ exec = [pc |-> exec.pc, batch |-> exec.batch, order |-> exec.order]
  /\ exec.pc \in Stages
  /\ exec.pc # "idle" => exec.order \in Orders \ exec.batch
  /\ exec.pc \in {"daily", "open", "recent"} \cup PastGuard => rows[exec.order].status = "pending"
  /\ exec.pc = "posting" => rows[exec.order].status = "dispatched"

\* With the order that has passed the guard, those at the venue or filled are
\* within the limit: the worker has one order in hand, and nobody else sends.
WithinFlip == FlipMax > 0 => Cardinality(Sent \cup Passed) <= FlipMax

FlipInv == RowsOK /\ BatchOK /\ HandOK /\ WithinFlip

-----------------------------------------------------------------------------
\* Lemmas on sets, rows and gates

\* A set of numbers that is not empty has a least one.
LEMMA MinIsIn ==
  ASSUME NEW S \in SUBSET Nat, S # {}
  PROVE  Min(S) \in S
<1>1. PICK x \in S : \A y \in S : x <= y
  BY LeastNumber
<1> QED
  BY <1>1 DEF Min

\* Sets of rows are finite, and a smaller one counts less.
LEMMA CountRows ==
  ASSUME rows \in Seq(Row), NEW S \in SUBSET Orders, NEW T \in SUBSET S
  PROVE  Cardinality(T) <= Cardinality(S) /\ Cardinality(S) \in Nat /\ Cardinality(T) \in Nat
<1>1. IsFiniteSet(Orders)
  BY FS_Interval, LenProperties DEF Orders
<1>2. IsFiniteSet(S) /\ IsFiniteSet(T)
  BY <1>1, FS_Subset
<1> QED
  BY <1>2, FS_Subset, FS_CardinalityType

\* An update of a status keeps the rows and changes that one status.
LEMMA StatusWrite ==
  ASSUME rows \in Seq(Row), NEW o \in Orders, NEW s \in Statuses, WriteStatus(o, s)
  PROVE  /\ rows' \in Seq(Row) /\ Orders' = Orders
         /\ \A p \in Orders : rows'[p].status = IF p = o THEN s ELSE rows[p].status
<1>1. rows[o] \in Row
  BY DEF Orders
<1>2. [rows[o] EXCEPT !.status = s] \in Row /\ [rows[o] EXCEPT !.status = s].status = s
  BY <1>1 DEF Row
<1>3. rows' = [rows EXCEPT ![o] = [rows[o] EXCEPT !.status = s]]
  BY DEF WriteStatus
<1> QED
  BY <1>2, <1>3, ExceptSeq DEF Orders

\* The gates follow each other in the order of the code.
LEMMA NextGate ==
  /\ After("daily") = "open" /\ After("open") = "recent" /\ After("recent") = "breaker"
  /\ After("breaker") = "follow" /\ After("follow") = "followDaily"
  /\ After("followDaily") = "followOpen" /\ After("followOpen") = "cap"
  /\ After("cap") = "through"
<1>1. Len(Gates) = 8 /\ DOMAIN Gates = 1 .. 8
  BY DEF Gates
<1>2. \A i, j \in 1 .. 8 : Gates[i] = Gates[j] => i = j
  BY DEF Gates
<1>3. \A i \in 1 .. 8 : (CHOOSE j \in DOMAIN Gates : Gates[j] = Gates[i]) = i
  BY <1>1, <1>2
<1>4. ASSUME NEW i \in 1 .. 8
      PROVE  After(Gates[i]) = IF i = 8 THEN "through" ELSE Gates[i + 1]
  <2>1. (CHOOSE j \in DOMAIN Gates : Gates[j] = Gates[i]) = i
    BY <1>3
  <2>2. Len(Gates) = 8
    BY <1>1
  <2> HIDE DEF Gates
  <2> DEFINE k == CHOOSE j \in DOMAIN Gates : Gates[j] = Gates[i]
  <2>3. After(Gates[i]) = IF k = Len(Gates) THEN "through" ELSE Gates[k + 1]
    BY Zenon DEF After
  <2>4. k = i
    BY <2>1
  <2> HIDE DEF k
  <2> QED
    BY <2>2, <2>3, <2>4
<1>5. /\ Gates[1] = "daily" /\ Gates[2] = "open" /\ Gates[3] = "recent" /\ Gates[4] = "breaker"
      /\ Gates[5] = "follow" /\ Gates[6] = "followDaily" /\ Gates[7] = "followOpen"
      /\ Gates[8] = "cap"
  BY DEF Gates
<1> QED
  BY <1>4, <1>5

\* While the setting stands, a step that counts no new order keeps the limit.
LEMMA CountStep ==
  ASSUME RowsOK, WithinFlip, UNCHANGED regime,
         (Sent \cup Passed)' \subseteq Sent \cup Passed
  PROVE  WithinFlip'
<1>1. FlipMax \in Nat /\ FlipMax' = FlipMax
  BY LimitsAssumption DEF RowsOK, FlipMax, Setting
<1>2. Sent \cup Passed \subseteq Orders
  BY DEF Sent, Passed
<1>3. /\ Cardinality((Sent \cup Passed)') <= Cardinality(Sent \cup Passed)
      /\ Cardinality((Sent \cup Passed)') \in Nat /\ Cardinality(Sent \cup Passed) \in Nat
  BY <1>2, CountRows DEF RowsOK
<1> QED
  BY <1>1, <1>3 DEF WithinFlip

-----------------------------------------------------------------------------
\* The worker's steps that leave the rows alone

\* Listing and taking an order: nothing has passed the guard yet.
LEMMA TakeStep ==
  ASSUME FlipInv, Pull \/ Take
  PROVE  FlipInv'
<1> USE DEF FlipInv
<1>1. RowsOK'
  BY DEF RowsOK, Pull, Take
<1>2. CASE Pull
  <2>1. BatchOK' /\ HandOK'
    BY <1>2 DEF Pull, Idle, BatchOK, HandOK, Stages, PastGuard, Orders
  <2>2. (Sent \cup Passed)' \subseteq Sent \cup Passed
    BY <1>2 DEF Pull, Idle, Sent, Passed, PastGuard, Orders
  <2> QED
    BY <1>1, <1>2, <2>1, <2>2, CountStep DEF Pull
<1>3. CASE Take
  <2> DEFINE o == Min(exec.batch)
  <2>1. o \in exec.batch
    <3>1. exec.batch \in SUBSET Nat /\ exec.batch # {}
      BY <1>3 DEF Take, BatchOK, Orders
    <3> QED
      BY <3>1, MinIsIn
  <2>2. exec' = [pc |-> "daily", batch |-> exec.batch \ {o}, order |-> o]
    BY <1>3 DEF Take, Gates
  <2> HIDE DEF o
  <2>3. BatchOK' /\ HandOK'
    BY <1>3, <2>1, <2>2 DEF Take, BatchOK, HandOK, Stages, PastGuard, Orders
  <2>4. (Sent \cup Passed)' \subseteq Sent \cup Passed
    BY <1>3, <2>2 DEF Take, Sent, Passed, PastGuard, Orders
  <2> QED
    BY <1>1, <1>3, <2>3, <2>4, CountStep DEF Take
<1> QED
  BY <1>2, <1>3

\* The guard itself counts the order in hand, pending, among the others.
LEMMA GuardStep ==
  ASSUME FlipInv, Gate, exec.pc = "recent", exec'.pc = "breaker"
  PROVE  WithinFlip'
<1>1. FlipMax \in Nat /\ FlipMax' = FlipMax
  BY LimitsAssumption DEF FlipInv, RowsOK, FlipMax, Setting, Gate
<1>2. FlipMax = 0 \/ CountRecent < FlipMax
  BY DEF Gate, Passes
<1> DEFINE C == {o \in Orders : o >= window /\
                  rows[o].status \in {"pending", "dispatched", "submitted", "filled"}}
<1>3. (Sent \cup Passed)' \subseteq C
  BY DEF FlipInv, HandOK, Gate, Sent, Passed, Orders
<1>4. /\ Cardinality((Sent \cup Passed)') <= Cardinality(C)
      /\ Cardinality((Sent \cup Passed)') \in Nat /\ Cardinality(C) \in Nat
  BY <1>3, CountRows DEF FlipInv, RowsOK
<1>5. CountRecent = Cardinality(C)
  BY DEF CountRecent
<1> QED
  BY <1>1, <1>2, <1>4, <1>5 DEF WithinFlip

\* A gate, read or not, passes the order on or refuses it.
LEMMA GateStep ==
  ASSUME FlipInv, Gate \/ GateError
  PROVE  FlipInv'
<1> USE DEF FlipInv
<1> DEFINE g == exec.pc
<1>1. /\ UNCHANGED <<regime, rows, window>> /\ InGates
      /\ exec' = [exec EXCEPT !.pc = exec'.pc]
  BY DEF Gate, GateError, HandOK
<1>2. g \in {Gates[i] : i \in DOMAIN Gates}
  BY <1>1 DEF InGates
<1>3. g \in {"daily", "open", "recent", "breaker", "follow", "followDaily", "followOpen", "cap"}
  BY <1>2 DEF Gates
<1>4. \/ exec'.pc = "refused"
      \/ g = "daily" /\ exec'.pc = "open"
      \/ g = "open" /\ exec'.pc = "recent"
      \/ Gate /\ g = "recent" /\ exec'.pc = "breaker"
      \/ g \in PastGuard /\ exec'.pc \in PastGuard
  <2>1. CASE Gate
    <3>1. exec'.pc \in {After(g), "refused"}
      BY <2>1 DEF Gate, HandOK
    <3> QED
      BY <1>3, <3>1, NextGate, <2>1 DEF PastGuard
  <2>2. CASE GateError
    BY <1>3, <2>2 DEF GateError, HandOK, PastGuard
  <2> QED
    BY <2>1, <2>2
<1>5. RowsOK' /\ BatchOK' /\ HandOK'
  BY <1>1, <1>3, <1>4 DEF RowsOK, BatchOK, HandOK, Stages, PastGuard, Orders
<1>6. CASE Gate /\ g = "recent" /\ exec'.pc = "breaker"
  BY <1>5, <1>6, GuardStep
<1>7. CASE ~(Gate /\ g = "recent" /\ exec'.pc = "breaker")
  <2>1. exec'.pc \in PastGuard => exec.pc \in PastGuard
    BY <1>4, <1>7 DEF PastGuard
  <2>2. exec'.order = exec.order
    BY <1>1 DEF HandOK
  <2>3. (Sent \cup Passed)' \subseteq Sent \cup Passed
    BY <1>1, <2>1, <2>2 DEF Sent, Passed, Orders
  <2> QED
    BY <1>1, <1>5, <2>3, CountStep
<1> QED
  BY <1>6, <1>7

\* An order is booked in a rehearsal, or dropped by an error or a crash.
LEMMA HandStep ==
  ASSUME FlipInv, DryBook \/ Abandon
  PROVE  FlipInv'
<1> USE DEF FlipInv
<1>1. UNCHANGED <<regime, rows, window>>
  BY DEF DryBook, Abandon
<1>2. CASE DryBook
  <2>1. exec.pc = "through" /\ exec' = [exec EXCEPT !.pc = "closing"]
    BY <1>2 DEF DryBook
  <2>2. RowsOK' /\ BatchOK' /\ HandOK'
    BY <1>1, <2>1 DEF RowsOK, BatchOK, HandOK, Stages, PastGuard, Orders
  <2>3. (Sent \cup Passed)' \subseteq Sent \cup Passed
    BY <1>1, <2>1 DEF Sent, Passed, PastGuard, Orders, HandOK
  <2> QED
    BY <1>1, <2>2, <2>3, CountStep
<1>3. CASE Abandon
  <2>1. exec' \in {Idle(exec.batch), Idle({})}
    BY <1>3 DEF Abandon, Done
  <2>2. RowsOK' /\ BatchOK' /\ HandOK'
    BY <1>1, <2>1 DEF RowsOK, BatchOK, HandOK, Stages, PastGuard, Orders, Idle
  <2>3. (Sent \cup Passed)' \subseteq Sent \cup Passed
    BY <1>1, <2>1 DEF Sent, Passed, PastGuard, Orders, Idle
  <2> QED
    BY <1>1, <2>2, <2>3, CountStep
<1> QED
  BY <1>2, <1>3

-----------------------------------------------------------------------------
\* The steps that write a status

\* The worker closes, claims or records the order in hand: the limit counts it
\* already, or it leaves the count.
LEMMA WriteStep ==
  ASSUME FlipInv, Refuse \/ DryClose \/ Claim \/ Post
  PROVE  FlipInv'
<1> USE DEF FlipInv
<1> DEFINE o == exec.order
<1>1. UNCHANGED <<regime, window>> /\ o \in Orders \ exec.batch
  BY DEF Refuse, DryClose, Claim, Post, HandOK
<1>2. PICK s \in Statuses :
        /\ WriteStatus(o, s)
        /\ s \in {"submitted", "filled", "dispatched"} =>
             \/ exec.pc \in PastGuard
             \/ rows[o].status = "dispatched"
        /\ \/ exec' = Idle(exec.batch)
           \/ s = "dispatched" /\ exec' = [exec EXCEPT !.pc = "posting"]
  BY DEF Refuse, DryClose, Claim, Post, Done, HandOK, Statuses, PastGuard
<1>3. /\ rows' \in Seq(Row) /\ Orders' = Orders
      /\ \A p \in Orders : rows'[p].status = IF p = o THEN s ELSE rows[p].status
  BY <1>1, <1>2, StatusWrite DEF RowsOK
<1>4. RowsOK'
  BY <1>1, <1>3 DEF RowsOK
<1>5. BatchOK'
  BY <1>1, <1>2, <1>3 DEF BatchOK, Idle, HandOK
<1>6. HandOK'
  <2>1. CASE exec' = Idle(exec.batch)
    BY <2>1 DEF HandOK, Idle, Stages, PastGuard
  <2>2. CASE s = "dispatched" /\ exec' = [exec EXCEPT !.pc = "posting"]
    <3>1. exec' = [pc |-> "posting", batch |-> exec.batch, order |-> o]
      BY <2>2 DEF HandOK
    <3> QED
      BY <1>1, <1>3, <2>2, <3>1 DEF HandOK, Stages, PastGuard
  <2> QED
    BY <1>2, <2>1, <2>2
<1>7. (Sent \cup Passed)' \subseteq Sent \cup Passed
  <2>1. Passed' = {}
    BY <1>2 DEF Passed, PastGuard, Idle, HandOK
  <2>2. ASSUME NEW p \in Sent' PROVE p \in Sent \cup Passed
    BY <1>1, <1>2, <1>3, <2>2 DEF Sent, Passed
  <2> QED
    BY <2>1, <2>2
<1> QED
  BY <1>1, <1>4, <1>5, <1>6, <1>7, CountStep

\* reclaim and reconcile move orders that count already.
LEMMA OthersStep ==
  ASSUME FlipInv, NEW o \in Orders, Reclaim(o) \/ Reconcile(o)
  PROVE  FlipInv'
<1> USE DEF FlipInv
<1>1. UNCHANGED <<regime, window, exec>>
  BY DEF Reclaim, Reconcile
<1>2. PICK s \in Statuses : WriteStatus(o, s)
  BY DEF Reclaim, Reconcile, Statuses
<1>3. /\ rows' \in Seq(Row) /\ Orders' = Orders
      /\ \A p \in Orders : rows'[p].status = IF p = o THEN s ELSE rows[p].status
  BY <1>2, StatusWrite DEF RowsOK
<1>4. /\ rows[o].status \in {"dispatched", "submitted"}
      /\ exec.pc = "posting" => o # exec.order
  BY DEF Reclaim, Reconcile, HandOK
<1>5. RowsOK' /\ BatchOK' /\ HandOK'
  <2>1. RowsOK'
    BY <1>1, <1>3 DEF RowsOK
  <2>2. BatchOK'
    BY <1>1, <1>3, <1>4 DEF BatchOK
  <2>3. HandOK'
    BY <1>1, <1>3, <1>4 DEF HandOK, Stages, PastGuard
  <2> QED
    BY <2>1, <2>2, <2>3
<1>6. (Sent \cup Passed)' \subseteq Sent \cup Passed
  BY <1>1, <1>3, <1>4 DEF Sent, Passed
<1> QED
  BY <1>1, <1>5, <1>6, CountStep

\* A new order is pending.
LEMMA EnqueueStep ==
  ASSUME FlipInv, Enqueue
  PROVE  FlipInv'
<1> USE DEF FlipInv
<1>1. UNCHANGED <<regime, window, exec>>
  BY DEF Enqueue
<1>2. PICK r \in Row : rows' = Append(rows, r) /\ r.status = "pending"
  <2>1. PICK offer \in Setting.offers :
          rows' = Append(rows, [token |-> offer.token, follow |-> offer.follow,
                    side |-> offer.side, size |-> offer.size, status |-> "pending"])
    BY DEF Enqueue
  <2>2. offer \in [token : Tokens, follow : Follows, side : {"buy", "sell"}, size : Nat \ {0}]
    BY LimitsAssumption DEF RowsOK, Setting
  <2> QED
    BY <2>1, <2>2 DEF Row, Statuses
<1>3. /\ rows' \in Seq(Row) /\ Len(rows') = Len(rows) + 1 /\ Len(rows) \in Nat
      /\ \A p \in 1 .. Len(rows) : rows'[p] = rows[p]
      /\ rows'[Len(rows) + 1].status = "pending"
  BY <1>2, AppendProperties, LenProperties DEF RowsOK
<1>4. Orders \subseteq Orders' /\ \A p \in Orders : rows'[p] = rows[p]
  BY <1>3 DEF Orders
<1>5. \A p \in Orders' \ Orders : rows'[p].status = "pending"
  BY <1>3 DEF Orders
<1>6. RowsOK' /\ BatchOK' /\ HandOK'
  <2>1. RowsOK'
    BY <1>1, <1>3 DEF RowsOK
  <2>2. BatchOK'
    BY <1>1, <1>4 DEF BatchOK
  <2>3. HandOK'
    BY <1>1, <1>4 DEF HandOK, Stages, PastGuard
  <2> QED
    BY <2>1, <2>2, <2>3
<1>7. (Sent \cup Passed)' \subseteq Sent \cup Passed
  BY <1>1, <1>4, <1>5 DEF Sent, Passed, HandOK, PastGuard
<1> QED
  BY <1>1, <1>6, <1>7, CountStep

\* The clock and the source: a window that slides counts less.
LEMMA OutsideStep ==
  ASSUME FlipInv, WindowSlides \/ (\E o \in Orders : DayPasses(o)) \/ (\E t \in Tokens : Snapshot(t))
  PROVE  FlipInv'
<1> USE DEF FlipInv
<1>1. UNCHANGED <<regime, rows, exec>> /\ window' \in {window, window + 1}
  BY DEF WindowSlides, DayPasses, Snapshot
<1>2. RowsOK' /\ BatchOK' /\ HandOK'
  BY <1>1 DEF RowsOK, BatchOK, HandOK, Orders
<1>3. (Sent \cup Passed)' \subseteq Sent \cup Passed
  BY <1>1 DEF Sent, Passed, Orders, RowsOK
<1> QED
  BY <1>1, <1>2, <1>3, CountStep

-----------------------------------------------------------------------------
\* The invariant holds with an empty queue.
LEMMA FlipInit == Init => FlipInv
<1> SUFFICES ASSUME Init PROVE FlipInv
  OBVIOUS
<1>1. RowsOK /\ BatchOK /\ HandOK
  <2>1. RowsOK
    BY DEF Init, RowsOK
  <2>2. exec = [pc |-> "idle", batch |-> {}, order |-> None]
    BY DEF Init, Idle
  <2>3. BatchOK /\ HandOK
    BY <2>2 DEF BatchOK, HandOK, Stages, PastGuard
  <2> QED
    BY <2>1, <2>3
<1>2. Sent \cup Passed = {}
  BY DEF Init, Sent, Passed, Orders
<1>3. FlipMax \in Nat
  BY <1>1, LimitsAssumption DEF RowsOK, FlipMax, Setting
<1> QED
  BY <1>1, <1>2, <1>3, FS_EmptySet DEF FlipInv, WithinFlip

\* Every step keeps it.
LEMMA FlipNext == FlipInv /\ [Next]_vars => FlipInv'
<1> SUFFICES ASSUME FlipInv, [Next]_vars PROVE FlipInv'
  OBVIOUS
<1>1. CASE UNCHANGED vars
  BY <1>1 DEF vars, FlipInv, RowsOK, BatchOK, HandOK, WithinFlip, Sent, Passed, Orders, FlipMax, Setting
<1>2. CASE Next
  BY <1>2, TakeStep, GateStep, HandStep, WriteStep, OthersStep, EnqueueStep, OutsideStep DEF Next
<1> QED
  BY <1>1, <1>2

\* The rapid-flip guard: whatever is queued, settled, crashes or slides between
\* the count and the claim, the orders of one window that are at the venue or
\* filled never exceed the limit.
THEOREM FlipGuardHolds == Spec => []RapidFlipHolds
<1>1. FlipInv => RapidFlipHolds
  <2> SUFFICES ASSUME FlipInv, FlipMax > 0 PROVE Cardinality(Sent) <= FlipMax
    BY DEF RapidFlipHolds, Sent
  <2>1. Cardinality(Sent) <= Cardinality(Sent \cup Passed)
        /\ Cardinality(Sent) \in Nat /\ Cardinality(Sent \cup Passed) \in Nat
    <3>1. Sent \cup Passed \in SUBSET Orders /\ Sent \in SUBSET (Sent \cup Passed)
      BY DEF Sent, Passed
    <3> QED
      BY <3>1, CountRows DEF FlipInv, RowsOK
  <2>2. FlipMax \in Nat
    BY LimitsAssumption DEF FlipInv, RowsOK, FlipMax, Setting
  <2> QED
    BY <2>1, <2>2 DEF FlipInv, WithinFlip
<1> QED
  BY <1>1, FlipInit, FlipNext, PTL DEF Spec

-----------------------------------------------------------------------------
\* The types of the whole state

\* The terms of an order are those of an offer, and stay.
Terms(r) == [token |-> r.token, follow |-> r.follow, side |-> r.side, size |-> r.size]
SameTerms(r, q) == Len(q) = Len(r) /\ \A o \in 1 .. Len(r) : Terms(q[o]) = Terms(r[o])

\* Rows, executions, times, the source and the worker by themselves.
OffersOK == Len(rows) <= Setting.orders /\ \A o \in Orders : Terms(rows[o]) \in Setting.offers
FillsOK  ==
  /\ execution \in Seq(Nat \cup {None}) /\ Len(execution) = Len(rows)
  /\ \A o \in Orders : execution[o] \in (1 .. rows[o].size) \cup {None}
  /\ today \subseteq Executed
SourceOK == {snapshot, peak} \subseteq [Tokens -> Setting.positions]
TimesOK  == window \in 1 .. Len(rows) + 1 /\ unread \subseteq Orders /\ faults \in 0 .. MaxFaults
FreeOK   == exec.pc = "idle" => exec.order = None

BookInv == FlipInv /\ OffersOK /\ FillsOK /\ SourceOK /\ TimesOK /\ FreeOK

\* The settings are numbers, offers and positions.
LEMMA SettingOK ==
  ASSUME RowsOK
  PROVE  /\ {DailyMax, OpenMax, FollowDailyMax, FollowOpenMax, Ratio, Setting.orders} \subseteq Nat
         /\ Setting.offers \subseteq [token : Tokens, follow : Follows, side : {"buy", "sell"},
                                      size : Nat \ {0}]
         /\ Setting.positions \subseteq Int /\ DryRun \in BOOLEAN
  BY LimitsAssumption DEF RowsOK, Setting, DailyMax, OpenMax, FollowDailyMax, FollowOpenMax, Ratio,
     DryRun

\* No step changes the settings.
LEMMA RegimeFrame == [Next]_vars => UNCHANGED regime
  BY DEF Next, vars, Pull, Take, Gate, GateError, Refuse, DryBook, DryClose, Claim, Post, Abandon,
     Enqueue, WindowSlides, Reclaim, Reconcile, DayPasses, Snapshot

\* The terms of an order stay when its status is written.
LEMMA StatusTerms ==
  ASSUME rows \in Seq(Row), NEW o \in Orders, NEW s \in Statuses, WriteStatus(o, s)
  PROVE  SameTerms(rows, rows')
<1>1. rows[o] \in Row
  BY DEF Orders
<1> DEFINE r == [rows[o] EXCEPT !.status = s]
<1>2. Terms(r) = Terms(rows[o])
  BY <1>1 DEF Row, Terms
<1>3. rows' = [rows EXCEPT ![o] = r]
  BY DEF WriteStatus
<1> HIDE DEF r
<1>4. Len(rows') = Len(rows) /\ \A p \in Orders : rows'[p] = IF p = o THEN r ELSE rows[p]
  BY <1>3, ExceptSeq DEF Orders
<1> QED
  BY <1>2, <1>4 DEF SameTerms, Orders

\* The orders that a step writes a status of, and the others.
LEMMA RowFrame ==
  ASSUME FlipInv, [Next]_vars
  PROVE  Enqueue \/ SameTerms(rows, rows')
<1>1. ASSUME NEW o \in Orders, NEW s \in Statuses, WriteStatus(o, s) PROVE SameTerms(rows, rows')
  BY <1>1, StatusTerms DEF FlipInv, RowsOK
<1>2. CASE Refuse \/ DryClose \/ Claim \/ Post
  <2>1. exec.order \in Orders
    BY <1>2 DEF FlipInv, HandOK, Refuse, DryClose, Claim, Post
  <2>2. \E s \in Statuses : WriteStatus(exec.order, s)
    BY <1>2 DEF Refuse, DryClose, Claim, Post, Statuses
  <2> QED
    BY <1>1, <2>1, <2>2
<1>3. ASSUME NEW o \in Orders, Reclaim(o) \/ Reconcile(o) PROVE SameTerms(rows, rows')
  <2>2. \E s \in Statuses : WriteStatus(o, s)
    BY <1>3 DEF Reclaim, Reconcile, Statuses
  <2> QED
    BY <1>1, <2>2
<1>4. CASE UNCHANGED rows
  BY <1>4 DEF SameTerms
<1>5. CASE UNCHANGED vars \/ Pull \/ Take \/ Gate \/ GateError \/ DryBook \/ Abandon \/ WindowSlides
           \/ (\E o \in Orders : DayPasses(o)) \/ (\E t \in Tokens : Snapshot(t))
  BY <1>4, <1>5 DEF vars, Pull, Take, Gate, GateError, DryBook, Abandon, WindowSlides, DayPasses,
     Snapshot
<1> QED
  BY <1>2, <1>3, <1>5 DEF Next

\* The steps that write an execution or move the day.
LEMMA FillFrame ==
  ASSUME [Next]_vars
  PROVE  \/ UNCHANGED <<execution, today>> /\ ~Enqueue
         \/ DryBook \/ Enqueue
         \/ \E o \in Orders : Reconcile(o) \/ DayPasses(o)
  BY DEF Next, vars, Pull, Take, Gate, GateError, Refuse, DryClose, Claim, Post, Abandon,
     WindowSlides, Reclaim, Snapshot

\* A new order: pending, with the terms of an offer, and not executed.
LEMMA NewRow ==
  ASSUME FlipInv, FillsOK, Enqueue
  PROVE  LET n == Len(rows) + 1 IN
         /\ Len(rows') = n /\ Len(rows) \in Nat /\ Orders' = Orders \cup {n} /\ n \notin Orders
         /\ Terms(rows'[n]) \in Setting.offers /\ rows'[n].status = "pending"
         /\ \A o \in Orders : rows'[o] = rows[o] /\ execution'[o] = execution[o]
         /\ execution' \in Seq(Nat \cup {None}) /\ Len(execution') = n /\ execution'[n] = None
<1> DEFINE n == Len(rows) + 1
<1>1. PICK offer \in Setting.offers :
        /\ rows' = Append(rows, [token |-> offer.token, follow |-> offer.follow,
                    side |-> offer.side, size |-> offer.size, status |-> "pending"])
        /\ execution' = Append(execution, None)
  BY DEF Enqueue
<1>2. offer \in [token : Tokens, follow : Follows, side : {"buy", "sell"}, size : Nat \ {0}]
  BY SettingOK DEF FlipInv
<1> DEFINE r == [token |-> offer.token, follow |-> offer.follow,
                 side |-> offer.side, size |-> offer.size, status |-> "pending"]
<1>3. r \in Row /\ r.status = "pending" /\ Terms(r) = offer
  BY <1>2 DEF Row, Statuses, Terms
<1>4. rows \in Seq(Row) /\ execution \in Seq(Nat \cup {None}) /\ Len(execution) = Len(rows)
  BY DEF FlipInv, RowsOK, FillsOK
<1> HIDE DEF r
<1>5. rows' = Append(rows, r)
  BY <1>1 DEF r
<1>6. /\ rows' \in Seq(Row) /\ Len(rows') = Len(rows) + 1 /\ Len(rows) \in Nat
      /\ \A p \in 1 .. Len(rows) : rows'[p] = rows[p]
      /\ rows'[Len(rows) + 1] = r
  BY <1>3, <1>4, <1>5, AppendProperties, LenProperties
<1>7. None \in Nat \cup {None}
  OBVIOUS
<1>8. /\ execution' \in Seq(Nat \cup {None}) /\ Len(execution') = Len(execution) + 1
      /\ \A p \in 1 .. Len(execution) : execution'[p] = execution[p]
      /\ execution'[Len(execution) + 1] = None
  BY <1>1, <1>4, <1>7, AppendProperties
<1>9. Orders' = Orders \cup {n} /\ n \notin Orders
  BY <1>6 DEF Orders
<1> QED
  BY <1>3, <1>4, <1>6, <1>8, <1>9, <1>1 DEF Orders

\* The terms of a row, one by one.
LEMMA TermsOf ==
  ASSUME NEW r, NEW q, Terms(r) = Terms(q)
  PROVE  r.token = q.token /\ r.follow = q.follow /\ r.side = q.side /\ r.size = q.size
<1>1. /\ Terms(r).token = Terms(q).token /\ Terms(r).follow = Terms(q).follow
      /\ Terms(r).side = Terms(q).side /\ Terms(r).size = Terms(q).size
  OBVIOUS
<1> QED
  BY <1>1 DEF Terms

\* Every row has the terms of an offer.
LEMMA OffersStep ==
  ASSUME BookInv, [Next]_vars
  PROVE  OffersOK'
<1>1. regime' = regime /\ Setting' = Setting
  BY RegimeFrame DEF Setting
<1>2. CASE Enqueue
  <2>1. Len(rows) < Setting.orders /\ Setting.orders \in Nat
    BY <1>2, SettingOK DEF Enqueue, BookInv, FlipInv
  <2> QED
    BY <1>1, <1>2, <2>1, NewRow DEF BookInv, OffersOK, Orders
<1>3. CASE SameTerms(rows, rows')
  BY <1>1, <1>3 DEF BookInv, OffersOK, SameTerms, Orders
<1> QED
  BY <1>2, <1>3, RowFrame DEF BookInv

\* An order is executed for no more than its size.
LEMMA FillsStep ==
  ASSUME BookInv, [Next]_vars
  PROVE  FillsOK'
<1>0. rows \in Seq(Row) /\ None \notin Int /\ DOMAIN execution = Orders
      /\ execution \in Seq(Nat \cup {None}) /\ Len(execution) = Len(rows)
  BY LimitsAssumption DEF BookInv, FlipInv, RowsOK, FillsOK, Orders
<1>a. \A o \in Orders : rows[o].size \in Nat \ {0}
  <2>1. \A o \in Orders : rows[o] \in Row
    BY <1>0 DEF Orders
  <2> QED
    BY <2>1 DEF Row
<1>1. CASE Enqueue
  <2> DEFINE n == Len(rows) + 1
  <2>1. /\ Len(rows') = n /\ Orders' = Orders \cup {n}
        /\ \A o \in Orders : rows'[o] = rows[o] /\ execution'[o] = execution[o]
        /\ execution' \in Seq(Nat \cup {None}) /\ Len(execution') = n /\ execution'[n] = None
    BY <1>1, NewRow DEF BookInv
  <2>2. today' = today
    BY <1>1 DEF Enqueue
  <2>3. today \subseteq Executed'
    BY <1>0, <2>1, <2>2 DEF BookInv, FillsOK, Executed
  <2>4. ASSUME NEW o \in Orders' PROVE execution'[o] \in (1 .. rows'[o].size) \cup {None}
    BY <2>1, <2>4 DEF BookInv, FillsOK
  <2> QED
    BY <2>1, <2>2, <2>3, <2>4 DEF FillsOK
<1>2. ASSUME SameTerms(rows, rows'), NEW o \in Orders, NEW n \in 1 .. rows[o].size,
             execution' = [execution EXCEPT ![o] = n], today' = today \cup {o}
      PROVE  FillsOK'
  <2>1. Orders' = Orders /\ \A p \in Orders : rows'[p].size = rows[p].size
    BY <1>2, TermsOf DEF SameTerms, Orders
  <2>2. n \in Nat \cup {None} /\ n # None
    BY <1>0
  <2>3. /\ execution' \in Seq(Nat \cup {None}) /\ Len(execution') = Len(execution)
        /\ \A p \in Orders : execution'[p] = IF p = o THEN n ELSE execution[p]
    BY <1>0, <1>2, <2>2, ExceptSeq DEF Orders
  <2> QED
    BY SMTT(40), <1>2, <2>1, <2>2, <2>3, <1>0 DEF BookInv, FillsOK, Executed, SameTerms
<1>3. ASSUME SameTerms(rows, rows'), UNCHANGED execution, today' \subseteq today
      PROVE  FillsOK'
  <2>1. Orders' = Orders /\ \A p \in Orders : rows'[p].size = rows[p].size
    BY <1>3, TermsOf DEF SameTerms, Orders
  <2> QED
    BY <1>3, <2>1 DEF BookInv, FillsOK, Executed, SameTerms
<1>4. CASE DryBook
  <2>1. exec.order \in Orders /\ SameTerms(rows, rows')
    BY <1>4 DEF DryBook, BookInv, FlipInv, HandOK, SameTerms
  <2>2. rows[exec.order].size \in 1 .. rows[exec.order].size
    BY <1>a, <2>1
  <2> QED
    BY <1>2, <1>3, <1>4, <2>1, <2>2 DEF DryBook
<1>5. ASSUME NEW o \in Orders, Reconcile(o) \/ DayPasses(o) PROVE FillsOK'
  <2>1. SameTerms(rows, rows')
    <3>1. CASE Reconcile(o)
      <4>1. \E s \in Statuses : WriteStatus(o, s)
        BY <3>1 DEF Reconcile, Statuses
      <4> QED
        BY <1>0, <4>1, StatusTerms
    <3>2. CASE DayPasses(o)
      BY <3>2 DEF DayPasses, SameTerms
    <3> QED
      BY <1>5, <3>1, <3>2
  <2>2. \/ \E n \in 1 .. rows[o].size : execution' = [execution EXCEPT ![o] = n] /\ today' = today \cup {o}
        \/ UNCHANGED execution /\ today' \subseteq today
    BY <1>5 DEF Reconcile, DayPasses
  <2> QED
    BY <1>2, <1>3, <2>1, <2>2
<1>6. CASE UNCHANGED <<execution, today>> /\ ~Enqueue
  BY <1>3, <1>6, RowFrame DEF BookInv
<1> QED
  BY <1>1, <1>4, <1>5, <1>6, FillFrame

\* A position of the source is one of those it is seen with, the peak the larger.
LEMMA SourceStep ==
  ASSUME BookInv, [Next]_vars
  PROVE  SourceOK'
<1>1. Setting' = Setting
  BY RegimeFrame DEF Setting
<1>2. ASSUME NEW t \in Tokens, Snapshot(t) PROVE SourceOK'
  <2>1. PICK p \in Setting.positions :
          snapshot' = [snapshot EXCEPT ![t] = p] /\ peak' = [peak EXCEPT ![t] = Max({@, p})]
    BY <1>2 DEF Snapshot
  <2>2. Max({peak[t], p}) \in {peak[t], p}
    <3>1. peak[t] \in Int /\ p \in Int
      BY SettingOK DEF BookInv, FlipInv, SourceOK
    <3> DEFINE m == IF peak[t] <= p THEN p ELSE peak[t]
    <3>2. \A y \in {peak[t], p} : m >= y
      BY <3>1
    <3>3. m \in {peak[t], p}
      OBVIOUS
    <3> HIDE DEF m
    <3> QED
      BY <3>2, <3>3 DEF Max
  <2> QED
    BY <1>1, <2>1, <2>2 DEF BookInv, SourceOK
<1>3. CASE UNCHANGED <<snapshot, peak>>
  BY <1>1, <1>3 DEF BookInv, SourceOK
<1>4. UNCHANGED <<snapshot, peak>> \/ \E t \in Tokens : Snapshot(t)
  BY DEF Next, vars, Pull, Take, Gate, GateError, Refuse, DryBook, DryClose, Claim, Post, Abandon,
     Enqueue, WindowSlides, Reclaim, Reconcile, DayPasses
<1> QED
  BY <1>2, <1>3, <1>4

\* The window, the orders whose limits were not read and the faults stay in their ranges.
LEMMA TimesStep ==
  ASSUME BookInv, [Next]_vars
  PROVE  TimesOK'
<1>0. MaxFaults \in Nat /\ Len(rows) \in Nat
  BY LimitsAssumption, LenProperties DEF BookInv, FlipInv, RowsOK
<1>1. Len(rows') \in Nat /\ Len(rows) <= Len(rows') /\ Orders \subseteq Orders'
  <2>1. CASE Enqueue
    BY <1>0, <2>1, NewRow DEF BookInv, Orders
  <2>2. CASE SameTerms(rows, rows')
    BY <1>0, <2>2 DEF SameTerms, Orders
  <2> QED
    BY <2>1, <2>2, RowFrame DEF BookInv
<1>2. window' = window \/ (window' = window + 1 /\ window <= Len(rows))
  BY DEF Next, vars, Pull, Take, Gate, GateError, Refuse, DryBook, DryClose, Claim, Post, Abandon,
     Enqueue, WindowSlides, Reclaim, Reconcile, DayPasses, Snapshot
<1>3. unread' = unread \/ (unread' = unread \cup {exec.order} /\ exec.order \in Orders)
  <2>1. CASE GateError
    <3>1. exec.pc # "idle"
      BY <2>1 DEF GateError, InGates, Gates
    <3> QED
      BY <2>1, <3>1 DEF GateError, BookInv, FlipInv, HandOK
  <2>2. GateError \/ UNCHANGED unread
    BY DEF Next, vars, Pull, Take, Gate, Refuse, DryBook, DryClose, Claim, Post, Abandon,
       Enqueue, WindowSlides, Reclaim, Reconcile, DayPasses, Snapshot
  <2> QED
    BY <2>1, <2>2
<1>4. faults' = faults \/ Fault
  BY DEF Next, vars, Pull, Take, Gate, GateError, Refuse, DryBook, DryClose, Claim, Post, Abandon,
     Enqueue, WindowSlides, Reclaim, Reconcile, DayPasses, Snapshot
<1>5. window' \in 1 .. Len(rows') + 1
  BY <1>0, <1>1, <1>2 DEF BookInv, TimesOK
<1>6. unread' \subseteq Orders'
  BY <1>1, <1>3 DEF BookInv, TimesOK
<1>7. faults' \in 0 .. MaxFaults
  BY <1>0, <1>4 DEF BookInv, TimesOK, Fault
<1> QED
  BY <1>5, <1>6, <1>7 DEF TimesOK

\* A worker that is idle has no order in hand.
LEMMA FreeStep ==
  ASSUME BookInv, [Next]_vars
  PROVE  FreeOK'
<1>1. exec' = exec \/ exec'.pc # "idle" \/ exec'.order = None
  <2>1. CASE Gate \/ GateError
    <3>1. exec.pc # "idle" /\ InGates /\ exec = [pc |-> exec.pc, batch |-> exec.batch, order |-> exec.order]
      BY <2>1 DEF Gate, GateError, InGates, Gates, BookInv, FlipInv, HandOK
    <3>2. exec'.pc \in Stages
      BY <2>1, GateStep DEF BookInv, FlipInv, HandOK
    <3>3. exec'.pc # "idle"
      <4>1. CASE Gate
        <5>1. exec' = [exec EXCEPT !.pc = IF Passes(exec.pc, exec.order) THEN After(exec.pc) ELSE "refused"]
          BY <4>1 DEF Gate
        <5>2. exec'.pc \in {After(exec.pc), "refused"}
          BY <3>1, <5>1
        <5>3. exec.pc \in {"daily", "open", "recent", "breaker", "follow", "followDaily",
                            "followOpen", "cap"}
          <6>1. exec.pc \in {Gates[i] : i \in DOMAIN Gates}
            BY <3>1 DEF InGates
          <6> QED
            BY <6>1 DEF Gates
        <5>4. After(exec.pc) # "idle"
          BY <5>3, NextGate
        <5> QED
          BY <5>2, <5>4
      <4>2. CASE GateError
        BY <3>1, <4>2 DEF GateError
      <4> QED
        BY <2>1, <4>1, <4>2
    <3> QED
      BY <3>3
  <2>2. CASE DryBook \/ Claim
    BY <2>2 DEF DryBook, Claim, BookInv, FlipInv, HandOK
  <2>3. CASE Pull \/ Take \/ Refuse \/ DryClose \/ Post \/ Abandon
    BY <2>3 DEF Pull, Take, Refuse, DryClose, Post, Abandon, Done, Idle, Gates
  <2> QED
    BY <2>1, <2>2, <2>3 DEF Next, vars, Enqueue, WindowSlides, Reclaim, Reconcile, DayPasses, Snapshot
<1> QED
  BY <1>1 DEF BookInv, FreeOK

\* Every step keeps the types.
LEMMA BookStep == BookInv /\ [Next]_vars => BookInv'
  BY FlipNext, OffersStep, FillsStep, SourceStep, TimesStep, FreeStep DEF BookInv

\* The first state has no order and no fault.
LEMMA BookInit == Init => BookInv
<1> SUFFICES ASSUME Init PROVE BookInv
  OBVIOUS
<1>0. FlipInv
  BY FlipInit
<1>1. Setting.orders \in Nat /\ MaxFaults \in Nat
  BY <1>0, SettingOK, LimitsAssumption DEF FlipInv
<1>2. OffersOK /\ FillsOK /\ TimesOK /\ FreeOK
  <2>1. Len(rows) = 0 /\ Orders = {} /\ execution = <<>> /\ today = {}
    BY DEF Init, Orders
  <2>2. execution \in Seq(Nat \cup {None}) /\ Len(execution) = 0
    BY <2>1
  <2> QED
    BY <1>1, <2>1, <2>2 DEF Init, OffersOK, FillsOK, TimesOK, FreeOK, Idle
<1>3. SourceOK
  BY DEF Init, SourceOK
<1> QED
  BY <1>0, <1>2, <1>3 DEF BookInv

\* So they hold in every state that is reached.
LEMMA Booked == Spec => []BookInv
  BY BookInit, BookStep, PTL DEF Spec

\* Whatever the settings, the queue, the crashes and the errors: rows keep the
\* terms of their offer and a status of the code, an execution is never larger
\* than its order, what counts for the day is executed, and what the worker
\* holds is in the queue (exec.rs process_one, reconcile_worker.rs).
THEOREM GateTypes == Spec => []TypeOK
<1>1. BookInv => TypeOK
  <2> SUFFICES ASSUME BookInv PROVE TypeOK
    OBVIOUS
  <2>1. InGates \/ exec.pc \in {"idle", "refused", "through", "closing", "posting"}
    <3>1. /\ Gates[1] = "daily" /\ Gates[2] = "open" /\ Gates[3] = "recent" /\ Gates[4] = "breaker"
          /\ Gates[5] = "follow" /\ Gates[6] = "followDaily" /\ Gates[7] = "followOpen"
          /\ Gates[8] = "cap" /\ DOMAIN Gates = 1 .. 8
      BY DEF Gates
    <3>2. exec.pc \in Stages
      BY DEF BookInv, FlipInv, HandOK
    <3>3. {"daily", "open", "recent", "breaker", "follow", "followDaily", "followOpen", "cap"}
            \subseteq {Gates[i] : i \in DOMAIN Gates}
      BY <3>1
    <3> QED
      BY <3>2, <3>3 DEF Stages, PastGuard, InGates
  <2>2. exec.batch \subseteq Orders /\ exec.order \in Orders \cup {None}
    BY DEF BookInv, FlipInv, HandOK, BatchOK, FreeOK
  <2>3. \A o \in Orders : rows[o].status \in Statuses
    <3>1. \A o \in Orders : rows[o] \in Row
      BY DEF BookInv, FlipInv, RowsOK, Orders
    <3> QED
      BY <3>1 DEF Row
  <2> QED
    BY <2>1, <2>2, <2>3 DEF TypeOK, BookInv, OffersOK, FillsOK, SourceOK, TimesOK, FlipInv, RowsOK,
       Terms, Statuses
<1> QED
  BY <1>1, Booked, PTL

-----------------------------------------------------------------------------
\* What is executed: sums and open tokens

\* What an order has added to the position in its token; the executed orders of
\* a set for a token; the tokens that are open: of given rows and executions.
ExecutedOf(r, e)    == {o \in 1 .. Len(r) : e[o] # None}
Value(r, e)         == [o \in ExecutedOf(r, e) |-> IF r[o].side = "buy" THEN e[o] ELSE -e[o]]
Holding(r, e, S, t) == {o \in S \cap ExecutedOf(r, e) : r[o].token = t}
OpenOf(r, e, S)     == {t \in Tokens : SumFunctionOnSet(Value(r, e), Holding(r, e, S, t)) # 0}

\* Rows, executions and a day that belong together.
Books(r, e, td) ==
  /\ r \in Seq(Row) /\ e \in Seq(Nat \cup {None}) /\ Len(e) = Len(r)
  /\ td \subseteq ExecutedOf(r, e)

\* The orders S are within a daily limit, with the order o if it has passed (d),
\* and within a limit of open tokens, with one more if o has passed (p).
Room(r, e, td, S, ld, lo, d, p, o) ==
  /\ ld > 0 => SumFunctionOnSet(e, S \cap td) + (IF d THEN r[o].size ELSE 0) <= ld
  /\ lo > 0 => Cardinality(OpenOf(r, e, S)) + (IF p THEN 1 ELSE 0) <= lo

\* Books are finite, and what they hold are numbers.
LEMMA BooksTypes ==
  ASSUME NEW r, NEW e, NEW td, Books(r, e, td)
  PROVE  /\ Len(r) \in Nat /\ IsFiniteSet(1 .. Len(r)) /\ DOMAIN e = 1 .. Len(r)
         /\ \A o \in 1 .. Len(r) : r[o] \in Row /\ r[o].size \in Nat \ {0} /\ e[o] \in Nat \cup {None}
         /\ \A o \in ExecutedOf(r, e) : e[o] \in Nat /\ Value(r, e)[o] \in Int
         /\ \A S : IsFiniteSet(S \cap td) /\ \A t : IsFiniteSet(Holding(r, e, S, t))
<1>0. r \in Seq(Row) /\ e \in Seq(Nat \cup {None}) /\ Len(e) = Len(r)
  BY DEF Books
<1>1. Len(r) \in Nat /\ IsFiniteSet(1 .. Len(r)) /\ DOMAIN e = 1 .. Len(r)
  BY <1>0, LenProperties, FS_Interval
<1>2. \A o \in 1 .. Len(r) : r[o] \in Row /\ e[o] \in Nat \cup {None}
  BY <1>0, ElementOfSeq
<1>3. \A o \in 1 .. Len(r) : r[o].size \in Nat \ {0}
  BY <1>2 DEF Row
<1>4. \A o \in ExecutedOf(r, e) : e[o] \in Nat
  BY <1>2 DEF ExecutedOf
<1>5. \A o \in ExecutedOf(r, e) : Value(r, e)[o] \in Int
  BY <1>4 DEF Value
<1>6. \A T \in SUBSET (1 .. Len(r)) : IsFiniteSet(T)
  BY <1>1, FS_Subset
<1>7. \A S : S \cap td \in SUBSET (1 .. Len(r)) /\ \A t : Holding(r, e, S, t) \in SUBSET (1 .. Len(r))
  BY DEF Books, Holding, ExecutedOf
<1> QED
  BY <1>1, <1>2, <1>3, <1>4, <1>5, <1>6, <1>7

\* Only tokens of executed orders are open: finitely many.
LEMMA OpenFinite ==
  ASSUME NEW r, NEW e, NEW td, Books(r, e, td), NEW S
  PROVE  IsFiniteSet(OpenOf(r, e, S)) /\ Cardinality(OpenOf(r, e, S)) \in Nat
<1> DEFINE D == 1 .. Len(r)
           T == {r[o].token : o \in D}
           f == [o \in D |-> r[o].token]
<1>1. f \in Surjection(D, T)
  BY DEF Surjection
<1>2. IsFiniteSet(T)
  <2> HIDE DEF f, T, D
  <2> QED
    BY <1>1, BooksTypes, FS_Surjection DEF D
<1>3. ASSUME NEW t \in OpenOf(r, e, S) PROVE t \in T
  <2>1. SumFunctionOnSet(Value(r, e), Holding(r, e, S, t)) # 0
    BY DEF OpenOf
  <2>2. Holding(r, e, S, t) # {}
    BY <2>1, SumEmpty
  <2> QED
    BY <2>2 DEF Holding, ExecutedOf
<1>4. OpenOf(r, e, S) \in SUBSET T
  BY <1>3
<1> HIDE DEF T
<1> QED
  BY <1>2, <1>4, FS_Subset, FS_CardinalityType

\* Executed orders that are the same leave the same tokens open.
LEMMA OpenSame ==
  ASSUME NEW r, NEW e, NEW td, Books(r, e, td), NEW S,
         NEW q, NEW c, NEW tc, Books(q, c, tc), NEW T,
         S \cap ExecutedOf(r, e) = T \cap ExecutedOf(q, c),
         \A o \in S \cap ExecutedOf(r, e) : Terms(q[o]) = Terms(r[o]) /\ c[o] = e[o]
  PROVE  OpenOf(q, c, T) = OpenOf(r, e, S)
<1>1. \A o \in S \cap ExecutedOf(r, e) : q[o].token = r[o].token /\ q[o].side = r[o].side
  BY TermsOf
<1>2. ASSUME NEW t PROVE SumFunctionOnSet(Value(q, c), Holding(q, c, T, t))
                           = SumFunctionOnSet(Value(r, e), Holding(r, e, S, t))
  <2>1. Holding(q, c, T, t) = Holding(r, e, S, t)
    BY <1>1 DEF Holding
  <2>2. \A o \in Holding(r, e, S, t) : o \in ExecutedOf(r, e) /\ o \in ExecutedOf(q, c) /\ o \in S
    BY DEF Holding
  <2>3. \A o \in Holding(r, e, S, t) : Value(r, e)[o] \in Int
    BY <2>2, BooksTypes
  <2>4. \A o \in Holding(r, e, S, t) : Value(q, c)[o] = Value(r, e)[o]
    BY <1>1, <2>2 DEF Value
  <2>5. IsFiniteSet(Holding(r, e, S, t))
    BY BooksTypes
  <2> QED
    BY <2>1, <2>3, <2>4, <2>5, SumSame
<1> QED
  BY <1>2 DEF OpenOf

\* A fill opens no token but its own.
LEMMA OpenFill ==
  ASSUME NEW r, NEW e, NEW td, Books(r, e, td), NEW S,
         NEW c, NEW tc, Books(r, c, tc), NEW o \in 1 .. Len(r), e[o] = None,
         \A i \in 1 .. Len(r) : i # o => c[i] = e[i]
  PROVE  OpenOf(r, c, S) \subseteq OpenOf(r, e, S) \cup {r[o].token}
<1> SUFFICES ASSUME NEW t \in Tokens, t # r[o].token
             PROVE  SumFunctionOnSet(Value(r, c), Holding(r, c, S, t))
                      = SumFunctionOnSet(Value(r, e), Holding(r, e, S, t))
  BY DEF OpenOf
<1>1. Holding(r, c, S, t) = Holding(r, e, S, t)
  BY DEF Holding, ExecutedOf
<1>2. \A i \in Holding(r, e, S, t) : i \in ExecutedOf(r, e) /\ i \in ExecutedOf(r, c) /\ i # o
  BY DEF Holding, ExecutedOf
<1>3. \A i \in Holding(r, e, S, t) : Value(r, c)[i] = Value(r, e)[i]
  BY <1>2 DEF Value, ExecutedOf
<1>4. \A i \in Holding(r, e, S, t) : Value(r, e)[i] \in Int
  BY <1>2, BooksTypes
<1>5. IsFiniteSet(Holding(r, e, S, t))
  BY BooksTypes
<1> QED
  BY <1>1, <1>3, <1>4, <1>5, SumSame

\* Room remains when the executed orders stay, the day gets shorter and no other
\* order has passed.
LEMMA RoomKept ==
  ASSUME NEW r, NEW e, NEW td, Books(r, e, td), NEW S,
         NEW q, NEW c, NEW tc, Books(q, c, tc), NEW T,
         S \cap ExecutedOf(r, e) = T \cap ExecutedOf(q, c),
         \A i \in S \cap ExecutedOf(r, e) : Terms(q[i]) = Terms(r[i]) /\ c[i] = e[i],
         T \cap tc \subseteq S \cap td,
         NEW ld \in Nat, NEW lo \in Nat, NEW d \in BOOLEAN, NEW p \in BOOLEAN, NEW o,
         NEW dd \in BOOLEAN, NEW pp \in BOOLEAN, NEW oo,
         dd => d /\ q[oo].size = r[o].size, d => r[o].size \in Nat, pp => p,
         Room(r, e, td, S, ld, lo, d, p, o)
  PROVE  Room(q, c, tc, T, ld, lo, dd, pp, oo)
<1>1. ASSUME ld > 0 PROVE SumFunctionOnSet(c, T \cap tc) + (IF dd THEN q[oo].size ELSE 0) <= ld
  <2>0. \A i \in S \cap td : i \in ExecutedOf(r, e)
    BY DEF Books
  <2>1. IsFiniteSet(S \cap td) /\ IsFiniteSet(T \cap tc) /\ \A i \in S \cap td : e[i] \in Nat
    BY <2>0, BooksTypes
  <2> DEFINE A == S \cap td
             B == T \cap tc
  <2>2. B \in SUBSET A /\ \A i \in B : c[i] = e[i] /\ e[i] \in Int
    BY <2>0, <2>1
  <2>3. SumFunctionOnSet(e, A) + (IF d THEN r[o].size ELSE 0) <= ld
    BY <1>1 DEF Room
  <2> HIDE DEF A, B
  <2>4. SumFunctionOnSet(c, B) = SumFunctionOnSet(e, B)
    BY <2>1, <2>2, SumSame DEF B
  <2>5. SumFunctionOnSet(e, B) <= SumFunctionOnSet(e, A)
    BY <2>1, <2>2, SumSubset DEF A
  <2>6. SumFunctionOnSet(e, B) \in Int /\ SumFunctionOnSet(e, A) \in Int
    BY <2>1, <2>2, SumType DEF A, B
  <2>7. SumFunctionOnSet(c, B) + (IF dd THEN q[oo].size ELSE 0) <= ld
    BY <2>3, <2>4, <2>5, <2>6
  <2> QED
    BY <2>7 DEF B
<1>2. ASSUME lo > 0 PROVE Cardinality(OpenOf(q, c, T)) + (IF pp THEN 1 ELSE 0) <= lo
  <2>1. OpenOf(q, c, T) = OpenOf(r, e, S)
    BY OpenSame
  <2>2. Cardinality(OpenOf(r, e, S)) \in Nat
    BY OpenFinite
  <2> QED
    BY <1>2, <2>1, <2>2 DEF Room
<1> QED
  BY <1>1, <1>2 DEF Room

\* The order that has passed both limits may be filled.
LEMMA RoomFilled ==
  ASSUME NEW r, NEW e, NEW td, Books(r, e, td), NEW S,
         NEW c, NEW tc, Books(r, c, tc), NEW o \in 1 .. Len(r), e[o] = None,
         \A i \in 1 .. Len(r) : c[i] = IF i = o THEN r[o].size ELSE e[i],
         tc = td \cup {o}, o \in S,
         NEW ld \in Nat, NEW lo \in Nat, NEW oo,
         Room(r, e, td, S, ld, lo, TRUE, TRUE, o)
  PROVE  Room(r, c, tc, S, ld, lo, FALSE, FALSE, oo)
<1>1. ASSUME ld > 0 PROVE SumFunctionOnSet(c, S \cap tc) <= ld
  <2> DEFINE A == S \cap td
  <2>0. o \notin A /\ S \cap tc = A \cup {o}
    BY DEF Books, ExecutedOf
  <2>1. \A i \in A : i \in ExecutedOf(r, e) /\ i # o /\ i \in 1 .. Len(r)
    BY <2>0 DEF Books, ExecutedOf
  <2>2. IsFiniteSet(A) /\ \A i \in A : e[i] \in Int /\ c[i] = e[i]
    <3>1. IsFiniteSet(A)
      BY BooksTypes
    <3>2. \A i \in ExecutedOf(r, e) : e[i] \in Nat
      BY BooksTypes
    <3> QED
      BY <2>1, <3>1, <3>2
  <2>3. c[o] = r[o].size /\ r[o].size \in Int
    BY BooksTypes
  <2>4. SumFunctionOnSet(e, A) + r[o].size <= ld
    BY <1>1 DEF Room
  <2> HIDE DEF A
  <2>5. SumFunctionOnSet(c, A \cup {o}) = SumFunctionOnSet(c, A) + c[o]
    <3>1. \A i \in A \cup {o} : c[i] \in Int
      BY <2>2, <2>3
    <3>2. IsFiniteSet(A) /\ o \notin A
      BY <2>0, <2>2
    <3> QED
      BY <3>1, <3>2, SumAdd
  <2>6. SumFunctionOnSet(c, A) = SumFunctionOnSet(e, A)
    BY <2>2, SumSame
  <2> QED
    BY <2>0, <2>3, <2>4, <2>5, <2>6
<1>2. ASSUME lo > 0 PROVE Cardinality(OpenOf(r, c, S)) <= lo
  <2> DEFINE A == OpenOf(r, e, S)
  <2> DEFINE t == r[o].token
  <2>1. OpenOf(r, c, S) \in SUBSET (A \cup {t})
    BY OpenFill
  <2>2. IsFiniteSet(A) /\ Cardinality(A) \in Nat /\ Cardinality(OpenOf(r, c, S)) \in Nat
    BY OpenFinite
  <2>3. Cardinality(A) + 1 <= lo
    BY <1>2 DEF Room
  <2> HIDE DEF A, t
  <2>4. /\ IsFiniteSet(A \cup {t})
        /\ Cardinality(A \cup {t}) = IF t \in A THEN Cardinality(A) ELSE Cardinality(A) + 1
    BY <2>2, FS_AddElement
  <2>5. Cardinality(OpenOf(r, c, S)) <= Cardinality(A \cup {t})
    BY <2>1, <2>4, FS_Subset
  <2>6. Cardinality(A \cup {t}) \in Nat
    BY <2>4, FS_CardinalityType
  <2> QED
    BY <2>2, <2>3, <2>4, <2>5, <2>6
<1>3. SumFunctionOnSet(c, S \cap tc) \in Int
  <2>1. \A i \in S \cap tc : i \in ExecutedOf(r, c)
    BY DEF Books
  <2>2. IsFiniteSet(S \cap tc) /\ \A i \in ExecutedOf(r, c) : c[i] \in Nat
    BY BooksTypes
  <2>3. \A i \in S \cap tc : c[i] \in Int
    BY <2>1, <2>2
  <2> QED
    BY <2>2, <2>3, SumType
<1>4. Cardinality(OpenOf(r, c, S)) \in Nat
  BY OpenFinite
<1> QED
  BY <1>1, <1>2, <1>3, <1>4 DEF Room

-----------------------------------------------------------------------------
\* The room under the limits

\* Stages behind a gate with its order not yet booked.
PastDaily       == {"open", "recent", "breaker", "follow", "followDaily", "followOpen", "cap", "through"}
PastOpen        == PastDaily \ {"open"}
PastFollowDaily == {"followOpen", "cap", "through"}
PastFollowOpen  == {"cap", "through"}

\* An order of this relation is at one of these stages.
InHand(f, stages) == exec.pc \in stages /\ rows[exec.order].follow = f

UserRoom      == Room(rows, execution, today, Orders, DailyMax, OpenMax,
                      exec.pc \in PastDaily, exec.pc \in PastOpen, exec.order)
FollowRoom(f) == Room(rows, execution, today, OfFollow(f), FollowDailyMax, FollowOpenMax,
                      InHand(f, PastFollowDaily), InHand(f, PastFollowOpen), exec.order)
Rehearsed     == \A o \in Orders : rows[o].status \notin {"dispatched", "submitted"}

CapInv == DryRun =>
  Rehearsed /\ UserRoom /\ \A f \in Follows : OfFollow(f) \cap unread = {} => FollowRoom(f)

\* Rows, executions and the day of a state are books.
LEMMA BooksNow ==
  ASSUME BookInv
  PROVE  Books(rows, execution, today) /\ Executed = ExecutedOf(rows, execution)
  BY DEF BookInv, FlipInv, RowsOK, FillsOK, Books, Executed, ExecutedOf, Orders

\* Those of the next state too.
LEMMA BooksThen ==
  ASSUME BookInv'
  PROVE  Books(rows', execution', today')
  BY DEF BookInv, FlipInv, RowsOK, FillsOK, Books, Executed, ExecutedOf, Orders

\* The open tokens of the model are those of its books.
LEMMA OpenIs ==
  ASSUME NEW S
  PROVE  OpenTokens(S) = OpenOf(rows, execution, S)
<1>1. Bought = Value(rows, execution) /\ Executed = ExecutedOf(rows, execution)
  BY DEF Bought, Value, Executed, ExecutedOf, Orders, Signed
<1>2. \A t : {o \in S \cap Executed : rows[o].token = t} = Holding(rows, execution, S, t)
  BY <1>1 DEF Holding
<1> QED
  BY <1>1, <1>2 DEF OpenTokens, OpenOf

\* No step changes the limits.
LEMMA LimitsFrame ==
  ASSUME [Next]_vars
  PROVE  UNCHANGED <<DryRun, DailyMax, OpenMax, FollowDailyMax, FollowOpenMax, Ratio, Setting>>
  BY RegimeFrame DEF DryRun, DailyMax, OpenMax, FollowDailyMax, FollowOpenMax, Ratio, Setting

\* Steps that execute nothing and let no order pass.
LEMMA QuietCaps ==
  ASSUME BookInv, BookInv', [Next]_vars, CapInv, DryRun, Rehearsed',
         Enqueue \/ SameTerms(rows, rows'),
         UNCHANGED execution \/ Enqueue, today' \subseteq today, unread \subseteq unread',
         \A P \in {PastDaily, PastOpen, PastFollowDaily, PastFollowOpen} :
           exec'.pc \in P => exec.pc \in P /\ exec'.order = exec.order
  PROVE  CapInv'
<1>0. /\ Books(rows, execution, today) /\ Books(rows', execution', today')
      /\ today \subseteq ExecutedOf(rows, execution)
  BY BooksNow, BooksThen DEF Books
<1>1. /\ ExecutedOf(rows', execution') = ExecutedOf(rows, execution)
      /\ \A i \in ExecutedOf(rows, execution) : execution'[i] = execution[i]
      /\ \A i \in Orders : Terms(rows'[i]) = Terms(rows[i])
      /\ Orders \subseteq Orders'
  <2>1. CASE Enqueue
    <3>1. LET n == Len(rows) + 1 IN
          /\ Len(rows') = n /\ Orders' = Orders \cup {n}
          /\ \A o \in Orders : rows'[o] = rows[o] /\ execution'[o] = execution[o]
          /\ execution'[n] = None
      BY <2>1, NewRow DEF BookInv
    <3> QED
      BY <3>1 DEF ExecutedOf, Orders
  <2>2. CASE SameTerms(rows, rows') /\ UNCHANGED execution
    BY <2>2 DEF SameTerms, ExecutedOf, Orders
  <2> QED
    BY <2>1, <2>2
<1>2. \A i \in Orders : rows'[i].follow = rows[i].follow /\ rows'[i].size = rows[i].size
  BY <1>1, TermsOf
<1>3. ExecutedOf(rows, execution) \subseteq Orders
  BY DEF ExecutedOf, Orders
<1>4. exec.pc \in PastDaily => exec.order \in Orders
  BY DEF BookInv, FlipInv, HandOK, PastDaily
<1>5. exec.pc \in PastDaily => rows[exec.order].size \in Nat
  BY <1>0, <1>4, BooksTypes DEF Orders
<1>6. /\ DailyMax \in Nat /\ OpenMax \in Nat /\ FollowDailyMax \in Nat /\ FollowOpenMax \in Nat
      /\ UNCHANGED <<DryRun, DailyMax, OpenMax, FollowDailyMax, FollowOpenMax>>
  BY SettingOK, LimitsFrame DEF BookInv, FlipInv
<1>7. PastOpen \subseteq PastDaily /\ PastFollowDaily \subseteq PastDaily /\ PastFollowOpen \subseteq PastDaily
  BY DEF PastDaily, PastOpen, PastFollowDaily, PastFollowOpen
<1>8. UserRoom'
  <2>1. Room(rows, execution, today, Orders, DailyMax, OpenMax,
             exec.pc \in PastDaily, exec.pc \in PastOpen, exec.order)
    BY DEF CapInv, UserRoom
  <2>2. Orders \cap ExecutedOf(rows, execution) = Orders' \cap ExecutedOf(rows', execution')
    BY <1>1, <1>3
  <2>3. Orders' \cap today' \subseteq Orders \cap today
    BY <1>0, <1>3
  <2>4. /\ exec'.pc \in PastDaily => exec.pc \in PastDaily /\ rows'[exec'.order].size = rows[exec.order].size
        /\ exec'.pc \in PastOpen => exec.pc \in PastOpen
    BY <1>2, <1>4
  <2>5. Room(rows', execution', today', Orders', DailyMax, OpenMax,
             exec'.pc \in PastDaily, exec'.pc \in PastOpen, exec'.order)
    <3> DEFINE d == exec.pc \in PastDaily
               p == exec.pc \in PastOpen
               dd == exec'.pc \in PastDaily
               pp == exec'.pc \in PastOpen
               o == exec.order
               oo == exec'.order
               S == Orders
               T == Orders'
    <3>1. Room(rows, execution, today, S, DailyMax, OpenMax, d, p, o)
      BY <2>1
    <3>2. S \cap ExecutedOf(rows, execution) = T \cap ExecutedOf(rows', execution')
      BY <2>2
    <3>3. T \cap today' \subseteq S \cap today
      BY <2>3
    <3>4. d \in BOOLEAN /\ p \in BOOLEAN /\ dd \in BOOLEAN /\ pp \in BOOLEAN
      OBVIOUS
    <3>5. (dd => d /\ rows'[oo].size = rows[o].size) /\ (d => rows[o].size \in Nat) /\ (pp => p)
      BY <1>5, <2>4
    <3>6. \A i \in S \cap ExecutedOf(rows, execution) :
            Terms(rows'[i]) = Terms(rows[i]) /\ execution'[i] = execution[i]
      BY <1>1
    <3> HIDE DEF d, p, dd, pp, o, oo, S, T
    <3>7. Room(rows', execution', today', T, DailyMax, OpenMax, dd, pp, oo)
      BY <1>0, <1>6, <3>1, <3>2, <3>3, <3>4, <3>5, <3>6, RoomKept
    <3> QED
      BY <3>7 DEF dd, pp, oo, T
  <2> QED
    BY <1>6, <2>5 DEF UserRoom
<1>9. ASSUME NEW f \in Follows, OfFollow(f)' \cap unread' = {} PROVE FollowRoom(f)'
  <2>0. OfFollow(f) \subseteq OfFollow(f)'
    BY <1>1, <1>2 DEF OfFollow
  <2>1. Room(rows, execution, today, OfFollow(f), FollowDailyMax, FollowOpenMax,
             InHand(f, PastFollowDaily), InHand(f, PastFollowOpen), exec.order)
    <3>1. OfFollow(f) \cap unread = {}
      BY <1>9, <2>0
    <3> QED
      BY <3>1 DEF CapInv, FollowRoom
  <2>2. OfFollow(f) \cap ExecutedOf(rows, execution) = OfFollow(f)' \cap ExecutedOf(rows', execution')
    BY <1>1, <1>2, <1>3 DEF OfFollow
  <2>3. OfFollow(f)' \cap today' \subseteq OfFollow(f) \cap today
    BY <1>0, <1>1, <2>2
  <2>4. /\ InHand(f, PastFollowDaily)' => InHand(f, PastFollowDaily) /\ rows'[exec'.order].size = rows[exec.order].size
        /\ InHand(f, PastFollowOpen)' => InHand(f, PastFollowOpen)
        /\ InHand(f, PastFollowDaily) => rows[exec.order].size \in Nat
    BY <1>2, <1>4, <1>5, <1>7 DEF InHand
  <2>5. Room(rows', execution', today', OfFollow(f)', FollowDailyMax, FollowOpenMax,
             InHand(f, PastFollowDaily)', InHand(f, PastFollowOpen)', exec'.order)
    <3> DEFINE d == InHand(f, PastFollowDaily)
               p == InHand(f, PastFollowOpen)
               dd == InHand(f, PastFollowDaily)'
               pp == InHand(f, PastFollowOpen)'
               o == exec.order
               oo == exec'.order
               S == OfFollow(f)
               T == OfFollow(f)'
    <3>1. Room(rows, execution, today, S, FollowDailyMax, FollowOpenMax, d, p, o)
      BY <2>1
    <3>2. S \cap ExecutedOf(rows, execution) = T \cap ExecutedOf(rows', execution')
      BY <2>2
    <3>3. T \cap today' \subseteq S \cap today
      BY <2>3
    <3>4. d \in BOOLEAN /\ p \in BOOLEAN /\ dd \in BOOLEAN /\ pp \in BOOLEAN
      BY DEF InHand
    <3>5. (dd => d /\ rows'[oo].size = rows[o].size) /\ (d => rows[o].size \in Nat) /\ (pp => p)
      BY <2>4
    <3>6. \A i \in S \cap ExecutedOf(rows, execution) :
            Terms(rows'[i]) = Terms(rows[i]) /\ execution'[i] = execution[i]
      BY <1>1, <1>3
    <3> HIDE DEF d, p, dd, pp, o, oo, S, T
    <3> QED
      BY <1>0, <1>6, <3>1, <3>2, <3>3, <3>4, <3>5, <3>6, RoomKept DEF dd, pp, oo, T
  <2> QED
    BY <1>6, <2>5 DEF FollowRoom
<1> QED
  BY <1>8, <1>9 DEF CapInv

\* What a gate does with the order in hand.
LEMMA GatePass ==
  ASSUME BookInv, Gate \/ GateError
  PROVE  /\ UNCHANGED <<regime, rows, execution, today, window, snapshot, peak>>
         /\ exec'.order = exec.order /\ exec.order \in Orders
         /\ unread \subseteq unread' /\ unread' \subseteq unread \cup {exec.order}
         /\ exec.pc \in {"daily", "open", "recent", "breaker", "follow", "followDaily", "followOpen", "cap"}
         /\ \/ exec'.pc = "refused"
            \/ exec'.pc = After(exec.pc) /\ Passes(exec.pc, exec.order)
            \/ /\ exec.pc \in {"follow", "cap"} /\ exec.order \in unread'
               /\ exec'.pc = IF exec.pc = "follow" THEN "cap" ELSE "through"
<1>1. exec = [pc |-> exec.pc, batch |-> exec.batch, order |-> exec.order]
  BY DEF BookInv, FlipInv, HandOK
<1>2. exec.pc \in {"daily", "open", "recent", "breaker", "follow", "followDaily", "followOpen", "cap"}
  <2>1. exec.pc \in {Gates[i] : i \in DOMAIN Gates}
    BY DEF Gate, GateError, InGates
  <2> QED
    BY <2>1 DEF Gates
<1>3. exec.order \in Orders
  BY <1>2 DEF BookInv, FlipInv, HandOK
<1>4. CASE Gate
  <2>1. exec' = [exec EXCEPT !.pc = IF Passes(exec.pc, exec.order) THEN After(exec.pc) ELSE "refused"]
    BY <1>4 DEF Gate
  <2> DEFINE pc == IF Passes(exec.pc, exec.order) THEN After(exec.pc) ELSE "refused"
  <2>2. exec' = [pc |-> pc, batch |-> exec.batch, order |-> exec.order]
    BY <1>1, <2>1
  <2>3. pc = "refused" \/ (pc = After(exec.pc) /\ Passes(exec.pc, exec.order))
    OBVIOUS
  <2> HIDE DEF pc
  <2> QED
    BY <1>2, <1>3, <1>4, <2>2, <2>3 DEF Gate
<1>5. CASE GateError
  BY <1>1, <1>2, <1>3, <1>5 DEF GateError
<1> QED
  BY <1>4, <1>5

\* The gates give room, or refuse; one that could not be read is remembered.
LEMMA GateCaps ==
  ASSUME BookInv, [Next]_vars, CapInv, DryRun, Gate \/ GateError
  PROVE  CapInv'
<1> DEFINE o == exec.order
           g == exec.pc
<1>1. /\ UNCHANGED <<regime, rows, execution, today>> /\ exec'.order = o /\ o \in Orders
      /\ unread \subseteq unread'
      /\ g \in {"daily", "open", "recent", "breaker", "follow", "followDaily", "followOpen", "cap"}
      /\ \/ exec'.pc = "refused"
         \/ exec'.pc = After(g) /\ Passes(g, o)
         \/ g \in {"follow", "cap"} /\ o \in unread' /\ exec'.pc = IF g = "follow" THEN "cap" ELSE "through"
  BY GatePass
<1>2. /\ DailyMax \in Nat /\ OpenMax \in Nat /\ FollowDailyMax \in Nat /\ FollowOpenMax \in Nat
      /\ UNCHANGED <<DryRun, DailyMax, OpenMax, FollowDailyMax, FollowOpenMax>>
  BY SettingOK, LimitsFrame DEF BookInv, FlipInv
<1>3. Orders' = Orders /\ \A f : OfFollow(f)' = OfFollow(f)
  BY <1>1 DEF Orders, OfFollow
<1>4. Books(rows, execution, today)
  BY BooksNow
<1>5. \A S : Cardinality(OpenOf(rows, execution, S)) \in Nat
  BY <1>4, OpenFinite
<1>6. Rehearsed'
  BY <1>1, <1>3 DEF CapInv, Rehearsed
<1>7. UserRoom'
  <2>0. Room(rows, execution, today, Orders, DailyMax, OpenMax, g \in PastDaily, g \in PastOpen, o)
    BY DEF CapInv, UserRoom
  <2>1. ASSUME exec'.pc \in PastDaily, g \notin PastDaily
        PROVE  DailyMax = 0 \/ SumFunctionOnSet(execution, Orders \cap today) + rows[o].size <= DailyMax
    <3>1. g = "daily"
      BY <1>1, <2>1 DEF PastDaily
    <3>2. Passes("daily", o)
      BY <1>1, <2>1, <3>1 DEF PastDaily
    <3> QED
      BY <3>2 DEF Passes, WithinDaily, DailyNotional
  <2>2. ASSUME exec'.pc \in PastOpen, g \notin PastOpen
        PROVE  OpenMax = 0 \/ Cardinality(OpenOf(rows, execution, Orders)) < OpenMax
    <3>1. g \in {"daily", "open"}
      BY <1>1, <2>2 DEF PastDaily, PastOpen
    <3>2. g = "open"
      BY <1>1, <2>2, <3>1, NextGate DEF PastDaily, PastOpen
    <3>3. Passes("open", o)
      BY <1>1, <2>2, <3>2 DEF PastDaily, PastOpen
    <3>4. MayOpen(OpenMax, Orders)
      BY <3>3 DEF Passes
    <3> QED
      BY <3>4, OpenIs DEF MayOpen
  <2>3. Room(rows, execution, today, Orders, DailyMax, OpenMax, exec'.pc \in PastDaily, exec'.pc \in PastOpen, o)
    <3> DEFINE sum == SumFunctionOnSet(execution, Orders \cap today)
               crd == Cardinality(OpenOf(rows, execution, Orders))
    <3>1. /\ DailyMax > 0 => sum + (IF g \in PastDaily THEN rows[o].size ELSE 0) <= DailyMax
          /\ OpenMax > 0 => crd + (IF g \in PastOpen THEN 1 ELSE 0) <= OpenMax
      BY <2>0 DEF Room
    <3>2. sum \in Int /\ crd \in Nat /\ rows[o].size \in Nat
      <4>1. IsFiniteSet(Orders \cap today) /\ rows[o].size \in Nat
        BY <1>1, <1>4, BooksTypes DEF Orders
      <4>2. \A i \in Orders \cap today : execution[i] \in Int
        <5>1. \A i \in Orders \cap today : i \in ExecutedOf(rows, execution)
          BY <1>4 DEF Books
        <5> QED
          BY <1>4, <5>1, BooksTypes
      <4> QED
        BY <1>5, <4>1, <4>2, SumType
    <3>3. exec'.pc \in PastDaily => g \in PastDaily \/ DailyMax = 0 \/ sum + rows[o].size <= DailyMax
      BY <2>1
    <3>4. exec'.pc \in PastOpen => g \in PastOpen \/ OpenMax = 0 \/ crd < OpenMax
      BY <2>2
    <3>5. /\ DailyMax > 0 => sum + (IF exec'.pc \in PastDaily THEN rows[o].size ELSE 0) <= DailyMax
          /\ OpenMax > 0 => crd + (IF exec'.pc \in PastOpen THEN 1 ELSE 0) <= OpenMax
      <4> HIDE DEF sum, crd, o, g
      <4>1. ASSUME DailyMax > 0 PROVE sum + (IF exec'.pc \in PastDaily THEN rows[o].size ELSE 0) <= DailyMax
        BY <4>1, <1>2, <3>1, <3>2, <3>3
      <4>2. ASSUME OpenMax > 0 PROVE crd + (IF exec'.pc \in PastOpen THEN 1 ELSE 0) <= OpenMax
        BY <4>2, <1>2, <3>1, <3>2, <3>4
      <4> QED
        BY <4>1, <4>2
    <3> QED
      BY <3>5 DEF Room
  <2> QED
    BY <1>1, <1>2, <1>3, <2>3 DEF UserRoom
<1>8. ASSUME NEW f \in Follows, OfFollow(f)' \cap unread' = {} PROVE FollowRoom(f)'
  <2> DEFINE S == OfFollow(f)
  <2>0. Room(rows, execution, today, S, FollowDailyMax, FollowOpenMax,
             InHand(f, PastFollowDaily), InHand(f, PastFollowOpen), o)
    BY <1>1, <1>3, <1>8 DEF CapInv, FollowRoom
  <2>a. rows[o].follow = f => o \notin unread'
    BY <1>1, <1>3, <1>8 DEF OfFollow
  <2>1. ASSUME InHand(f, PastFollowDaily)', ~InHand(f, PastFollowDaily)
        PROVE  FollowDailyMax = 0 \/ SumFunctionOnSet(execution, S \cap today) + rows[o].size <= FollowDailyMax
    <3>0. rows[o].follow = f /\ exec'.pc \in PastFollowDaily /\ g \notin PastFollowDaily
      BY <1>1, <2>1 DEF InHand
    <3>1. exec'.pc = After(g) /\ Passes(g, o)
      BY <1>1, <2>a, <3>0 DEF PastFollowDaily
    <3>2. g = "followDaily"
      BY <1>1, <3>0, <3>1, NextGate DEF PastFollowDaily
    <3>3. Passes("followDaily", o)
      BY <3>1, <3>2
    <3> QED
      BY <3>0, <3>3 DEF Passes, WithinDaily, DailyNotional
  <2>2. ASSUME InHand(f, PastFollowOpen)', ~InHand(f, PastFollowOpen)
        PROVE  FollowOpenMax = 0 \/ Cardinality(OpenOf(rows, execution, S)) < FollowOpenMax
    <3>0. rows[o].follow = f /\ exec'.pc \in PastFollowOpen /\ g \notin PastFollowOpen
      BY <1>1, <2>2 DEF InHand
    <3>1. exec'.pc = After(g) /\ Passes(g, o)
      BY <1>1, <2>a, <3>0 DEF PastFollowOpen
    <3>2. g = "followOpen"
      BY <1>1, <3>0, <3>1, NextGate DEF PastFollowOpen
    <3>3. Passes("followOpen", o)
      BY <3>1, <3>2
    <3>4. MayOpen(FollowOpenMax, S)
      BY <3>0, <3>3 DEF Passes
    <3> QED
      BY <3>4, OpenIs DEF MayOpen
  <2> HIDE DEF S
  <2>3. Room(rows, execution, today, S, FollowDailyMax, FollowOpenMax,
             InHand(f, PastFollowDaily)', InHand(f, PastFollowOpen)', o)
    <3> DEFINE sum == SumFunctionOnSet(execution, S \cap today)
               crd == Cardinality(OpenOf(rows, execution, S))
               d == InHand(f, PastFollowDaily)
               p == InHand(f, PastFollowOpen)
               dd == InHand(f, PastFollowDaily)'
               pp == InHand(f, PastFollowOpen)'
    <3>1. /\ FollowDailyMax > 0 => sum + (IF d THEN rows[o].size ELSE 0) <= FollowDailyMax
          /\ FollowOpenMax > 0 => crd + (IF p THEN 1 ELSE 0) <= FollowOpenMax
      BY <2>0 DEF Room
    <3>2. sum \in Int /\ crd \in Nat /\ rows[o].size \in Nat
      <4>1. IsFiniteSet(S \cap today) /\ rows[o].size \in Nat
        BY <1>1, <1>4, BooksTypes DEF Orders
      <4>2. \A i \in S \cap today : execution[i] \in Int
        <5>1. \A i \in S \cap today : i \in ExecutedOf(rows, execution)
          BY <1>4 DEF Books
        <5> QED
          BY <1>4, <5>1, BooksTypes
      <4> QED
        BY <1>5, <4>1, <4>2, SumType
    <3>3. dd => d \/ FollowDailyMax = 0 \/ sum + rows[o].size <= FollowDailyMax
      BY <2>1
    <3>4. pp => p \/ FollowOpenMax = 0 \/ crd < FollowOpenMax
      BY <2>2
    <3>5. Room(rows, execution, today, S, FollowDailyMax, FollowOpenMax, dd, pp, o)
      <4> HIDE DEF sum, crd, o, g, d, p, dd, pp
      <4>1. ASSUME FollowDailyMax > 0 PROVE sum + (IF dd THEN rows[o].size ELSE 0) <= FollowDailyMax
        BY <4>1, <1>2, <3>1, <3>2, <3>3
      <4>2. ASSUME FollowOpenMax > 0 PROVE crd + (IF pp THEN 1 ELSE 0) <= FollowOpenMax
        BY <4>2, <1>2, <3>1, <3>2, <3>4
      <4> QED
        BY <4>1, <4>2 DEF Room, sum, crd
    <3> QED
      BY <3>5
  <2>4. OfFollow(f)' = S
    BY <1>3 DEF S
  <2> QED
    BY <1>1, <1>2, <2>3, <2>4 DEF FollowRoom
<1> QED
  BY <1>6, <1>7, <1>8 DEF CapInv

\* The order that is booked uses the room it was given.
LEMMA BookCaps ==
  ASSUME BookInv, BookInv', [Next]_vars, CapInv, DryRun, DryBook
  PROVE  CapInv'
<1> DEFINE o == exec.order
<1>0. /\ Books(rows, execution, today) /\ Books(rows', execution', today')
      /\ rows' = rows /\ unread' = unread
  BY BooksNow, BooksThen DEF DryBook
<1>1. /\ exec.pc = "through" /\ o \in Orders
      /\ exec'.pc = "closing"
  BY DEF DryBook, BookInv, FlipInv, HandOK
<1>2. Rehearsed'
  BY <1>0 DEF CapInv, Rehearsed, Orders
<1>3. CASE execution[o] # None
  <2>1. UNCHANGED <<execution, today>>
    BY <1>3 DEF DryBook
  <2> QED
    BY <1>0, <1>1, <1>2, <2>1, QuietCaps DEF SameTerms, PastDaily, PastOpen, PastFollowDaily, PastFollowOpen
<1>4. CASE execution[o] = None
  <2>0. /\ DailyMax \in Nat /\ OpenMax \in Nat /\ FollowDailyMax \in Nat /\ FollowOpenMax \in Nat
        /\ UNCHANGED <<DryRun, DailyMax, OpenMax, FollowDailyMax, FollowOpenMax>>
    BY SettingOK, LimitsFrame DEF BookInv, FlipInv
  <2>1. execution' = [execution EXCEPT ![o] = rows[o].size] /\ today' = today \cup {o}
    BY <1>4 DEF DryBook
  <2>2. /\ o \in 1 .. Len(rows)
        /\ \A i \in 1 .. Len(rows) : execution'[i] = IF i = o THEN rows[o].size ELSE execution[i]
    <3>1. DOMAIN execution = 1 .. Len(rows)
      BY <1>0, BooksTypes
    <3> QED
      BY <1>1, <2>1, <3>1 DEF Orders
  <2>3. /\ exec.pc \in PastDaily /\ exec.pc \in PastOpen
        /\ exec.pc \in PastFollowDaily /\ exec.pc \in PastFollowOpen
        /\ exec'.pc \notin PastDaily /\ exec'.pc \notin PastOpen
        /\ exec'.pc \notin PastFollowDaily /\ exec'.pc \notin PastFollowOpen
    BY <1>1 DEF PastDaily, PastOpen, PastFollowDaily, PastFollowOpen
  <2>4. UserRoom'
    <3>1. Room(rows, execution, today, Orders, DailyMax, OpenMax, TRUE, TRUE, o)
      BY <2>3 DEF CapInv, UserRoom
    <3>2. Room(rows, execution', today', Orders, DailyMax, OpenMax, FALSE, FALSE, exec'.order)
      BY <1>0, <1>1, <1>4, <2>0, <2>1, <2>2, <3>1, RoomFilled
    <3>3. Orders' = Orders
      BY <1>0 DEF Orders
    <3>4. (exec'.pc \in PastDaily) = FALSE /\ (exec'.pc \in PastOpen) = FALSE
      BY <2>3
    <3>5. Room(rows', execution', today', Orders', DailyMax, OpenMax,
               exec'.pc \in PastDaily, exec'.pc \in PastOpen, exec'.order)
      BY <1>0, <3>2, <3>3, <3>4
    <3> QED
      BY <2>0, <3>5 DEF UserRoom
  <2>5. ASSUME NEW f \in Follows, OfFollow(f)' \cap unread' = {} PROVE FollowRoom(f)'
    <3> DEFINE S == OfFollow(f)
    <3>0. S' = S
      BY <1>0 DEF OfFollow, Orders
    <3>1. Room(rows, execution, today, S, FollowDailyMax, FollowOpenMax,
               InHand(f, PastFollowDaily), InHand(f, PastFollowOpen), o)
      BY <1>0, <2>5, <3>0 DEF CapInv, FollowRoom
    <3>2. Room(rows, execution', today', S, FollowDailyMax, FollowOpenMax, FALSE, FALSE, exec'.order)
      <4>1. CASE rows[o].follow = f
        <5>1. o \in S
          BY <1>1, <4>1 DEF OfFollow
        <5>2. Room(rows, execution, today, S, FollowDailyMax, FollowOpenMax, TRUE, TRUE, o)
          BY <2>3, <3>1, <4>1 DEF InHand
        <5> HIDE DEF S
        <5> QED
          BY <1>0, <1>4, <2>0, <2>1, <2>2, <5>1, <5>2, RoomFilled
      <4>2. CASE rows[o].follow # f
        <5>1. o \notin S
          BY <4>2 DEF OfFollow
        <5>2. Room(rows, execution, today, S, FollowDailyMax, FollowOpenMax, FALSE, FALSE, o)
          BY <3>1, <4>2 DEF InHand
        <5>3. S \subseteq 1 .. Len(rows)
          BY DEF OfFollow, Orders
        <5> HIDE DEF S
        <5>4. S \cap ExecutedOf(rows, execution) = S \cap ExecutedOf(rows, execution')
          BY <2>2, <5>1 DEF ExecutedOf
        <5>5. S \cap today' \subseteq S \cap today
          BY <2>1, <5>1
        <5>6. \A i \in S \cap ExecutedOf(rows, execution) :
                Terms(rows[i]) = Terms(rows[i]) /\ execution'[i] = execution[i]
          BY <2>2, <5>1, <5>3
        <5>7. FALSE \in BOOLEAN
          OBVIOUS
        <5>8. Books(rows, execution', today')
          BY <1>0
        <5> QED
          BY <1>0, <2>0, <5>2, <5>4, <5>5, <5>6, <5>7, <5>8, RoomKept
      <4> QED
        BY <4>1, <4>2
    <3> QED
      BY <1>0, <2>0, <2>3, <3>0, <3>2 DEF FollowRoom, InHand
  <2> QED
    BY <1>2, <2>4, <2>5 DEF CapInv
<1> QED
  BY <1>3, <1>4

\* The worker never waits for the venue in a rehearsal.
LEMMA NothingSent ==
  ASSUME BookInv, CapInv, DryRun
  PROVE  /\ exec.pc # "posting" /\ ~Post /\ ~Claim
         /\ \A o \in Orders : ~Reclaim(o) /\ ~Reconcile(o)
<1>1. exec.pc # "posting"
  BY DEF BookInv, FlipInv, HandOK, CapInv, Rehearsed
<1>2. \A o \in Orders : ~Reclaim(o)
  BY DEF CapInv, Rehearsed, Reclaim
<1>3. \A o \in Orders : ~Reconcile(o)
  BY DEF CapInv, Rehearsed, Reconcile
<1> QED
  BY <1>1, <1>2, <1>3 DEF Post, Claim

\* Every step keeps the room.
LEMMA CapStep == BookInv /\ BookInv' /\ CapInv /\ [Next]_vars => CapInv'
<1> SUFFICES ASSUME BookInv, BookInv', CapInv, [Next]_vars, DryRun PROVE CapInv'
  BY LimitsFrame DEF CapInv
<1> DEFINE Still == \A P \in {PastDaily, PastOpen, PastFollowDaily, PastFollowOpen} :
                      exec'.pc \in P => exec.pc \in P /\ exec'.order = exec.order
<1>a. Rehearsed
  BY DEF CapInv
<1>b. FlipInv /\ RowsOK /\ HandOK
  BY DEF BookInv, FlipInv
<1>1. CASE Gate \/ GateError
  BY <1>1, GateCaps
<1>2. CASE DryBook
  BY <1>2, BookCaps
<1>3. CASE Refuse \/ DryClose
  <2>1. exec.order \in Orders /\ exec'.pc = "idle"
    BY <1>3, <1>b DEF Refuse, DryClose, Done, Idle, HandOK
  <2>2. PICK s \in {"skipped", "filled"} : WriteStatus(exec.order, s)
    BY <1>3 DEF Refuse, DryClose
  <2>3. s \in Statuses
    BY DEF Statuses
  <2>4. SameTerms(rows, rows')
    BY <1>b, <2>1, <2>2, <2>3, StatusTerms DEF RowsOK
  <2>5. Orders' = Orders /\ \A p \in Orders : rows'[p].status = IF p = exec.order THEN s ELSE rows[p].status
    BY <1>b, <2>1, <2>2, <2>3, StatusWrite DEF RowsOK
  <2>6. Rehearsed'
    BY <1>a, <2>5 DEF Rehearsed
  <2>7. Still
    BY <2>1 DEF PastDaily, PastOpen, PastFollowDaily, PastFollowOpen
  <2>8. UNCHANGED <<execution, today, unread>>
    BY <1>3 DEF Refuse, DryClose
  <2> QED
    BY <2>4, <2>6, <2>7, <2>8, QuietCaps
<1>4. CASE Enqueue
  <2>1. LET n == Len(rows) + 1 IN
        Orders' = Orders \cup {n} /\ rows'[n].status = "pending" /\ \A o \in Orders : rows'[o] = rows[o]
    BY <1>4, NewRow DEF BookInv
  <2>2. Rehearsed'
    BY <1>a, <2>1 DEF Rehearsed
  <2>3. UNCHANGED <<today, unread, exec>>
    BY <1>4 DEF Enqueue
  <2> QED
    BY <1>4, <2>2, <2>3, QuietCaps
<1>5. CASE UNCHANGED vars \/ Pull \/ Take \/ Abandon \/ WindowSlides
           \/ (\E o \in Orders : DayPasses(o)) \/ (\E t \in Tokens : Snapshot(t))
  <2>1. UNCHANGED <<rows, execution, unread>> /\ today' \subseteq today
    BY <1>5 DEF vars, Pull, Take, Abandon, WindowSlides, DayPasses, Snapshot
  <2>2. exec' = exec \/ exec'.pc \in {"idle", "daily"}
    BY <1>5 DEF vars, Pull, Take, Abandon, WindowSlides, DayPasses, Snapshot, Done, Idle, Gates
  <2>3. Still
    BY <2>2 DEF PastDaily, PastOpen, PastFollowDaily, PastFollowOpen
  <2>4. Rehearsed' /\ SameTerms(rows, rows')
    BY <1>a, <2>1 DEF Rehearsed, Orders, SameTerms
  <2> QED
    BY <2>1, <2>3, <2>4, QuietCaps
<1> QED
  BY <1>1, <1>2, <1>3, <1>4, <1>5, NothingSent DEF Next

\* An empty queue is within every limit.
LEMMA CapInit == Init => CapInv
<1> SUFFICES ASSUME Init PROVE CapInv
  OBVIOUS
<1>0. BookInv
  BY BookInit
<1>1. rows = <<>> /\ execution = <<>> /\ today = {} /\ exec = Idle({}) /\ exec.pc = "idle" /\ Orders = {}
  BY DEF Init, Idle, Orders
<1>2. /\ DailyMax \in Nat /\ OpenMax \in Nat /\ FollowDailyMax \in Nat /\ FollowOpenMax \in Nat
  BY <1>0, SettingOK DEF BookInv, FlipInv
<1>3. ASSUME NEW S PROVE SumFunctionOnSet(execution, S \cap today) = 0
                         /\ Cardinality(OpenOf(rows, execution, S)) = 0
  <2>1. S \cap today = {}
    BY <1>1
  <2>2. \A t : Holding(rows, execution, S, t) = {}
    BY <1>1 DEF Holding, ExecutedOf
  <2>3. OpenOf(rows, execution, S) = {}
    BY <2>2, SumEmpty DEF OpenOf
  <2> QED
    BY <2>1, <2>3, SumEmpty, FS_EmptySet
<1>4. exec.pc \notin PastDaily /\ exec.pc \notin PastOpen
      /\ \A f : ~InHand(f, PastFollowDaily) /\ ~InHand(f, PastFollowOpen)
  BY <1>1 DEF PastDaily, PastOpen, PastFollowDaily, PastFollowOpen, InHand
<1>5. UserRoom /\ \A f : FollowRoom(f)
  BY <1>2, <1>3, <1>4 DEF UserRoom, FollowRoom, Room
<1> QED
  BY <1>1, <1>5 DEF CapInv, Rehearsed

\* Room for an order in hand, or none, is within the limits.
LEMMA RoomIsLimit ==
  ASSUME NEW S, S \subseteq Orders, BookInv, NEW ld \in Nat, NEW lo \in Nat,
         NEW d \in BOOLEAN, NEW p \in BOOLEAN, d => exec.order \in Orders,
         Room(rows, execution, today, S, ld, lo, d, p, exec.order)
  PROVE  /\ ld > 0 => DailyNotional(S) <= ld
         /\ lo > 0 => Cardinality(OpenTokens(S)) <= lo
<1>0. Books(rows, execution, today)
  BY BooksNow
<1>1. DailyNotional(S) = SumFunctionOnSet(execution, S \cap today) /\ OpenTokens(S) = OpenOf(rows, execution, S)
  BY OpenIs DEF DailyNotional
<1>2. Cardinality(OpenOf(rows, execution, S)) \in Nat
  BY <1>0, OpenFinite
<1>3. SumFunctionOnSet(execution, S \cap today) \in Int
  <2>1. \A i \in S \cap today : i \in ExecutedOf(rows, execution)
    BY <1>0 DEF Books
  <2>2. IsFiniteSet(S \cap today) /\ \A i \in ExecutedOf(rows, execution) : execution[i] \in Nat
    BY <1>0, BooksTypes
  <2>3. \A i \in S \cap today : execution[i] \in Int
    BY <2>1, <2>2
  <2> QED
    BY <2>2, <2>3, SumType
<1>4. d => rows[exec.order].size \in Nat
  BY <1>0, BooksTypes DEF Orders
<1> DEFINE sum == SumFunctionOnSet(execution, S \cap today)
           crd == Cardinality(OpenOf(rows, execution, S))
<1>5. /\ ld > 0 => sum + (IF d THEN rows[exec.order].size ELSE 0) <= ld
      /\ lo > 0 => crd + (IF p THEN 1 ELSE 0) <= lo
  BY DEF Room
<1>6. sum \in Int /\ crd \in Nat
  BY <1>2, <1>3
<1> HIDE DEF sum, crd
<1>7. (ld > 0 => sum <= ld) /\ (lo > 0 => crd <= lo)
  BY <1>4, <1>5, <1>6
<1> QED
  BY <1>1, <1>7 DEF sum, crd

\* So there is room in every state that is reached.
LEMMA Capped == Spec => [](BookInv /\ CapInv)
<1>1. BookInv /\ CapInv /\ [Next]_vars => (BookInv /\ CapInv)'
  BY BookStep, CapStep
<1> QED
  BY <1>1, BookInit, CapInit, PTL DEF Spec

\* In dry run, where a fill is booked before the next order is taken, the daily
\* notional and the open tokens stay within the limits of the user and within
\* those of each relation whose limits could be read: between a check and its
\* booking (risk.rs check_risk, check_follow_risk; exec.rs process_one) the day
\* only gets shorter and others only queue.  When trading, the statistics do not
\* see orders on their way, and nothing of the kind holds.
THEOREM RehearsalsHoldCaps == Spec => [](DryRun => CapsHold)
<1>1. BookInv /\ CapInv => (DryRun => CapsHold)
  <2> SUFFICES ASSUME BookInv, CapInv, DryRun PROVE CapsHold
    OBVIOUS
  <2>0. DailyMax \in Nat /\ OpenMax \in Nat /\ FollowDailyMax \in Nat /\ FollowOpenMax \in Nat
    BY SettingOK DEF BookInv, FlipInv
  <2>1. exec.pc \in PastDaily => exec.order \in Orders
    BY DEF BookInv, FlipInv, HandOK, PastDaily
  <2>2. DailyCapHolds /\ OpenCapHolds
    <3>1. Room(rows, execution, today, Orders, DailyMax, OpenMax,
               exec.pc \in PastDaily, exec.pc \in PastOpen, exec.order)
      BY DEF CapInv, UserRoom
    <3> DEFINE d == exec.pc \in PastDaily
               p == exec.pc \in PastOpen
    <3>2. d \in BOOLEAN /\ p \in BOOLEAN /\ (d => exec.order \in Orders)
      BY <2>1
    <3>3. Orders \subseteq Orders /\ Room(rows, execution, today, Orders, DailyMax, OpenMax, d, p, exec.order)
      BY <3>1
    <3> HIDE DEF d, p
    <3> QED
      BY <2>0, <3>2, <3>3, RoomIsLimit DEF DailyCapHolds, OpenCapHolds
  <2>3. FollowCapsHold
    <3> SUFFICES ASSUME NEW f \in Follows, OfFollow(f) \cap unread = {}
                 PROVE  /\ FollowDailyMax > 0 => DailyNotional(OfFollow(f)) <= FollowDailyMax
                        /\ FollowOpenMax > 0 => Cardinality(OpenTokens(OfFollow(f))) <= FollowOpenMax
      BY DEF FollowCapsHold
    <3> DEFINE d == InHand(f, PastFollowDaily)
               p == InHand(f, PastFollowOpen)
    <3>1. Room(rows, execution, today, OfFollow(f), FollowDailyMax, FollowOpenMax, d, p, exec.order)
      BY DEF CapInv, FollowRoom
    <3>2. d \in BOOLEAN /\ p \in BOOLEAN /\ (d => exec.order \in Orders)
      BY <2>1 DEF InHand, PastDaily, PastFollowDaily
    <3>3. OfFollow(f) \subseteq Orders
      BY DEF OfFollow
    <3> HIDE DEF d, p
    <3> QED
      BY <2>0, <3>1, <3>2, <3>3, RoomIsLimit
  <2> QED
    BY <2>2, <2>3 DEF CapsHold
<1> QED
  BY <1>1, Capped, PTL

-----------------------------------------------------------------------------
\* The cap on the net position

\* What an order takes of the cap of a token, at the venue or filled, and what a
\* set of orders takes, with the order in hand o if it has passed (h).
Share(r, e, t) == [o \in 1 .. Len(r) |->
  IF r[o].token # t THEN 0
  ELSE IF r[o].status \in {"dispatched", "submitted"} THEN r[o].size
  ELSE IF r[o].status = "filled" /\ e[o] # None THEN e[o] ELSE 0]
Budget(r, e, S, t, k, h, o) ==
  SumFunctionOnSet(Share(r, e, t), S) + (IF h THEN r[o].size ELSE 0) <= k

\* A share is a number.
LEMMA ShareType ==
  ASSUME NEW r, NEW e, NEW td, Books(r, e, td), NEW t
  PROVE  \A i \in 1 .. Len(r) : Share(r, e, t)[i] \in Nat
<1>1. \A i \in 1 .. Len(r) : r[i].size \in Nat /\ (e[i] # None => e[i] \in Nat)
  BY BooksTypes
<1> QED
  BY <1>1 DEF Share

\* Where no share grows their sum does not.
LEMMA BudgetKept ==
  ASSUME NEW S, NEW T, IsFiniteSet(T), S \subseteq T,
         NEW s, \A i \in S : s[i] \in Int, NEW u, \A i \in T : u[i] \in Int,
         \A i \in S : u[i] <= s[i], \A i \in T \ S : u[i] = 0
  PROVE  /\ SumFunctionOnSet(u, T) \in Int /\ SumFunctionOnSet(s, S) \in Int
         /\ SumFunctionOnSet(u, T) <= SumFunctionOnSet(s, S)
<1>1. IsFiniteSet(S) /\ \A i \in S : u[i] \in Int
  BY FS_Subset
<1>2. SumFunctionOnSet(u, T) = SumFunctionOnSet(u, S)
  BY <1>1, SumPart
<1>3. SumFunctionOnSet(u, S) <= SumFunctionOnSet(s, S)
  BY <1>1, SumMonotone
<1>4. SumFunctionOnSet(u, S) \in Int /\ SumFunctionOnSet(s, S) \in Int
  BY <1>1, SumType
<1> QED
  BY <1>2, <1>3, <1>4

\* The order in hand takes the share that was kept for it.
LEMMA BudgetUsed ==
  ASSUME NEW r, NEW e, NEW td, Books(r, e, td), NEW S \in SUBSET (1 .. Len(r)),
         NEW q, NEW c, NEW tc, Books(q, c, tc), Len(q) = Len(r), NEW t, NEW o \in S,
         Share(r, e, t)[o] = 0, Share(q, c, t)[o] <= r[o].size,
         \A i \in S : i # o => Share(q, c, t)[i] = Share(r, e, t)[i],
         NEW k \in Int, NEW oo,
         Budget(r, e, S, t, k, TRUE, o)
  PROVE  Budget(q, c, S, t, k, FALSE, oo)
<1>1. IsFiniteSet(S)
  BY BooksTypes, FS_Subset
<1> DEFINE s == Share(r, e, t)
           u == Share(q, c, t)
<1>2. /\ \A i \in S : s[i] \in Int /\ u[i] \in Int
      /\ \A i \in S \ {o} : s[i] \in Int /\ u[i] = s[i]
  <2>1. (\A i \in 1 .. Len(r) : s[i] \in Nat) /\ \A i \in 1 .. Len(q) : u[i] \in Nat
    BY ShareType
  <2>2. \A i \in S : i # o => u[i] = s[i]
    OBVIOUS
  <2> HIDE DEF s, u
  <2> QED
    BY <2>1, <2>2
<1>3. s[o] = 0 /\ u[o] <= r[o].size /\ r[o].size \in Int
  BY BooksTypes
<1>4. SumFunctionOnSet(s, S) + r[o].size <= k
  BY DEF Budget
<1> HIDE DEF s, u
<1>5. SumFunctionOnSet(u, S) = SumFunctionOnSet(s, S) - s[o] + u[o]
  <2> DEFINE R == S \ {o}
  <2>1. IsFiniteSet(R) /\ \A i \in R : s[i] \in Int /\ u[i] = s[i]
    BY <1>1, <1>2, FS_RemoveElement
  <2>2. SumFunctionOnSet(s, S) = s[o] + SumFunctionOnSet(s, R)
    BY <1>1, <1>2, SumRemove
  <2>3. SumFunctionOnSet(u, S) = u[o] + SumFunctionOnSet(u, R)
    BY <1>1, <1>2, SumRemove
  <2> HIDE DEF R
  <2>4. SumFunctionOnSet(u, R) = SumFunctionOnSet(s, R) /\ SumFunctionOnSet(s, R) \in Int
    BY <2>1, SumSame, SumType
  <2>5. s[o] \in Int /\ u[o] \in Int
    BY <1>2
  <2> QED
    BY <2>2, <2>3, <2>4, <2>5
<1>6. SumFunctionOnSet(u, S) \in Int /\ SumFunctionOnSet(s, S) \in Int /\ u[o] \in Int
  BY <1>1, <1>2, SumType
<1>7. SumFunctionOnSet(u, S) + 0 <= k
  BY <1>3, <1>4, <1>5, <1>6
<1> QED
  BY <1>7 DEF Budget, u

\* Every offer buys, and the source is seen with what it holds.
AllBuys    == \A o \in Setting.offers : o.side = "buy"
SourceLong == \A name \in DOMAIN Regimes : Regimes[name].positions \subseteq Nat \ {0}

\* The order in hand has passed the cap, of this relation and token.
InSight(f, t) == exec.pc \in {"through", "closing"}
                 /\ rows[exec.order].follow = f /\ rows[exec.order].token = t

PeakOK  == \A t \in Tokens : snapshot[t] <= peak[t]
DoneOK  ==
  /\ \A o \in Orders : rows[o].status = "filled" => execution[o] # None
  /\ exec.pc = "closing" => execution[exec.order] # None
Spending(f, t) == Budget(rows, execution, OfFollow(f), t, Ratio * peak[t], InSight(f, t), exec.order)

NetInv == AllBuys =>
  PeakOK /\ DoneOK /\ \A f \in Follows, t \in Tokens : OfFollow(f) \cap unread = {} => Spending(f, t)

\* With nothing but buys the net is the sum of the shares.
LEMMA NetIsShares ==
  ASSUME BookInv, DoneOK, AllBuys, NEW f, NEW t
  PROVE  LET mine(st) == {o \in OfFollow(f) : rows[o].token = t /\ rows[o].status \in st} IN
         /\ SumFunctionOnSet(Share(rows, execution, t), OfFollow(f))
              = SumFunctionOnSet(Ordered, mine({"dispatched", "submitted"}))
                  + SumFunctionOnSet(Bought, mine({"filled"}))
         /\ SumFunctionOnSet(Share(rows, execution, t), OfFollow(f)) <= InflightNet(f, t)
         /\ SumFunctionOnSet(Share(rows, execution, t), OfFollow(f)) \in Int
         /\ InflightNet(f, t) \in Int
<1> DEFINE S == OfFollow(f)
           P == {o \in S : rows[o].token = t /\ rows[o].status \in {"pending", "dispatched", "submitted"}}
           A == {o \in S : rows[o].token = t /\ rows[o].status \in {"dispatched", "submitted"}}
           B == {o \in S : rows[o].token = t /\ rows[o].status \in {"filled"}}
           s == Share(rows, execution, t)
<1>0. Books(rows, execution, today)
  BY BooksNow
<1>1. S \subseteq 1 .. Len(rows) /\ A \subseteq P /\ P \subseteq S /\ B \subseteq S /\ A \cap B = {}
  BY DEF OfFollow, Orders
<1>2. IsFiniteSet(1 .. Len(rows)) /\ \A i \in 1 .. Len(rows) : s[i] \in Nat
  BY <1>0, BooksTypes, ShareType
<1>3. IsFiniteSet(S) /\ IsFiniteSet(P) /\ IsFiniteSet(A) /\ IsFiniteSet(B)
  <2>1. \A U \in SUBSET (1 .. Len(rows)) : IsFiniteSet(U)
    BY <1>2, FS_Subset
  <2>2. S \in SUBSET (1 .. Len(rows)) /\ P \in SUBSET (1 .. Len(rows))
        /\ A \in SUBSET (1 .. Len(rows)) /\ B \in SUBSET (1 .. Len(rows))
    BY <1>1
  <2> QED
    BY <2>1, <2>2
<1>4. \A i \in Orders : rows[i].side = "buy"
  <2>1. \A i \in Orders : Terms(rows[i]) \in Setting.offers
    BY DEF BookInv, OffersOK
  <2>2. \A i \in Orders : Terms(rows[i]).side = "buy"
    BY <2>1 DEF AllBuys
  <2> QED
    BY <2>2 DEF Terms
<1>5. \A i \in Orders : Ordered[i] = rows[i].size /\ rows[i].size \in Nat
  BY <1>0, <1>4, BooksTypes DEF Ordered, Signed, Orders
<1>6. \A i \in B : Bought[i] = execution[i] /\ execution[i] \in Nat /\ s[i] = execution[i]
  <2>1. \A i \in B : i \in Orders /\ i \in Executed /\ rows[i].status = "filled" /\ rows[i].token = t
    BY <1>1 DEF DoneOK, Executed, Orders
  <2>2. \A i \in Executed : execution[i] \in Nat /\ execution[i] # None
    BY <1>0, BooksNow, BooksTypes DEF Executed
  <2> QED
    BY <1>4, <2>1, <2>2 DEF Bought, Signed, Share, Orders
<1>7. \A i \in A : s[i] = Ordered[i] /\ Ordered[i] \in Int /\ s[i] \in Int
  BY <1>1, <1>5 DEF Share, Orders
<1>8. \A i \in S \ (A \cup B) : s[i] = 0
  BY <1>1 DEF Share
<1>9. \A i \in P : Ordered[i] \in Nat
  BY <1>1, <1>5 DEF Orders
<1>10. InflightNet(f, t) = SumFunctionOnSet(Ordered, P) + SumFunctionOnSet(Bought, B)
  BY DEF InflightNet
<1>11. \A i \in B : s[i] \in Int /\ Bought[i] = s[i]
  BY <1>6
<1> HIDE DEF S, P, A, B, s
<1>12. SumFunctionOnSet(s, S) = SumFunctionOnSet(s, A) + SumFunctionOnSet(s, B)
  <2> DEFINE AB == A \cup B
  <2>1. AB \in SUBSET S /\ \A i \in AB : s[i] \in Int
    BY <1>1, <1>7, <1>11
  <2>2. \A i \in S \ AB : s[i] = 0
    BY <1>8
  <2> HIDE DEF AB
  <2>3. SumFunctionOnSet(s, S) = SumFunctionOnSet(s, AB)
    BY <1>3, <2>1, <2>2, SumPart
  <2>4. \A i \in A \cup B : s[i] \in Int
    BY <1>7, <1>11
  <2> QED
    BY <1>1, <1>3, <2>3, <2>4, SumUnion DEF AB
<1>13. SumFunctionOnSet(s, A) = SumFunctionOnSet(Ordered, A)
  BY <1>3, <1>7, SumSame
<1>14. SumFunctionOnSet(s, B) = SumFunctionOnSet(Bought, B)
  BY <1>3, <1>11, SumSame
<1>15. SumFunctionOnSet(Ordered, A) <= SumFunctionOnSet(Ordered, P)
  BY <1>1, <1>3, <1>9, SumSubset
<1>16. SumFunctionOnSet(Ordered, A) \in Int /\ SumFunctionOnSet(Ordered, P) \in Int
       /\ SumFunctionOnSet(s, B) \in Int
  <2>1. (\A i \in A : Ordered[i] \in Int) /\ \A i \in P : Ordered[i] \in Int
    BY <1>7, <1>9
  <2> QED
    BY <1>3, <1>11, <2>1, SumType
<1>17. /\ SumFunctionOnSet(s, S) = SumFunctionOnSet(Ordered, A) + SumFunctionOnSet(Bought, B)
       /\ SumFunctionOnSet(s, S) <= InflightNet(f, t) /\ SumFunctionOnSet(s, S) \in Int
       /\ InflightNet(f, t) \in Int
  BY <1>10, <1>12, <1>13, <1>14, <1>15, <1>16
<1> QED
  BY <1>17 DEF S, A, B, s

\* A larger peak allows more.
LEMMA TimesMore ==
  ASSUME NEW a \in Nat, NEW b \in Int, NEW c \in Int, b <= c
  PROVE  a * b <= a * c /\ a * b \in Int /\ a * c \in Int
<1>1. c - b \in Nat /\ c = b + (c - b)
  OBVIOUS
<1>2. a * (c - b) \in Nat
  BY <1>1
<1>3. a * (b + (c - b)) = a * b + a * (c - b)
  BY <1>1
<1> QED
  BY <1>1, <1>2, <1>3

\* The larger of two numbers.
LEMMA MaxOfTwo ==
  ASSUME NEW a \in Int, NEW b \in Int
  PROVE  a <= Max({a, b}) /\ b <= Max({a, b}) /\ Max({a, b}) \in Int
<1> DEFINE m == IF a <= b THEN b ELSE a
<1>1. m \in {a, b} /\ \A y \in {a, b} : m >= y
  OBVIOUS
<1> HIDE DEF m
<1>2. Max({a, b}) \in {a, b} /\ \A y \in {a, b} : Max({a, b}) >= y
  BY <1>1 DEF Max
<1> QED
  BY <1>2

\* The caps are integers.
LEMMA CapType ==
  ASSUME BookInv
  PROVE  Ratio \in Nat /\ \A t \in Tokens : peak[t] \in Int /\ snapshot[t] \in Int /\ Ratio * peak[t] \in Int
<1>1. Ratio \in Nat /\ Setting.positions \subseteq Int
  BY SettingOK DEF BookInv, FlipInv
<1>2. \A t \in Tokens : peak[t] \in Int /\ snapshot[t] \in Int
  BY <1>1 DEF BookInv, SourceOK
<1> QED
  BY <1>1, <1>2

\* Steps in which no share grows and no order passes the cap.
LEMMA NetQuiet ==
  ASSUME BookInv, BookInv', [Next]_vars, NetInv, AllBuys, PeakOK', DoneOK',
         Enqueue \/ SameTerms(rows, rows'),
         \A t \in Tokens : peak[t] <= peak'[t] /\
           \A i \in Orders : Share(rows', execution', t)[i] <= Share(rows, execution, t)[i],
         unread \subseteq unread',
         exec'.pc \in {"through", "closing"} =>
           exec.pc \in {"through", "closing"} /\ exec'.order = exec.order
  PROVE  NetInv'
<1>0. Books(rows, execution, today) /\ Books(rows', execution', today')
  BY BooksNow, BooksThen
<1>1. /\ \A i \in Orders : Terms(rows'[i]) = Terms(rows[i])
      /\ Orders \subseteq Orders'
      /\ \A t : \A i \in Orders' \ Orders : Share(rows', execution', t)[i] = 0
  <2>1. CASE Enqueue
    <3>1. LET n == Len(rows) + 1 IN
          /\ Len(rows') = n /\ Orders' = Orders \cup {n}
          /\ \A o \in Orders : rows'[o] = rows[o]
          /\ rows'[n].status = "pending" /\ n \in 1 .. Len(rows')
      BY <2>1, NewRow DEF BookInv, Orders
    <3> QED
      BY <3>1 DEF Share
  <2>2. CASE SameTerms(rows, rows')
    BY <2>2 DEF SameTerms, Orders
  <2> QED
    BY <2>1, <2>2
<1>2. \A i \in Orders : /\ rows'[i].follow = rows[i].follow /\ rows'[i].size = rows[i].size
                        /\ rows'[i].token = rows[i].token
  BY <1>1, TermsOf
<1>3. exec.pc \in {"through", "closing"} => exec.order \in Orders /\ rows[exec.order].size \in Nat
  <2>1. exec.pc \in {"through", "closing"} => exec.order \in Orders
    BY DEF BookInv, FlipInv, HandOK
  <2>2. \A i \in Orders : rows[i].size \in Nat
    BY <1>0, BooksTypes DEF Orders
  <2> QED
    BY <2>1, <2>2
<1>4. Ratio' = Ratio /\ AllBuys' = AllBuys
  BY LimitsFrame DEF AllBuys
<1>5. ASSUME NEW f \in Follows, NEW t \in Tokens, OfFollow(f)' \cap unread' = {} PROVE Spending(f, t)'
  <2> DEFINE S == OfFollow(f)
             T == OfFollow(f)'
             k == Ratio * peak[t]
             kk == Ratio * peak'[t]
             h == InSight(f, t)
             hh == InSight(f, t)'
             o == exec.order
             oo == exec'.order
  <2>1. S \subseteq T /\ S \in SUBSET (1 .. Len(rows)) /\ T \in SUBSET (1 .. Len(rows'))
    BY <1>1, <1>2 DEF OfFollow, Orders
  <2>2. Budget(rows, execution, S, t, k, h, o)
    <3>1. S \cap unread = {}
      BY <1>5, <2>1
    <3> QED
      BY <3>1 DEF NetInv, Spending
  <2>3. \A i \in S : Share(rows', execution', t)[i] <= Share(rows, execution, t)[i]
    BY DEF OfFollow
  <2>4. \A i \in T \ S : Share(rows', execution', t)[i] = 0
    BY <1>1, <1>2 DEF OfFollow
  <2>5. k \in Int /\ kk \in Int /\ k <= kk
    <3>1. Ratio \in Nat /\ peak[t] \in Int /\ peak'[t] \in Int /\ peak[t] <= peak'[t]
      <4>1. Ratio \in Nat /\ peak[t] \in Int /\ Setting.positions \subseteq Int
        BY CapType, SettingOK DEF BookInv, FlipInv
      <4>2. peak'[t] \in Int
        BY <4>1, LimitsFrame DEF BookInv, SourceOK
      <4> QED
        BY <4>1, <4>2
    <3> QED
      BY <3>1, TimesMore
  <2>6. h \in BOOLEAN /\ hh \in BOOLEAN
    BY DEF InSight
  <2>7. (hh => h /\ rows'[oo].size = rows[o].size) /\ (h => rows[o].size \in Nat)
    BY <1>2, <1>3 DEF InSight
  <2> DEFINE s == Share(rows, execution, t)
             u == Share(rows', execution', t)
  <2>8. SumFunctionOnSet(s, S) + (IF h THEN rows[o].size ELSE 0) <= k
    BY <2>2 DEF Budget
  <2>9. /\ IsFiniteSet(T) /\ \A i \in S : s[i] \in Int
        /\ \A i \in T : u[i] \in Int
    <3>1. IsFiniteSet(1 .. Len(rows'))
      BY <1>0, BooksTypes
    <3>2. \A i \in 1 .. Len(rows) : s[i] \in Nat
      BY <1>0, ShareType
    <3>3. \A i \in 1 .. Len(rows') : u[i] \in Nat
      BY <1>0, ShareType
    <3> HIDE DEF S, T, s, u
    <3>4. IsFiniteSet(T)
      BY <2>1, <3>1, FS_Subset
    <3>5. \A i \in S : i \in 1 .. Len(rows)
      BY <2>1
    <3>6. \A i \in T : i \in 1 .. Len(rows')
      BY <2>1
    <3>7. \A i \in S : s[i] \in Int
      BY <3>2, <3>5
    <3>8. \A i \in T : u[i] \in Int
      BY <3>3, <3>6
    <3> QED
      BY <3>4, <3>7, <3>8
  <2> HIDE DEF S, T, k, kk, h, hh, o, oo
  <2>10. (\A i \in S : u[i] <= s[i]) /\ \A i \in T \ S : u[i] = 0
    BY <2>3, <2>4
  <2>11. Budget(rows', execution', T, t, kk, hh, oo)
    <3> HIDE DEF s, u
    <3>1. /\ SumFunctionOnSet(u, T) \in Int /\ SumFunctionOnSet(s, S) \in Int
          /\ SumFunctionOnSet(u, T) <= SumFunctionOnSet(s, S)
      BY <2>1, <2>9, <2>10, BudgetKept
    <3>2. SumFunctionOnSet(u, T) + (IF hh THEN rows'[oo].size ELSE 0) <= kk
      BY <2>5, <2>6, <2>7, <2>8, <3>1
    <3> QED
      BY <3>2 DEF Budget, u
  <2> QED
    BY <1>4, <2>11 DEF Spending, T, kk, hh, oo
<1> QED
  BY <1>4, <1>5 DEF NetInv

\* The share of an order follows its new status, the others keep theirs.
LEMMA ShareWrite ==
  ASSUME BookInv, NEW o \in Orders, NEW s \in Statuses, WriteStatus(o, s),
         \A i \in Orders : i # o => execution'[i] = execution[i]
  PROVE  /\ SameTerms(rows, rows') /\ Orders' = Orders
         /\ \A i \in Orders : rows'[i].status = IF i = o THEN s ELSE rows[i].status
         /\ \A t : \A i \in Orders : i # o => Share(rows', execution', t)[i] = Share(rows, execution, t)[i]
         /\ \A t : Share(rows', execution', t)[o] =
              IF rows[o].token # t THEN 0
              ELSE IF s \in {"dispatched", "submitted"} THEN rows[o].size
              ELSE IF s = "filled" /\ execution'[o] # None THEN execution'[o] ELSE 0
<1>1. rows \in Seq(Row)
  BY DEF BookInv, FlipInv, RowsOK
<1>2. SameTerms(rows, rows')
  BY <1>1, StatusTerms
<1>3. Orders' = Orders /\ \A i \in Orders : rows'[i].status = IF i = o THEN s ELSE rows[i].status
  BY <1>1, StatusWrite
<1>4. \A i \in Orders : rows'[i].token = rows[i].token /\ rows'[i].size = rows[i].size
  BY <1>2, TermsOf DEF SameTerms, Orders
<1>5. ASSUME NEW t, NEW i \in Orders, i # o
      PROVE  Share(rows', execution', t)[i] = Share(rows, execution, t)[i]
  BY <1>3, <1>4, <1>5 DEF Share, Orders
<1>6. ASSUME NEW t
      PROVE Share(rows', execution', t)[o] =
              IF rows[o].token # t THEN 0
              ELSE IF s \in {"dispatched", "submitted"} THEN rows[o].size
              ELSE IF s = "filled" /\ execution'[o] # None THEN execution'[o] ELSE 0
  BY <1>3, <1>4 DEF Share, Orders
<1> QED
  BY <1>2, <1>3, <1>5, <1>6

\* Orders that are turned down, accepted, settled or given up: no share grows.
LEMMA LowerNet ==
  ASSUME BookInv, BookInv', [Next]_vars, NetInv, AllBuys, NEW o \in Orders,
         \/ o = exec.order /\ (Refuse \/ Post)
         \/ Reclaim(o) \/ Reconcile(o)
  PROVE  NetInv'
<1>0. /\ PeakOK /\ DoneOK /\ UNCHANGED <<snapshot, peak, unread>>
      /\ None \notin Int /\ Books(rows, execution, today)
  BY BooksNow, LimitsAssumption DEF NetInv, Refuse, Post, Reclaim, Reconcile
<1>1. exec'.pc = "idle" \/ exec' = exec
  BY DEF Refuse, Post, Done, Idle, Reclaim, Reconcile
<1>2. /\ \A t : \A i \in Orders : Share(rows, execution, t)[i] \in Nat
      /\ DOMAIN execution = Orders /\ rows[o].size \in Nat
  BY <1>0, ShareType, BooksTypes DEF Orders
<1>3. PICK s \in Statuses :
        /\ WriteStatus(o, s)
        /\ \/ s \in {"skipped", "failed", "cancelled"} /\ UNCHANGED execution
           \/ s = "submitted" /\ rows[o].status = "dispatched" /\ UNCHANGED execution
           \/ /\ s \in {"filled", "cancelled"} /\ rows[o].status = "submitted"
              /\ \E n \in 1 .. rows[o].size : execution' = [execution EXCEPT ![o] = n]
  <2>1. CASE o = exec.order /\ (Refuse \/ Post)
    BY <2>1 DEF Refuse, Post, BookInv, FlipInv, HandOK, Statuses
  <2>2. CASE Reclaim(o) \/ Reconcile(o)
    BY <2>2 DEF Reclaim, Reconcile, Statuses
  <2> QED
    BY <2>1, <2>2
<1>4. \A i \in Orders : i # o => execution'[i] = execution[i]
  BY <1>2, <1>3
<1>5. execution' = execution \/ (execution'[o] \in 1 .. rows[o].size /\ execution'[o] # None)
  BY <1>0, <1>2, <1>3
<1>6. /\ SameTerms(rows, rows') /\ Orders' = Orders
      /\ \A i \in Orders : rows'[i].status = IF i = o THEN s ELSE rows[i].status
      /\ \A t : \A i \in Orders : i # o => Share(rows', execution', t)[i] = Share(rows, execution, t)[i]
      /\ \A t : Share(rows', execution', t)[o] =
           IF rows[o].token # t THEN 0
           ELSE IF s \in {"dispatched", "submitted"} THEN rows[o].size
           ELSE IF s = "filled" /\ execution'[o] # None THEN execution'[o] ELSE 0
  BY <1>3, <1>4, ShareWrite
<1>7. ASSUME NEW t PROVE Share(rows', execution', t)[o] <= Share(rows, execution, t)[o]
  <2>1. Share(rows, execution, t)[o] \in Nat
    BY <1>2
  <2>2. rows[o].token = t /\ rows[o].status \in {"dispatched", "submitted"} => Share(rows, execution, t)[o] = rows[o].size
    BY DEF Share, Orders
  <2>3. CASE s \in {"skipped", "failed", "cancelled"} \/ rows[o].token # t
    BY <1>6, <2>1, <2>3
  <2>4. CASE s = "submitted" /\ rows[o].status = "dispatched" /\ rows[o].token = t
    BY <1>2, <1>6, <2>2, <2>4
  <2>5. CASE s = "filled" /\ rows[o].status = "submitted" /\ rows[o].token = t
             /\ execution'[o] \in 1 .. rows[o].size
    BY <1>2, <1>6, <2>2, <2>5
  <2> QED
    BY <1>2, <1>3, <2>3, <2>4, <2>5
<1>8. PeakOK'
  BY <1>0 DEF PeakOK
<1>9. DoneOK'
  <2>1. \A i \in Orders : execution[i] # None => execution'[i] # None
    BY <1>4, <1>5
  <2>2. ASSUME NEW i \in Orders, rows'[i].status = "filled" PROVE execution'[i] # None
    BY <1>0, <1>2, <1>3, <1>5, <1>6, <2>1, <2>2 DEF DoneOK
  <2>3. exec'.pc = "closing" => execution'[exec'.order] # None
    <3>1. exec.pc = "closing" => exec.order \in Orders
      BY DEF BookInv, FlipInv, HandOK
    <3> QED
      BY <1>0, <1>1, <2>1, <3>1 DEF DoneOK
  <2> QED
    BY <1>6, <2>2, <2>3 DEF DoneOK
<1>10. \A t \in Tokens : peak[t] <= peak'[t] /\
         \A i \in Orders : Share(rows', execution', t)[i] <= Share(rows, execution, t)[i]
  <2>1. \A t \in Tokens : peak[t] \in Int
    BY CapType
  <2>2. ASSUME NEW t, NEW i \in Orders PROVE Share(rows', execution', t)[i] <= Share(rows, execution, t)[i]
    <3>1. Share(rows, execution, t)[i] \in Nat
      BY <1>2
    <3> QED
      BY <1>6, <1>7, <3>1
  <2> QED
    BY <1>0, <2>1, <2>2
<1> QED
  BY <1>0, <1>1, <1>6, <1>8, <1>9, <1>10, NetQuiet

\* An order that is claimed or closed takes what was kept for it.
LEMMA TakenNet ==
  ASSUME BookInv, BookInv', [Next]_vars, NetInv, AllBuys, Claim \/ DryClose
  PROVE  NetInv'
<1> DEFINE o == exec.order
<1>0. /\ PeakOK /\ DoneOK /\ UNCHANGED <<snapshot, peak, unread, execution>>
      /\ Books(rows, execution, today) /\ Books(rows', execution', today')
  BY BooksNow, BooksThen DEF NetInv, Claim, DryClose
<1>1. /\ o \in Orders /\ rows[o].status = "pending" /\ exec.pc \in {"through", "closing"}
      /\ exec'.pc \in {"idle", "posting"}
      /\ exec.pc = "closing" => execution[o] # None
  BY <1>0 DEF Claim, DryClose, BookInv, FlipInv, HandOK, PastGuard, Done, Idle, DoneOK
<1>2. PICK s \in Statuses : WriteStatus(o, s) /\ s \in {"dispatched", "filled"}
                            /\ (s = "filled" => execution[o] # None)
  BY <1>1 DEF Claim, DryClose, Statuses
<1>3. /\ SameTerms(rows, rows') /\ Orders' = Orders
      /\ \A i \in Orders : rows'[i].status = IF i = o THEN s ELSE rows[i].status
      /\ \A t : \A i \in Orders : i # o => Share(rows', execution', t)[i] = Share(rows, execution, t)[i]
      /\ \A t : Share(rows', execution', t)[o] =
           IF rows[o].token # t THEN 0
           ELSE IF s \in {"dispatched", "submitted"} THEN rows[o].size
           ELSE IF s = "filled" /\ execution'[o] # None THEN execution'[o] ELSE 0
  BY <1>0, <1>1, <1>2, ShareWrite
<1>4. \A i \in Orders : rows'[i].follow = rows[i].follow
  BY <1>3, TermsOf DEF SameTerms, Orders
<1>5. /\ \A t : Share(rows, execution, t)[o] = 0
      /\ rows[o].size \in Nat /\ (execution[o] # None => execution[o] \in Nat /\ execution[o] <= rows[o].size)
  <2>1. execution[o] \in (1 .. rows[o].size) \cup {None} /\ rows[o].size \in Nat
    BY <1>0, <1>1, BooksTypes DEF BookInv, FillsOK, Orders
  <2> QED
    BY <1>1, <2>1 DEF Share, Orders
<1>6. \A t : Share(rows', execution', t)[o] <= rows[o].size
  <2>1. ASSUME NEW t PROVE Share(rows', execution', t)[o] <= rows[o].size
    <3>1. Share(rows', execution', t)[o] \in {0, rows[o].size}
          \/ (execution[o] # None /\ Share(rows', execution', t)[o] = execution[o])
      BY <1>0, <1>3
    <3> QED
      BY <1>5, <3>1
  <2> QED
    BY <2>1
<1>7. Ratio' = Ratio /\ AllBuys' = AllBuys
  BY LimitsFrame DEF AllBuys
<1>8. ASSUME NEW f \in Follows, NEW t \in Tokens, OfFollow(f)' \cap unread' = {} PROVE Spending(f, t)'
  <2> DEFINE S == OfFollow(f)
             k == Ratio * peak[t]
             oo == exec'.order
  <2>1. OfFollow(f)' = S /\ S \in SUBSET (1 .. Len(rows)) /\ S \in SUBSET (1 .. Len(rows')) /\ Len(rows') = Len(rows)
    BY <1>3, <1>4 DEF OfFollow, Orders, SameTerms
  <2>2. Budget(rows, execution, S, t, k, InSight(f, t), o)
    BY <1>0, <1>8, <2>1 DEF NetInv, Spending
  <2>3. k \in Int
    BY CapType
  <2>4. ASSUME rows[o].follow = f /\ rows[o].token = t PROVE Budget(rows', execution', S, t, k, FALSE, oo)
    <3>1. Budget(rows, execution, S, t, k, TRUE, o)
      BY <1>1, <2>2, <2>4 DEF InSight
    <3>2. o \in S
      BY <1>1, <2>4 DEF OfFollow
    <3>3. \A i \in S : i # o => Share(rows', execution', t)[i] = Share(rows, execution, t)[i]
      BY <1>3 DEF OfFollow
    <3> HIDE DEF S, k, oo
    <3> QED
      BY <1>0, <1>5, <1>6, <2>1, <2>3, <3>1, <3>2, <3>3, BudgetUsed
  <2>5. ASSUME ~(rows[o].follow = f /\ rows[o].token = t) PROVE Budget(rows', execution', S, t, k, FALSE, oo)
    <3>1. Budget(rows, execution, S, t, k, FALSE, o)
      BY <2>2, <2>5 DEF InSight
    <3>2. \A i \in S : Share(rows', execution', t)[i] <= Share(rows, execution, t)[i]
      <4>1. \A i \in 1 .. Len(rows) : Share(rows, execution, t)[i] \in Nat
        BY <1>0, ShareType
      <4>2. \A i \in S : i \in Orders /\ (i = o => rows[o].token # t)
        BY <2>5 DEF OfFollow
      <4>3. \A i \in S : Share(rows', execution', t)[i] = Share(rows, execution, t)[i]
        BY <1>3, <1>5, <4>2
      <4> QED
        BY <2>1, <4>1, <4>3
    <3> DEFINE was == Share(rows, execution, t)
               now == Share(rows', execution', t)
    <3>3. IsFiniteSet(S) /\ (\A i \in S : was[i] \in Int) /\ \A i \in S : now[i] \in Int
      <4>1. IsFiniteSet(1 .. Len(rows))
        BY <1>0, BooksTypes
      <4>2. \A i \in 1 .. Len(rows) : was[i] \in Nat
        BY <1>0, ShareType
      <4>3. \A i \in 1 .. Len(rows') : now[i] \in Nat
        BY <1>0, ShareType
      <4> HIDE DEF S, was, now
      <4>4. IsFiniteSet(S)
        BY <2>1, <4>1, FS_Subset
      <4>5. (\A i \in S : was[i] \in Int) /\ \A i \in S : now[i] \in Int
        BY <2>1, <4>2, <4>3
      <4> QED
        BY <4>4, <4>5
    <3>4. SumFunctionOnSet(was, S) + 0 <= k
      BY <3>1 DEF Budget
    <3> HIDE DEF S, k, oo
    <3>5. \A i \in S : now[i] <= was[i]
      BY <3>2
    <3> HIDE DEF was, now
    <3>6. /\ SumFunctionOnSet(now, S) \in Int /\ SumFunctionOnSet(was, S) \in Int
          /\ SumFunctionOnSet(now, S) <= SumFunctionOnSet(was, S)
      BY <3>3, <3>5, BudgetKept
    <3>7. SumFunctionOnSet(now, S) + 0 <= k
      BY <2>3, <3>4, <3>6
    <3> QED
      BY <3>7 DEF Budget, now
  <2>6. Budget(rows', execution', S, t, k, FALSE, oo)
    BY <2>4, <2>5
  <2>7. InSight(f, t)' = FALSE
    BY <1>1 DEF InSight
  <2> QED
    BY <1>0, <1>7, <2>1, <2>6, <2>7 DEF Spending
<1>9. PeakOK' /\ DoneOK'
  <2>1. \A i \in Orders : rows'[i].status = "filled" => execution'[i] # None
    BY <1>0, <1>2, <1>3 DEF DoneOK
  <2> QED
    BY <1>0, <1>1, <1>3, <2>1 DEF PeakOK, DoneOK
<1> QED
  BY <1>7, <1>8, <1>9 DEF NetInv

\* A rehearsal books an order that is pending and has no share yet.
LEMMA BookNet ==
  ASSUME BookInv, BookInv', [Next]_vars, NetInv, AllBuys, DryBook
  PROVE  NetInv'
<1> DEFINE o == exec.order
<1>0. /\ PeakOK /\ DoneOK /\ UNCHANGED <<snapshot, peak, unread, rows>>
      /\ Books(rows, execution, today) /\ None \notin Int
  BY BooksNow, LimitsAssumption DEF NetInv, DryBook
<1>1. /\ o \in Orders /\ rows[o].status = "pending" /\ exec.pc = "through"
      /\ exec'.pc = "closing" /\ exec'.order = o
  <2>1. exec = [pc |-> exec.pc, batch |-> exec.batch, order |-> exec.order]
    BY DEF BookInv, FlipInv, HandOK
  <2>2. exec' = [exec EXCEPT !.pc = "closing"]
    BY DEF DryBook
  <2> QED
    BY <2>1, <2>2 DEF DryBook, BookInv, FlipInv, HandOK, PastGuard
<1>2. /\ \A i \in Orders : i # o => execution'[i] = execution[i]
      /\ execution'[o] # None
  <2>1. DOMAIN execution = Orders /\ rows[o].size \in Int
    BY <1>0, <1>1, BooksTypes DEF Orders
  <2>2. execution' = IF execution[o] = None THEN [execution EXCEPT ![o] = rows[o].size] ELSE execution
    BY DEF DryBook
  <2> QED
    BY <1>0, <1>1, <2>1, <2>2
<1>3. \A t : \A i \in Orders : Share(rows', execution', t)[i] = Share(rows, execution, t)[i]
  BY <1>0, <1>1, <1>2 DEF Share, Orders
<1>4. \A t : \A i \in Orders : Share(rows, execution, t)[i] \in Nat
  BY <1>0, ShareType DEF Orders
<1>5. \A t \in Tokens : peak[t] <= peak'[t] /\
        \A i \in Orders : Share(rows', execution', t)[i] <= Share(rows, execution, t)[i]
  <2>1. \A t \in Tokens : peak[t] \in Int
    BY CapType
  <2>2. ASSUME NEW t, NEW i \in Orders PROVE Share(rows', execution', t)[i] <= Share(rows, execution, t)[i]
    BY <1>3, <1>4
  <2> QED
    BY <1>0, <2>1, <2>2
<1>6. PeakOK' /\ DoneOK'
  BY <1>0, <1>1, <1>2 DEF PeakOK, DoneOK, Orders
<1>7. SameTerms(rows, rows')
  BY <1>0 DEF SameTerms
<1> QED
  BY <1>0, <1>1, <1>5, <1>6, <1>7, NetQuiet

\* The cap lets an order pass that fits under it with all that is in flight.
LEMMA GateNet ==
  ASSUME BookInv, BookInv', [Next]_vars, NetInv, AllBuys, SourceLong, Gate \/ GateError
  PROVE  NetInv'
<1> DEFINE o == exec.order
           g == exec.pc
<1>0. /\ PeakOK /\ DoneOK /\ UNCHANGED <<rows, execution, snapshot, peak>>
      /\ Books(rows, execution, today)
  BY BooksNow, GatePass DEF NetInv
<1>1. /\ exec'.order = o /\ o \in Orders /\ unread \subseteq unread'
      /\ g \in {"daily", "open", "recent", "breaker", "follow", "followDaily", "followOpen", "cap"}
      /\ \/ exec'.pc = "refused"
         \/ exec'.pc = After(g) /\ Passes(g, o)
         \/ g \in {"follow", "cap"} /\ o \in unread' /\ exec'.pc = IF g = "follow" THEN "cap" ELSE "through"
  BY GatePass
<1>2. Ratio' = Ratio /\ AllBuys' = AllBuys
  BY LimitsFrame DEF AllBuys
<1>3. exec'.pc = "through" => g = "cap" /\ (Passes("cap", o) \/ o \in unread')
  BY <1>1, NextGate
<1>4. exec'.pc # "closing"
  BY <1>1, NextGate
<1>5. ASSUME NEW f \in Follows, NEW t \in Tokens, OfFollow(f)' \cap unread' = {} PROVE Spending(f, t)'
  <2> DEFINE S == OfFollow(f)
             sum == SumFunctionOnSet(Share(rows, execution, t), S)
             cap == Ratio * peak[t]
  <2>1. S' = S
    BY <1>0 DEF OfFollow, Orders
  <2>2. Budget(rows, execution, S, t, Ratio * peak[t], InSight(f, t), o)
    BY <1>1, <1>5, <2>1 DEF NetInv, Spending
  <2>3. InSight(f, t) = FALSE
    BY <1>1 DEF InSight
  <2>4. Budget(rows, execution, S, t, Ratio * peak[t], FALSE, o)
    BY <2>2, <2>3
  <2>5. CASE ~InSight(f, t)'
    <3>1. InSight(f, t)' = FALSE
      BY <2>5
    <3>2. Budget(rows', execution', S', t, Ratio * peak[t], FALSE, exec'.order)
      BY <1>0, <1>1, <2>1, <2>4
    <3> QED
      BY <1>0, <1>2, <3>1, <3>2 DEF Spending
  <2>6. CASE InSight(f, t)'
    <3>1. rows[o].follow = f /\ rows[o].token = t /\ exec'.pc = "through"
      BY <1>0, <1>1, <1>4, <2>6 DEF InSight
    <3>2. o \notin unread'
      BY <1>1, <1>5, <2>1, <3>1 DEF OfFollow
    <3>3. Passes("cap", o)
      BY <1>3, <3>1, <3>2
    <3>4. ~OverCap(InflightNet(f, t), o)
      BY <3>1, <3>3 DEF Passes, WithinCap
    <3>5. rows[o].side = "buy"
      <4>1. Terms(rows[o]) \in Setting.offers
        BY <1>1 DEF BookInv, OffersOK
      <4>2. Terms(rows[o]).side = "buy"
        BY <4>1 DEF AllBuys
      <4> QED
        BY <4>2 DEF Terms
    <3>6. snapshot[t] > 0
      <4>1. snapshot[t] \in Setting.positions
        BY DEF BookInv, SourceOK
      <4>2. Setting.positions \subseteq Nat \ {0}
        BY DEF SourceLong, Setting, BookInv, FlipInv, RowsOK
      <4> QED
        BY <4>1, <4>2
    <3>7. ~(InflightNet(f, t) + rows[o].size > Ratio * snapshot[t])
      BY <3>1, <3>4, <3>5, <3>6 DEF OverCap, Signed
    <3>8. /\ sum <= InflightNet(f, t)
          /\ sum \in Int
          /\ InflightNet(f, t) \in Int
      BY <1>0, NetIsShares
    <3>9. Ratio * snapshot[t] <= cap /\ Ratio * snapshot[t] \in Int /\ cap \in Int
      <4>1. Ratio \in Nat /\ snapshot[t] \in Int /\ peak[t] \in Int /\ snapshot[t] <= peak[t]
        BY <1>0, CapType DEF PeakOK
      <4> QED
        BY <4>1, TimesMore
    <3>10. rows[o].size \in Nat
      BY <1>0, <1>1, BooksTypes DEF Orders
    <3>11. sum + rows[o].size <= cap
      <4> DEFINE net == InflightNet(f, t)
                 now == Ratio * snapshot[t]
                 n == rows[o].size
      <4>1. ~(net + n > now) /\ sum <= net /\ sum \in Int /\ net \in Int /\ now <= cap
            /\ now \in Int /\ cap \in Int /\ n \in Nat
        BY <3>7, <3>8, <3>9, <3>10
      <4> HIDE DEF net, now, n, sum, cap
      <4>2. sum + n <= cap
        BY <4>1
      <4> QED
        BY <4>2 DEF n
    <3>12. Budget(rows, execution, S, t, Ratio * peak[t], TRUE, o)
      BY <3>11 DEF Budget
    <3>13. InSight(f, t)' = TRUE
      BY <2>6 DEF InSight
    <3>14. Budget(rows', execution', S', t, Ratio * peak[t], TRUE, exec'.order)
      BY <1>0, <1>1, <2>1, <3>12
    <3> QED
      BY <1>0, <1>2, <3>13, <3>14 DEF Spending
  <2> QED
    BY <2>5, <2>6
<1>6. PeakOK' /\ DoneOK'
  BY <1>0, <1>4 DEF PeakOK, DoneOK, Orders
<1> QED
  BY <1>2, <1>5, <1>6 DEF NetInv

\* A new order is pending and takes nothing.
LEMMA EnqueueNet ==
  ASSUME BookInv, BookInv', [Next]_vars, NetInv, AllBuys, Enqueue
  PROVE  NetInv'
<1>0. PeakOK /\ DoneOK /\ UNCHANGED <<snapshot, peak, unread, exec>> /\ Books(rows, execution, today)
  BY BooksNow DEF NetInv, Enqueue
<1>1. LET n == Len(rows) + 1 IN
      /\ Len(rows') = n /\ Orders' = Orders \cup {n} /\ Len(rows) \in Nat
      /\ \A o \in Orders : rows'[o] = rows[o] /\ execution'[o] = execution[o]
      /\ rows'[n].status = "pending"
  BY NewRow DEF BookInv
<1>2. \A t : \A i \in Orders : Share(rows', execution', t)[i] = Share(rows, execution, t)[i]
  BY <1>1 DEF Share, Orders
<1>3. \A t : \A i \in Orders : Share(rows, execution, t)[i] \in Nat
  BY <1>0, ShareType DEF Orders
<1>4. \A t \in Tokens : peak[t] <= peak'[t] /\
        \A i \in Orders : Share(rows', execution', t)[i] <= Share(rows, execution, t)[i]
  <2>1. \A t \in Tokens : peak[t] \in Int
    BY CapType
  <2>2. ASSUME NEW t, NEW i \in Orders PROVE Share(rows', execution', t)[i] <= Share(rows, execution, t)[i]
    BY <1>2, <1>3
  <2> QED
    BY <1>0, <2>1, <2>2
<1>5. PeakOK' /\ DoneOK'
  <2>1. exec.pc = "closing" => exec.order \in Orders
    BY DEF BookInv, FlipInv, HandOK
  <2> QED
    BY <1>0, <1>1, <2>1 DEF PeakOK, DoneOK
<1> QED
  BY <1>0, <1>4, <1>5, NetQuiet

\* The other steps leave rows and executions alone; the source may move its peak.
LEMMA OutsideNet ==
  ASSUME BookInv, BookInv', [Next]_vars, NetInv, AllBuys,
         UNCHANGED vars \/ Pull \/ Take \/ Abandon \/ WindowSlides
           \/ (\E o \in Orders : DayPasses(o)) \/ (\E t \in Tokens : Snapshot(t))
  PROVE  NetInv'
<1>0. PeakOK /\ DoneOK /\ UNCHANGED <<rows, execution, unread>> /\ Books(rows, execution, today)
  BY BooksNow DEF NetInv, vars, Pull, Take, Abandon, WindowSlides, DayPasses, Snapshot
<1>1. exec' = exec \/ exec'.pc \in {"idle", "daily"}
  BY DEF vars, Pull, Take, Abandon, WindowSlides, DayPasses, Snapshot, Done, Idle, Gates
<1>2. PeakOK' /\ \A t \in Tokens : peak[t] <= peak'[t]
  <2>1. \A t \in Tokens : peak[t] \in Int /\ snapshot[t] \in Int
    BY CapType
  <2>2. ASSUME NEW t \in Tokens, Snapshot(t)
        PROVE  PeakOK' /\ \A u \in Tokens : peak[u] <= peak'[u]
    <3>1. PICK p \in Setting.positions :
            snapshot' = [snapshot EXCEPT ![t] = p] /\ peak' = [peak EXCEPT ![t] = Max({@, p})]
      BY <2>2 DEF Snapshot
    <3>2. p \in Int
      BY SettingOK DEF BookInv, FlipInv
    <3> DEFINE m == Max({peak[t], p})
    <3>3. peak[t] <= m /\ p <= m /\ m \in Int
      BY <2>1, <3>2, MaxOfTwo
    <3>4. snapshot \in [Tokens -> Setting.positions] /\ peak \in [Tokens -> Setting.positions]
      BY DEF BookInv, SourceOK
    <3>5. peak' = [peak EXCEPT ![t] = m]
      BY <3>1
    <3> HIDE DEF m
    <3>6. /\ \A u \in Tokens : snapshot'[u] = IF u = t THEN p ELSE snapshot[u]
          /\ \A u \in Tokens : peak'[u] = IF u = t THEN m ELSE peak[u]
      BY <3>1, <3>4, <3>5
    <3>7. ASSUME NEW u \in Tokens PROVE snapshot'[u] <= peak'[u] /\ peak[u] <= peak'[u]
      <4>1. peak[u] \in Int /\ snapshot[u] <= peak[u]
        BY <1>0, <2>1 DEF PeakOK
      <4> QED
        BY <3>3, <3>6, <4>1
    <3> QED
      BY <3>7 DEF PeakOK
  <2>3. CASE UNCHANGED <<snapshot, peak>>
    BY <1>0, <2>1, <2>3 DEF PeakOK
  <2>4. UNCHANGED <<snapshot, peak>> \/ \E t \in Tokens : Snapshot(t)
    BY DEF vars, Pull, Take, Abandon, WindowSlides, DayPasses
  <2> QED
    BY <2>2, <2>3, <2>4
<1>3. DoneOK'
  BY <1>0, <1>1 DEF DoneOK, Orders
<1>4. \A t : \A i \in Orders : Share(rows', execution', t)[i] <= Share(rows, execution, t)[i]
  <2>1. \A t : \A i \in Orders : Share(rows, execution, t)[i] \in Nat
    BY <1>0, ShareType DEF Orders
  <2>2. ASSUME NEW t, NEW i \in Orders PROVE Share(rows', execution', t)[i] <= Share(rows, execution, t)[i]
    BY <1>0, <2>1
  <2> QED
    BY <2>2
<1>5. SameTerms(rows, rows')
  BY <1>0 DEF SameTerms
<1> QED
  BY <1>0, <1>1, <1>2, <1>3, <1>4, <1>5, NetQuiet

\* Every step keeps what is spent within the caps.
LEMMA NetStep == SourceLong /\ BookInv /\ BookInv' /\ NetInv /\ [Next]_vars => NetInv'
<1> SUFFICES ASSUME SourceLong, BookInv, BookInv', NetInv, [Next]_vars, AllBuys PROVE NetInv'
  <2>1. [Next]_vars => AllBuys' = AllBuys
    BY LimitsFrame DEF AllBuys
  <2> QED
    BY <2>1 DEF NetInv
<1>1. CASE Refuse \/ Post
  <2>1. exec.order \in Orders
    BY <1>1 DEF Refuse, Post, BookInv, FlipInv, HandOK
  <2> QED
    BY <1>1, <2>1, LowerNet
<1>2. ASSUME NEW o \in Orders, Reclaim(o) \/ Reconcile(o) PROVE NetInv'
  BY <1>2, LowerNet
<1> QED
  BY <1>1, <1>2, TakenNet, BookNet, GateNet, EnqueueNet, OutsideNet DEF Next

\* Nothing is spent of an empty queue.
LEMMA NetInit == SourceLong /\ Init => NetInv
<1> SUFFICES ASSUME SourceLong, Init PROVE NetInv
  OBVIOUS
<1>0. BookInv
  BY BookInit
<1>1. rows = <<>> /\ exec.pc = "idle" /\ Orders = {} /\ peak = snapshot
  BY DEF Init, Idle, Orders
<1>2. Ratio \in Nat /\ \A t \in Tokens : peak[t] \in Nat
  <2>1. Setting.positions \subseteq Nat
    BY <1>0 DEF SourceLong, Setting, BookInv, FlipInv, RowsOK
  <2>2. Ratio \in Nat
    BY <1>0, CapType
  <2> QED
    BY <1>0, <2>1, <2>2 DEF BookInv, SourceOK
<1>3. PeakOK /\ DoneOK
  BY <1>1, <1>2 DEF PeakOK, DoneOK
<1>4. ASSUME NEW f \in Follows, NEW t \in Tokens PROVE Spending(f, t)
  <2>1. OfFollow(f) = {} /\ ~InSight(f, t)
    BY <1>1 DEF OfFollow, InSight
  <2>2. SumFunctionOnSet(Share(rows, execution, t), OfFollow(f)) = 0
    BY <2>1, SumEmpty
  <2>3. Ratio * peak[t] \in Nat
    BY <1>2
  <2>4. 0 + 0 <= Ratio * peak[t]
    BY <2>3
  <2> QED
    BY <2>1, <2>2, <2>4 DEF Spending, Budget
<1> QED
  BY <1>3, <1>4 DEF NetInv

\* R1-C, for sources seen with a position above 0 (for others the code has no
\* cap): what a relation has bought of a token, at the venue or booked on a row
\* however it was closed, passes the ratio of the largest position of its source
\* by the fills of rows not closed as 'filled' at most, whichever of its orders
\* are queued twice, turned down, reclaimed, filled in part or cancelled between
\* check_re_follow_cap and the claim.
THEOREM NetStaysWithinCap == ASSUME SourceLong PROVE Spec => []NetWithinCap
<1>1. BookInv /\ NetInv => NetWithinCap
  <2> SUFFICES ASSUME BookInv, NetInv, AllBuys, NEW f \in Follows, NEW t \in Tokens,
                      OfFollow(f) \cap unread = {}
               PROVE  SumFunctionOnSet(Ordered, OfToken(f, t, {"dispatched", "submitted"}))
                        + SumFunctionOnSet(Bought, OfToken(f, t, Closed) \cap Executed)
                      <= Ratio * peak[t] + SumFunctionOnSet(Bought, Overlooked(f, t))
    BY DEF NetWithinCap, AllBuys
  <2> DEFINE sum == SumFunctionOnSet(Share(rows, execution, t), OfFollow(f))
             cap == Ratio * peak[t]
             h == InSight(f, t)
  <2>0. DoneOK /\ Books(rows, execution, today)
    BY BooksNow DEF NetInv
  <2>1. sum + (IF h THEN rows[exec.order].size ELSE 0) <= cap
    BY DEF NetInv, Spending, Budget
  <2>2. h => rows[exec.order].size \in Nat
    <3>1. h => exec.order \in Orders
      BY DEF InSight, BookInv, FlipInv, HandOK
    <3> QED
      BY <2>0, <3>1, BooksTypes DEF Orders
  <2>3. cap \in Int
    BY CapType
  <2>4. sum = SumFunctionOnSet(Ordered, OfToken(f, t, {"dispatched", "submitted"}))
                + SumFunctionOnSet(Bought, OfToken(f, t, {"filled"}))
    BY <2>0, NetIsShares DEF OfToken
  <2>5. sum \in Int
    BY <2>0, NetIsShares
  <2>6. sum <= cap
    <3> HIDE DEF sum, cap, h
    <3> QED
      BY <2>1, <2>2, <2>3, <2>5
  <2> DEFINE Filled == OfToken(f, t, {"filled"})
             Part   == Overlooked(f, t)
  <2>7. Filled \cap Part = {} /\ OfToken(f, t, Closed) \cap Executed = Filled \cup Part
    BY <2>0 DEF OfToken, Overlooked, Closed, DoneOK, Executed, OfFollow
  <2>8. IsFiniteSet(Filled) /\ IsFiniteSet(Part) /\ \A i \in Filled \cup Part : Bought[i] \in Int
    <3>1. IsFiniteSet(Executed) /\ \A i \in Executed : Bought[i] \in Int
      <4>1. Bought = Value(rows, execution) /\ Executed = ExecutedOf(rows, execution)
        BY DEF Bought, Value, Executed, ExecutedOf, Orders, Signed
      <4>2. IsFiniteSet(1 .. Len(rows)) /\ Executed \subseteq 1 .. Len(rows)
        BY <2>0, BooksTypes DEF Executed, Orders
      <4>3. IsFiniteSet(Executed)
        BY <4>2, FS_Subset
      <4>4. \A i \in ExecutedOf(rows, execution) : Value(rows, execution)[i] \in Int
        BY <2>0, BooksTypes
      <4> QED
        BY <4>1, <4>3, <4>4
    <3>2. Filled \subseteq Executed /\ Part \subseteq Executed
      BY <2>7
    <3> QED
      BY <3>1, <3>2, FS_Subset
  <2>9. SumFunctionOnSet(Bought, Filled \cup Part) = SumFunctionOnSet(Bought, Filled) + SumFunctionOnSet(Bought, Part)
    BY <2>7, <2>8, SumUnion
  <2>10. SumFunctionOnSet(Bought, Filled) \in Int /\ SumFunctionOnSet(Bought, Part) \in Int
    <3>1. (\A i \in Filled : Bought[i] \in Int) /\ \A i \in Part : Bought[i] \in Int
      BY <2>8
    <3> QED
      BY <2>8, <3>1, SumType
  <2>11. SumFunctionOnSet(Ordered, OfToken(f, t, {"dispatched", "submitted"})) \in Int
    <3> DEFINE AtVenue == OfToken(f, t, {"dispatched", "submitted"})
    <3>1. IsFiniteSet(AtVenue) /\ \A i \in AtVenue : Ordered[i] \in Int
      <4>1. AtVenue \subseteq 1 .. Len(rows) /\ IsFiniteSet(1 .. Len(rows))
        BY <2>0, BooksTypes DEF OfToken, OfFollow, Orders
      <4>2. \A i \in Orders : rows[i].size \in Nat
        BY <2>0, BooksTypes DEF Orders
      <4> QED
        BY <4>1, <4>2, FS_Subset DEF Ordered, Signed, Orders
    <3> HIDE DEF AtVenue
    <3> QED
      BY <3>1, SumType DEF AtVenue
  <2>12. SumFunctionOnSet(Bought, OfToken(f, t, Closed) \cap Executed)
           = SumFunctionOnSet(Bought, Filled) + SumFunctionOnSet(Bought, Part)
    BY <2>7, <2>9
  <2>13. SumFunctionOnSet(Ordered, OfToken(f, t, {"dispatched", "submitted"}))
           + SumFunctionOnSet(Bought, Filled) <= Ratio * peak[t]
    <3> HIDE DEF sum, Filled
    <3> QED
      BY <2>4, <2>6 DEF Filled
  <2> DEFINE a == SumFunctionOnSet(Ordered, OfToken(f, t, {"dispatched", "submitted"}))
             b == SumFunctionOnSet(Bought, Filled)
             d == SumFunctionOnSet(Bought, Part)
  <2>14. a \in Int /\ b \in Int /\ d \in Int /\ cap \in Int /\ a + b <= cap
    BY <2>3, <2>10, <2>11, <2>13
  <2>15. SumFunctionOnSet(Bought, OfToken(f, t, Closed) \cap Executed) = b + d
    BY <2>12
  <2>16. a + (b + d) <= cap + d
    <3> HIDE DEF a, b, d, cap
    <3> QED
      BY <2>14
  <2> QED
    BY <2>15, <2>16
<1>2. BookInv /\ NetInv /\ [Next]_vars => (BookInv /\ NetInv)'
  BY BookStep, NetStep
<1>3. Init => BookInv /\ NetInv
  BY BookInit, NetInit
<1> QED
  BY <1>1, <1>2, <1>3, PTL DEF Spec
=============================================================================
