------------------------- MODULE DaemonChannelProofs -------------------------
(***************************************************************************)
(* What channel B promises about its books, for any number of daemons,     *)
(* orders and faults: rows and executions agree, a daemon posts a row once *)
(* per report it has given up, and the list loses rows in the known ways   *)
(* only.                                                                   *)
(***************************************************************************)
EXTENDS DaemonChannel, SequenceTheorems, TLAPS

\* Everything that is listed, in hand, reported or booked is a row.
Placed ==
  /\ \A d \in Daemons :
       /\ daemon[d].since <= Len(rows)
       /\ daemon[d].batch \subseteq 1 .. Len(rows) /\ daemon[d].listed \subseteq 1 .. Len(rows)
       /\ daemon[d].pc \in {"reporting", "waiting"} <=> daemon[d].hand # None
       /\ daemon[d].hand # None => daemon[d].hand.id <= Len(rows)
  /\ \A r \in requests : r.report.id <= Len(rows)
  /\ \A o \in torn : o <= Len(rows) /\ rows[o] # "pending"
  /\ \A o \in Orders : execution[o] # None => o <= Len(rows)

\* A report of a fill names an order that its daemon has posted.
Truthful(report) == report.status = "filled" =>
  report.ref # None /\ report.ref[2] <= posted[report.ref[1]][report.id]
ReportsTrue ==
  /\ \A d \in Daemons : daemon[d].hand # None => Truthful(daemon[d].hand)
  /\ \A r \in requests : Truthful(r.report)

\* A report that has claimed its row is the only one, and is not booked yet.
ClaimsHold == \A r \in requests : r.pc = "claimed" =>
  /\ r.report.status = "filled" /\ rows[r.report.id] = "filled"
  /\ execution[r.report.id] = None
  /\ \A q \in requests : q.pc = "claimed" /\ q.report.id = r.report.id => q = r

\* An order was posted without its report being given up only if the row is
\* settled or its report is still in hand.
Attempts == \A d \in Daemons, o \in Orders :
  /\ posted[d][o] <= 1 + aborts[d][o]
  /\ o \in daemon[d].batch => posted[d][o] <= aborts[d][o]
  /\ \/ o <= Len(rows) /\ rows[o] # "pending"
     \/ daemon[d].hand # None /\ daemon[d].hand.id = o
     \/ posted[d][o] <= aborts[d][o]

\* What was listed is still to do, in hand, or settled; what "since" has
\* passed is settled or slipped.
ListKept == \A d \in Daemons, o \in 1 .. Len(rows) : rows[o] = "pending" =>
  /\ o \in daemon[d].listed =>
       o \in daemon[d].batch \/ (daemon[d].hand # None /\ daemon[d].hand.id = o)
  /\ o <= daemon[d].since => o \in slipped

DInv == TypeOK /\ Placed /\ ReportsTrue /\ ClaimsHold /\ BooksMatchRows /\ Attempts /\ ListKept

Statuses == {"pending"} \cup Reports

-----------------------------------------------------------------------------
\* The rows are numbered 1 .. Len(rows), and each is an order.
LEMMA RowsAre ==
  ASSUME TypeOK
  PROVE  /\ Len(rows) \in Nat /\ MaxOrders \in Nat /\ 1 .. Len(rows) \subseteq Orders
         /\ DOMAIN rows = 1 .. Len(rows)
<1>1. rows \in Seq({"pending"} \cup Reports) /\ Len(rows) <= MaxOrders
  BY DEF TypeOK
<1>2. Len(rows) \in Nat /\ DOMAIN rows = 1 .. Len(rows)
  BY <1>1, LenProperties
<1>3. MaxOrders \in Nat
  BY DaemonAssumption
<1> QED
  BY <1>1, <1>2, <1>3 DEF Orders

\* The locals of a daemon, written out.
LEMMA LocalsAre ==
  ASSUME TypeOK, NEW d \in Daemons
  PROVE  /\ daemon[d] \in Locals
         /\ daemon[d].pc \in {"idle", "working", "reporting", "waiting"}
         /\ daemon[d].since \in 0 .. MaxOrders /\ daemon[d].hand \in Hands \cup {None}
         /\ daemon[d].listed \subseteq Orders /\ daemon[d].batch \subseteq Orders
<1>1. daemon[d] \in Locals
  BY DEF TypeOK
<1> QED
  BY <1>1 DEF Locals

-----------------------------------------------------------------------------
\* The invariant holds before the first row.
LEMMA DaemonInit == Init => DInv
<1> SUFFICES ASSUME Init PROVE DInv
  OBVIOUS
<1>1. rows = <<>> /\ Len(rows) = 0 /\ rows \in Seq(Statuses)
  BY DEF Init
<1>2. \A d \in Daemons : daemon[d] = [pc |-> "idle", since |-> 0, listed |-> {}, batch |-> {}, hand |-> None]
  BY DEF Init, Started
<1>3. TypeOK
  BY <1>1, <1>2, DaemonAssumption DEF Init, Started, TypeOK, Locals, Statuses
<1>4. Placed /\ ReportsTrue /\ ClaimsHold
  BY <1>1, <1>2 DEF Init, Placed, ReportsTrue, ClaimsHold
<1>5. BooksMatchRows
  BY <1>1 DEF Init, BooksMatchRows, BooksAgree, FilledIsBooked
<1>6. Attempts /\ ListKept
  BY <1>1, <1>2 DEF Init, Attempts, ListKept
<1> QED
  BY <1>3, <1>4, <1>5, <1>6 DEF DInv

-----------------------------------------------------------------------------
\* The daemon

\* A daemon that changes nothing but its own locals, and keeps the report it
\* has in hand, if any.
LEMMA ListStep ==
  ASSUME DInv, NEW d \in Daemons, List(d)
  PROVE  DInv'
<1> USE DEF DInv
<1> DEFINE batch == Listed(daemon[d].since) \ barred
<1>1. batch \subseteq 1 .. Len(rows) /\ batch \subseteq Orders /\ \A o \in batch : rows[o] = "pending"
  BY RowsAre DEF Listed
<1>2. daemon' = [daemon EXCEPT ![d] = [@ EXCEPT !.pc = "working", !.batch = batch, !.listed = batch]]
  BY DEF List
<1>3. /\ UNCHANGED <<rows, execution, posted, aged, requests, aborts, slipped, torn, barred, faults>>
      /\ daemon[d].pc = "idle"
  BY DEF List
<1> HIDE DEF batch
<1>4. /\ daemon' \in [Daemons -> Locals]
      /\ \A e \in Daemons : e # d => daemon'[e] = daemon[e]
      /\ daemon'[d].pc = "working" /\ daemon'[d].since = daemon[d].since
      /\ daemon'[d].listed = batch /\ daemon'[d].batch = batch /\ daemon'[d].hand = daemon[d].hand
  BY <1>1, <1>2 DEF TypeOK, Locals
<1>5. TypeOK'
  BY <1>3, <1>4 DEF TypeOK
<1>6. Placed'
  BY <1>1, <1>3, <1>4 DEF Placed
<1>7. ReportsTrue' /\ ClaimsHold' /\ BooksMatchRows'
  BY <1>3, <1>4 DEF ReportsTrue, Truthful, ClaimsHold, BooksMatchRows, BooksAgree, FilledIsBooked
<1>8. Attempts'
  BY <1>1, <1>3, <1>4 DEF Attempts, Placed
<1>9. ListKept'
  BY <1>3, <1>4 DEF ListKept
<1> QED
  BY <1>5, <1>6, <1>7, <1>8, <1>9

\* Orders are only added at the venue: what named one still does.
LEMMA PostedGrows ==
  ASSUME TypeOK, posted' \in [Daemons -> [Orders -> Nat]],
         \A e \in Daemons, p \in Orders : posted[e][p] <= posted'[e][p]
  PROVE  /\ \A report \in Hands : Truthful(report) => Truthful(report)'
         /\ BooksAgree /\ UNCHANGED <<rows, execution, torn>> => BooksAgree'
<1>1. ASSUME NEW ref \in Refs, NEW p \in Orders, ref[2] <= posted[ref[1]][p]
      PROVE  ref[2] <= posted'[ref[1]][p]
  <2>1. ref[1] \in Daemons /\ ref[2] \in Nat
    BY DEF Refs
  <2>2. posted[ref[1]][p] \in Nat /\ posted'[ref[1]][p] \in Nat /\ posted[ref[1]][p] <= posted'[ref[1]][p]
    BY <2>1 DEF TypeOK
  <2> QED
    BY <1>1, <2>1, <2>2
<1>2. ASSUME NEW report \in Hands, Truthful(report) PROVE Truthful(report)'
  BY <1>1, <1>2 DEF Truthful, Hands
<1>3. ASSUME BooksAgree, UNCHANGED <<rows, execution, torn>> PROVE BooksAgree'
  BY <1>1, <1>3 DEF BooksAgree, TypeOK
<1> QED
  BY <1>2, <1>3

\* The oldest row of a batch is skipped, has failed before it was an order, is
\* signed only, or posted.
LEMMA ExecuteStep ==
  ASSUME DInv, NEW d \in Daemons, Execute(d)
  PROVE  DInv'
<1> USE DEF DInv
<1>1. /\ UNCHANGED <<rows, execution, aged, requests, aborts, slipped, torn, barred, faults>>
      /\ daemon[d].pc = "working" /\ daemon[d].hand = None
  BY DEF Execute, Placed
<1>2. PICK o \in daemon[d].batch :
        \/ /\ \E status \in {"skipped", "failed"} :
                Holding(d, [id |-> o, status |-> status, ref |-> None])
           /\ UNCHANGED posted
        \/ DryReport(d, o) /\ UNCHANGED posted
        \/ PostOrder(d, o)
  BY DEF Execute
<1>3. o \in Orders /\ o \in 1 .. Len(rows) /\ posted[d][o] \in Nat /\ posted[d][o] <= aborts[d][o]
  BY LocalsAre, RowsAre DEF Placed, Attempts, TypeOK
<1>4. PICK report \in Hands :
        /\ Holding(d, report) /\ report.id = o
        /\ posted' \in {posted, [posted EXCEPT ![d][o] = posted[d][o] + 1]}
        /\ report.status = "filled" =>
             report.ref \in {<<d, n>> : n \in 0 .. posted'[d][o]}
  <2>1. ASSUME NEW status \in {"skipped", "failed"}, UNCHANGED posted,
               Holding(d, [id |-> o, status |-> status, ref |-> None])
        PROVE  \E report \in Hands :
                 /\ Holding(d, report) /\ report.id = o /\ posted' = posted
                 /\ report.status # "filled"
    BY <1>3, <2>1 DEF Hands, Reports
  <2>2. CASE DryReport(d, o) /\ UNCHANGED posted
    <3>1. [id |-> o, status |-> "filled", ref |-> <<d, 0>>] \in Hands
      BY <1>3 DEF Hands, Reports, Refs
    <3> QED
      BY <1>3, <2>2, <3>1 DEF DryReport
  <2>3. CASE PostOrder(d, o)
    <3> DEFINE n == posted[d][o] + 1
    <3>0. posted' = [posted EXCEPT ![d][o] = n]
      BY <2>3 DEF PostOrder
    <3>1. CASE Holding(d, [id |-> o, status |-> "filled", ref |-> <<d, n>>])
      <4>1. [id |-> o, status |-> "filled", ref |-> <<d, n>>] \in Hands
        BY <1>3 DEF Hands, Reports, Refs
      <4>2. posted'[d][o] = n
        BY <1>3, <3>0 DEF TypeOK
      <4> QED
        BY <1>3, <3>0, <3>1, <4>1, <4>2
    <3>2. CASE Holding(d, [id |-> o, status |-> "failed", ref |-> None])
      BY <1>3, <3>0, <3>2 DEF Hands, Reports
    <3> QED
      BY <2>3, <3>1, <3>2 DEF PostOrder
  <2> QED
    BY <1>2, <2>1, <2>2, <2>3
<1>5. /\ posted' \in [Daemons -> [Orders -> Nat]]
      /\ posted'[d][o] \in {posted[d][o], posted[d][o] + 1}
      /\ \A e \in Daemons, p \in Orders : e # d \/ p # o => posted'[e][p] = posted[e][p]
  <2>1. posted \in [Daemons -> [Orders -> Nat]]
    BY DEF TypeOK
  <2>2. CASE posted' = posted
    BY <1>3, <2>1, <2>2
  <2>3. CASE posted' = [posted EXCEPT ![d][o] = posted[d][o] + 1]
    BY <1>3, <2>1, <2>3
  <2> QED
    BY <1>4, <2>2, <2>3
<1>6. \A e \in Daemons, p \in Orders : posted[e][p] <= posted'[e][p]
  BY SMTT(40), <1>3, <1>5 DEF TypeOK
<1>7. daemon' = [daemon EXCEPT ![d] =
        [@ EXCEPT !.pc = "reporting", !.batch = daemon[d].batch \ {report.id}, !.hand = report]]
  BY <1>4 DEF Holding
<1>8. /\ daemon' \in [Daemons -> Locals]
      /\ \A e \in Daemons : e # d => daemon'[e] = daemon[e]
      /\ daemon'[d].pc = "reporting" /\ daemon'[d].since = daemon[d].since
      /\ daemon'[d].listed = daemon[d].listed /\ daemon'[d].batch = daemon[d].batch \ {o}
      /\ daemon'[d].hand = report
  <2> DEFINE b == daemon[d].batch \ {report.id}
  <2>1. b = daemon[d].batch \ {o} /\ b \subseteq Orders
    BY <1>4, LocalsAre
  <2>2. daemon' = [daemon EXCEPT ![d] = [@ EXCEPT !.pc = "reporting", !.batch = b, !.hand = report]]
    BY <1>7, Zenon
  <2> HIDE DEF b
  <2>3. /\ daemon' \in [Daemons -> Locals]
        /\ \A e \in Daemons : e # d => daemon'[e] = daemon[e]
        /\ daemon'[d].pc = "reporting" /\ daemon'[d].since = daemon[d].since
        /\ daemon'[d].listed = daemon[d].listed /\ daemon'[d].batch = b /\ daemon'[d].hand = report
    BY <2>1, <2>2 DEF TypeOK, Locals
  <2> QED
    BY <2>1, <2>3
<1>9. TypeOK'
  BY <1>1, <1>5, <1>8 DEF TypeOK
<1>10. report # None
  BY NoRefAssumption
<1>11. Placed'
  BY <1>1, <1>3, <1>4, <1>8, <1>10 DEF Placed
<1>12. ReportsTrue'
  <2>1. Truthful(report)'
    BY <1>4, <1>5, NoRefAssumption DEF Truthful, Refs
  <2>2. \A e \in Daemons : daemon[e].hand \in Hands \cup {None}
    BY LocalsAre
  <2>3. \A r \in requests : r.report \in Hands
    BY DEF TypeOK, Requests
  <2> QED
    BY <1>1, <1>5, <1>6, <1>8, <2>1, <2>2, <2>3, PostedGrows DEF ReportsTrue
<1>13. ClaimsHold' /\ BooksMatchRows'
  BY <1>1, <1>5, <1>6, PostedGrows DEF ClaimsHold, BooksMatchRows, FilledIsBooked
<1>14. Attempts'
  <2> SUFFICES ASSUME NEW e \in Daemons, NEW p \in Orders
               PROVE  /\ posted'[e][p] <= 1 + aborts'[e][p]
                      /\ p \in daemon'[e].batch => posted'[e][p] <= aborts'[e][p]
                      /\ \/ p <= Len(rows') /\ rows'[p] # "pending"
                         \/ daemon'[e].hand # None /\ daemon'[e].hand.id = p
                         \/ posted'[e][p] <= aborts'[e][p]
    BY DEF Attempts
  <2>1. CASE e = d /\ p = o
    <3>1. aborts[d][o] \in Nat
      BY <1>3 DEF TypeOK
    <3> QED
      BY <1>1, <1>3, <1>4, <1>5, <1>8, <1>10, <2>1, <3>1
  <2>2. CASE e # d \/ p # o
    BY <1>1, <1>5, <1>8, <2>2 DEF Attempts
  <2> QED
    BY <2>1, <2>2
<1>15. ListKept'
  BY <1>1, <1>4, <1>8, <1>10 DEF ListKept
<1> QED
  BY <1>9, <1>11, <1>12, <1>13, <1>14, <1>15

\* The report goes out.
LEMMA ReportStep ==
  ASSUME DInv, NEW d \in Daemons, Report(d)
  PROVE  DInv'
<1> USE DEF DInv
<1> DEFINE q == [from |-> d, report |-> daemon[d].hand, pc |-> "arrived"]
<1>1. /\ UNCHANGED <<rows, execution, posted, aged, aborts, slipped, torn, barred, faults>>
      /\ daemon[d].hand # None /\ requests' = requests \cup {q}
  BY DEF Report, Placed
<1>2. daemon[d].hand \in Hands /\ q \in Requests /\ q.report = daemon[d].hand /\ q.pc = "arrived"
  BY <1>1, LocalsAre DEF Requests
<1>3. daemon' = [daemon EXCEPT ![d].pc = "waiting"]
  BY DEF Report
<1> HIDE DEF q
<1>4. /\ daemon' \in [Daemons -> Locals]
      /\ \A e \in Daemons : e # d => daemon'[e] = daemon[e]
      /\ daemon'[d].pc = "waiting" /\ daemon'[d].since = daemon[d].since
      /\ daemon'[d].listed = daemon[d].listed /\ daemon'[d].batch = daemon[d].batch
      /\ daemon'[d].hand = daemon[d].hand
  BY <1>3 DEF TypeOK, Locals
<1>5. TypeOK'
  BY <1>1, <1>2, <1>4 DEF TypeOK
<1>6. Placed'
  BY <1>1, <1>2, <1>4 DEF Placed
<1>7. ReportsTrue'
  BY <1>1, <1>2, <1>4 DEF ReportsTrue, Truthful
<1>8. ClaimsHold'
  BY <1>1, <1>2 DEF ClaimsHold
<1>9. BooksMatchRows'
  BY <1>1 DEF BooksMatchRows, BooksAgree, FilledIsBooked
<1>10. Attempts' /\ ListKept'
  BY <1>1, <1>4 DEF Attempts, ListKept
<1> QED
  BY <1>5, <1>6, <1>7, <1>8, <1>9, <1>10

\* A daemon starts a new poll from "since": after a batch, after a report
\* without an answer, or after a restart.
LEMMA StartStep ==
  ASSUME DInv, NEW d \in Daemons, Finish(d) \/ Abort(d) \/ Restart(d)
  PROVE  DInv'
<1> USE DEF DInv
<1> DEFINE h == daemon[d].hand
<1>0. Len(rows) \in Nat /\ MaxOrders \in Nat /\ Len(rows) <= MaxOrders /\ aged \in 0 .. Len(rows)
  BY RowsAre DEF TypeOK
<1>1. /\ UNCHANGED <<rows, execution, posted, aged, requests, torn, barred>>
      /\ faults' \in 0 .. MaxFaults
  BY DaemonAssumption DEF Finish, Abort, Restart, NoAnswer, Fault, TypeOK
<1>2. PICK n \in 0 .. Len(rows) :
        /\ daemon' = [daemon EXCEPT ![d] = Started(n)]
        /\ \A o \in 1 .. Len(rows) : rows[o] = "pending" /\ o <= n => o \in slipped'
        /\ slipped \subseteq slipped' /\ slipped' \subseteq Orders
  <2>1. CASE Finish(d)
    <3>1. /\ daemon[d].hand = None /\ daemon[d].batch = {}
          /\ daemon' = [daemon EXCEPT ![d] = Started(Len(rows))]
          /\ slipped' = slipped \cup {o \in (daemon[d].since + 1) .. Len(rows) :
                            rows[o] = "pending" /\ o \notin daemon[d].listed}
      BY <2>1 DEF Finish, Placed
    <3>2. daemon[d].since \in Nat /\ 1 .. Len(rows) \subseteq Orders
      BY LocalsAre, RowsAre
    <3>3. \A o \in 1 .. Len(rows) : rows[o] = "pending" => o \in slipped'
      BY <1>0, <3>1, <3>2 DEF ListKept
    <3>4. slipped \subseteq slipped' /\ slipped' \subseteq Orders
      BY <1>0, <3>1, <3>2 DEF TypeOK
    <3> WITNESS Len(rows) \in 0 .. Len(rows)
    <3> QED
      BY <3>1, <3>3, <3>4
  <2>2. CASE Abort(d)
    <3>1. daemon' = [daemon EXCEPT ![d] = Started(daemon[d].since)] /\ UNCHANGED slipped
      BY <2>2 DEF Abort
    <3>2. daemon[d].since \in 0 .. Len(rows)
      BY <1>0, LocalsAre DEF Placed
    <3> QED
      BY <1>0, <3>1, <3>2 DEF ListKept, TypeOK
  <2>3. CASE Restart(d)
    <3>1. /\ daemon' = [daemon EXCEPT ![d] = Started(aged)]
          /\ slipped' = slipped \cup {o \in 1 .. aged : rows[o] = "pending"}
      BY <2>3 DEF Restart
    <3>2. aged \in 0 .. Len(rows) /\ 1 .. aged \subseteq Orders /\ slipped \subseteq Orders
      <4>1. slipped \subseteq Orders
        BY DEF TypeOK
      <4> QED
        BY <1>0, <4>1 DEF Orders
    <3>3. \A o \in 1 .. Len(rows) : rows[o] = "pending" /\ o <= aged => o \in slipped'
      BY <3>1, <3>2
    <3>4. aged \in 0 .. Len(rows)
      BY <3>2
    <3>5. slipped \subseteq slipped' /\ slipped' \subseteq Orders
      BY <3>1, <3>2
    <3> QED
      BY <3>1, <3>3, <3>4, <3>5
  <2> QED
    BY <2>1, <2>2, <2>3
<1>3. /\ daemon' \in [Daemons -> Locals]
      /\ \A e \in Daemons : e # d => daemon'[e] = daemon[e]
      /\ daemon'[d].pc = "idle" /\ daemon'[d].since = n
      /\ daemon'[d].listed = {} /\ daemon'[d].batch = {} /\ daemon'[d].hand = None
  <2>1. Started(n) \in Locals
    BY <1>0 DEF Started, Locals
  <2> QED
    BY <1>2, <2>1 DEF TypeOK, Started
<1>4. /\ aborts' \in [Daemons -> [Orders -> Nat]]
      /\ \A e \in Daemons, o \in Orders :
           aborts'[e][o] = aborts[e][o] + (IF e = d /\ h # None /\ h.id = o THEN 1 ELSE 0)
  <2>1. h \in Hands \cup {None} /\ (h # None => h.id \in Orders)
    BY LocalsAre DEF Hands
  <2>2. IF h = None THEN aborts' = aborts
        ELSE aborts' = [aborts EXCEPT ![d][h.id] = @ + 1]
    BY DEF Finish, Abort, Restart, Placed
  <2> HIDE DEF h
  <2>3. aborts \in [Daemons -> [Orders -> Nat]]
    BY DEF TypeOK
  <2>4. CASE h = None
    BY <2>2, <2>3, <2>4
  <2>5. CASE h # None
    <3>1. aborts' = [aborts EXCEPT ![d] = [aborts[d] EXCEPT ![h.id] = @ + 1]]
      BY <2>2, <2>5
    <3> QED
      BY <2>1, <2>3, <2>5, <3>1
  <2> QED
    BY <2>4, <2>5
<1>5. TypeOK'
  BY <1>1, <1>2, <1>3, <1>4 DEF TypeOK
<1>6. Placed'
  BY <1>0, <1>1, <1>3 DEF Placed
<1>7. ReportsTrue' /\ ClaimsHold' /\ BooksMatchRows'
  BY <1>1, <1>3 DEF ReportsTrue, Truthful, ClaimsHold, BooksMatchRows, BooksAgree, FilledIsBooked
<1>8. Attempts'
  <2> SUFFICES ASSUME NEW e \in Daemons, NEW p \in Orders
               PROVE  /\ posted'[e][p] <= 1 + aborts'[e][p]
                      /\ p \in daemon'[e].batch => posted'[e][p] <= aborts'[e][p]
                      /\ \/ p <= Len(rows') /\ rows'[p] # "pending"
                         \/ daemon'[e].hand # None /\ daemon'[e].hand.id = p
                         \/ posted'[e][p] <= aborts'[e][p]
    BY DEF Attempts
  <2>1. posted[e][p] \in Nat /\ aborts[e][p] \in Nat
    BY DEF TypeOK
  <2>2. CASE e = d
    <3>1. /\ posted[d][p] <= 1 + aborts[d][p]
          /\ \/ p <= Len(rows) /\ rows[p] # "pending"
             \/ h # None /\ h.id = p
             \/ posted[d][p] <= aborts[d][p]
      BY DEF Attempts
    <3>2. p \notin daemon'[e].batch /\ posted' = posted /\ rows' = rows
      BY <1>1, <1>3, <2>2
    <3>3. CASE h # None /\ h.id = p
      <4>1. aborts'[d][p] = aborts[d][p] + 1
        BY <1>4, <3>3
      <4> QED
        BY <2>1, <2>2, <3>1, <3>2, <4>1
    <3>4. CASE ~(h # None /\ h.id = p)
      <4>1. aborts'[d][p] = aborts[d][p] + 0
        BY <1>4, <3>4
      <4> QED
        BY <2>1, <2>2, <3>1, <3>2, <3>4, <4>1
    <3> QED
      BY <3>3, <3>4
  <2>3. CASE e # d
    <3>1. aborts'[e][p] = aborts[e][p] + 0 /\ posted' = posted /\ rows' = rows
          /\ daemon'[e] = daemon[e]
      BY <1>1, <1>3, <1>4, <2>3
    <3> QED
      BY <2>1, <3>1 DEF Attempts
  <2> QED
    BY <2>2, <2>3
<1>9. ListKept'
  BY <1>1, <1>2, <1>3 DEF ListKept
<1> QED
  BY <1>5, <1>6, <1>7, <1>8, <1>9

-----------------------------------------------------------------------------
\* The copier

\* A row whose status is written keeps its number and the others.
LEMMA RowWrite ==
  ASSUME TypeOK, NEW o \in 1 .. Len(rows), NEW s \in Reports, rows' = [rows EXCEPT ![o] = s]
  PROVE  /\ rows' \in Seq({"pending"} \cup Reports) /\ Len(rows') = Len(rows)
         /\ \A p \in 1 .. Len(rows) : rows'[p] = IF p = o THEN s ELSE rows[p]
<1>1. rows \in Seq({"pending"} \cup Reports)
  BY DEF TypeOK
<1> QED
  BY <1>1, ExceptSeq

\* What a step of the copier may do to the locals of the daemon that asked.
MayAnswer(r) ==
  /\ daemon' \in [Daemons -> Locals]
  /\ \A e \in Daemons :
       /\ daemon'[e].since = daemon[e].since
       /\ daemon'[e].listed = daemon[e].listed /\ daemon'[e].batch = daemon[e].batch
       /\ \/ daemon'[e].pc = daemon[e].pc /\ daemon'[e].hand = daemon[e].hand
          \/ /\ daemon'[e].pc = "working" /\ daemon'[e].hand = None
             /\ daemon[e].hand = r.report

LEMMA AnswerStep ==
  ASSUME TypeOK, NEW r \in requests, Answered(r) \/ UNCHANGED daemon
  PROVE  MayAnswer(r)
<1>1. CASE UNCHANGED daemon
  BY <1>1 DEF MayAnswer, TypeOK
<1>2. CASE daemon' = [daemon EXCEPT ![r.from] = [@ EXCEPT !.pc = "working", !.hand = None]]
           /\ daemon[r.from].hand = r.report
  <2> DEFINE d == r.from
  <2>1. d \in Daemons /\ daemon' = [daemon EXCEPT ![d] = [@ EXCEPT !.pc = "working", !.hand = None]]
    BY <1>2 DEF TypeOK, Requests
  <2> HIDE DEF d
  <2>2. /\ daemon' \in [Daemons -> Locals]
        /\ \A e \in Daemons : e # d => daemon'[e] = daemon[e]
        /\ daemon'[d].pc = "working" /\ daemon'[d].since = daemon[d].since
        /\ daemon'[d].listed = daemon[d].listed
        /\ daemon'[d].batch = daemon[d].batch /\ daemon'[d].hand = None
    BY ZenonT(60), <2>1 DEF TypeOK, Locals
  <2>3. daemon[d].hand = r.report
    BY <1>2 DEF d
  <2> QED
    BY <2>2, <2>3 DEF MayAnswer
<1> QED
  BY <1>1, <1>2 DEF Answered

\* The daemons' part of the invariant, when the rows only settle, no report
\* comes anew, and only a daemon whose row is settled lets go of its report.
LEMMA CopierKeeps ==
  ASSUME DInv, NEW r \in requests, MayAnswer(r),
         UNCHANGED <<posted, aborts, slipped>>, Len(rows') = Len(rows),
         \A o \in 1 .. Len(rows) : rows'[o] = "pending" => rows[o] = "pending",
         UNCHANGED daemon \/ rows'[r.report.id] # "pending",
         \A q \in requests' : \E p \in requests : q.report = p.report,
         \A o \in torn' : o \in torn \/ (o \in 1 .. Len(rows) /\ rows'[o] # "pending"),
         \A o \in Orders : execution'[o] # None => execution[o] # None \/ o \in 1 .. Len(rows)
  PROVE  Placed' /\ ReportsTrue' /\ Attempts' /\ ListKept'
<1> USE DEF DInv
<1>1. Len(rows) \in Nat /\ r.report.id \in 1 .. Len(rows)
  BY RowsAre DEF Placed, TypeOK, Requests, Hands, Orders
<1>2. torn \subseteq 1 .. Len(rows)
  BY <1>1 DEF Placed, TypeOK, Orders
<1>3. Placed'
  <2>1. ASSUME NEW o \in torn' PROVE o <= Len(rows') /\ rows'[o] # "pending"
    <3>1. CASE o \in torn
      <4>1. o \in 1 .. Len(rows) /\ rows[o] # "pending"
        BY <1>2, <3>1 DEF Placed
      <4> QED
        BY <1>1, <4>1
    <3>2. CASE o \in 1 .. Len(rows) /\ rows'[o] # "pending"
      BY <1>1, <3>2
    <3> QED
      BY <3>1, <3>2
  <2>2. \A q \in requests' : q.report.id <= Len(rows')
    BY DEF Placed
  <2>3. \A o \in Orders : execution'[o] # None => o <= Len(rows')
    BY <1>1 DEF Placed
  <2> QED
    BY <2>1, <2>2, <2>3 DEF Placed, MayAnswer
<1>4. ReportsTrue'
  BY DEF ReportsTrue, Truthful, MayAnswer
<1>5. Attempts'
  <2> SUFFICES ASSUME NEW e \in Daemons, NEW p \in Orders
               PROVE  \/ p <= Len(rows') /\ rows'[p] # "pending"
                      \/ daemon'[e].hand # None /\ daemon'[e].hand.id = p
                      \/ posted'[e][p] <= aborts'[e][p]
    BY DEF Attempts, MayAnswer
  <2>1. CASE p <= Len(rows) /\ rows[p] # "pending"
    <3>1. p \in 1 .. Len(rows)
      BY <1>1, <2>1 DEF Orders
    <3> QED
      BY <2>1, <3>1
  <2>2. CASE daemon[e].hand # None /\ daemon[e].hand.id = p
    <3>1. CASE daemon'[e].hand = daemon[e].hand
      BY <2>2, <3>1
    <3>2. CASE daemon'[e].hand # daemon[e].hand
      <4>1. p = r.report.id /\ rows'[p] # "pending"
        BY <2>2, <3>2 DEF MayAnswer
      <4> QED
        BY <1>1, <4>1
    <3> QED
      BY <3>1, <3>2
  <2>3. CASE posted[e][p] <= aborts[e][p]
    BY <2>3
  <2> QED
    BY <2>1, <2>2, <2>3 DEF Attempts
<1>6. ListKept'
  <2> SUFFICES ASSUME NEW e \in Daemons, NEW o \in 1 .. Len(rows), rows'[o] = "pending"
               PROVE  /\ o \in daemon'[e].listed =>
                           \/ o \in daemon'[e].batch
                           \/ daemon'[e].hand # None /\ daemon'[e].hand.id = o
                      /\ o <= daemon'[e].since => o \in slipped'
    BY DEF ListKept
  <2>1. daemon'[e].hand = daemon[e].hand \/ daemon[e].hand.id # o
    BY DEF MayAnswer
  <2> QED
    BY <2>1 DEF ListKept, MayAnswer
<1> QED
  BY <1>3, <1>4, <1>5, <1>6

\* The first report settles the row.
LEMMA ClaimStep ==
  ASSUME DInv, NEW r \in requests, Claim(r)
  PROVE  DInv'
<1> USE DEF DInv
<1> DEFINE o == r.report.id
           q == [r EXCEPT !.pc = "claimed"]
<1>1. /\ UNCHANGED <<execution, posted, aged, aborts, slipped, torn, barred, faults>>
      /\ r.pc = "arrived"
  BY DEF Claim
<1>2. r \in Requests /\ r.report \in Hands /\ o \in Orders /\ o \in 1 .. Len(rows)
      /\ r.report.status \in Reports
  BY RowsAre DEF TypeOK, Requests, Hands, Placed, Orders
<1>3. MayAnswer(r)
  BY AnswerStep DEF Claim
<1>4. q \in Requests /\ q.report = r.report /\ q.pc = "claimed"
  BY <1>2 DEF Requests
<1>5. execution[o] = None \/ rows[o] # "pending"
  BY <1>2 DEF BooksMatchRows, BooksAgree, Placed
<1> HIDE DEF q
<1>6. CASE rows[o] # "pending"
  <2>1. UNCHANGED rows /\ requests' = requests \ {r}
    BY <1>6 DEF Claim, Answered
  <2>2. Placed' /\ ReportsTrue' /\ Attempts' /\ ListKept'
    BY <1>1, <1>3, <1>6, <2>1, CopierKeeps DEF Placed, TypeOK
  <2>3. TypeOK'
    BY <1>1, <1>3, <2>1 DEF TypeOK, MayAnswer
  <2>4. ClaimsHold'
    BY <1>1, <2>1 DEF ClaimsHold
  <2>5. BooksMatchRows'
    BY <1>1, <2>1 DEF BooksMatchRows, BooksAgree, FilledIsBooked
  <2> QED
    BY <2>2, <2>3, <2>4, <2>5
<1>7. CASE rows[o] = "pending"
  <2>1. /\ rows' = [rows EXCEPT ![o] = r.report.status]
        /\ requests' \subseteq (requests \ {r}) \cup {q}
        /\ requests \ {r} \subseteq requests'
        /\ q \in requests' => r.report.status = "filled"
        /\ r.report.status = "filled" => q \in requests'
    <3>1. CASE r.report.status = "filled"
      <4>1. rows' = [rows EXCEPT ![o] = r.report.status] /\ requests' = (requests \ {r}) \cup {q}
        BY <1>7, <3>1 DEF Claim, q
      <4> QED
        BY <3>1, <4>1
    <3>2. CASE r.report.status # "filled"
      <4>1. rows' = [rows EXCEPT ![o] = r.report.status] /\ requests' = requests \ {r}
        BY <1>7, <3>2 DEF Claim, Answered
      <4>2. q \notin requests
        BY <1>4, <3>2 DEF ClaimsHold
      <4> QED
        BY <3>2, <4>1, <4>2
    <3> QED
      BY <3>1, <3>2
  <2>2. /\ rows' \in Seq({"pending"} \cup Reports) /\ Len(rows') = Len(rows)
        /\ \A p \in 1 .. Len(rows) : rows'[p] = IF p = o THEN r.report.status ELSE rows[p]
    BY <1>2, <2>1, RowWrite
  <2>3. rows'[o] # "pending" /\ \A p \in 1 .. Len(rows) : rows'[p] = "pending" => rows[p] = "pending"
    BY <1>2, <2>2 DEF Reports
  <2>4. Placed' /\ ReportsTrue' /\ Attempts' /\ ListKept'
    <3>1. \A x \in requests' : \E p \in requests : x.report = p.report
      BY <1>4, <2>1
    <3>2. \A p \in torn' : p \in torn
      BY <1>1
    <3> QED
      BY <1>1, <1>3, <2>2, <2>3, <3>1, <3>2, CopierKeeps
  <2>5. TypeOK'
    BY <1>1, <1>3, <1>4, <2>1, <2>2 DEF TypeOK, MayAnswer
  <2>6. \A x \in requests : x.pc = "claimed" => x.report.id # o
    BY <1>7 DEF ClaimsHold
  <2>7. ClaimsHold'
    <3> SUFFICES ASSUME NEW x \in requests', x.pc = "claimed"
                 PROVE  /\ x.report.status = "filled" /\ rows'[x.report.id] = "filled"
                        /\ execution'[x.report.id] = None
                        /\ \A y \in requests' : y.pc = "claimed" /\ y.report.id = x.report.id => y = x
      BY DEF ClaimsHold
    <3>1. CASE x = q
      BY <1>1, <1>2, <1>4, <1>5, <1>7, <2>1, <2>2, <2>6, <3>1
    <3>2. CASE x \in requests \ {r}
      <4>1. x.report.id \in 1 .. Len(rows) /\ x.report.id # o
        BY <2>6, <3>2, RowsAre DEF Placed, TypeOK, Requests, Hands, Orders
      <4> QED
        BY <1>1, <1>4, <2>1, <2>2, <3>2, <4>1 DEF ClaimsHold
    <3> QED
      BY <2>1, <3>1, <3>2
  <2>8. BooksAgree'
    <3> SUFFICES ASSUME NEW p \in Orders, execution[p] # None
                 PROVE  /\ rows'[p] = "filled" \/ p \in torn
                        /\ execution[p][2] <= posted[execution[p][1]][p]
      BY <1>1 DEF BooksAgree
    <3>1. /\ rows[p] = "filled" \/ p \in torn
          /\ execution[p][2] <= posted[execution[p][1]][p]
      BY DEF BooksMatchRows, BooksAgree
    <3>2. CASE p \in 1 .. Len(rows)
      BY <1>5, <1>7, <2>2, <3>1, <3>2
    <3>3. CASE p \notin 1 .. Len(rows)
      <4>1. rows'[p] = rows[p] \/ p \in torn
        BY <1>2, <2>1, <3>3
      <4> QED
        BY <3>1, <4>1
    <3> QED
      BY <3>2, <3>3
  <2>9. FilledIsBooked'
    <3> SUFFICES ASSUME NEW p \in 1 .. Len(rows), rows'[p] = "filled"
                 PROVE  \/ execution'[p] # None \/ p \in torn'
                        \/ \E x \in requests' : x.report.id = p /\ x.pc = "claimed"
      BY <2>2 DEF FilledIsBooked
    <3>1. CASE p = o
      BY <1>4, <2>1, <2>2, <3>1
    <3>2. CASE p # o
      BY <1>1, <2>1, <2>2, <3>2 DEF BooksMatchRows, FilledIsBooked
    <3> QED
      BY <3>1, <3>2
  <2> QED
    BY <2>4, <2>5, <2>7, <2>8, <2>9 DEF BooksMatchRows
<1> QED
  BY <1>6, <1>7

\* The claimed report is booked: the row has no execution yet.
LEMMA BookStep ==
  ASSUME DInv, NEW r \in requests, Book(r)
  PROVE  DInv'
<1> USE DEF DInv
<1> DEFINE o == r.report.id
<1>1. /\ UNCHANGED <<rows, posted, aged, aborts, slipped, torn, barred, faults>>
      /\ r.pc = "claimed" /\ requests' = requests \ {r}
  BY DEF Book, Answered
<1>2. o \in Orders /\ r.report.ref \in Refs \cup {None} /\ r.report.status = "filled"
      /\ execution[o] = None /\ rows[o] = "filled" /\ Len(rows) \in Nat
      /\ o \in 1 .. Len(rows)
  BY SMTT(40), <1>1, RowsAre DEF TypeOK, Requests, Hands, ClaimsHold, Placed, Orders
<1>3. execution' = [execution EXCEPT ![o] = r.report.ref]
  BY <1>2 DEF Book
<1>4. r.report.ref # None /\ r.report.ref[2] <= posted[r.report.ref[1]][o]
  BY <1>2 DEF ReportsTrue, Truthful
<1>5. MayAnswer(r)
  BY AnswerStep DEF Book
<1>6. Placed' /\ ReportsTrue' /\ Attempts' /\ ListKept'
  <2>1. \A p \in torn' : p \in torn
    BY <1>1
  <2>2. \A q \in requests' : \E p \in requests : q.report = p.report
    BY <1>1
  <2>3. \A p \in Orders : execution'[p] # None => execution[p] # None \/ p \in 1 .. Len(rows)
    BY <1>2, <1>3 DEF TypeOK
  <2> QED
    BY <1>1, <1>2, <1>5, <2>1, <2>2, <2>3, CopierKeeps
<1>7. TypeOK'
  BY <1>1, <1>2, <1>3, <1>5 DEF TypeOK, MayAnswer
<1>8. \A p \in Orders : execution'[p] = IF p = o THEN r.report.ref ELSE execution[p]
  BY <1>2, <1>3 DEF TypeOK
<1>9. ClaimsHold'
  <2>1. \A x \in requests' : x.pc = "claimed" => x.report.id \in Orders /\ x.report.id # o
    BY <1>1 DEF ClaimsHold, TypeOK, Requests, Hands
  <2> QED
    BY <1>1, <1>8, <2>1 DEF ClaimsHold
<1>10. BooksAgree'
  BY <1>1, <1>2, <1>4, <1>8 DEF BooksMatchRows, BooksAgree
<1>11. FilledIsBooked'
  <2> SUFFICES ASSUME NEW p \in 1 .. Len(rows), rows[p] = "filled"
               PROVE  \/ execution'[p] # None \/ p \in torn
                      \/ \E x \in requests' : x.report.id = p /\ x.pc = "claimed"
    BY <1>1 DEF FilledIsBooked
  <2>1. p \in Orders
    BY RowsAre
  <2>2. CASE p = o
    BY <1>4, <1>8, <2>1, <2>2
  <2>3. CASE p # o
    BY <1>1, <1>8, <2>1, <2>3 DEF BooksMatchRows, FilledIsBooked
  <2> QED
    BY <2>2, <2>3
<1> QED
  BY <1>6, <1>7, <1>9, <1>10, <1>11 DEF BooksMatchRows

\* The booking fails, or seems to: the row is set to failed.
LEMMA BookErrStep ==
  ASSUME DInv, NEW r \in requests, BookErr(r)
  PROVE  DInv'
<1> USE DEF DInv
<1> DEFINE o == r.report.id
<1>1. /\ UNCHANGED <<posted, aged, daemon, aborts, slipped, barred>>
      /\ r.pc = "claimed" /\ requests' = requests \ {r} /\ rows' = [rows EXCEPT ![o] = "failed"]
      /\ faults' \in 0 .. MaxFaults
  BY DaemonAssumption DEF BookErr, Fault, TypeOK
<1>2. o \in Orders /\ o \in 1 .. Len(rows) /\ r.report.ref \in Refs \cup {None}
      /\ r.report.status = "filled" /\ execution[o] = None /\ rows[o] = "filled"
  BY SMTT(40), <1>1, RowsAre DEF TypeOK, Requests, Hands, ClaimsHold, Placed, Orders
<1>3. /\ rows' \in Seq({"pending"} \cup Reports) /\ Len(rows') = Len(rows)
      /\ \A p \in 1 .. Len(rows) : rows'[p] = IF p = o THEN "failed" ELSE rows[p]
  BY <1>1, <1>2, RowWrite DEF Reports
<1>4. \/ UNCHANGED <<execution, torn>>
      \/ execution' = [execution EXCEPT ![o] = r.report.ref] /\ torn' = torn \cup {o}
  BY <1>2 DEF BookErr
<1>5. r.report.ref # None /\ r.report.ref[2] <= posted[r.report.ref[1]][o]
  BY <1>2 DEF ReportsTrue, Truthful
<1>6. Placed' /\ ReportsTrue' /\ Attempts' /\ ListKept'
  <2>1. MayAnswer(r)
    BY <1>1, AnswerStep
  <2>2. \A q \in requests' : \E p \in requests : q.report = p.report
    BY <1>1
  <2>3. \A p \in 1 .. Len(rows) : rows'[p] = "pending" => rows[p] = "pending"
    BY <1>3
  <2>4. \A p \in torn' : p \in torn \/ (p \in 1 .. Len(rows) /\ rows'[p] # "pending")
    BY <1>2, <1>3, <1>4
  <2>5. \A p \in Orders : execution'[p] # None => execution[p] # None \/ p \in 1 .. Len(rows)
    BY <1>2, <1>4 DEF TypeOK
  <2> QED
    BY <1>1, <1>3, <2>1, <2>2, <2>3, <2>4, <2>5, CopierKeeps
<1>7. TypeOK'
  BY <1>1, <1>2, <1>3, <1>4 DEF TypeOK
<1>8. \A x \in requests' : x.pc = "claimed" =>
        x.report.id \in Orders /\ x.report.id \in 1 .. Len(rows) /\ x.report.id # o
  BY <1>1, RowsAre DEF ClaimsHold, TypeOK, Requests, Hands, Placed, Orders
<1>9. \A p \in Orders : p # o => execution'[p] = execution[p]
  BY <1>2, <1>4 DEF TypeOK
<1>10. ClaimsHold'
  BY <1>1, <1>3, <1>8, <1>9 DEF ClaimsHold
<1>11. BooksAgree'
  <2> SUFFICES ASSUME NEW p \in Orders, execution'[p] # None
               PROVE  /\ rows'[p] = "filled" \/ p \in torn'
                      /\ execution'[p][2] <= posted[execution'[p][1]][p]
    BY <1>1 DEF BooksAgree
  <2>1. CASE p = o
    <3>1. execution' = [execution EXCEPT ![o] = r.report.ref] /\ torn' = torn \cup {o}
      BY <1>2, <1>4, <2>1
    <3>2. execution'[o] = r.report.ref
      BY <1>2, <3>1 DEF TypeOK
    <3> QED
      BY <1>5, <2>1, <3>1, <3>2
  <2>2. CASE p # o
    <3>1. /\ rows[p] = "filled" \/ p \in torn
          /\ execution[p][2] <= posted[execution[p][1]][p] /\ execution'[p] = execution[p]
      BY <1>9, <2>2 DEF BooksMatchRows, BooksAgree
    <3>2. rows'[p] = rows[p] /\ torn \subseteq torn'
      BY <1>1, <1>4, <2>2 DEF TypeOK
    <3> QED
      BY <3>1, <3>2
  <2> QED
    BY <2>1, <2>2
<1>12. FilledIsBooked'
  <2> SUFFICES ASSUME NEW p \in 1 .. Len(rows), rows'[p] = "filled"
               PROVE  \/ execution'[p] # None \/ p \in torn'
                      \/ \E x \in requests' : x.report.id = p /\ x.pc = "claimed"
    BY <1>3 DEF FilledIsBooked
  <2>1. p \in Orders /\ p # o /\ rows[p] = "filled"
    BY <1>3, RowsAre
  <2> QED
    BY <1>1, <1>4, <1>9, <2>1 DEF BooksMatchRows, FilledIsBooked
<1> QED
  BY <1>6, <1>7, <1>10, <1>11, <1>12 DEF BooksMatchRows

\* The copier dies with its requests.
LEMMA DieStep ==
  ASSUME DInv, Die
  PROVE  DInv'
<1> USE DEF DInv
<1>1. /\ UNCHANGED <<rows, execution, posted, aged, daemon, aborts, slipped, barred>>
      /\ requests' = {} /\ faults' \in 0 .. MaxFaults
      /\ torn' = torn \cup {r.report.id : r \in {q \in requests : q.pc = "claimed"}}
  BY DaemonAssumption DEF Die, Fault, TypeOK
<1>2. ASSUME NEW o \in torn' PROVE o \in Orders /\ o <= Len(rows) /\ rows[o] # "pending"
  <2>1. CASE o \in torn
    BY <2>1 DEF Placed, TypeOK
  <2>2. CASE \E r \in requests : r.pc = "claimed" /\ o = r.report.id
    BY <2>2 DEF Placed, ClaimsHold, TypeOK, Requests, Hands
  <2> QED
    BY <1>1, <2>1, <2>2
<1>3. TypeOK' /\ Placed'
  BY <1>1, <1>2 DEF TypeOK, Placed
<1>4. ReportsTrue' /\ ClaimsHold'
  BY <1>1 DEF ReportsTrue, Truthful, ClaimsHold
<1>5. BooksMatchRows'
  BY <1>1 DEF BooksMatchRows, BooksAgree, FilledIsBooked
<1>6. Attempts' /\ ListKept'
  BY <1>1 DEF Attempts, ListKept
<1> QED
  BY <1>3, <1>4, <1>5, <1>6

-----------------------------------------------------------------------------
\* follow and the clock

LEMMA EnqueueStep ==
  ASSUME DInv, Enqueue
  PROVE  DInv'
<1> USE DEF DInv
<1>1. /\ UNCHANGED <<execution, posted, aged, daemon, requests, aborts, slipped, torn, barred, faults>>
      /\ rows' = Append(rows, "pending") /\ Len(rows) < MaxOrders
  BY DEF Enqueue
<1>2. /\ rows' \in Seq({"pending"} \cup Reports) /\ Len(rows') = Len(rows) + 1
      /\ Len(rows) \in Nat /\ MaxOrders \in Nat
      /\ \A o \in 1 .. Len(rows) : rows'[o] = rows[o]
      /\ rows'[Len(rows) + 1] = "pending"
  BY <1>1, AppendProperties, RowsAre DEF TypeOK
<1>3. TypeOK'
  BY <1>1, <1>2 DEF TypeOK
<1>4. \A o \in Orders : o <= Len(rows) => o \in 1 .. Len(rows)
  BY <1>2 DEF Orders
<1>5. Placed'
  <2>1. \A d \in Daemons : daemon[d].since \in Nat /\ daemon[d].hand \in Hands \cup {None}
    BY LocalsAre
  <2>2. \A h \in Hands : h.id \in Orders
    BY DEF Hands
  <2>3. \A r \in requests : r.report.id \in Orders
    BY <2>2 DEF TypeOK, Requests
  <2>4. \A o \in torn : o \in Orders
    BY DEF TypeOK
  <2>5. 1 .. Len(rows) \subseteq 1 .. Len(rows') /\ \A o \in Orders : o <= Len(rows) => o <= Len(rows')
    BY <1>2 DEF Orders
  <2>6. \A d \in Daemons : daemon[d].since <= Len(rows')
    BY <1>2, <2>1 DEF Placed
  <2> QED
    BY <1>1, <1>2, <1>4, <2>1, <2>2, <2>3, <2>4, <2>5, <2>6 DEF Placed
<1>6. ReportsTrue'
  BY <1>1 DEF ReportsTrue, Truthful
<1>7. ClaimsHold'
  <2>1. \A r \in requests : r.report.id \in 1 .. Len(rows)
    BY <1>4 DEF Placed, TypeOK, Requests, Hands
  <2> QED
    BY <1>1, <1>2, <2>1 DEF ClaimsHold
<1>8. BooksAgree'
  <2>1. \A o \in Orders : rows[o] = "filled" => rows'[o] = "filled" \/ o \notin 1 .. Len(rows)
    BY <1>2
  <2>2. \A o \in Orders : execution[o] # None => o \in 1 .. Len(rows)
    BY <1>4 DEF Placed
  <2> QED
    BY <1>1, <2>1, <2>2 DEF BooksMatchRows, BooksAgree
<1>9. FilledIsBooked'
  BY <1>1, <1>2 DEF BooksMatchRows, FilledIsBooked
<1>10. Attempts'
  BY <1>1, <1>2, <1>4 DEF Attempts
<1>11. ListKept'
  <2>1. \A d \in Daemons : /\ Len(rows) + 1 \notin daemon[d].listed
                           /\ ~(Len(rows) + 1 <= daemon[d].since)
    BY <1>2, LocalsAre DEF Placed
  <2>2. \A o \in 1 .. Len(rows') : o \in 1 .. Len(rows) \/ o = Len(rows) + 1
    BY <1>2
  <2> QED
    BY <1>1, <1>2, <2>1, <2>2 DEF ListKept
<1> QED
  BY <1>3, <1>5, <1>6, <1>7, <1>8, <1>9, <1>10, <1>11 DEF BooksMatchRows

LEMMA DayStep ==
  ASSUME DInv, DayPasses
  PROVE  DInv'
<1> USE DEF DInv
<1>1. /\ UNCHANGED <<rows, execution, posted, daemon, requests, aborts, slipped, torn, barred, faults>>
      /\ aged' \in 0 .. Len(rows)
  BY RowsAre DEF DayPasses, TypeOK
<1> QED
  BY <1>1 DEF TypeOK, Placed, ReportsTrue, Truthful, ClaimsHold, BooksMatchRows, BooksAgree,
     FilledIsBooked, Attempts, ListKept

\* Where the user lives decides what is listed from now on, nothing else.
LEMMA RelocateStep ==
  ASSUME DInv, Relocate
  PROVE  DInv'
<1> USE DEF DInv
<1>1. /\ UNCHANGED <<rows, execution, posted, aged, daemon, requests, aborts, slipped, torn>>
      /\ barred' \subseteq Abroad /\ faults' \in 0 .. MaxFaults
  BY DaemonAssumption DEF Relocate, Fault, TypeOK
<1> QED
  BY <1>1 DEF TypeOK, Placed, ReportsTrue, Truthful, ClaimsHold, BooksMatchRows, BooksAgree,
     FilledIsBooked, Attempts, ListKept

-----------------------------------------------------------------------------
LEMMA DaemonNext == DInv /\ [Next]_vars => DInv'
<1> SUFFICES ASSUME DInv, [Next]_vars PROVE DInv'
  OBVIOUS
<1>1. CASE UNCHANGED vars
  BY <1>1 DEF vars, DInv, TypeOK, Placed, ReportsTrue, Truthful, ClaimsHold, BooksMatchRows,
     BooksAgree, FilledIsBooked, Attempts, ListKept
<1>2. ASSUME NEW d \in Daemons, Poll(d) \/ Restart(d) PROVE DInv'
  BY <1>2, ListStep, ExecuteStep, ReportStep, StartStep DEF Poll
<1>3. ASSUME NEW r \in requests, Claim(r) \/ Book(r) \/ BookErr(r) PROVE DInv'
  BY <1>3, ClaimStep, BookStep, BookErrStep
<1>4. CASE Next
  BY <1>2, <1>3, <1>4, DieStep, EnqueueStep, DayStep, RelocateStep DEF Next, Copier
<1> QED
  BY <1>1, <1>4

LEMMA DaemonInvariant == Spec => []DInv
BY DaemonInit, DaemonNext, PTL DEF Spec

\* Rows, executions and locals keep their types, for any number of daemons.
THEOREM DaemonTypes == Spec => []TypeOK
<1>1. DInv => TypeOK
  BY DEF DInv
<1> QED
  BY <1>1, DaemonInvariant, PTL

\* A booked row is filled and stands for an order that its daemon has posted, a
\* filled row is booked: whatever is reported twice, late, by two daemons, or cut
\* off by a crash of the copier.
THEOREM BooksStayRight == Spec => []BooksMatchRows
<1>1. DInv => BooksMatchRows
  BY DEF DInv
<1> QED
  BY <1>1, DaemonInvariant, PTL

\* A daemon posts an order for a row once more only after it has given up a
\* report of that row.
THEOREM OnePostPerReport == Spec => []PostedOncePerReport
<1>1. DInv => PostedOncePerReport
  BY DEF DInv, Attempts, PostedOncePerReport
<1> QED
  BY <1>1, DaemonInvariant, PTL

\* What "since" has passed while it was pending has slipped in a known way.
THEOREM OnlyKnownSlips == Spec => []NothingElseSlips
<1>1. DInv => NothingElseSlips
  <2> SUFFICES ASSUME DInv, NEW o \in 1 .. Len(rows), rows[o] = "pending",
                      \A d \in Daemons : o <= daemon[d].since /\ ~InHand(d, o)
               PROVE  o \in slipped \/ \E r \in requests : r.report.id = o
    BY DEF NothingElseSlips
  <2>1. PICK d \in Daemons : o <= daemon[d].since
    BY DaemonAssumption
  <2> QED
    BY <2>1 DEF DInv, ListKept
<1> QED
  BY <1>1, DaemonInvariant, PTL
=============================================================================
