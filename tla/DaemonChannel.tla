---------------------------- MODULE DaemonChannel ----------------------------
(***************************************************************************)
(* Channel B: the user's own daemons list their pending copy orders from   *)
(* the copier (GET /me/copy-orders), execute them with a local key, and    *)
(* report what came out (POST /me/copy-orders/{id}/result).                *)
(*                                                                         *)
(* Nobody claims an order before it is executed; a row is settled by the   *)
(* first report that reaches it.  A daemon keeps nothing on disk: it knows *)
(* the time up to which it has listed ("since"), and forgets it when it is *)
(* restarted.                                                              *)
(*                                                                         *)
(* Rows are numbered in the order they are enqueued, so a time is the      *)
(* number of rows that are older.  A report is taken through the copier    *)
(* one statement at a time, also after the daemon has stopped waiting.     *)
(***************************************************************************)
EXTENDS Naturals, Sequences, FiniteSets

CONSTANTS
  Daemons,     \* daemon processes of the user
  MaxOrders,   \* bound: rows
  Limit,       \* rows per list request
  Posters,     \* the daemons that send orders (POLYMARKET_CLOB_POST); others sign only
  Abroad,      \* the rows whose execute_venue the other jurisdiction does not allow
  MaxFaults,   \* bound: lost answers, failed statements, crashes, changes of jurisdiction
  None

ASSUME DaemonAssumption ==
  /\ MaxOrders \in Nat \ {0} /\ Limit \in Nat \ {0}
  /\ Daemons # {} /\ Posters \subseteq Daemons /\ MaxFaults \in Nat
  /\ Abroad \subseteq 1 .. MaxOrders

Orders   == 1 .. MaxOrders
Reports  == {"filled", "failed", "skipped"}
Refs     == Daemons \X Nat   \* the n-th venue order of a daemon for a row
Hands    == [id : Orders, status : Reports, ref : Refs \cup {None}]

ASSUME NoRefAssumption == None \notin Refs /\ None \notin Hands

VARIABLES
  rows,        \* the status of each row, in the order of enqueued_at
  execution,   \* copy_execution: the reference that was booked, or None
  posted,      \* orders at the venue by daemon and row
  aged,        \* rows older than 24 hours
  daemon,      \* the locals of each daemon
  requests,    \* reports under way in the copier
  aborts,      \* history: reports of a row a daemon has given up
  slipped,     \* history: pending rows that fell before a daemon's "since" without
               \* being in its batch
  torn,        \* history: rows whose report was cut off between its statements, or
               \* whose booking succeeded without an answer
  barred,      \* the rows the user's jurisdiction does not allow at the moment
  faults

vars == <<rows, execution, posted, aged, daemon, requests, aborts, slipped, torn, barred, faults>>

Requests == [from : Daemons, report : Hands, pc : {"arrived", "claimed"}]
Locals   == [pc : {"idle", "working", "reporting", "waiting"}, since : 0 .. MaxOrders,
             listed : SUBSET Orders, batch : SUBSET Orders, hand : Hands \cup {None}]

Fault == faults < MaxFaults /\ faults' = faults + 1

Started(since) == [pc |-> "idle", since |-> since, listed |-> {}, batch |-> {}, hand |-> None]

-----------------------------------------------------------------------------
\* The daemon

\* list_copy_orders_since: the oldest Limit pending rows from "since" on.
Listed(since) ==
  LET due == {o \in 1 .. Len(rows) : o > since /\ rows[o] = "pending"}
  IN  {o \in due : Cardinality({p \in due : p < o}) < Limit}

\* poll_once: GET /me/copy-orders.  The jurisdiction is looked at after the
\* limit: what it does not allow takes its place in the list and stays pending.
List(d) ==
  /\ daemon[d].pc = "idle"
  /\ LET batch == Listed(daemon[d].since) \ barred IN
       daemon' = [daemon EXCEPT ![d] = [@ EXCEPT !.pc = "working", !.batch = batch, !.listed = batch]]
  /\ UNCHANGED <<rows, execution, posted, aged, requests, aborts, slipped, torn, barred, faults>>

Holding(d, report) ==
  daemon' = [daemon EXCEPT ![d] =
    [@ EXCEPT !.pc = "reporting", !.batch = daemon[d].batch \ {report.id}, !.hand = report]]

\* What is not posted is reported as done all the same: a dry run, or a
\* signature that is not submitted.
DryReport(d, o) == Holding(d, [id |-> o, status |-> "filled", ref |-> <<d, 0>>])

\* execute_local: the order is signed afresh, with a new salt, and posted; the
\* answer may be an error although the venue has the order.
PostOrder(d, o) ==
  LET n == posted[d][o] + 1 IN
  /\ \/ Holding(d, [id |-> o, status |-> "filled", ref |-> <<d, n>>])
     \/ Holding(d, [id |-> o, status |-> "failed", ref |-> None])
  /\ posted' = [posted EXCEPT ![d][o] = n]

\* The oldest row of the batch: above local_max_notional; failed without an
\* order, for want of a key, a venue or a signature; dry; or posted.
Execute(d) ==
  /\ daemon[d].pc = "working"
  /\ \E o \in daemon[d].batch :
       /\ \A p \in daemon[d].batch : o <= p
       /\ \/ /\ \E status \in {"skipped", "failed"} :
                  Holding(d, [id |-> o, status |-> status, ref |-> None])
             /\ UNCHANGED posted
          \/ d \notin Posters /\ DryReport(d, o) /\ UNCHANGED posted
          \/ d \in Posters /\ PostOrder(d, o)
  /\ UNCHANGED <<rows, execution, aged, requests, aborts, slipped, torn, barred, faults>>

Report(d) ==
  /\ daemon[d].pc = "reporting"
  /\ requests' = requests \cup {[from |-> d, report |-> daemon[d].hand, pc |-> "arrived"]}
  /\ daemon'   = [daemon EXCEPT ![d].pc = "waiting"]
  /\ UNCHANGED <<rows, execution, posted, aged, aborts, slipped, torn, barred, faults>>

\* since = now, after the batch: what was enqueued meanwhile, was beyond the
\* limit, or was filtered out by the jurisdiction, is not listed again.
Finish(d) ==
  /\ daemon[d].pc = "working" /\ daemon[d].batch = {}
  /\ daemon'  = [daemon EXCEPT ![d] = Started(Len(rows))]
  /\ slipped' = slipped \cup
       {o \in (daemon[d].since + 1) .. Len(rows) : rows[o] = "pending" /\ o \notin daemon[d].listed}
  /\ UNCHANGED <<rows, execution, posted, aged, requests, aborts, torn, barred, faults>>

\* The answer is lost or late, or was an error, or the copier has died.
NoAnswer(d) ==
  \/ Fault
  \/ /\ ~\E r \in requests : r.from = d /\ r.report = daemon[d].hand
     /\ UNCHANGED faults

\* Mutant: a poll that fails counts as listed.
AbortAndAdvance(d) ==
  /\ daemon[d].pc = "waiting"
  /\ NoAnswer(d)
  /\ daemon' = [daemon EXCEPT ![d] = Started(Len(rows))]
  /\ aborts' = [aborts EXCEPT ![d][daemon[d].hand.id] = @ + 1]
  /\ UNCHANGED <<rows, execution, posted, aged, requests, slipped, torn, barred>>

\* No answer to the report, or an error: poll_once ends with "since" as it was.
Abort(d) ==
  /\ daemon[d].pc = "waiting"
  /\ NoAnswer(d)
  /\ daemon' = [daemon EXCEPT ![d] = Started(@.since)]
  /\ aborts' = [aborts EXCEPT ![d][daemon[d].hand.id] = @ + 1]
  /\ UNCHANGED <<rows, execution, posted, aged, requests, slipped, torn, barred>>

\* The daemon is started again: since = now - 24h.
Restart(d) ==
  /\ Fault
  /\ daemon'  = [daemon EXCEPT ![d] = Started(aged)]
  /\ aborts'  = IF daemon[d].hand = None THEN aborts
                ELSE [aborts EXCEPT ![d][daemon[d].hand.id] = @ + 1]
  /\ slipped' = slipped \cup {o \in 1 .. aged : rows[o] = "pending"}
  /\ UNCHANGED <<rows, execution, posted, aged, requests, torn, barred>>

-----------------------------------------------------------------------------
\* The copier: report_result

\* The daemon that still waits for r goes on with its batch.
Answered(r) ==
  /\ requests' = requests \ {r}
  /\ daemon'   = IF daemon[r.from].pc = "waiting" /\ daemon[r.from].hand = r.report
                 THEN [daemon EXCEPT ![r.from] = [@ EXCEPT !.pc = "working", !.hand = None]]
                 ELSE daemon

\* Mutant: the status is written whatever it was.
ClaimAnyway(r) ==
  /\ r.pc = "arrived"
  /\ rows' = [rows EXCEPT ![r.report.id] = r.report.status]
  /\ IF r.report.status = "filled"
     THEN requests' = (requests \ {r}) \cup {[r EXCEPT !.pc = "claimed"]} /\ UNCHANGED daemon
     ELSE Answered(r)
  /\ UNCHANGED <<execution, posted, aged, aborts, slipped, torn, barred, faults>>

\* Mutant: what is not filled stays pending, for another attempt.
ClaimFilledOnly(r) ==
  /\ r.pc = "arrived"
  /\ IF r.report.status = "filled" /\ rows[r.report.id] = "pending"
     THEN rows' = [rows EXCEPT ![r.report.id] = r.report.status] ELSE UNCHANGED rows
  /\ IF r.report.status = "filled" /\ rows[r.report.id] = "pending"
     THEN requests' = (requests \ {r}) \cup {[r EXCEPT !.pc = "claimed"]} /\ UNCHANGED daemon
     ELSE Answered(r)
  /\ UNCHANGED <<execution, posted, aged, aborts, slipped, torn, barred, faults>>

\* Mutant: the row is claimed as channel A does it, before its report is booked.
ClaimDispatched(r) ==
  /\ r.pc = "arrived"
  /\ IF rows[r.report.id] = "pending"
     THEN /\ rows' = [rows EXCEPT ![r.report.id] = "dispatched"]
          /\ IF r.report.status = "filled"
             THEN requests' = (requests \ {r}) \cup {[r EXCEPT !.pc = "claimed"]} /\ UNCHANGED daemon
             ELSE Answered(r)
     ELSE UNCHANGED rows /\ Answered(r)
  /\ UNCHANGED <<execution, posted, aged, aborts, slipped, torn, barred, faults>>

\* claim_copy_order_status: the first report settles the row, every other is
\* answered and ignored.  (Rows of channel B are never dispatched.)
Claim(r) ==
  /\ r.pc = "arrived"
  /\ IF rows[r.report.id] = "pending"
     THEN /\ rows' = [rows EXCEPT ![r.report.id] = r.report.status]
          /\ IF r.report.status = "filled"
             THEN requests' = (requests \ {r}) \cup {[r EXCEPT !.pc = "claimed"]} /\ UNCHANGED daemon
             ELSE Answered(r)
     ELSE UNCHANGED rows /\ Answered(r)
  /\ UNCHANGED <<execution, posted, aged, aborts, slipped, torn, barred, faults>>

\* insert_copy_execution: ON CONFLICT (copy_order_id) DO NOTHING
Book(r) ==
  /\ r.pc = "claimed"
  /\ execution' = [execution EXCEPT ![r.report.id] = IF @ = None THEN r.report.ref ELSE @]
  /\ Answered(r)
  /\ UNCHANGED <<rows, posted, aged, aborts, slipped, torn, barred, faults>>

\* Mutant: the status is not taken back.
BookErrSilent(r) ==
  /\ r.pc = "claimed" /\ Fault
  /\ requests' = requests \ {r}
  /\ UNCHANGED <<rows, execution, posted, aged, daemon, aborts, slipped, torn, barred>>

\* The execution cannot be booked, as far as the copier knows: the row is set
\* to failed, and the daemon gets an error.
BookErr(r) ==
  /\ r.pc = "claimed" /\ Fault
  /\ rows'     = [rows EXCEPT ![r.report.id] = "failed"]
  /\ requests' = requests \ {r}
  /\ \/ UNCHANGED <<execution, torn>>
     \/ /\ execution' = [execution EXCEPT ![r.report.id] = IF @ = None THEN r.report.ref ELSE @]
        /\ torn' = torn \cup {r.report.id}
  /\ UNCHANGED <<posted, aged, daemon, aborts, slipped, barred>>

\* The copier dies, or both statements fail.
Die ==
  /\ requests # {} /\ Fault
  /\ requests' = {}
  /\ torn' = torn \cup {r.report.id : r \in {q \in requests : q.pc = "claimed"}}
  /\ UNCHANGED <<rows, execution, posted, aged, daemon, aborts, slipped, barred>>

-----------------------------------------------------------------------------
\* follow and the clock

Enqueue ==
  /\ Len(rows) < MaxOrders
  /\ rows' = Append(rows, "pending")
  /\ UNCHANGED <<execution, posted, aged, daemon, requests, aborts, slipped, torn, barred, faults>>

DayPasses ==
  /\ aged < Len(rows)
  /\ aged' = aged + 1
  /\ UNCHANGED <<rows, execution, posted, daemon, requests, aborts, slipped, torn, barred, faults>>

\* The user's jurisdiction is changed, there or back; counted with the faults.
Relocate ==
  /\ Fault
  /\ barred' = Abroad \ barred
  /\ UNCHANGED <<rows, execution, posted, aged, daemon, requests, aborts, slipped, torn>>

Init ==
  /\ rows      = <<>>
  /\ execution = [o \in Orders |-> None]
  /\ posted    = [d \in Daemons |-> [o \in Orders |-> 0]]
  /\ aged      = 0
  /\ daemon    = [d \in Daemons |-> Started(0)]
  /\ requests  = {}
  /\ aborts    = [d \in Daemons |-> [o \in Orders |-> 0]]
  /\ slipped   = {}
  /\ torn      = {}
  /\ barred    \in {{}, Abroad}
  /\ faults    = 0

Poll(d) == List(d) \/ Execute(d) \/ Report(d) \/ Finish(d) \/ Abort(d)
Copier  == \E r \in requests : Claim(r) \/ Book(r)

Next ==
  \/ \E d \in Daemons : Poll(d) \/ Restart(d)
  \/ Copier
  \/ \E r \in requests : BookErr(r)
  \/ Die \/ Enqueue \/ DayPasses \/ Relocate

\* poll_loop never ends, and the copier answers what it has received.
Fairness == (\A d \in Daemons : WF_vars(Poll(d))) /\ WF_vars(Copier)

Spec     == Init /\ [][Next]_vars
FairSpec == Spec /\ Fairness

-----------------------------------------------------------------------------
\* Properties

TypeOK ==
  /\ rows \in Seq({"pending"} \cup Reports) /\ Len(rows) <= MaxOrders
  /\ execution \in [Orders -> Refs \cup {None}]
  /\ posted \in [Daemons -> [Orders -> Nat]] /\ aborts \in [Daemons -> [Orders -> Nat]]
  /\ aged \in 0 .. Len(rows)
  /\ daemon \in [Daemons -> Locals]
  /\ requests \subseteq Requests
  /\ slipped \subseteq Orders /\ torn \subseteq Orders /\ barred \subseteq Abroad
  /\ faults \in 0 .. MaxFaults

\* Whatever is reported twice, late, or by two daemons, the books agree with
\* the row and the venue: what is booked is filled (unless the answer of the
\* booking alone was lost), and stands for an order this daemon has posted.
BooksAgree == \A o \in Orders :
  execution[o] # None =>
    /\ rows[o] = "filled" \/ o \in torn
    /\ execution[o][2] <= posted[execution[o][1]][o]

\* The other way round: a filled row is booked, unless the copier died between
\* the two statements.
FilledIsBooked == \A o \in 1 .. Len(rows) : rows[o] = "filled" =>
  \/ execution[o] # None \/ o \in torn
  \/ \E r \in requests : r.report.id = o /\ r.pc = "claimed"

\* Rows and executions agree, in both directions.
BooksMatchRows == BooksAgree /\ FilledIsBooked

\* A daemon posts a row twice only after it has given up a report of that very
\* row; the rows it had reported before are not executed again.
PostedOncePerReport == \A d \in Daemons, o \in Orders : posted[d][o] <= 1 + aborts[d][o]

InHand(d, o) ==
  \/ daemon[d].hand # None /\ daemon[d].hand.id = o
  \/ o \in daemon[d].batch

\* A pending row that no daemon will list again slipped in one of the known
\* ways: it was enqueued while a batch was worked off, did not fit into the
\* batch, was filtered out of it by the jurisdiction, or was a day old at a
\* restart.  A failed poll loses nothing.
NothingElseSlips == \A o \in 1 .. Len(rows) :
  rows[o] = "pending" /\ (\A d \in Daemons : o <= daemon[d].since /\ ~InHand(d, o))
    => o \in slipped \/ \E r \in requests : r.report.id = o

\* A row that a daemon has listed is settled in the end, through lost reports,
\* restarts of the daemon and of the copier, unless it is a day old by then or
\* slips out of the list after all, as it may when the jurisdiction changes.
ListedIsSettled == \A o \in Orders :
  (\E d \in Daemons : InHand(d, o)) ~>
    o <= Len(rows) /\ (rows[o] # "pending" \/ o <= aged \/ o \in slipped)
=============================================================================
