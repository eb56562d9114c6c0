----------------------------- MODULE CopyOrders -----------------------------
(***************************************************************************)
(* Channel A ("tg") of the copier: the life of a row of account.copy_order *)
(* from the queue to its settlement, as the three worker tasks of a copier *)
(* process drive it:                                                       *)
(*                                                                         *)
(*   exec      pending    -> dispatched -> submitted  (services/.../exec)  *)
(*   reclaim   dispatched -> submitted | failed       (reclaim_worker)     *)
(*   reconcile submitted  -> filled | cancelled | failed                   *)
(*                                                                         *)
(* Every database statement and every call of the venue is a step of its   *)
(* own: other tasks, other copier processes, the user and the venue run    *)
(* between them.  A process may be killed between any two of them          *)
(* (workers.abort_all, a crash) and starts again with empty hands.         *)
(*                                                                         *)
(* The venue (Polymarket's CLOB) is external.  It identifies an order by   *)
(* the hash of what was signed; here by the key <<order, stamp, wallet>>:  *)
(* the salt is a function of the order's id, "stamp" stands for the rest   *)
(* of the signed body (timestamp, price, size) and "wallet" for the        *)
(* deposit wallet that signs.                                              *)
(***************************************************************************)
EXTENDS Naturals, FiniteSets

CONSTANTS
  Orders,      \* rows of copy_order with channel = 'tg'
  Users,
  UserOf,      \* the user of each order
  Copiers,     \* copier processes working on the same database
  Stamps,      \* possible signed bodies of one order
  MaxWallet,   \* bound: wallets a user is ever provisioned with
  Size,        \* the size of an order, in units the venue fills one by one
  Modes,       \* the ways in which the processes may be set up
  Revocable,   \* the users who may revoke their credential
  Reads404,    \* the venue's order ids with the digits "404" in them
  MaxFaults,   \* bound: crashes, database errors and lost messages
  None

ASSUME OrdersAssumption ==
  /\ UserOf \in [Orders -> Users]
  /\ Revocable \subseteq Users
  /\ MaxWallet \in Nat \ {0}
  /\ Size \in Nat \ {0}
  /\ MaxFaults \in Nat
  /\ Modes \subseteq [Copiers -> [dry : BOOLEAN, post : BOOLEAN]]
  /\ None \notin Orders

Wallets  == 1 .. MaxWallet
Keys     == [order : Orders, stamp : Stamps, wallet : Wallets]

ASSUME NoneAssumption ==
  None \notin Stamps /\ None \notin Nat /\ None \notin Keys /\ Reads404 \subseteq Keys

Statuses == {"pending", "dispatched", "submitted",
             "filled", "skipped", "failed", "cancelled"}
Terminal == {"filled", "skipped", "failed", "cancelled"}

\* What the venue knows of an order; order_state answers it, or "unknown"
\* (a 404) to a credential that does not own the order.
VenueStates == {"unknown", "open", "matched", "cancelled"}
Settled     == {"matched", "cancelled"}
Sightings   == [st : VenueStates, filled : 0 .. Size]
Unseen      == [st |-> "unknown", filled |-> 0]

VARIABLES
  status,      \* copy_order.status
  stamp,       \* the idempotency columns written by the claim
  venueId,     \* copy_order.venue_order_id
  aged,        \* orders past the timeout of their present status
  execution,   \* copy_execution.filled_size, None without a row
  wallet,      \* the wallet of the user's current credential
  revoked,     \* revoked_at IS NOT NULL
  mode,        \* the environment of each process: dry is COPIER_DRY_RUN, which exec looks
               \* at, post is POLYMARKET_CLOB_POST, which place_order looks at
  exec,        \* the exec task of each copier
  recl,        \* the reclaim task of each copier
  recon,       \* the reconcile task of each copier
  wire,        \* order requests on their way to the venue
  venue,       \* the venue's order book, by key
  faults

dbVars    == <<status, stamp, venueId, aged, execution>>
setVars   == <<wallet, revoked, mode>>
taskVars  == <<exec, recl, recon>>
venueVars == <<wire, venue>>
vars      == <<dbVars, setVars, taskVars, venueVars, faults>>

\* The locals of a task: where it is, the rows it has listed and not yet
\* taken, the row in hand and what it knows of it.
ExecTasks ==
  [pc    : {"idle", "checks", "ready", "claimed", "posting", "accepted", "failing", "closing"},
   batch : SUBSET Orders, order : Orders \cup {None}, key : Keys \cup {None}]
ReclTasks ==
  [pc    : {"idle", "posting", "accepted", "failing"},
   batch : SUBSET Orders, key : Keys \cup {None}]
ReconTasks ==
  [pc    : {"idle", "booking", "closing", "cancelling"},
   batch : SUBSET Orders, order : Orders \cup {None}, seen : Sightings]

-----------------------------------------------------------------------------
\* Helpers

ExecIdle  == [pc |-> "idle", batch |-> {}, order |-> None, key |-> None]
ReclIdle  == [pc |-> "idle", batch |-> {}, key |-> None]
ReconIdle == [pc |-> "idle", batch |-> {}, order |-> None, seen |-> Unseen]

\* A task drops the order it works on and turns to the rest of its batch.
ExecDone(c)  == exec'  = [exec  EXCEPT ![c] = [ExecIdle  EXCEPT !.batch = exec[c].batch]]
ReclDone(c)  == recl'  = [recl  EXCEPT ![c] = [ReclIdle  EXCEPT !.batch = recl[c].batch]]
ReconDone(c) == recon' = [recon EXCEPT ![c] = [ReconIdle EXCEPT !.batch = recon[c].batch]]

\* load_credential: the current credential of the order's user, unless revoked.
HasCredential(o) == ~revoked[UserOf[o]]
WalletOf(o)      == wallet[UserOf[o]]

\* The order a wallet signs: what the venue identifies it by.
Signed(o, s) == [order |-> o, stamp |-> s, wallet |-> WalletOf(o)]

\* update_copy_order_status: no condition on the present status.
WriteStatus(o, s) == status' = [status EXCEPT ![o] = s]

\* Mutant: no condition on the present status.
MarkAnyway(o, k) ==
  /\ status'  = [status EXCEPT ![o] = "submitted"]
  /\ venueId' = [venueId EXCEPT ![o] = k]
  /\ aged'    = aged \ {o}

\* mark_copy_order_submitted: compare-and-set on 'dispatched'; a miss is not
\* an error and both callers go on as if it had succeeded.
MarkSubmitted(o, k) ==
  IF status[o] = "dispatched"
  THEN /\ status'  = [status EXCEPT ![o] = "submitted"]
       /\ venueId' = [venueId EXCEPT ![o] = k]
       /\ aged'    = aged \ {o}
  ELSE UNCHANGED <<status, venueId, aged>>

\* Mutant: a second insert adds to the row.
AddExecution(o, n) ==
  execution' = [execution EXCEPT ![o] = IF @ = None THEN n ELSE @ + n]

\* insert_copy_execution: ON CONFLICT (copy_order_id) DO NOTHING.
InsertExecution(o, n) ==
  execution' = [execution EXCEPT ![o] = IF @ = None THEN n ELSE @]

Fault == faults < MaxFaults /\ faults' = faults + 1

\* An order that a live exec task has claimed and not yet let go.
InExec(o) == \E c \in Copiers :
  exec[c].order = o /\ exec[c].pc \in {"claimed", "posting", "accepted", "failing"}

-----------------------------------------------------------------------------
\* exec.rs: tick lists the pending orders, process_one takes them in turn

ExecPull(c) ==
  /\ exec[c].pc = "idle" /\ exec[c].batch = {}
  /\ \E o \in Orders : status[o] = "pending"
  /\ exec' = [exec EXCEPT ![c].batch = {o \in Orders : status[o] = "pending"}]
  /\ UNCHANGED <<dbVars, setVars, recl, recon, venueVars, faults>>

ExecTake(c) ==
  /\ exec[c].pc = "idle"
  /\ \E o \in exec[c].batch :
       exec' = [exec EXCEPT ![c].pc = "checks", ![c].order = o, ![c].batch = @ \ {o}]
  /\ UNCHANGED <<dbVars, setVars, recl, recon, venueVars, faults>>

\* Any of the gates before the claim (fields, jurisdiction, mapping, market,
\* risk, credential, book, slippage, balances) turns the order down.
ExecSkip(c) ==
  /\ exec[c].pc \in {"checks", "ready"}
  /\ WriteStatus(exec[c].order, "skipped")
  /\ ExecDone(c)
  /\ UNCHANGED <<stamp, venueId, aged, execution, setVars, recl, recon, venueVars, faults>>

\* The credential is read here and used for the order that is posted later.
ExecReady(c) ==
  /\ exec[c].pc = "checks" /\ ~mode[c].dry
  /\ HasCredential(exec[c].order)
  /\ \E s \in Stamps :
       exec' = [exec EXCEPT ![c].pc = "ready", ![c].key = Signed(exec[c].order, s)]
  /\ UNCHANGED <<dbVars, setVars, recl, recon, venueVars, faults>>

\* Mutant: the claim does not look at the present status.
ClaimAnyway(c) ==
  /\ exec[c].pc = "ready"
  /\ WriteStatus(exec[c].order, "dispatched")
  /\ stamp' = [stamp EXCEPT ![exec[c].order] = exec[c].key.stamp]
  /\ exec'  = [exec EXCEPT ![c].pc = "claimed"]
  /\ UNCHANGED <<venueId, aged, execution, setVars, recl, recon, venueVars, faults>>

\* claim_copy_order: compare-and-set pending -> dispatched.
ExecClaim(c) ==
  /\ exec[c].pc = "ready"
  /\ status[exec[c].order] = "pending"
  /\ WriteStatus(exec[c].order, "dispatched")
  /\ stamp' = [stamp EXCEPT ![exec[c].order] = exec[c].key.stamp]
  /\ exec'  = [exec EXCEPT ![c].pc = "claimed"]
  /\ UNCHANGED <<venueId, aged, execution, setVars, recl, recon, venueVars, faults>>

ExecGiveUp(c) ==
  /\ exec[c].pc = "ready"
  /\ status[exec[c].order] # "pending"
  /\ ExecDone(c)
  /\ UNCHANGED <<dbVars, setVars, recl, recon, venueVars, faults>>

\* place_order signs the order and, when posting is on, sends it.
ExecPost(c) ==
  /\ exec[c].pc = "claimed"
  /\ wire' = IF mode[c].post THEN wire \cup {exec[c].key} ELSE wire
  /\ exec' = [exec EXCEPT ![c].pc = "posting"]
  /\ UNCHANGED <<dbVars, setVars, recl, recon, venue, faults>>

\* Mutant: the synthetic fill is taken for the venue's acceptance.
DrySignIsAccepted(c) ==
  /\ exec[c].pc = "posting" /\ ~mode[c].post
  /\ exec' = [exec EXCEPT ![c].pc = "accepted"]
  /\ UNCHANGED <<dbVars, setVars, recl, recon, venueVars, faults>>

\* Signed but not posted: the fill is synthetic and the order is skipped.
ExecDrySign(c) ==
  /\ exec[c].pc = "posting" /\ ~mode[c].post
  /\ WriteStatus(exec[c].order, "skipped")
  /\ ExecDone(c)
  /\ UNCHANGED <<stamp, venueId, aged, execution, setVars, recl, recon, venueVars, faults>>

ExecOk(c) ==
  /\ exec[c].pc = "posting" /\ mode[c].post
  /\ venue[exec[c].key].st # "unknown"
  /\ exec' = [exec EXCEPT ![c].pc = "accepted"]
  /\ UNCHANGED <<dbVars, setVars, recl, recon, venueVars, faults>>

\* place_order returns an error: nothing was sent, the venue refused, or the
\* call timed out with the request still on its way or its answer lost.
ExecErr(c) ==
  /\ exec[c].pc \in {"claimed", "posting"}
  /\ exec' = [exec EXCEPT ![c].pc = "failing"]
  /\ UNCHANGED <<dbVars, setVars, recl, recon, venueVars, faults>>

ExecMark(c) ==
  /\ exec[c].pc = "accepted"
  /\ MarkSubmitted(exec[c].order, exec[c].key)
  /\ ExecDone(c)
  /\ UNCHANGED <<stamp, execution, setVars, recl, recon, venueVars, faults>>

\* The statement fails, or only its answer is lost.
ExecMarkErr(c) ==
  /\ exec[c].pc = "accepted" /\ Fault
  /\ \/ MarkSubmitted(exec[c].order, exec[c].key)
     \/ UNCHANGED <<status, venueId, aged>>
  /\ exec' = [exec EXCEPT ![c].pc = "failing"]
  /\ UNCHANGED <<stamp, execution, setVars, recl, recon, venueVars>>

ExecFail(c) ==
  /\ exec[c].pc = "failing"
  /\ WriteStatus(exec[c].order, "failed")
  /\ ExecDone(c)
  /\ UNCHANGED <<stamp, venueId, aged, execution, setVars, recl, recon, venueVars, faults>>

\* dry_run: no claim; a synthetic fill is booked, then the status written.
ExecDryBook(c) ==
  /\ exec[c].pc = "checks" /\ mode[c].dry
  /\ InsertExecution(exec[c].order, Size)
  /\ exec' = [exec EXCEPT ![c].pc = "closing"]
  /\ UNCHANGED <<status, stamp, venueId, aged, setVars, recl, recon, venueVars, faults>>

ExecDryClose(c) ==
  /\ exec[c].pc = "closing"
  /\ WriteStatus(exec[c].order, "filled")
  /\ ExecDone(c)
  /\ UNCHANGED <<stamp, venueId, aged, execution, setVars, recl, recon, venueVars, faults>>

\* A statement fails, or in "claimed" the answer of the claim is lost:
\* process_one returns the error, tick logs it and goes on.
ExecDbErr(c) ==
  /\ exec[c].pc \in {"checks", "ready", "claimed", "failing", "closing"} /\ Fault
  /\ ExecDone(c)
  /\ UNCHANGED <<dbVars, setVars, recl, recon, venueVars>>

Exec(c) ==
  \/ ExecPull(c) \/ ExecTake(c) \/ ExecSkip(c) \/ ExecReady(c)
  \/ ExecClaim(c) \/ ExecGiveUp(c) \/ ExecPost(c) \/ ExecDrySign(c)
  \/ ExecOk(c) \/ ExecErr(c) \/ ExecMark(c) \/ ExecFail(c)
  \/ ExecDryBook(c) \/ ExecDryClose(c)

-----------------------------------------------------------------------------
\* reclaim_worker.rs: orders left in 'dispatched' past the timeout

ReclPull(c) ==
  LET stale == {o \in aged : status[o] = "dispatched"} IN
  /\ recl[c].pc = "idle" /\ recl[c].batch = {} /\ stale # {}
  /\ recl' = [recl EXCEPT ![c].batch = stale]
  /\ UNCHANGED <<dbVars, setVars, exec, recon, venueVars, faults>>

\* Mutant: the retry stamps the order anew.
RetryAnew(c) == \E o \in recl[c].batch, s \in Stamps :
  LET k == Signed(o, s) IN
  /\ recl[c].pc = "idle"
  /\ recl' = [recl EXCEPT ![c] =
       IF HasCredential(o)
       THEN [pc |-> "posting", batch |-> recl[c].batch \ {o}, key |-> k]
       ELSE [ReclIdle EXCEPT !.batch = recl[c].batch \ {o}]]
  /\ wire' = IF HasCredential(o) /\ mode[c].post THEN wire \cup {k} ELSE wire
  /\ UNCHANGED <<dbVars, setVars, exec, recon, venue, faults>>

\* retry_one rebuilds the order from the row and signs it with the credential
\* of now; without one the order is left for a later round.  It never looks at
\* dry_run: a process set up to rehearse sends what another one has claimed.
ReclTake(c) == \E o \in recl[c].batch :
  LET k == Signed(o, stamp[o]) IN
  /\ recl[c].pc = "idle"
  /\ recl' = [recl EXCEPT ![c] =
       IF HasCredential(o)
       THEN [pc |-> "posting", batch |-> recl[c].batch \ {o}, key |-> k]
       ELSE [ReclIdle EXCEPT !.batch = recl[c].batch \ {o}]]
  /\ wire' = IF HasCredential(o) /\ mode[c].post THEN wire \cup {k} ELSE wire
  /\ UNCHANGED <<dbVars, setVars, exec, recon, venue, faults>>

ReclOk(c) ==
  /\ recl[c].pc = "posting" /\ mode[c].post
  /\ venue[recl[c].key].st # "unknown"
  /\ recl' = [recl EXCEPT ![c].pc = "accepted"]
  /\ UNCHANGED <<dbVars, setVars, exec, recon, venueVars, faults>>

\* An error, the refusal of a duplicate, or a dry signature.
ReclErr(c) ==
  /\ recl[c].pc = "posting"
  /\ recl' = [recl EXCEPT ![c].pc = "failing"]
  /\ UNCHANGED <<dbVars, setVars, exec, recon, venueVars, faults>>

ReclMark(c) ==
  /\ recl[c].pc = "accepted"
  /\ MarkSubmitted(recl[c].key.order, recl[c].key)
  /\ ReclDone(c)
  /\ UNCHANGED <<stamp, execution, setVars, exec, recon, venueVars, faults>>

ReclMarkErr(c) ==
  /\ recl[c].pc = "accepted" /\ Fault
  /\ \/ MarkSubmitted(recl[c].key.order, recl[c].key)
     \/ UNCHANGED <<status, venueId, aged>>
  /\ recl' = [recl EXCEPT ![c].pc = "failing"]
  /\ UNCHANGED <<stamp, execution, setVars, exec, recon, venueVars>>

\* reclaim_dispatched: compare-and-set dispatched -> failed.
ReclFail(c) ==
  /\ recl[c].pc = "failing"
  /\ IF status[recl[c].key.order] = "dispatched"
     THEN WriteStatus(recl[c].key.order, "failed")
     ELSE UNCHANGED status
  /\ ReclDone(c)
  /\ UNCHANGED <<stamp, venueId, aged, execution, setVars, exec, recon, venueVars, faults>>

ReclDbErr(c) ==
  /\ recl[c].pc = "failing" /\ Fault
  /\ ReclDone(c)
  /\ UNCHANGED <<dbVars, setVars, exec, recon, venueVars>>

Reclaim(c) ==
  \/ ReclPull(c) \/ ReclTake(c) \/ ReclOk(c)
  \/ ReclErr(c) \/ ReclMark(c) \/ ReclFail(c)

-----------------------------------------------------------------------------
\* reconcile_worker.rs: asks the venue about the orders in 'submitted'

ReconPull(c) ==
  LET listed == {o \in Orders : status[o] = "submitted" /\ venueId[o] # None} IN
  /\ recon[c].pc = "idle" /\ recon[c].batch = {} /\ listed # {}
  /\ recon' = [recon EXCEPT ![c].batch = listed]
  /\ UNCHANGED <<dbVars, setVars, exec, recl, venueVars, faults>>

\* Mutants: a fill of an open order is booked; an order is closed before its
\* fill is booked; an order that does not fill is never cancelled.
BookOpen(o, seen) ==
  CASE seen.filled > 0                    -> "booking"
    [] seen.st = "open" /\ o \in aged     -> "cancelling"
    [] seen.st = "open" /\ o \notin aged  -> "idle"
    [] OTHER                              -> "closing"

CloseFirst(o, seen) ==
  CASE seen.st = "open" /\ o \in aged     -> "cancelling"
    [] seen.st = "open" /\ o \notin aged  -> "idle"
    [] OTHER                              -> "closing"

NeverCancel(o, seen) ==
  CASE seen.st = "matched"                        -> "booking"
    [] seen.st = "cancelled" /\ seen.filled > 0   -> "booking"
    [] seen.st = "open"                           -> "idle"
    [] OTHER                                      -> "closing"

\* reconcile_one: what to do about what order_state says of an order.
Verdict(o, seen) ==
  CASE seen.st = "matched"                        -> "booking"
    [] seen.st = "cancelled" /\ seen.filled > 0   -> "booking"
    [] seen.st = "open" /\ o \in aged             -> "cancelling"
    [] seen.st = "open" /\ o \notin aged          -> "idle"
    [] OTHER                                      -> "closing"

\* order_state is asked with the credential of now.
ReconAsk(c) == \E o \in recon[c].batch :
  LET k    == venueId[o]
      seen == IF WalletOf(o) = k.wallet THEN venue[k] ELSE Unseen
  IN
  /\ recon[c].pc = "idle"
  /\ recon' = [recon EXCEPT ![c] =
       IF HasCredential(o) /\ Verdict(o, seen) # "idle"
       THEN [pc |-> Verdict(o, seen), batch |-> recon[c].batch \ {o}, order |-> o, seen |-> seen]
       ELSE [ReconIdle EXCEPT !.batch = recon[c].batch \ {o}]]
  /\ UNCHANGED <<dbVars, setVars, exec, recl, venueVars, faults>>

\* Mutant: every error of the venue is taken for "not found".
EveryErrorIs404(c) == \E o \in recon[c].batch :
  /\ recon[c].pc = "idle" /\ HasCredential(o) /\ Fault
  /\ recon' = [recon EXCEPT ![c] =
       [pc |-> "closing", batch |-> recon[c].batch \ {o}, order |-> o, seen |-> Unseen]]
  /\ UNCHANGED <<dbVars, setVars, exec, recl, venueVars>>

\* order_state fails in transit.  The order waits for the next round, unless
\* the text of the error, which carries the url and with it the order's id,
\* happens to contain "404": that is taken for the venue's "not found".
ReconAskErr(c) == \E o \in recon[c].batch :
  /\ recon[c].pc = "idle" /\ HasCredential(o) /\ Fault
  /\ recon' = [recon EXCEPT ![c] =
       IF venueId[o] \in Reads404
       THEN [pc |-> "closing", batch |-> recon[c].batch \ {o}, order |-> o, seen |-> Unseen]
       ELSE [ReconIdle EXCEPT !.batch = recon[c].batch \ {o}]]
  /\ UNCHANGED <<dbVars, setVars, exec, recl, venueVars>>

ReconBook(c) ==
  /\ recon[c].pc = "booking"
  /\ InsertExecution(recon[c].order, recon[c].seen.filled)
  /\ recon' = [recon EXCEPT ![c].pc = "closing"]
  /\ UNCHANGED <<status, stamp, venueId, aged, setVars, exec, recl, venueVars, faults>>

ReconClose(c) ==
  /\ recon[c].pc = "closing"
  /\ WriteStatus(recon[c].order, CASE recon[c].seen.st = "matched"   -> "filled"
                                   [] recon[c].seen.st = "cancelled" -> "cancelled"
                                   [] OTHER                          -> "failed")
  /\ ReconDone(c)
  /\ UNCHANGED <<stamp, venueId, aged, execution, setVars, exec, recl, venueVars, faults>>

\* cancel_order; the row stays 'submitted' until the venue confirms.
ReconCancel(c) ==
  LET k == venueId[recon[c].order] IN
  /\ recon[c].pc = "cancelling"
  /\ venue' = [venue EXCEPT ![k].st = IF @ = "open" THEN "cancelled" ELSE @]
  /\ ReconDone(c)
  /\ UNCHANGED <<dbVars, setVars, exec, recl, wire, faults>>

\* The cancel or a statement fails: the row stays as it is for the next round.
ReconErr(c) ==
  /\ recon[c].pc \in {"booking", "closing", "cancelling"} /\ Fault
  /\ ReconDone(c)
  /\ UNCHANGED <<dbVars, setVars, exec, recl, venueVars>>

Reconcile(c) ==
  \/ ReconPull(c) \/ ReconAsk(c) \/ ReconBook(c)
  \/ ReconClose(c) \/ ReconCancel(c)

-----------------------------------------------------------------------------
\* The venue, the clock, the user and the operating system

\* A request arrives.  One the venue has already seen changes nothing.
VenueAccept(k) ==
  /\ k \in wire
  /\ wire'  = wire \ {k}
  /\ venue' = [venue EXCEPT ![k].st = IF @ = "unknown" THEN "open" ELSE @]
  /\ UNCHANGED <<dbVars, setVars, taskVars, faults>>

\* A request is refused, or never arrives.
VenueRefuse(k) ==
  /\ k \in wire
  /\ wire' = wire \ {k}
  /\ UNCHANGED <<dbVars, setVars, taskVars, venue, faults>>

VenueFill(k) ==
  /\ venue[k].st = "open" /\ venue[k].filled < Size
  /\ venue' = [venue EXCEPT ![k].filled = @ + 1]
  /\ UNCHANGED <<dbVars, setVars, taskVars, wire, faults>>

\* The order is done: matched, or cancelled with what it filled until then.
VenueSettle(k) ==
  /\ venue[k].st = "open"
  /\ \E s \in Settled :
       /\ s = "matched" => venue[k].filled > 0
       /\ venue' = [venue EXCEPT ![k].st = s]
  /\ UNCHANGED <<dbVars, setVars, taskVars, wire, faults>>

\* DISPATCHED_TIMEOUT_SECS (600 s) or RECONCILE_TIMEOUT_SECS (120 s) passes.
\* A call of the venue is cut off after 15 s, so an order ages in
\* 'dispatched' only when no live task holds it any more.
Age(o) ==
  /\ o \notin aged
  /\ status[o] = "submitted" \/ (status[o] = "dispatched" /\ ~InExec(o))
  /\ aged' = aged \cup {o}
  /\ UNCHANGED <<status, stamp, venueId, execution, setVars, taskVars, venueVars, faults>>

\* revoke_credential
Revoke(u) ==
  /\ u \in Revocable /\ ~revoked[u]
  /\ revoked' = [revoked EXCEPT ![u] = TRUE]
  /\ UNCHANGED <<dbVars, wallet, mode, taskVars, venueVars, faults>>

\* provision with confirm_replace: a new deposit wallet, revoked_at reset.
Reprovision(u) ==
  /\ wallet[u] < MaxWallet
  /\ wallet'  = [wallet EXCEPT ![u] = @ + 1]
  /\ revoked' = [revoked EXCEPT ![u] = FALSE]
  /\ UNCHANGED <<dbVars, mode, taskVars, venueVars, faults>>

\* main.rs aborts the three tasks together; so does a crash.
Crash(c) ==
  /\ Fault
  /\ exec'  = [exec  EXCEPT ![c] = ExecIdle]
  /\ recl'  = [recl  EXCEPT ![c] = ReclIdle]
  /\ recon' = [recon EXCEPT ![c] = ReconIdle]
  /\ UNCHANGED <<dbVars, setVars, venueVars>>

-----------------------------------------------------------------------------
Init ==
  /\ status    = [o \in Orders |-> "pending"]
  /\ stamp     = [o \in Orders |-> None]
  /\ venueId   = [o \in Orders |-> None]
  /\ aged      = {}
  /\ execution = [o \in Orders |-> None]
  /\ wallet    = [u \in Users |-> 1]
  /\ revoked   = [u \in Users |-> FALSE]
  /\ mode      \in Modes
  /\ exec      = [c \in Copiers |-> ExecIdle]
  /\ recl      = [c \in Copiers |-> ReclIdle]
  /\ recon     = [c \in Copiers |-> ReconIdle]
  /\ wire      = {}
  /\ venue     = [k \in Keys |-> Unseen]
  /\ faults    = 0

Next ==
  \/ \E c \in Copiers :
       \/ Exec(c) \/ ExecMarkErr(c) \/ ExecDbErr(c)
       \/ Reclaim(c) \/ ReclMarkErr(c) \/ ReclDbErr(c)
       \/ Reconcile(c) \/ ReconAskErr(c) \/ ReconErr(c)
       \/ Crash(c)
  \/ \E k \in Keys : VenueAccept(k) \/ VenueRefuse(k) \/ VenueFill(k) \/ VenueSettle(k)
  \/ \E o \in Orders : Age(o)
  \/ \E u \in Users : Revoke(u) \/ Reprovision(u)

\* The tasks loop for ever and the clock runs; the venue, the user and the
\* faults owe nothing.
Fairness ==
  /\ \A c \in Copiers : WF_vars(Exec(c)) /\ WF_vars(Reclaim(c)) /\ WF_vars(Reconcile(c))
  /\ \A o \in Orders : WF_vars(Age(o))

Spec     == Init /\ [][Next]_vars
FairSpec == Spec /\ Fairness

-----------------------------------------------------------------------------
\* Properties

\* Every variable keeps its type: the columns of copy_order and
\* copy_execution, the locals of the three tasks and the venue's book.
RowsTypeOK ==
  /\ status    \in [Orders -> Statuses]
  /\ stamp     \in [Orders -> Stamps \cup {None}]
  /\ venueId   \in [Orders -> Keys \cup {None}]
  /\ aged      \subseteq Orders
  /\ execution \in [Orders -> (0 .. Size) \cup {None}]

SetTypeOK   == /\ wallet \in [Users -> Wallets] /\ revoked \in [Users -> BOOLEAN]
               /\ mode \in Modes
TaskTypeOK  == /\ exec  \in [Copiers -> ExecTasks]
               /\ recl  \in [Copiers -> ReclTasks]
               /\ recon \in [Copiers -> ReconTasks]
VenueTypeOK == wire \subseteq Keys /\ venue \in [Keys -> Sightings]

TypeOK ==
  RowsTypeOK /\ SetTypeOK /\ TaskTypeOK /\ VenueTypeOK /\ faults \in 0 .. MaxFaults

\* The requests sent for an order and the orders the venue holds for it.
AtVenue == {k \in Keys : venue[k].st # "unknown"}
Posted  == wire \cup AtVenue

\* claim_copy_order's promise, "never order twice", and reclaim's, "the same
\* signed order again": whoever posts, crashes, retries or races, one wallet
\* is never made to sign two different orders for the same copy order.
OneOrderPerWallet ==
  \A j, k \in Posted : j.order = k.order /\ j.wallet = k.wallet => j = k

\* No process makes fills up; no order can leave: no process posts, or none claims.
NoneDry == \A c \in Copiers : ~mode[c].dry
Mute    == (\A c \in Copiers : ~mode[c].post) \/ (\A c \in Copiers : mode[c].dry)

\* reconcile books what really happened: an execution row has the
\* size the venue's settled order has filled, never that of an open one (in a
\* fleet without a COPIER_DRY_RUN process, which books fills of its own).
BooksMatchVenue ==
  NoneDry => \A o \in Orders : execution[o] # None =>
    /\ venueId[o] # None
    /\ venue[venueId[o]].st \in Settled
    /\ execution[o] = venue[venueId[o]].filled

\* A fill is never lost silently: when the venue has filled part of an order,
\* its row is still in flight, or flagged 'failed' for a person to look at,
\* or closed with that fill in the books.  (Of a user who keeps the first
\* wallet: after a replacement the retry is signed by another wallet, and the
\* venue may hold two orders.)
NoLostFill ==
  \A k \in Keys : venue[k].filled > 0 /\ wallet[UserOf[k.order]] = 1 =>
    \/ status[k.order] \in {"dispatched", "submitted", "failed"}
    \/ status[k.order] \in {"filled", "cancelled"} /\ execution[k.order] = venue[k].filled

\* 'filled' is only written after the execution row, in every mode: an order
\* is never reported as filled without its fill (crashes between the two
\* statements included).
FilledIsBooked ==
  \A o \in Orders : status[o] = "filled" => execution[o] # None

\* A row that reached an end never comes back to life, so it is not
\* dispatched, retried or reconciled again.
TerminalStaysTerminal ==
  [][\A o \in Orders : status[o] \in Terminal => status'[o] \in Terminal]_vars

\* reconcile_one: a failure of the venue's API "leaves submitted for the next
\* round"; only an order the venue does not know is being given up as failed,
\* one whose id reads like "not found" (Reads404), or one of a former wallet.
OnlyMissingIsGivenUp ==
  \A c \in Copiers : recon[c].pc = "closing" /\ recon[c].seen.st = "unknown" =>
    LET k == venueId[recon[c].order] IN
    venue[k].st = "unknown" \/ k \in Reads404 \/ k.wallet # WalletOf(k.order)

\* A fill is traced until it is booked, and a row is only given up when there
\* is nothing to trace: NoLostFill of the venue's side of an order, and
\* OnlyMissingIsGivenUp of the reconciler's.
FillsAreTraced == NoLostFill /\ OnlyMissingIsGivenUp

\* exec.rs on a dry signature: it "must not be submitted", or reconcile would
\* ask for a made-up id for ever, and no request may have left.  Of a fleet in
\* which nobody posts, or nobody claims: where one process claims without
\* COPIER_DRY_RUN, the reclaim of another that has it, and posts, does send.
DryLeavesNoTrace ==
  Mute => Posted = {} /\ \A o \in Orders : status[o] # "submitted" /\ venueId[o] = None

\* A fleet that makes no fills up books what the venue has filled; one that cannot send puts no
\* order there and leaves no row that looks sent, whichever process signs, crashes or is raced
\* (reconcile_worker.rs:145, exec.rs:425).
EachFleetKeepsItsBooks == BooksMatchVenue /\ DryLeavesNoTrace

\* What is left of the state when workers, timeouts and the network are
\* forgotten: an order that is open, taken or at an end, the venue's last word
\* on what was sent, the books.
Fate  == [o \in Orders |->
            CASE status[o] = "pending"                      -> "open"
              [] status[o] \in {"dispatched", "submitted"} -> "taken"
              [] status[o] = "filled"                       -> "filled"
              [] OTHER                                      -> "ended"]
Final == [k \in Keys |-> IF venue[k].st \in Settled THEN venue[k].filled ELSE None]

Promise == INSTANCE OrderPromise WITH
  fate <- Fate, body <- stamp, sent <- Posted, final <- Final, books <- execution,
  trading <- NoneDry

\* Every step of every worker, retry, crash and message is a step of the
\* promise or changes nothing it can see: an order is taken once, only what it
\* was taken with is sent, also by the retries of reclaim, its fill is booked
\* once and as settled, and it never becomes open again.
KeepsThePromise == Promise!Spec

\* No order stays on its way for ever: whatever crashes, every row reaches an
\* end through the worker that is responsible for it.
EventuallySettled ==
  \A o \in Orders : <>[](status[o] \in Terminal)
=============================================================================
