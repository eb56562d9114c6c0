------------------------------ MODULE Billing ------------------------------
(***************************************************************************)
(* Pro+ paid in USDC on Polygon: the invoices and payments of              *)
(* crates/db/src/queries/billing.rs, the HTTP handlers of                  *)
(* services/account/src/billing/routes.rs and the one worker task that     *)
(* confirms what the chain shows (confirm.rs, worker.rs).                  *)
(*                                                                         *)
(* A period and its price are one number: invoices of different periods    *)
(* have different prices.  A transaction carries one transfer to the       *)
(* treasury; a price of 0 is one that carries none, or failed.  An         *)
(* invoice's due time and the days of a subscription pass by themselves;   *)
(* until is kept relative to now (left).                                   *)
(***************************************************************************)
EXTENDS Integers, Sequences, FiniteSets

CONSTANTS
  Users,         \* payers; a user pays from the wallet linked to the account
  Periods,       \* days a plan lasts, which is also its price
  Confirmations, \* blocks a transfer must have, its own included
  Lookback,      \* blocks the log scan looks back
  Grace,         \* days a subscription outlives its end
  Untils,        \* bound: days from now of an until that a user writes herself
  MaxInvoices, MaxTxs, MaxHead, MaxPayments, \* bounds of the instance,
  MaxDuds,       \* ... of the transactions that carry no transfer
  MaxWriters     \* ... and of the users who have days of an until of their own at a time

VARIABLES
  invoices, \* sequence of [user, days, status, due], in order of creation; due: not paid
            \* when its time was over
  payments, \* sequence of [inv, tx, status], in order of creation
  chain,    \* sequence of transactions [from, amount, block]; block 0: not mined
  head,     \* number of the latest block
  sub,      \* user -> [tier, left]: days left, NoUntil if the column is NULL
  worker,   \* [phase, todo, claims]: the batch the billing task is in, what it has yet to
            \* try and the [inv, tx] it is about to credit
  linked,   \* BILLING_REQUIRE_LINKED_WALLET
  owed      \* history: user -> [paid, free]: days ahead that were paid for and not given up,
            \* and those of an until that the user wrote herself

NoUntil == -(Grace + 2)
Idle == [phase |-> "idle", todo |-> {}, claims |-> {}]
Ids(s) == DOMAIN s

Init ==
  /\ invoices = <<>> /\ payments = <<>> /\ chain = <<>> /\ head = 1
  /\ sub = [u \in Users |-> [tier |-> "free", left |-> NoUntil]]
  /\ worker = Idle
  /\ linked \in BOOLEAN
  /\ owed = [u \in Users |-> [paid |-> 0, free |-> 0]]

----------------------------------------------------------------------------
(* What the services read. *)

PendingOf(u) == {i \in Ids(invoices) : invoices[i].user = u /\ invoices[i].status = "pending"}
ListPending == {i \in Ids(invoices) : invoices[i].status = "pending" /\ ~invoices[i].due}
ListSubmitted ==
  {p \in Ids(payments) : payments[p].status = "submitted" /\ invoices[payments[p].inv].status = "pending"}
LogConfirmed(t) == \E p \in Ids(payments) : payments[p].tx = t /\ payments[p].status = "confirmed"

Mined(t) == chain[t].block > 0
Confs(t) == head - chain[t].block + 1
FinalShallow(t) == Mined(t) /\ Confs(t) >= Confirmations - 1
Final(t) == Mined(t) /\ Confs(t) >= Confirmations
MatchingTransfer(t, i) == chain[t].amount = invoices[i].days
WalletLinked(t, i) == linked => chain[t].from = invoices[i].user

\* Final transfers to the treasury in the window, and the order of the chain.
Logs ==
  LET to == head - (Confirmations - 1)
  IN {t \in Ids(chain) : Mined(t) /\ chain[t].amount > 0 /\ chain[t].block \in (to - Lookback + 1)..to}
Before(s, t) == chain[s].block < chain[t].block \/ (chain[s].block = chain[t].block /\ s < t)

\* Each log, in turn, claims the first unclaimed invoice of its amount: the n-th log of an
\* amount the n-th invoice of it.
ClaimsFor(pending, logs) ==
  LET Rank(t) == Cardinality({s \in logs : chain[s].amount = chain[t].amount /\ Before(s, t)})
      Place(i) == Cardinality({j \in pending : invoices[j].days = invoices[i].days /\ j < i})
  IN {c \in [inv : pending, tx : logs] : MatchingTransfer(c.tx, c.inv) /\ Rank(c.tx) = Place(c.inv)}

----------------------------------------------------------------------------
(* confirm_payment: one transaction that pays the invoice and opens Pro+. *)

Ahead(left) == IF left > 0 THEN left ELSE 0
Extend(left, days) == Ahead(left) + days

MayConfirm(i, t) ==
  /\ ~LogConfirmed(t)
  /\ invoices[i].status = "pending"
  /\ MatchingTransfer(t, i)

SubmittedFor(i, t) == {p \in Ids(payments) : payments[p].inv = i /\ payments[p].tx = t
                                               /\ payments[p].status = "submitted"}

Grant(i) ==
  LET u == invoices[i].user IN
  /\ sub' = [sub EXCEPT ![u] = [tier |-> "pro_plus", left |-> Extend(@.left, invoices[i].days)]]
  /\ owed' = [owed EXCEPT ![u].paid = @ + invoices[i].days]

ConfirmPayment(i, t) ==
  IF MayConfirm(i, t)
  THEN /\ \/ \E p \in SubmittedFor(i, t) : payments' = [payments EXCEPT ![p].status = "confirmed"]
          \/ /\ SubmittedFor(i, t) = {}
             /\ payments' = Append(payments, [inv |-> i, tx |-> t, status |-> "confirmed"])
       /\ invoices' = [invoices EXCEPT ![i] = [@ EXCEPT !.status = "paid", !.due = FALSE]]
       /\ Grant(i)
  ELSE UNCHANGED <<payments, invoices, sub, owed>>

Reject(p) == payments' = [payments EXCEPT ![p].status =
                            IF @ = "submitted" THEN "rejected" ELSE @]

----------------------------------------------------------------------------
(* Handlers. *)

CreateInvoice(u) == \E d \in Periods :
  /\ Len(invoices) < MaxInvoices
  /\ PendingOf(u) = {}
  /\ invoices' = Append(invoices, [user |-> u, days |-> d, status |-> "pending", due |-> FALSE])
  /\ UNCHANGED <<payments, chain, head, sub, worker, linked, owed>>

\* A user hands in the hash of a transaction, mined or not, whoever sent it.
SubmitTx(u) == \E i \in Ids(invoices), t \in Ids(chain) :
  /\ Len(payments) < MaxPayments
  /\ invoices[i].user = u /\ invoices[i].status = "pending" /\ ~invoices[i].due
  /\ \A p \in Ids(payments) : payments[p].inv = i /\ payments[p].tx = t
                                => payments[p].status = "rejected"
  /\ payments' = Append(payments, [inv |-> i, tx |-> t, status |-> "submitted"])
  /\ UNCHANGED <<invoices, chain, head, sub, worker, linked, owed>>

\* An operator confirms a transfer that she has seen to be final.
InternalConfirm == \E i \in Ids(invoices), t \in Ids(chain) :
  /\ Len(payments) < MaxPayments
  /\ Final(t)
  /\ WalletLinked(t, i)
  /\ MayConfirm(i, t)
  /\ ConfirmPayment(i, t)
  /\ UNCHANGED <<chain, head, worker, linked>>

\* POST /me/subscription; in production only the way down is open, with an until or without,
\* from either tier.
Unsubscribe(u) == \E days \in {NoUntil} \cup Untils :
  LET free == [tier |-> "free", left |-> days] IN
  /\ sub[u] # free
  /\ days > 0 => Cardinality({v \in Users : owed[v].free > 0}) < MaxWriters
  /\ sub' = [sub EXCEPT ![u] = free]
  /\ owed' = [owed EXCEPT ![u] = [paid |-> 0, free |-> Ahead(days)]]
  /\ UNCHANGED <<invoices, payments, chain, head, worker, linked>>

----------------------------------------------------------------------------
(* The billing worker: one task, so expiry runs between batches only. *)

StartBatch ==
  /\ worker = Idle
  /\ worker' = [phase |-> "submitted", todo |-> ListSubmitted, claims |-> {}]
  /\ UNCHANGED <<invoices, payments, chain, head, sub, linked, owed>>

\* The oldest payment that is left.
FirstSubmitted(p) ==
  /\ worker.phase = "submitted" /\ worker.claims = {}
  /\ p \in worker.todo /\ \A q \in worker.todo : p <= q

\* try_confirm_submitted up to finalize_confirm: read the invoice, the receipt, the head.
TrySubmitted == \E p \in Ids(payments) :
  /\ FirstSubmitted(p)
  /\ LET i == payments[p].inv
         t == payments[p].tx
         next == [worker EXCEPT !.todo = @ \ {p}]
     IN IF invoices[i].status # "pending"
        THEN Reject(p) /\ worker' = next
        ELSE IF ~Final(t) \* not mined, or too young: wait; a transaction that failed is rejected
        THEN /\ worker' = next
             /\ UNCHANGED payments \/ (Mined(t) /\ chain[t].amount = 0 /\ Reject(p))
        ELSE IF ~MatchingTransfer(t, i) \/ ~WalletLinked(t, i)
        THEN Reject(p) /\ worker' = next
        ELSE worker' = [next EXCEPT !.claims = {[inv |-> i, tx |-> t]}] /\ UNCHANGED payments
  /\ UNCHANGED <<invoices, chain, head, sub, linked, owed>>

\* The claims of one scan are worked off one by one; then the batch is over.
Claiming(claims) == IF claims = {} THEN Idle
                    ELSE [phase |-> "claim", todo |-> {}, claims |-> claims]

\* An RPC call failed: this payment is left for the next batch.
SkipSubmitted == \E p \in Ids(payments) :
  /\ FirstSubmitted(p)
  /\ worker' = [worker EXCEPT !.todo = @ \ {p}]
  /\ UNCHANGED <<invoices, payments, chain, head, sub, linked, owed>>

ScanLogs ==
  /\ worker.phase = "submitted" /\ worker.claims = {} /\ worker.todo = {}
  /\ worker' = Claiming(ClaimsFor(ListPending, Logs))
  /\ UNCHANGED <<invoices, payments, chain, head, sub, linked, owed>>

\* finalize_confirm, in the order of the logs: a claim that lost its invoice or its log is dropped.
Finalize == \E c \in worker.claims :
  /\ \A d \in worker.claims : ~Before(d.tx, c.tx)
  /\ IF worker.phase = "claim" /\ ~WalletLinked(c.tx, c.inv)
     THEN UNCHANGED <<payments, invoices, sub, owed>>
     ELSE ConfirmPayment(c.inv, c.tx)
  /\ worker' = IF worker.phase = "claim" THEN Claiming(worker.claims \ {c})
                ELSE [worker EXCEPT !.claims = {}]
  /\ UNCHANGED <<chain, head, linked>>

\* run_expiry: stale invoices, then subscriptions past their grace.
Expired(u) == sub[u].tier = "pro_plus" /\ sub[u].left # NoUntil /\ sub[u].left + Grace < 0
RunExpiry ==
  /\ worker = Idle
  /\ \/ \E i \in Ids(invoices) : invoices[i].status = "pending" /\ invoices[i].due
     \/ \E u \in Users : Expired(u)
  /\ invoices' = [i \in Ids(invoices) |->
                    IF invoices[i].status = "pending" /\ invoices[i].due
                    THEN [invoices[i] EXCEPT !.status = "expired"] ELSE invoices[i]]
  /\ sub' = [u \in Users |-> IF Expired(u) THEN [tier |-> "free", left |-> NoUntil] ELSE sub[u]]
  /\ UNCHANGED <<payments, chain, head, worker, linked, owed>>

\* The account service stops; the batch is forgotten, the tables are not.
Crash ==
  /\ worker # Idle
  /\ worker' = Idle
  /\ UNCHANGED <<invoices, payments, chain, head, sub, linked, owed>>

----------------------------------------------------------------------------
(* The chain and the calendar. *)

Pay(u) == \E i \in Ids(invoices), a \in Periods \cup {0} :
  /\ Len(chain) < MaxTxs
  /\ invoices[i].user = u /\ a \in {invoices[i].days, 0}
  /\ a = 0 => Cardinality({t \in Ids(chain) : chain[t].amount = 0}) < MaxDuds
  /\ chain' = Append(chain, [from |-> u, amount |-> a, block |-> 0])
  /\ UNCHANGED <<invoices, payments, head, sub, worker, linked, owed>>

Mine == \E S \in SUBSET {t \in Ids(chain) : ~Mined(t)} :
  /\ head < MaxHead
  /\ head' = head + 1
  /\ chain' = [t \in Ids(chain) |-> IF t \in S THEN [chain[t] EXCEPT !.block = head + 1] ELSE chain[t]]
  /\ UNCHANGED <<invoices, payments, sub, worker, linked, owed>>

\* A reorganisation, never as deep as the confirmations asked for.
Reorg == \E b \in (head - Confirmations + 2)..head :
  /\ \E t \in Ids(chain) : chain[t].block >= b
  /\ chain' = [t \in Ids(chain) |-> IF chain[t].block >= b THEN [chain[t] EXCEPT !.block = 0] ELSE chain[t]]
  /\ UNCHANGED <<invoices, payments, head, sub, worker, linked, owed>>

BecomeDue == \E i \in Ids(invoices) :
  /\ invoices[i].status = "pending" /\ ~invoices[i].due
  /\ invoices' = [invoices EXCEPT ![i].due = TRUE]
  /\ UNCHANGED <<payments, chain, head, sub, worker, linked, owed>>

\* One day less; an until of a free user that has passed is as good as none.
Aged(s) == IF s.tier = "free" /\ s.left <= 1 THEN [s EXCEPT !.left = NoUntil]
           ELSE IF s.left > -(Grace + 1) THEN [s EXCEPT !.left = @ - 1] ELSE s

DayPasses ==
  /\ \E u \in Users : Aged(sub[u]) # sub[u]
  /\ sub' = [u \in Users |-> Aged(sub[u])]
  /\ owed' = [u \in Users |-> IF owed[u].paid > 0 THEN [owed[u] EXCEPT !.paid = @ - 1]
                              ELSE [owed[u] EXCEPT !.free = Ahead(@ - 1)]]
  /\ UNCHANGED <<invoices, payments, chain, head, worker, linked>>

Next ==
  \/ \E u \in Users : CreateInvoice(u) \/ SubmitTx(u) \/ Unsubscribe(u) \/ Pay(u)
  \/ InternalConfirm
  \/ StartBatch \/ TrySubmitted \/ SkipSubmitted \/ ScanLogs \/ Finalize
  \/ RunExpiry \/ Crash
  \/ Mine \/ Reorg \/ BecomeDue \/ DayPasses

----------------------------------------------------------------------------
Statuses == {"pending", "paid", "expired"}

\* The rows are what the tables of migration 0040 admit.
TypeOK ==
  /\ invoices \in Seq([user : Users, days : Periods, status : Statuses, due : BOOLEAN])
  /\ payments \in Seq([inv : Ids(invoices), tx : Ids(chain),
                       status : {"submitted", "confirmed", "rejected"}])
  /\ chain \in Seq([from : Users, amount : Periods \cup {0}, block : 0..head])
  /\ sub \in [Users -> [tier : {"free", "pro_plus"}, left : Int]]
  /\ worker.phase \in {"idle", "submitted", "claim"}
  /\ owed \in [Users -> [paid : Nat, free : Nat]]

Credited == {p \in Ids(payments) : payments[p].status = "confirmed"}

\* An invoice is paid exactly if one payment of it is confirmed, and no transfer pays twice:
\* the two paths (receipt, log scan), the operator and a crash between them never credit one
\* transfer for two invoices, or one invoice for two transfers (billing.rs:296).
OneTransferPerCredit ==
  /\ \A i \in Ids(invoices) :
       Cardinality({p \in Credited : payments[p].inv = i}) = (IF invoices[i].status = "paid" THEN 1 ELSE 0)
  /\ \A p, q \in Credited : payments[p].tx = payments[q].tx => p = q

\* What was credited is on the chain for good, in full, whatever is reorganised.
CreditIsFinal == \A p \in Credited : Final(payments[p].tx) /\ MatchingTransfer(payments[p].tx, payments[p].inv)

\* With linked wallets required, only the user's own transfer pays her invoice.
OwnTransferOnly ==
  linked => \A p \in Credited : chain[payments[p].tx].from = invoices[payments[p].inv].user

CreditsAreBacked == OneTransferPerCredit /\ CreditIsFinal /\ OwnTransferOnly

\* Days paid for are served, and nothing else is: a renewal adds to what is left, neither the
\* grace nor the expiry task ends a subscription before its paid days have passed, and what is
\* left was paid for, or is of an until that the user wrote with the free tier, which her next
\* payment extends (billing.rs:264, 446; routes.rs:212).
PaidDaysServed == \A u \in Users :
  /\ owed[u].paid > 0 => sub[u].tier = "pro_plus"
  /\ Ahead(sub[u].left) = owed[u].paid + owed[u].free

\* Nothing is credited that the chain has not paid, and what was paid is served.
PaidIsServed == CreditsAreBacked /\ PaidDaysServed
=============================================================================
