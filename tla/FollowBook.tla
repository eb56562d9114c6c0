----------------------------- MODULE FollowBook -----------------------------
(***************************************************************************)
(* The follow service: follow relations, the watchlist and its upgrade     *)
(* (services/follow/src/routes.rs, watchlist.rs) and the derivation of     *)
(* orders from signals (signal.rs), over the tables of                     *)
(* crates/db/src/queries/account.rs.                                       *)
(*                                                                         *)
(* A target is a trader or an identity.  The address of a trader is kept   *)
(* as it was written: normalised, or raw when it came by way of the        *)
(* watchlist.  Handlers read, then write: call holds what a handler has    *)
(* read.  Bot tags and identity checks belong to other services and may    *)
(* change at any time; the subscription tier only feeds the quotas.        *)
(***************************************************************************)
EXTENDS Integers, Sequences, FiniteSets

CONSTANTS
  Customers,   \* users of the follow service
  Traders, Identities,
  Configs,     \* [venue, same, mode, value, max]: what a user may ask for
  Requests,    \* slots for requests in flight
  Signals,     \* signals, each of one trade of one trader
  SignalOf(_), \* signal -> [trader, identity]; identity is NoIdentity if not linked
  NoIdentity,
  Price, Size, \* of the trade
  SourceVenue, Implemented, Allowed, \* venue of the trade; with adapter; lawful for the users
  FreeSlots, FreeWatch, ProWatch, \* quotas (3, 20 and 200 in the code)
  MaxFollows, MaxWatch, MaxAsks   \* bounds: rows ever made, requests

VARIABLES
  follows, \* sequence of [user, target, raw, active, deleted, config, from]
  watch,   \* sequence of [user, target, raw, live]
  tier,    \* user -> subscription tier
  bots, verified, \* traders tagged bot; identities verified by hand
  asks,    \* number of requests so far
  call,    \* request -> None or what its handler has read
  outbox,  \* signals that venue-hub still has to deliver
  ingest,  \* None or [sig, todo, statuses]: the delivery under way
  orders,  \* copy_order rows: set of [sig, rel, status]
  owing,   \* history: relations of the delivery under way that were never stopped
  stopped  \* history: <<user, target>> of which a relation was stopped

None == [op |-> "none"]
Targets == Traders \cup Identities
Rels == DOMAIN follows

Init ==
  /\ follows = <<>> /\ watch = <<>>
  /\ tier \in [Customers -> {"free", "pro_plus"}]
  /\ bots = {} /\ verified = Identities
  /\ asks = 0
  /\ call = [c \in Requests |-> None]
  /\ outbox = Signals
  /\ ingest = None /\ orders = {}
  /\ owing = {} /\ stopped = {}

----------------------------------------------------------------------------
(* What the handlers ask the tables. *)

Active(r) == follows[r].active /\ ~follows[r].deleted
ActiveOf(u) == {r \in Rels : follows[r].user = u /\ Active(r)}
Watched(u) == {w \in DOMAIN watch : watch[w].user = u /\ watch[w].live}
WatchLimit(u) == IF tier[u] = "pro_plus" THEN ProWatch ELSE FreeWatch

\* find_active_follow_*, and the partial unique indexes of migration 0027.
Duplicates(u, t, raw) ==
  {r \in Rels : follows[r].user = u /\ follows[r].target = t /\ follows[r].raw = raw /\ follows[r].active}

FreeSlot(u) == tier[u] = "free" => Cardinality(ActiveOf(u)) < FreeSlots
Sound(cfg) == IF cfg.mode = "fixed" THEN cfg.value > 0 ELSE cfg.value \in 1..100
MayExecute(cfg) == cfg.venue \in Allowed
Open(t) == (t \in Traders => t \notin bots) /\ (t \in Identities => t \in verified)

----------------------------------------------------------------------------
(* Handlers: the checks ... *)

Counted == asks < MaxAsks /\ asks' = asks + 1

Ask(c, request) ==
  /\ call[c] = None
  /\ Counted
  /\ call' = [call EXCEPT ![c] = request]
  /\ UNCHANGED <<follows, watch, tier, bots, verified, outbox, ingest, orders, owing, stopped>>

CreateFollow(c) == \E u \in Customers, t \in Targets, cfg \in Configs :
  /\ cfg.venue \in Implemented /\ MayExecute(cfg) /\ Sound(cfg)
  /\ FreeSlot(u)
  /\ Open(t)
  /\ Duplicates(u, t, FALSE) = {}
  /\ Ask(c, [op |-> "create", user |-> u, target |-> t, config |-> cfg])

ResumeFollow(c) == \E r \in Rels :
  /\ follows[r].active \/ Duplicates(follows[r].user, follows[r].target, follows[r].raw) = {}
  /\ Ask(c, [op |-> "resume", rel |-> r])

CreateWatch(c) == \E u \in Customers, t \in Targets, raw \in BOOLEAN :
  /\ Cardinality(Watched(u)) < WatchLimit(u)
  /\ raw => t \in Traders
  /\ Ask(c, [op |-> "watch", user |-> u, target |-> t, raw |-> raw])

UpgradeWatch(c) == \E w \in DOMAIN watch, cfg \in Configs :
  /\ MayExecute(cfg)
  /\ watch[w].live
  /\ watch[w].raw \/ Open(watch[w].target) \* tags are kept under normalised addresses
  /\ Ask(c, [op |-> "upgrade", item |-> w, config |-> cfg])

(* ... and the writes.  A unique index turns the loser of a race away. *)

Answer(c) == call' = [call EXCEPT ![c] = None] /\ UNCHANGED asks

Follow(u, t, raw, cfg, from) ==
  /\ Len(follows) < MaxFollows
  /\ follows' = Append(follows, [user |-> u, target |-> t, raw |-> raw, active |-> TRUE,
                                 deleted |-> FALSE, config |-> cfg, from |-> from])

InsertFollow(c) ==
  /\ call[c].op = "create"
  /\ LET q == call[c] IN
       IF Duplicates(q.user, q.target, FALSE) = {}
       THEN Follow(q.user, q.target, FALSE, q.config, 0)
       ELSE UNCHANGED follows
  /\ Answer(c)
  /\ UNCHANGED <<watch, tier, bots, verified, outbox, ingest, orders, owing, stopped>>

SetActive(c) ==
  /\ call[c].op = "resume"
  /\ LET r == call[c].rel IN
       IF Duplicates(follows[r].user, follows[r].target, follows[r].raw) \subseteq {r}
       THEN follows' = [follows EXCEPT ![r].active = TRUE, ![r].deleted = FALSE]
       ELSE UNCHANGED follows
  /\ Answer(c)
  /\ UNCHANGED <<watch, tier, bots, verified, outbox, ingest, orders, owing, stopped>>

InsertWatch(c) ==
  /\ call[c].op = "watch"
  /\ Len(watch) < MaxWatch
  /\ LET q == call[c] IN
       IF \E w \in Watched(q.user) : watch[w].target = q.target /\ watch[w].raw = q.raw
       THEN UNCHANGED watch
       ELSE watch' = Append(watch, [user |-> q.user, target |-> q.target, raw |-> q.raw, live |-> TRUE])
  /\ Answer(c)
  /\ UNCHANGED <<follows, tier, bots, verified, outbox, ingest, orders, owing, stopped>>

\* One transaction: insert the follow, delete the item; no item left, no follow.
StillThereOrNot(w) == TRUE
StillThere(w) == watch[w].live

Upgrade(c) ==
  /\ call[c].op = "upgrade"
  /\ LET w == call[c].item
         item == watch[w]
     IN IF Duplicates(item.user, item.target, item.raw) = {} /\ StillThere(w)
        THEN /\ Follow(item.user, item.target, item.raw, call[c].config, w)
             /\ watch' = [watch EXCEPT ![w].live = FALSE]
        ELSE UNCHANGED <<follows, watch>>
  /\ Answer(c)
  /\ UNCHANGED <<tier, bots, verified, outbox, ingest, orders, owing, stopped>>

\* PATCH with active = false, and DELETE: single statements.
Stop(r) ==
  /\ owing' = owing \ {r}
  /\ stopped' = stopped \cup {<<follows[r].user, follows[r].target>>}
  /\ Counted
  /\ UNCHANGED <<watch, tier, bots, verified, call, outbox, ingest, orders>>
PauseFollow == \E r \in Rels :
  /\ follows[r].active
  /\ follows' = [follows EXCEPT ![r].active = FALSE]
  /\ Stop(r)
DeleteFollow == \E r \in Rels :
  /\ ~follows[r].deleted
  /\ follows' = [follows EXCEPT ![r].active = FALSE, ![r].deleted = TRUE]
  /\ Stop(r)
\* PATCH leaves the column same_venue_only as it was, whatever the new config says.
Configure == \E r \in Rels, cfg \in Configs :
  /\ follows' = [follows EXCEPT ![r].config = [cfg EXCEPT !.same = follows[r].config.same]]
  /\ Counted
  /\ UNCHANGED <<watch, tier, bots, verified, call, outbox, ingest, orders, owing, stopped>>
DeleteWatch == \E w \in DOMAIN watch :
  /\ watch[w].live
  /\ watch' = [watch EXCEPT ![w].live = FALSE]
  /\ Counted
  /\ UNCHANGED <<follows, tier, bots, verified, call, outbox, ingest, orders, owing, stopped>>

----------------------------------------------------------------------------
(* Signals. *)

\* list_follows_of_trader compares the column as it stands; list_follows_of_identity.
Matches(r, s) ==
  /\ Active(r)
  /\ \/ follows[r].target = SignalOf(s).trader /\ ~follows[r].raw
     \/ follows[r].target = SignalOf(s).identity

\* derive_copy_orders, in the order of its checks.
Notional(cfg) == IF cfg.mode = "fixed" THEN cfg.value ELSE (Size * cfg.value * Price) \div 100
Pending(r) ==
  LET f == follows[r]
      cfg == f.config
  IN /\ f.target \in Identities => f.target \in verified
     /\ cfg.same => cfg.venue = SourceVenue
     /\ Sound(cfg)
     /\ cfg.max > 0 => Notional(cfg) <= cfg.max

Ingest(s) ==
  /\ ingest = None /\ s \in outbox
  /\ LET rels == {r \in Rels : Matches(r, s)} IN
       /\ ingest' = [sig |-> s, todo |-> rels, pending |-> {r \in rels : Pending(r)}]
       /\ owing' = rels
  /\ UNCHANGED <<follows, watch, tier, bots, verified, asks, call, outbox, orders, stopped>>

\* enqueue_copy_order, relation by relation in the order of the query, which names none:
\* (signal, relation) is unique, so a row of an earlier delivery stays.
Enqueue == ingest # None /\ \E r \in ingest.todo :
  /\ IF \E o \in orders : o.sig = ingest.sig /\ o.rel = r
     THEN UNCHANGED orders
     ELSE orders' = orders \cup {[sig |-> ingest.sig, rel |-> r,
                                  status |-> IF r \in ingest.pending THEN "pending" ELSE "skipped"]}
  /\ ingest' = [ingest EXCEPT !.todo = @ \ {r}]
  /\ UNCHANGED <<follows, watch, tier, bots, verified, asks, call, outbox, owing, stopped>>

Acknowledge ==
  /\ ingest # None /\ ingest.todo = {}
  /\ outbox' = outbox \ {ingest.sig}
  /\ ingest' = None /\ owing' = {}
  /\ UNCHANGED <<follows, watch, tier, bots, verified, asks, call, orders, stopped>>

\* An insert failed, the service stopped, or the answer was lost: venue-hub sends again.
DeliverAgain ==
  /\ ingest # None
  /\ ingest' = None /\ owing' = {}
  /\ UNCHANGED <<follows, watch, tier, bots, verified, asks, call, outbox, orders, stopped>>

----------------------------------------------------------------------------
(* Other services. *)

TagBot(t) ==
  /\ bots' = bots \cup {t} /\ t \notin bots
  /\ UNCHANGED <<follows, watch, tier, verified, asks, call, outbox, ingest, orders, owing, stopped>>
Doubt(i) ==
  /\ verified' = verified \ {i} /\ i \in verified
  /\ UNCHANGED <<follows, watch, tier, bots, asks, call, outbox, ingest, orders, owing, stopped>>

Next ==
  \/ \E c \in Requests : \/ CreateFollow(c) \/ ResumeFollow(c) \/ CreateWatch(c) \/ UpgradeWatch(c)
                         \/ InsertFollow(c) \/ SetActive(c) \/ InsertWatch(c) \/ Upgrade(c)
  \/ PauseFollow \/ DeleteFollow \/ Configure \/ DeleteWatch
  \/ \E s \in Signals : Ingest(s)
  \/ Enqueue \/ Acknowledge \/ DeliverAgain
  \/ \E t \in Traders : TagBot(t)
  \/ \E i \in Identities : Doubt(i)

----------------------------------------------------------------------------
TypeOK ==
  /\ \A r \in Rels : /\ follows[r].user \in Customers /\ follows[r].target \in Targets
                     /\ \E cfg \in Configs : follows[r].config \in {cfg, [cfg EXCEPT !.same = ~cfg.same]}
                     /\ follows[r].from \in 0..Len(watch)
  /\ \A w \in DOMAIN watch : watch[w].user \in Customers /\ watch[w].target \in Targets
  /\ bots \subseteq Traders /\ verified \subseteq Identities /\ outbox \subseteq Signals
  /\ \A o \in orders : o.sig \in Signals /\ o.rel \in Rels /\ o.status \in {"pending", "skipped"}

\* An item of the watchlist becomes at most one follow, and is gone once it has, although two
\* upgrades of it may both have read it and a paused follow frees the index (watchlist.rs:268).
UpgradedOnce ==
  \A r \in Rels : follows[r].from > 0 =>
    /\ ~watch[follows[r].from].live
    /\ \A q \in Rels : follows[q].from = follows[r].from => q = r

\* At most one relation of a user to a target (as written) is active, whatever the handlers,
\* which check before they write, interleave (routes.rs:158, 247).
OneActiveEach ==
  \A q, r \in Rels : /\ follows[q].active /\ follows[r].active /\ follows[q].user = follows[r].user
                     /\ follows[q].target = follows[r].target /\ follows[q].raw = follows[r].raw
                     => q = r

\* A relation that was active all through a delivery has its order when the delivery is
\* acknowledged, whatever an earlier delivery of the signal had already written; and a
\* signal gives a relation one order (routes.rs:367-422).
FollowersServed ==
  /\ ingest # None => \A r \in owing :
       r \in ingest.todo \/ (\E o \in orders : o.sig = ingest.sig /\ o.rel = r)
  /\ \A o, p \in orders : o.sig = p.sig /\ o.rel = p.rel => o = p

\* Two orders of a user for one signal and one target: only if she stopped a relation and made
\* another while the signal was being delivered again.
OncePerTarget ==
  \A o, p \in orders : /\ o # p /\ o.sig = p.sig
                       /\ follows[o.rel].user = follows[p.rel].user
                       /\ follows[o.rel].target = follows[p.rel].target
    => <<follows[o.rel].user, follows[o.rel].target>> \in stopped

FollowsKept == UpgradedOnce /\ OneActiveEach /\ FollowersServed /\ OncePerTarget
=============================================================================
