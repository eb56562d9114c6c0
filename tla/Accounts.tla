------------------------------ MODULE Accounts ------------------------------
(***************************************************************************)
(* What a user has with Sharpside besides orders: a way in (Sessions), a   *)
(* subscription (Billing), a venue credential (Provisioning) and the book  *)
(* of what she follows (FollowBook).                                       *)
(*                                                                         *)
(* The four write disjoint tables: of all they read, only the tier         *)
(* and the ownership of wallets are written by another of the four, and    *)
(* the modules that read these admit any value of them.  Their steps       *)
(* commute, and each invariant speaks of one of them; so a                 *)
(* behaviour picks one part and the others stand still.                    *)
(***************************************************************************)
EXTENDS Integers, Sequences

CONSTANTS
  \* Billing
  Users, Periods, Confirmations, Lookback, Grace, Untils, MaxInvoices, MaxTxs, MaxHead, MaxPayments,
  MaxDuds, MaxWriters,
  \* FollowBook
  Customers, Traders, Identities, Configs, Requests, Signals, SignalOf(_), NoIdentity, Price, Size,
  SourceVenue, Implemented, Allowed, FreeSlots, FreeWatch, ProWatch, MaxFollows, MaxWatch, MaxAsks,
  \* Sessions
  Wallets, TgIds, NoTg, MaxAge, MaxNonces, MaxTokens, MaxUsers,
  \* Provisioning
  Keys, NoKey

\* Plans last and cost something, at least one confirmation is asked for (confirm.rs:99), a
\* grace period is not negative, and an until in the past is as good as none.
ASSUME BillingAssumption ==
  /\ Periods \subseteq Nat \ {0} /\ Confirmations \in Nat \ {0} /\ Lookback \in Nat /\ Grace \in Nat
  /\ Untils \subseteq Nat

\* A target is a trader or an identity, never both; a trade is of nobody else.
ASSUME FollowAssumption ==
  /\ Configs \subseteq [venue : STRING, same : BOOLEAN, mode : {"fixed", "proportional"}, value : Int, max : Int]
  /\ Traders \cap Identities = {} /\ NoIdentity \notin Traders
  /\ \A s \in Signals : SignalOf(s).identity \in Identities \cup {NoIdentity}

ASSUME SessionAssumption == MaxAge \in Nat /\ NoTg \notin TgIds

ASSUME ProvisionAssumption == NoKey \notin Keys

VARIABLES
  part,
  invoices, payments, chain, head, sub, worker, linked, owed,
  follows, watch, tier, bots, verified, asks, call, outbox, ingest, orders, owing, stopped,
  nonces, users, owner, tokens, login, accepted, overlaps,
  row, archives, stage, confirm, seen, shown, replaced

billingVars == <<invoices, payments, chain, head, sub, worker, linked, owed>>
bookVars == <<follows, watch, tier, bots, verified, asks, call, outbox, ingest, orders, owing, stopped>>
sessionVars == <<nonces, users, owner, tokens, login, accepted, overlaps>>
provisionVars == <<row, archives, stage, confirm, seen, shown, replaced>>

Bill == INSTANCE Billing
Book == INSTANCE FollowBook
Sess == INSTANCE Sessions WITH call <- login
Prov == INSTANCE Provisioning

Parts == {"billing", "follow", "sessions", "provisioning"}

\* A part that stands still has one initial state.
Init ==
  /\ part \in Parts
  /\ Bill!Init /\ Book!Init /\ Sess!Init /\ Prov!Init
  /\ part # "billing" => ~linked
  /\ part # "follow" => tier = [u \in Customers |-> "free"]
  /\ part # "provisioning" => confirm = [k \in Keys |-> "no"]

Next ==
  /\ UNCHANGED part
  /\ \/ /\ part = "billing" /\ Bill!Next
        /\ UNCHANGED <<bookVars, sessionVars, provisionVars>>
     \/ /\ part = "follow" /\ Book!Next
        /\ UNCHANGED <<billingVars, sessionVars, provisionVars>>
     \/ /\ part = "sessions" /\ Sess!Next
        /\ UNCHANGED <<billingVars, bookVars, provisionVars>>
     \/ /\ part = "provisioning" /\ Prov!Next
        /\ UNCHANGED <<billingVars, bookVars, sessionVars>>

Spec == Init /\ [][Next]_<<part, billingVars, bookVars, sessionVars, provisionVars>>

----------------------------------------------------------------------------
\* Rows, requests and histories have the types that their tables and handlers give them.
TypeOK == Bill!TypeOK /\ Book!TypeOK /\ Sess!TypeOK /\ Prov!TypeOK

\* Billing: every credited invoice is backed by one final transfer of its own, in full and, if
\* wallets must be linked, by the user herself; and days that were paid for are served, with
\* those of an until that a free user wrote and no others (billing.rs:296, 446).
PaidIsServed == Bill!PaidIsServed

\* FollowBook: a watchlist item becomes at most one follow, a target has at most one active
\* follow of a user, and each follow kept all through a delivery has one order per signal
\* (watchlist.rs:268, routes.rs:367).
FollowsKept == Book!FollowsKept

\* Sessions: a signed message is accepted once, and no user is left without a way in
\* (account.rs:1466, routes.rs:520).
WaysIn == Sess!WaysIn

\* Provisioning: no key whose wallet a user has seen is lost, and none is replaced unasked
\* (deposit.rs:286, routes.rs:113).
CredentialsKept == Prov!CredentialsKept
=============================================================================
