---------------------------- MODULE Provisioning ----------------------------
(***************************************************************************)
(* The credential of a user at the venue: provisioning a deposit wallet    *)
(* (services/account/src/deposit.rs, routes.rs), the operator's upsert and *)
(* revocation, over user_venue_credentials and credential_archives         *)
(* (crates/db/src/queries/account.rs).  One user, one venue.               *)
(*                                                                         *)
(* Each provisioning makes a key of its own: the request stands for it.    *)
(* The row and the archives are the only places a key is kept, so a key    *)
(* in neither is lost, and with it what its wallet holds.                  *)
(***************************************************************************)
EXTENDS Naturals, FiniteSets

CONSTANTS
  Keys,  \* requests to provision, each with the key it makes
  NoKey

VARIABLES
  row,      \* the credential: [key, revoked], key NoKey if there is none
  archives, \* set of [key, revoked, nth]: rows put aside, the nth copy of it
  stage,    \* key -> where the request that makes it is
  confirm,  \* key -> confirm_replace, or "operator" for the internal upsert
  seen,     \* history: key -> keys shown when the request came, key in the row when it archived
  shown,    \* history: keys that have been in the row, whose wallet a user may fund
  replaced  \* history: [old, new, revoked] of every row that was overwritten

Init ==
  /\ row = [key |-> NoKey, revoked |-> FALSE]
  /\ archives = {}
  /\ stage = [k \in Keys |-> "new"]
  /\ confirm \in [Keys -> {"yes", "no", "operator"}]
  /\ seen = [k \in Keys |-> [before |-> {}, archived |-> NoKey]]
  /\ shown = {} /\ replaced = {}

Step(k, from, to) == stage[k] = from /\ stage' = [stage EXCEPT ![k] = to]

----------------------------------------------------------------------------

\* The gate: an active credential is replaced on confirmation only.
MayReplace(k) == row.key # NoKey /\ ~row.revoked => confirm[k] # "no"

\* live: the environment may differ from one start of the service to the next.
Provision(k) == \E live \in BOOLEAN :
  /\ confirm[k] # "operator"
  /\ MayReplace(k)
  /\ Step(k, "new", IF live THEN "network" ELSE "store")
  /\ seen' = [seen EXCEPT ![k].before = shown]
  /\ UNCHANGED <<row, archives, confirm, shown, replaced>>

\* The operator's upsert stores the blob it was given.
InternalUpsert(k) ==
  /\ confirm[k] = "operator"
  /\ Step(k, "new", "store")
  /\ UNCHANGED <<row, archives, confirm, seen, shown, replaced>>

\* Relayer and CLOB, steps 4 to 8; an error ends the request (see Fail).
Online(k) ==
  /\ Step(k, "network", "store")
  /\ UNCHANGED <<row, archives, confirm, seen, shown, replaced>>

Copy == [key |-> row.key, revoked |-> row.revoked, nth |-> 1 + Cardinality({a \in archives : a.key = row.key})]

\* archive_credential_if_exists: INSERT ... SELECT the row as it stands, if there is one.
ArchivedBlank == archives \cup {Copy}
ArchivedActive == IF row.key = NoKey \/ row.revoked THEN archives ELSE archives \cup {Copy}
Archived == IF row.key = NoKey THEN archives ELSE archives \cup {Copy}

Archive(k) ==
  /\ Step(k, "store", "upsert")
  /\ archives' = Archived
  /\ seen' = [seen EXCEPT ![k].archived = row.key]
  /\ UNCHANGED <<row, confirm, shown, replaced>>

\* upsert_credential_with_proxy: a new key clears the revocation.
Upsert(k) ==
  /\ Step(k, "upsert", "done")
  /\ row' = [key |-> k, revoked |-> FALSE]
  /\ shown' = shown \cup {k}
  /\ replaced' = replaced \cup {[old |-> row.key, new |-> k, revoked |-> row.revoked]}
  /\ UNCHANGED <<archives, confirm, seen>>

\* A step failed or the service stopped: what is in the tables stays there.
Fail(k) ==
  /\ stage[k] \notin {"new", "done", "failed"}
  /\ stage' = [stage EXCEPT ![k] = "failed"]
  /\ UNCHANGED <<row, archives, confirm, seen, shown, replaced>>

Revoke ==
  /\ row.key # NoKey /\ ~row.revoked
  /\ row' = [row EXCEPT !.revoked = TRUE]
  /\ UNCHANGED <<archives, stage, confirm, seen, shown, replaced>>

Next ==
  \/ \E k \in Keys : \/ Provision(k) \/ InternalUpsert(k) \/ Online(k)
                     \/ Archive(k) \/ Upsert(k) \/ Fail(k)
  \/ Revoke

----------------------------------------------------------------------------
Stages == {"new", "network", "store", "upsert", "done", "failed"}

TypeOK ==
  /\ row.key \in Keys \cup {NoKey} /\ row.revoked \in BOOLEAN
  /\ stage \in [Keys -> Stages]
  /\ \A a \in archives : a.key \in shown

\* Keys written into the row after another request had archived it, which then overwrote them.
Raced == {p.old : p \in {q \in replaced : seen[q.new].archived # q.old}}

Kept == {row.key} \cup {a.key : a \in archives}

\* A key whose wallet a user has seen is in the row or in the archives, revoked or not, whatever
\* step of a later provisioning fails; only two that overlap lose one (deposit.rs:286).
KeysKept == shown \subseteq Kept \cup Raced

\* A request without confirm_replace never overwrites an active credential that was there when
\* it came, however long its calls to the network take (routes.rs:113).
ReplacedOnRequest ==
  \A p \in replaced : confirm[p.new] = "no" /\ ~p.revoked => p.old \notin seen[p.new].before

CredentialsKept == KeysKept /\ ReplacedOnRequest
=============================================================================
