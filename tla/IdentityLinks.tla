---------------------------- MODULE IdentityLinks ------------------------------
(***************************************************************************)
(* Identities gather the traders of one person on several venues: a worker *)
(* proposes them by likeness, operators verify or reject them, and copies  *)
(* of a followed identity go by the links, so that no identity may come to *)
(* mean anything that no operator has seen.                                *)
(***************************************************************************)
EXTENDS Integers, Sequences, FiniteSets

CONSTANTS
  People,        \* traders of all venues
  VenueOf(_),    \* the place of a trader's venue in the order of their names
  Alike,         \* pairs of traders whose names reach the threshold
  ListLimit,     \* how many traders a tick reads, 2000
  MaxTicks, MaxIds, MaxSlips  \* bounds: ticks, identities, failures and restarts

VARIABLES
  link,      \* traders.identity_id, 0 for none
  hidden,    \* traders that are not visible
  ids,       \* identities: state, and (history) what the operator last saw of it
  listed,    \* history: the traders the last tick read
  tick,      \* the tick of the identity worker: the links it read, and the pairs to go
  ticks, slips,
  clean      \* history: nothing failed and nobody interfered since the tick began

identityVars == <<link, hidden, ids, listed, tick, ticks, slips, clean>>

Members(i) == {t \in People : link[t] = i}
NoTick == [on |-> FALSE, links |-> [t \in People |-> 0], todo |-> {}]

Init ==
  /\ link = [t \in People |-> 0] /\ hidden = {} /\ ids = <<>> /\ listed = {} /\ tick = NoTick
  /\ ticks = 0 /\ slips = MaxSlips /\ clean = FALSE

----------------------------------------------------------------------------
(* The identity worker. *)

Candidates(S) ==
  {p \in Alike : p \subseteq S /\ Cardinality({VenueOf(t) : t \in p}) = Cardinality(p)}

\* list_all_visible_traders: the venues one after the other, in each those updated last.
Reads(R) ==
  /\ R \subseteq People \ hidden
  /\ R = People \ hidden \/ Cardinality(R) = ListLimit
  /\ Cardinality(R) <= ListLimit
  /\ \A t \in R, u \in (People \ hidden) \ R : VenueOf(t) <= VenueOf(u)

StartTick ==
  /\ ~tick.on /\ ticks < MaxTicks
  /\ \E R \in SUBSET People :
       /\ Reads(R) /\ listed' = R
       /\ tick' = [on |-> TRUE, links |-> link, todo |-> Candidates(R)]
  /\ ticks' = ticks + 1 /\ clean' = TRUE
  /\ UNCHANGED <<link, hidden, ids, slips>>

Linked(p) == \A t \in p : tick.links[t] # 0

PassOver(p) ==
  /\ p \in tick.todo /\ Linked(p)
  /\ tick' = [tick EXCEPT !.todo = @ \ {p}]
  /\ UNCHANGED <<link, hidden, listed, ids, ticks, slips, clean>>

\* Both are taken over by the new identity, whatever they were linked to.
Propose(p) ==
  /\ p \in tick.todo /\ ~Linked(p) /\ Len(ids) < MaxIds
  /\ tick' = [tick EXCEPT !.todo = @ \ {p}]
  /\ ids' = Append(ids, [state |-> "pending", looked |-> FALSE, shown |-> {}])
  /\ link' = [t \in People |-> IF t \in p THEN Len(ids) + 1 ELSE link[t]]
  /\ UNCHANGED <<hidden, listed, ticks, slips, clean>>

ProposeFails(p) ==
  /\ p \in tick.todo /\ ~Linked(p) /\ slips > 0
  /\ tick' = [tick EXCEPT !.todo = @ \ {p}]
  /\ slips' = slips - 1 /\ clean' = FALSE
  /\ UNCHANGED <<link, hidden, listed, ids, ticks>>

EndTick ==
  /\ tick.on /\ tick.todo = {}
  /\ tick' = NoTick
  /\ UNCHANGED <<link, hidden, listed, ids, ticks, slips, clean>>

Restart ==
  /\ tick.on /\ slips > 0
  /\ tick' = NoTick
  /\ slips' = slips - 1 /\ clean' = FALSE
  /\ UNCHANGED <<link, hidden, listed, ids, ticks>>

----------------------------------------------------------------------------
(* Operators and traders. *)

SetHidden(t) ==
  /\ hidden' = (hidden \ {t}) \cup ({t} \ hidden)
  /\ UNCHANGED <<link, ids, listed, tick, ticks, slips, clean>>

\* The queue shows each pending identity with its members.
Look(i) ==
  /\ ids[i].state = "pending"
  /\ ids' = [ids EXCEPT ![i].looked = TRUE, ![i].shown = Members(i)]
  /\ UNCHANGED <<link, hidden, listed, tick, ticks, slips, clean>>

\* Of what she saw: an identity that is gone by then is not found.
Verify(i) ==
  /\ ids[i].looked /\ ids[i].state # "deleted"
  /\ ids' = [ids EXCEPT ![i].state = "verified"]
  /\ UNCHANGED <<link, hidden, listed, tick, ticks, slips, clean>>

\* A verified one is deleted as well; the members' identity_id is set to NULL.
Reject(i) ==
  /\ ids[i].looked /\ ids[i].state # "deleted"
  /\ ids' = [ids EXCEPT ![i].state = "deleted"]
  /\ link' = [t \in People |-> IF link[t] = i THEN 0 ELSE link[t]]
  /\ clean' = FALSE
  /\ UNCHANGED <<hidden, listed, tick, ticks, slips>>

----------------------------------------------------------------------------
Next ==
  \/ StartTick
  \/ EndTick
  \/ Restart
  \/ \E p \in Alike : PassOver(p)
  \/ \E p \in Alike : Propose(p)
  \/ \E p \in Alike : ProposeFails(p)
  \/ \E t \in People : SetHidden(t)
  \/ \E i \in DOMAIN ids : Look(i)
  \/ \E i \in DOMAIN ids : Verify(i)
  \/ \E i \in DOMAIN ids : Reject(i)

Spec == Init /\ [][Next]_identityVars

----------------------------------------------------------------------------
\* Links, identities and the tick have their types.
TypeOK ==
  /\ link \in [People -> 0..Len(ids)] /\ hidden \subseteq People /\ listed \subseteq People
  /\ \A i \in DOMAIN ids : /\ ids[i].shown \subseteq People
                          /\ ids[i].state \in {"pending", "verified", "deleted"}
  /\ tick.links \in [People -> 0..Len(ids)] /\ tick.todo \subseteq Alike
  /\ ticks \in 0..MaxTicks /\ slips \in 0..MaxSlips /\ clean \in BOOLEAN

\* Whoever is followed through a verified identity was on the screen when an operator last looked
\* at it before verifying, and nobody is linked to an identity that is gone (identities.rs:17).
NobodySlipsIn ==
  \A t \in People : link[t] # 0 =>
    /\ ids[link[t]].state # "deleted"
    /\ ids[link[t]].state = "verified" => t \in ids[link[t]].shown

\* A tick that nothing disturbs leaves no trader of a candidate pair that it has read without an
\* identity (identity.rs:60); those beyond the limit of its list wait, perhaps for ever (identity.rs:35).
AllAreProposed ==
  clean /\ ~tick.on => \A p \in Candidates(listed) : \A t \in p : link[t] # 0

IdentitiesHold == NobodySlipsIn /\ AllAreProposed
=============================================================================
