--------------------------- MODULE MarketMappings ---------------------------
(***************************************************************************)
(* Markets of two venues that mean the same event: a worker proposes pairs *)
(* by likeness, operators verify or retire them, and an order that crosses *)
(* venues goes by the best verified pair, which may buy what was sold.     *)
(***************************************************************************)
EXTENDS Integers, FiniteSets

CONSTANTS
  From, To,      \* markets of the venue signals come from, and of the venue they are copied to
  Likeness,      \* likenesses that reach the threshold
  MaxRulings     \* bound: decisions of operators

VARIABLES
  mapping,   \* market_mappings: the row of each pair
  ruled,     \* history: what operators decided about it
  rulings,
  copied     \* history: the pair and the direction the last order was translated by

mappingVars == <<mapping, ruled, rulings, copied>>

Pairs   == From \X To
NoRow   == [status |-> "none", verified |-> FALSE, flip |-> FALSE, likeness |-> 0]
Unruled == [retired |-> FALSE, verified |-> FALSE, flip |-> FALSE]
Skipped == [to |-> "none", flip |-> FALSE]

Init ==
  /\ mapping = [m \in Pairs |-> NoRow]
  /\ ruled = [m \in Pairs |-> Unruled]
  /\ rulings = 0 /\ copied = [f \in From |-> Skipped]

\* Mutant: a candidate found again replaces its row (ON CONFLICT DO UPDATE).
InsertAgain(m, likeness) ==
  /\ mapping' = [mapping EXCEPT ![m] = [NoRow EXCEPT !.status = "active", !.likeness = likeness]]
  /\ UNCHANGED <<ruled, rulings, copied>>

\* A pair that has a row keeps it.
InsertCandidate(m, likeness) ==
  /\ mapping[m] = NoRow
  /\ mapping' = [mapping EXCEPT ![m].status = "active", ![m].likeness = likeness]
  /\ UNCHANGED <<ruled, rulings, copied>>

Ruling == rulings < MaxRulings /\ rulings' = rulings + 1

\* Any row, a retired one too, and without making that active again.
VerifyMapping(m, flip) ==
  /\ mapping[m].status # "none" /\ Ruling
  /\ mapping' = [mapping EXCEPT ![m].verified = TRUE, ![m].flip = flip]
  /\ ruled' = [ruled EXCEPT ![m].verified = TRUE, ![m].flip = flip]
  /\ UNCHANGED copied

RetireMapping(m) ==
  /\ mapping[m].status # "none" /\ Ruling
  /\ mapping' = [mapping EXCEPT ![m].status = "retired"]
  /\ ruled' = [ruled EXCEPT ![m].retired = TRUE]
  /\ UNCHANGED copied

Pending(m) == ~mapping[m].verified /\ mapping[m].status = "active"
Usable(m)  == mapping[m].verified /\ mapping[m].status = "active"

\* The copier takes the likest of the usable pairs, any of them when several are as like.
Resolve(m) ==
  /\ Usable(m)
  /\ \A n \in {m[1]} \X To : Usable(n) => mapping[n].likeness <= mapping[m].likeness
  /\ copied' = [copied EXCEPT ![m[1]] = [to |-> m[2], flip |-> mapping[m].flip]]
  /\ UNCHANGED <<mapping, ruled, rulings>>

\* An order without a usable pair is skipped.
ResolveNone(f) ==
  /\ \A m \in {f} \X To : ~Usable(m)
  /\ copied' = [copied EXCEPT ![f] = Skipped]
  /\ UNCHANGED <<mapping, ruled, rulings>>

Next ==
  \/ \E m \in Pairs, l \in Likeness : InsertCandidate(m, l)
  \/ \E m \in Pairs, flip \in BOOLEAN : VerifyMapping(m, flip)
  \/ \E m \in Pairs : RetireMapping(m)
  \/ \E m \in Pairs : Resolve(m)
  \/ \E f \in From : ResolveNone(f)

Spec == Init /\ [][Next]_mappingVars

----------------------------------------------------------------------------
\* Rows and translations have their types.
TypeOK ==
  /\ mapping \in [Pairs -> [status : {"none", "active", "retired"}, verified : BOOLEAN,
                            flip : BOOLEAN, likeness : {0} \cup Likeness]]
  /\ rulings \in 0..MaxRulings /\ copied \in [From -> [to : To \cup {"none"}, flip : BOOLEAN]]

\* However often the worker finds a pair again, an order crosses venues only by a pair that an
\* operator verified and none has retired, in the direction last given, and what was decided does
\* not come back into the queue; an order that crossed did so by a pair that was verified
\* (mappings.rs:34, 183).
DecisionsStand ==
  /\ \A m \in Pairs :
       /\ Usable(m) => ruled[m].verified /\ ~ruled[m].retired /\ mapping[m].flip = ruled[m].flip
       /\ Pending(m) => ruled[m] = Unruled
  /\ \A f \in From : copied[f] # Skipped => ruled[<<f, copied[f].to>>].verified
=============================================================================
