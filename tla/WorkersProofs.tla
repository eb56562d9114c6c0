--------------------------- MODULE WorkersProofs ---------------------------
(***************************************************************************)
(* What Workers promises holds for any number of tokens, traders, trades,  *)
(* markets, orders and faults, and for any order of the workers' steps     *)
(* with the venues', the operators' and the users'.                        *)
(*                                                                         *)
(* Each part has an inductive invariant of its own, and a step of one      *)
(* part leaves the others as they are.  What a recursive function makes of *)
(* a sequence (the lots of a page, the greatest drawdown) is reached by    *)
(* induction on the sequence's length: Iterates and UpTo of SumLemmas.     *)
(***************************************************************************)
EXTENDS Workers, SumLemmas, SequenceTheorems, FiniteSetTheorems, TLAPS

----------------------------------------------------------------------------
(* MarketMappings: operators' rulings and what orders went by. *)

\* MarketMappings: a row says what operators ruled of its pair, and what a copy went by was verified.
Rules == [retired : BOOLEAN, verified : BOOLEAN, flip : BOOLEAN]
MapRows == [status : {"none", "active", "retired"}, verified : BOOLEAN, flip : BOOLEAN, likeness : {0} \cup Likeness]
SaysSo(r, u) ==
  /\ r.verified = u.verified /\ r.flip = u.flip /\ (r.status = "retired" <=> u.retired)
  /\ r.status = "none" => r = Map!NoRow
  /\ ~r.verified => ~r.flip
CopiedBy(f, c, u) == c = Map!Skipped \/ (c.to \in To /\ u[<<f, c.to>>].verified)
MapInv ==
  /\ Map!TypeOK /\ ruled \in [Map!Pairs -> Rules]
  /\ \A m \in Map!Pairs : SaysSo(mapping[m], ruled[m])
  /\ \A f \in From : CopiedBy(f, copied[f], ruled)

\* Nothing is ruled at first.
LEMMA MapStarts == Map!Init => MapInv
<1> SUFFICES ASSUME Map!Init PROVE MapInv
  OBVIOUS
<1>1. Map!NoRow \in MapRows /\ Map!Unruled \in Rules /\ Map!Skipped \in [to : To \cup {"none"}, flip : BOOLEAN]
  BY DEF Map!NoRow, Map!Unruled, Map!Skipped, MapRows, Rules
<1>2. SaysSo(Map!NoRow, Map!Unruled)
  BY DEF Map!NoRow, Map!Unruled, SaysSo
<1>3. \A f \in From : CopiedBy(f, Map!Skipped, ruled)
  BY DEF CopiedBy
<1> QED
  BY <1>1, <1>2, <1>3, MappingAssumption DEF Map!Init, MapInv, Map!TypeOK, MapRows

\* One row and one ruling change together.
LEMMA MapWrite ==
  ASSUME MapInv, NEW m \in Map!Pairs, NEW r \in MapRows, NEW u \in Rules, SaysSo(r, u),
         ruled[m].verified => u.verified,
         mapping' = [mapping EXCEPT ![m] = r], ruled' = [ruled EXCEPT ![m] = u],
         rulings' \in 0..MaxRulings, copied' = copied
  PROVE  MapInv'
<1>1. mapping \in [Map!Pairs -> MapRows] /\ copied \in [From -> [to : To \cup {"none"}, flip : BOOLEAN]]
      /\ ruled \in [Map!Pairs -> Rules]
  BY DEF MapInv, Map!TypeOK, MapRows
<1>2. mapping' \in [Map!Pairs -> MapRows] /\ ruled' \in [Map!Pairs -> Rules]
  BY <1>1
<1>3. \A n \in Map!Pairs : SaysSo(mapping[n], ruled[n])'
  <2> SUFFICES ASSUME NEW n \in Map!Pairs PROVE SaysSo(mapping'[n], ruled'[n])
    BY DEF SaysSo
  <2>1. SaysSo(mapping[n], ruled[n])
    BY DEF MapInv
  <2> QED
    BY <1>1, <2>1
<1>4. \A f \in From : CopiedBy(f, copied[f], ruled)'
  <2> SUFFICES ASSUME NEW f \in From PROVE CopiedBy(f, copied'[f], ruled')
    BY DEF CopiedBy
  <2>1. CopiedBy(f, copied[f], ruled)
    BY DEF MapInv
  <2>2. \A x \in To : <<f, x>> \in Map!Pairs
    BY DEF Map!Pairs
  <2>3. \A n \in Map!Pairs : ruled[n].verified => ruled'[n].verified
    BY <1>1
  <2> QED
    BY <2>1, <2>2, <2>3 DEF CopiedBy
<1> QED
  BY <1>1, <1>2, <1>3, <1>4 DEF MapInv, Map!TypeOK, MapRows

\* What the worker writes of a pair that has no row says as little of it.
LEMMA FreshRow ==
  ASSUME NEW o, o = Map!NoRow, NEW u \in Rules, SaysSo(o, u), NEW l \in Likeness
  PROVE  LET r == [o EXCEPT !.status = "active", !.likeness = l] IN r \in MapRows /\ SaysSo(r, u)
<1> DEFINE r == [o EXCEPT !.status = "active", !.likeness = l]
<1>1. o.status = "none" /\ o.verified = FALSE /\ o.flip = FALSE /\ o \in MapRows
  BY DEF Map!NoRow, MapRows
<1>2. r \in MapRows /\ r.status = "active" /\ r.verified = FALSE /\ r.flip = FALSE
  BY <1>1 DEF MapRows
<1>3. ~u.verified /\ ~u.flip /\ ~u.retired
  BY <1>1 DEF SaysSo, Rules
<1>4. u.verified = FALSE /\ u.flip = FALSE
  BY <1>3 DEF Rules
<1> HIDE DEF r
<1>5. SaysSo(r, u)
  BY <1>2, <1>3, <1>4 DEF SaysSo
<1> QED
  BY <1>2, <1>5 DEF r

\* Every step keeps what a row says of its pair.
LEMMA MapSteps == ASSUME MapInv, Map!Next \/ UNCHANGED mappingVars PROVE MapInv'
<1>0. mapping \in [Map!Pairs -> MapRows] /\ copied \in [From -> [to : To \cup {"none"}, flip : BOOLEAN]]
      /\ ruled \in [Map!Pairs -> Rules] /\ rulings \in 0..MaxRulings
      /\ \A m \in Map!Pairs : SaysSo(mapping[m], ruled[m])
  BY DEF MapInv, Map!TypeOK, MapRows
<1>1. ASSUME NEW m \in Map!Pairs, NEW l \in Likeness, Map!InsertCandidate(m, l) PROVE MapInv'
  <2> DEFINE r == [mapping[m] EXCEPT !.status = "active", !.likeness = l]
  <2>1. mapping[m] = Map!NoRow /\ ruled[m] \in Rules /\ SaysSo(mapping[m], ruled[m])
    BY <1>0, <1>1 DEF Map!InsertCandidate
  <2>2. r \in MapRows /\ SaysSo(r, ruled[m])
    BY <2>1, FreshRow
  <2>3. mapping' = [mapping EXCEPT ![m] = r]
    BY <1>0, <1>1 DEF Map!InsertCandidate
  <2>4. ruled' = [ruled EXCEPT ![m] = ruled[m]] /\ copied' = copied /\ rulings' = rulings
    BY <1>0, <1>1 DEF Map!InsertCandidate
  <2> HIDE DEF r
  <2> QED
    BY <1>0, <2>1, <2>2, <2>3, <2>4, MapWrite
<1>2. ASSUME NEW m \in Map!Pairs, NEW flip \in BOOLEAN, Map!VerifyMapping(m, flip) PROVE MapInv'
  <2> DEFINE r == [mapping[m] EXCEPT !.verified = TRUE, !.flip = flip]
             u == [ruled[m] EXCEPT !.verified = TRUE, !.flip = flip]
  <2>1. mapping[m].status # "none" /\ mapping[m] \in MapRows /\ ruled[m] \in Rules /\ SaysSo(mapping[m], ruled[m])
    BY <1>0, <1>2 DEF Map!VerifyMapping
  <2>2. r \in MapRows /\ u \in Rules /\ SaysSo(r, u) /\ u.verified
    BY <2>1 DEF MapRows, Rules, SaysSo
  <2>3. mapping' = [mapping EXCEPT ![m] = r] /\ ruled' = [ruled EXCEPT ![m] = u] /\ copied' = copied
    BY <1>0, <1>2 DEF Map!VerifyMapping
  <2>4. rulings' \in 0..MaxRulings
    BY <1>0, <1>2, MappingAssumption DEF Map!VerifyMapping, Map!Ruling
  <2> HIDE DEF r, u
  <2> QED
    BY <2>2, <2>3, <2>4, MapWrite
<1>3. ASSUME NEW m \in Map!Pairs, Map!RetireMapping(m) PROVE MapInv'
  <2> DEFINE r == [mapping[m] EXCEPT !.status = "retired"]
             u == [ruled[m] EXCEPT !.retired = TRUE]
  <2>1. mapping[m] \in MapRows /\ ruled[m] \in Rules /\ SaysSo(mapping[m], ruled[m])
    BY <1>0
  <2>2. r \in MapRows /\ u \in Rules /\ SaysSo(r, u) /\ (ruled[m].verified => u.verified)
    BY <2>1 DEF MapRows, Rules, SaysSo
  <2>3. mapping' = [mapping EXCEPT ![m] = r] /\ ruled' = [ruled EXCEPT ![m] = u] /\ copied' = copied
    BY <1>0, <1>3 DEF Map!RetireMapping
  <2>4. rulings' \in 0..MaxRulings
    BY <1>0, <1>3, MappingAssumption DEF Map!RetireMapping, Map!Ruling
  <2> HIDE DEF r, u
  <2> QED
    BY <2>2, <2>3, <2>4, MapWrite
<1>4. ASSUME NEW f \in From, NEW c, c \in [to : To \cup {"none"}, flip : BOOLEAN], CopiedBy(f, c, ruled),
             copied' = [copied EXCEPT ![f] = c], UNCHANGED <<mapping, ruled, rulings>>
      PROVE  MapInv'
  <2>1. \A g \in From : CopiedBy(g, copied'[g], ruled')
    <3> SUFFICES ASSUME NEW g \in From PROVE CopiedBy(g, copied'[g], ruled)
      BY <1>4
    <3>1. CopiedBy(g, copied[g], ruled)
      BY DEF MapInv
    <3> QED
      BY <1>0, <1>4, <3>1
  <2>2. copied' \in [From -> [to : To \cup {"none"}, flip : BOOLEAN]]
    BY <1>0, <1>4
  <2> QED
    BY <1>0, <1>4, <2>1, <2>2 DEF MapInv, Map!TypeOK, MapRows
<1>5. ASSUME NEW m \in Map!Pairs, Map!Resolve(m) PROVE MapInv'
  <2> DEFINE c == [to |-> m[2], flip |-> mapping[m].flip]
  <2>1. m[1] \in From /\ m[2] \in To /\ m = <<m[1], m[2]>>
    BY DEF Map!Pairs
  <2>2. mapping[m].verified /\ mapping[m].flip \in BOOLEAN /\ SaysSo(mapping[m], ruled[m])
    BY <1>0, <1>5 DEF Map!Resolve, Map!Usable, MapRows
  <2>3. c \in [to : To \cup {"none"}, flip : BOOLEAN] /\ CopiedBy(m[1], c, ruled)
    BY <2>1, <2>2 DEF CopiedBy, SaysSo
  <2>4. copied' = [copied EXCEPT ![m[1]] = c] /\ UNCHANGED <<mapping, ruled, rulings>>
    BY <1>5 DEF Map!Resolve
  <2> HIDE DEF c
  <2> QED
    BY <2>1, <2>3, <2>4, <1>4
<1>6. ASSUME NEW f \in From, Map!ResolveNone(f) PROVE MapInv'
  <2>1. Map!Skipped \in [to : To \cup {"none"}, flip : BOOLEAN] /\ CopiedBy(f, Map!Skipped, ruled)
    BY DEF CopiedBy, Map!Skipped
  <2> QED
    BY <1>4, <1>6, <2>1 DEF Map!ResolveNone
<1>7. CASE UNCHANGED mappingVars
  BY <1>7 DEF mappingVars, MapInv, Map!TypeOK
<1> QED
  BY <1>1, <1>2, <1>3, <1>5, <1>6, <1>7 DEF Map!Next

\* What operators decided stands.
LEMMA MapHolds == MapInv => Map!DecisionsStand
<1> SUFFICES ASSUME MapInv PROVE Map!DecisionsStand
  OBVIOUS
<1>0. mapping \in [Map!Pairs -> MapRows] /\ ruled \in [Map!Pairs -> Rules]
  BY DEF MapInv, Map!TypeOK, MapRows
<1>1. ASSUME NEW m \in Map!Pairs
      PROVE  /\ Map!Usable(m) => ruled[m].verified /\ ~ruled[m].retired /\ mapping[m].flip = ruled[m].flip
             /\ Map!Pending(m) => ruled[m] = Map!Unruled
  <2>1. mapping[m] \in MapRows /\ ruled[m] \in Rules /\ SaysSo(mapping[m], ruled[m])
    BY <1>0 DEF MapInv
  <2> QED
    BY <2>1 DEF SaysSo, Map!Usable, Map!Pending, Map!Unruled, MapRows, Rules
<1>2. \A f \in From : copied[f] # Map!Skipped => ruled[<<f, copied[f].to>>].verified
  BY DEF MapInv, CopiedBy
<1> QED
  BY <1>1, <1>2 DEF Map!DecisionsStand

----------------------------------------------------------------------------
(* IdentityLinks: members that operators have looked at. *)

\* IdentityLinks: a member of an identity that an operator has looked at was on her screen; and while
\* nothing disturbs a tick, a pair it has left has its links.
IdRows == [state : {"pending", "verified", "deleted"}, looked : BOOLEAN, shown : SUBSET People]
KnownAs(t, l, is) ==
  l[t] # 0 => /\ is[l[t]].state # "deleted"
              /\ is[l[t]].looked => t \in is[l[t]].shown
Waiting(p, todo, l) == p \in todo \/ \A t \in p : l[t] # 0
TickRows(n) == [on : BOOLEAN, links : [People -> 0..n], todo : SUBSET Alike]
IdTypes ==
  /\ ids \in Seq(IdRows) /\ link \in [People -> 0..Len(ids)] /\ hidden \subseteq People
  /\ listed \subseteq People /\ tick \in TickRows(Len(ids))
  /\ ticks \in 0..MaxTicks /\ slips \in 0..MaxSlips /\ clean \in BOOLEAN
Pairing ==
  clean => /\ \A p \in Ids!Candidates(listed) : Waiting(p, tick.todo, link)
           /\ \A t \in People : tick.links[t] # 0 => link[t] # 0
           /\ ~tick.on => tick.todo = {}
IdInv ==
  /\ IdTypes
  /\ \A i \in DOMAIN ids : ids[i].state = "verified" => ids[i].looked
  /\ \A t \in People : KnownAs(t, link, ids)
  /\ Pairing

\* The first day has nobody linked.
LEMMA IdStarts == Ids!Init => IdInv
<1> SUFFICES ASSUME Ids!Init PROVE IdInv
  OBVIOUS
<1>1. ids \in Seq(IdRows) /\ Len(ids) = 0 /\ DOMAIN ids = {}
  BY DEF Ids!Init
<1>3. link = [t \in People |-> 0] /\ hidden = {} /\ listed = {} /\ ticks = 0 /\ slips = MaxSlips /\ clean = FALSE
  BY DEF Ids!Init
<1>4. tick \in TickRows(Len(ids))
  BY <1>1 DEF Ids!Init, Ids!NoTick, TickRows
<1>5. IdTypes
  <2>1. link \in [People -> 0..Len(ids)]
    BY <1>1, <1>3
  <2>2. ticks \in 0..MaxTicks /\ slips \in 0..MaxSlips
    BY <1>3, IdentityAssumption
  <2>3. clean \in BOOLEAN /\ hidden \subseteq People /\ listed \subseteq People
    BY <1>3
  <2> QED
    BY <1>1, <1>4, <2>1, <2>2, <2>3 DEF IdTypes
<1> QED
  BY <1>1, <1>3, <1>5 DEF IdInv, KnownAs, Pairing

\* Every candidate pair is of traders whose names are alike.
LEMMA CandidatesAre == ASSUME NEW S PROVE Ids!Candidates(S) \subseteq Alike /\ \A p \in Ids!Candidates(S) : p \subseteq People
  BY IdentityAssumption DEF Ids!Candidates

\* A row is looked at, verified or deleted.
LEMMA IdRow ==
  ASSUME IdInv, NEW i \in DOMAIN ids, NEW r \in IdRows, ids' = [ids EXCEPT ![i] = r],
         link' \in [People -> 0..Len(ids)], \A t \in People : link'[t] \in {0, link[t]},
         r.state = "verified" => r.looked,
         \A t \in People : link'[t] = i => r.state # "deleted" /\ (r.looked => t \in r.shown),
         UNCHANGED <<hidden, listed, tick, ticks, slips>>, clean' \in BOOLEAN,
         clean' => clean /\ link' = link
  PROVE  IdInv'
<1>1. ids \in Seq(IdRows) /\ i \in 1..Len(ids) /\ \A t \in People : KnownAs(t, link, ids)
  BY DEF IdInv, IdTypes
<1>2. ids' \in Seq(IdRows) /\ Len(ids') = Len(ids) /\ DOMAIN ids' = DOMAIN ids
      /\ \A j \in DOMAIN ids : ids'[j] = IF j = i THEN r ELSE ids[j]
  BY <1>1
<1>3. IdTypes'
  BY <1>2 DEF IdInv, IdTypes
<1>4. \A j \in DOMAIN ids' : ids'[j].state = "verified" => ids'[j].looked
  BY <1>2 DEF IdInv
<1>5. ASSUME NEW t \in People PROVE KnownAs(t, link', ids')
  <2>1. CASE link'[t] = 0
    BY <2>1 DEF KnownAs
  <2>2. CASE link'[t] # 0 /\ link'[t] # i
    <3>1. link'[t] = link[t] /\ link[t] \in DOMAIN ids /\ KnownAs(t, link, ids)
      BY <1>1, <2>2 DEF IdInv, IdTypes
    <3> QED
      BY <1>2, <2>2, <3>1 DEF KnownAs
  <2>3. CASE link'[t] = i
    BY <1>2, <2>3 DEF KnownAs
  <2> QED
    BY <2>1, <2>2, <2>3
<1>6. Pairing'
  BY DEF IdInv, Pairing
<1> QED
  BY <1>3, <1>4, <1>5, <1>6 DEF IdInv, KnownAs

\* One pair is taken off the list of the tick.
LEMMA TickIs ==
  ASSUME IdInv, NEW p, tick' = [tick EXCEPT !.todo = @ \ {p}]
  PROVE  /\ tick'.on = tick.on /\ tick'.links = tick.links /\ tick'.todo = tick.todo \ {p}
         /\ tick' \in TickRows(Len(ids))
  BY DEF IdInv, IdTypes, TickRows

\* The worker proposes a pair under a new identity, which no operator has looked at.
LEMMA IdPropose ==
  ASSUME IdInv, NEW p \in Alike, Ids!Propose(p)
  PROVE  IdInv'
<1> DEFINE new == [state |-> "pending", looked |-> FALSE, shown |-> {}]
           n == Len(ids) + 1
<1>1. ids \in Seq(IdRows) /\ Len(ids) \in Nat /\ new \in IdRows /\ p \subseteq People
      /\ new.state = "pending" /\ new.looked = FALSE
  BY IdentityAssumption DEF IdInv, IdTypes, IdRows
<1>2. ids' = Append(ids, new) /\ link' = [t \in People |-> IF t \in p THEN n ELSE link[t]]
      /\ UNCHANGED <<hidden, listed, ticks, slips, clean>>
      /\ tick'.todo = tick.todo \ {p} /\ tick'.links = tick.links /\ tick'.on = tick.on
      /\ tick' \in TickRows(Len(ids))
  <2>1. tick' = [tick EXCEPT !.todo = @ \ {p}]
    BY DEF Ids!Propose
  <2> QED
    BY <2>1, TickIs DEF Ids!Propose
<1> HIDE DEF new
<1>3. ids' \in Seq(IdRows) /\ Len(ids') = n /\ DOMAIN ids' = 1..n /\ ids'[n] = new
      /\ \A j \in 1..Len(ids) : ids'[j] = ids[j]
  BY <1>1, <1>2
<1>4. IdTypes'
  <2>1. TickRows(Len(ids)) \subseteq TickRows(n)
    BY <1>1 DEF TickRows
  <2>2. link' \in [People -> 0..n]
    BY <1>1, <1>2 DEF IdInv, IdTypes
  <2> QED
    BY <1>2, <1>3, <2>1, <2>2 DEF IdInv, IdTypes
<1>5. \A j \in DOMAIN ids' : ids'[j].state = "verified" => ids'[j].looked
  <2>1. \A j \in DOMAIN ids' : j = n \/ (j \in DOMAIN ids /\ j \in 1..Len(ids))
    BY <1>1, <1>3
  <2> QED
    BY <1>1, <1>3, <2>1 DEF IdInv
<1>6. ASSUME NEW t \in People PROVE KnownAs(t, link', ids')
  <2>1. CASE t \in p
    BY <1>1, <1>2, <1>3, <2>1 DEF KnownAs
  <2>2. CASE t \notin p
    <3>1. link'[t] = link[t] /\ link[t] \in 0..Len(ids) /\ KnownAs(t, link, ids)
      BY <1>2, <2>2 DEF IdInv, IdTypes
    <3> QED
      BY <1>3, <3>1 DEF KnownAs
  <2> QED
    BY <2>1, <2>2
<1>7. Pairing'
  <2> SUFFICES ASSUME clean PROVE Pairing'
    BY <1>2 DEF Pairing
  <2>1. \A t \in People : link[t] # 0 => link'[t] # 0
    BY <1>1, <1>2
  <2>2. \A t \in p : link'[t] # 0
    BY <1>1, <1>2
  <2>3. \A q \in Ids!Candidates(listed) : Waiting(q, tick'.todo, link')
    <3> SUFFICES ASSUME NEW q \in Ids!Candidates(listed) PROVE Waiting(q, tick'.todo, link')
      OBVIOUS
    <3>1. Waiting(q, tick.todo, link) /\ q \subseteq People
      BY CandidatesAre DEF IdInv, Pairing
    <3> QED
      BY <1>2, <2>1, <2>2, <3>1 DEF Waiting
  <2>4. listed' = listed /\ Ids!Candidates(listed)' = Ids!Candidates(listed)
    BY <1>2
  <2> QED
    BY <1>2, <2>1, <2>3, <2>4 DEF IdInv, Pairing, Waiting
<1> QED
  BY <1>4, <1>5, <1>6, <1>7 DEF IdInv, KnownAs

\* Every step keeps who was looked at and who waits.
LEMMA IdSteps == ASSUME IdInv, Ids!Next \/ UNCHANGED identityVars PROVE IdInv'
<1>0. /\ ids \in Seq(IdRows) /\ DOMAIN ids = 1..Len(ids) /\ link \in [People -> 0..Len(ids)]
      /\ \A i \in DOMAIN ids : ids[i] \in IdRows
      /\ slips \in 0..MaxSlips /\ ticks \in 0..MaxTicks /\ tick \in TickRows(Len(ids))
  BY DEF IdInv, IdTypes
\* Only the tick and its list, the counters, what is hidden and what is clean changes.
<1>1. ASSUME UNCHANGED <<ids, link>>, tick' \in TickRows(Len(ids)), hidden' \subseteq People, listed' \subseteq People, ticks' \in 0..MaxTicks, slips' \in 0..MaxSlips,
             clean' \in BOOLEAN, Pairing'
      PROVE  IdInv'
  BY <1>1 DEF IdInv, IdTypes, KnownAs
<1>2. CASE Ids!StartTick
  <2>0. PICK R \in SUBSET People :
          listed' = R /\ tick' = [on |-> TRUE, links |-> link, todo |-> Ids!Candidates(R)]
    BY <1>2 DEF Ids!StartTick
  <2>1. listed' = R /\ tick' = [on |-> TRUE, links |-> link, todo |-> Ids!Candidates(R)]
        /\ ticks' = ticks + 1 /\ ticks < MaxTicks /\ clean' = TRUE /\ UNCHANGED <<link, hidden, ids, slips>>
    BY <1>2, <2>0 DEF Ids!StartTick
  <2>2. Ids!Candidates(listed)' = Ids!Candidates(R)
    BY <2>1 DEF Ids!Candidates
  <2>3. tick'.on = TRUE /\ tick'.links = link /\ tick'.todo = Ids!Candidates(R)
        /\ tick' \in TickRows(Len(ids))
    BY <1>0, <2>1, CandidatesAre DEF TickRows
  <2>4. Pairing'
    BY <2>1, <2>2, <2>3 DEF Pairing, Waiting
  <2>5. ticks' \in 0..MaxTicks
    BY <1>0, <2>1, IdentityAssumption
  <2> QED
    BY <1>0, <1>1, <2>1, <2>3, <2>4, <2>5 DEF IdInv, IdTypes
<1>3. CASE Ids!EndTick
  <2>1. tick'.on = FALSE /\ tick'.links = [t \in People |-> 0] /\ tick'.todo = {} /\ tick.todo = {}
        /\ tick' \in TickRows(Len(ids))
        /\ UNCHANGED <<link, hidden, listed, ids, ticks, slips, clean>>
    BY <1>0, <1>3 DEF Ids!EndTick, Ids!NoTick, TickRows
  <2>2. Ids!Candidates(listed)' = Ids!Candidates(listed)
    BY <2>1
  <2>3. Pairing'
    BY <2>1, <2>2 DEF IdInv, Pairing
  <2> QED
    BY <1>0, <1>1, <2>1, <2>3 DEF IdInv, IdTypes
<1>4. CASE Ids!Restart
  <2>1. tick'.on = FALSE /\ tick'.links = [t \in People |-> 0] /\ tick'.todo = {}
        /\ tick' \in TickRows(Len(ids)) /\ slips > 0 /\ slips' = slips - 1 /\ clean' = FALSE /\ UNCHANGED <<link, hidden, listed, ids, ticks>>
    BY <1>0, <1>4 DEF Ids!Restart, Ids!NoTick, TickRows
  <2>2. slips' \in 0..MaxSlips /\ Pairing'
    BY <1>0, <2>1, IdentityAssumption DEF Pairing
  <2> QED
    BY <1>0, <1>1, <2>1, <2>2 DEF IdInv, IdTypes
<1>5. ASSUME NEW p \in Alike, tick' = [tick EXCEPT !.todo = @ \ {p}]
      PROVE  /\ tick'.on = tick.on /\ tick'.links = tick.links /\ tick'.todo = tick.todo \ {p}
             /\ tick' \in TickRows(Len(ids))
  BY <1>5, TickIs
<1>6. ASSUME NEW p \in Alike, Ids!PassOver(p) PROVE IdInv'
  <2>1. tick'.on = tick.on /\ tick'.links = tick.links /\ tick'.todo = tick.todo \ {p}
        /\ tick' \in TickRows(Len(ids))
    BY <1>5, <1>6 DEF Ids!PassOver
  <2>2. UNCHANGED <<link, hidden, listed, ids, ticks, slips, clean>> /\ \A t \in p : tick.links[t] # 0
    BY <1>6 DEF Ids!PassOver, Ids!Linked
  <2>3. Ids!Candidates(listed)' = Ids!Candidates(listed) /\ p \subseteq People
    BY <2>2, IdentityAssumption
  <2>4. Pairing'
    BY <2>1, <2>2, <2>3 DEF IdInv, Pairing, Waiting
  <2> QED
    BY <1>0, <1>1, <2>1, <2>2, <2>4 DEF IdInv, IdTypes
<1>7. ASSUME NEW p \in Alike, Ids!ProposeFails(p) PROVE IdInv'
  <2>1. tick'.on = tick.on /\ tick'.links = tick.links /\ tick'.todo = tick.todo \ {p}
        /\ tick' \in TickRows(Len(ids))
    BY <1>5, <1>7 DEF Ids!ProposeFails
  <2>2. UNCHANGED <<link, hidden, listed, ids, ticks>> /\ slips > 0 /\ slips' = slips - 1 /\ clean' = FALSE
    BY <1>7 DEF Ids!ProposeFails
  <2>3. slips' \in 0..MaxSlips /\ Pairing'
    BY <1>0, <2>2, IdentityAssumption DEF Pairing
  <2> QED
    BY <1>0, <1>1, <2>1, <2>2, <2>3 DEF IdInv, IdTypes
<1>8. ASSUME NEW t \in People, Ids!SetHidden(t) PROVE IdInv'
  <2>1. hidden' \subseteq People /\ UNCHANGED <<link, ids, listed, tick, ticks, slips, clean>>
    BY <1>8 DEF Ids!SetHidden, IdInv, IdTypes
  <2> QED
    BY <1>0, <1>1, <2>1 DEF IdInv, IdTypes, Pairing
<1>9. ASSUME NEW i \in DOMAIN ids, Ids!Look(i) PROVE IdInv'
  <2> DEFINE r == [ids[i] EXCEPT !.looked = TRUE, !.shown = Ids!Members(i)]
  <2>1. ids[i].state = "pending" /\ ids[i] \in IdRows
    BY <1>0, <1>9 DEF Ids!Look
  <2>2. r \in IdRows /\ r.state = "pending" /\ r.looked = TRUE /\ r.shown = Ids!Members(i)
    BY <2>1 DEF IdRows, Ids!Members
  <2>3. ids' = [ids EXCEPT ![i] = r] /\ UNCHANGED <<link, hidden, listed, tick, ticks, slips, clean>>
    BY <1>9 DEF Ids!Look
  <2> HIDE DEF r
  <2>4. \A t \in People : link'[t] = i => r.state # "deleted" /\ (r.looked => t \in r.shown)
    BY <2>2, <2>3 DEF Ids!Members
  <2> QED
    BY <1>0, <2>2, <2>3, <2>4, IdRow DEF IdInv, IdTypes
<1>10. ASSUME NEW i \in DOMAIN ids, Ids!Verify(i) PROVE IdInv'
  <2> DEFINE r == [ids[i] EXCEPT !.state = "verified"]
  <2>1. ids[i].looked /\ ids[i].state # "deleted" /\ ids[i] \in IdRows
    BY <1>0, <1>10 DEF Ids!Verify
  <2>2. r \in IdRows /\ r.state = "verified" /\ r.looked = ids[i].looked /\ r.shown = ids[i].shown
    BY <2>1 DEF IdRows
  <2>3. ids' = [ids EXCEPT ![i] = r] /\ UNCHANGED <<link, hidden, listed, tick, ticks, slips, clean>>
    BY <1>10 DEF Ids!Verify
  <2> HIDE DEF r
  <2>4. \A t \in People : link'[t] = i => r.state # "deleted" /\ (r.looked => t \in r.shown)
    <3>1. i # 0 /\ \A t \in People : KnownAs(t, link, ids)
      BY <1>0 DEF IdInv
    <3> QED
      BY <2>1, <2>2, <2>3, <3>1 DEF KnownAs
  <2> QED
    BY <1>0, <2>1, <2>2, <2>3, <2>4, IdRow DEF IdInv, IdTypes
<1>11. ASSUME NEW i \in DOMAIN ids, Ids!Reject(i) PROVE IdInv'
  <2> DEFINE r == [ids[i] EXCEPT !.state = "deleted"]
  <2>1. ids[i] \in IdRows /\ i # 0
    BY <1>0
  <2>2. r \in IdRows /\ r.state = "deleted"
    BY <2>1 DEF IdRows
  <2>3. ids' = [ids EXCEPT ![i] = r] /\ UNCHANGED <<hidden, listed, tick, ticks, slips>> /\ clean' = FALSE
        /\ link' = [t \in People |-> IF link[t] = i THEN 0 ELSE link[t]]
    BY <1>11 DEF Ids!Reject
  <2> HIDE DEF r
  <2>4. /\ link' \in [People -> 0..Len(ids)]
        /\ \A t \in People : link'[t] \in {0, link[t]} /\ link'[t] # i
    BY <1>0, <2>1, <2>3
  <2> QED
    BY <2>2, <2>3, <2>4, IdRow
<1>12. CASE UNCHANGED identityVars
  BY <1>12 DEF identityVars, IdInv, IdTypes, KnownAs, Pairing, Waiting, Ids!Candidates
<1> QED
  BY <1>2, <1>3, <1>4, <1>6, <1>7, <1>8, <1>9, <1>10, <1>11, <1>12, IdPropose DEF Ids!Next

\* Nobody slips in, and whoever a tick found is proposed.
LEMMA IdHolds == IdInv => Ids!IdentitiesHold /\ Ids!TypeOK
<1> SUFFICES ASSUME IdInv PROVE Ids!IdentitiesHold /\ Ids!TypeOK
  OBVIOUS
<1>1. Ids!NobodySlipsIn
  <2> SUFFICES ASSUME NEW t \in People, link[t] # 0
               PROVE  /\ ids[link[t]].state # "deleted"
                      /\ ids[link[t]].state = "verified" => t \in ids[link[t]].shown
    BY DEF Ids!NobodySlipsIn
  <2>1. KnownAs(t, link, ids) /\ link[t] \in DOMAIN ids
    BY DEF IdInv, IdTypes
  <2> QED
    BY <2>1 DEF IdInv, KnownAs
<1>2. Ids!AllAreProposed
  BY DEF Ids!AllAreProposed, IdInv, Pairing, Waiting
<1>3. \A i \in DOMAIN ids : ids[i] \in IdRows
  BY DEF IdInv, IdTypes
<1>4. Ids!TypeOK
  BY <1>3 DEF Ids!TypeOK, IdInv, IdTypes, IdRows, TickRows
<1> QED
  BY <1>1, <1>2, <1>4 DEF Ids!IdentitiesHold

----------------------------------------------------------------------------
(* TradeBackfill: what was fetched and has no row yet. *)

\* TradeBackfill: of the newest page of a fetch, what has no row yet is still to be inserted.
Recent(n) == {i \in 1..n : n - i < FetchPage}
Have(v, kn, fl, i) == kn[v[i]] # Fill!NoRow \/ i \in fl
JobRows(n) == [pc : {"idle", "fetch", "insert"}, todo : Seq(1..n), seen : 0..n, own : BOOLEAN, rest : Seq(BOOLEAN)]
JobOK(v, kn, fl, r) ==
  /\ r.pc # "insert" => r.seen = 0
  /\ \A i \in Recent(r.seen) : Have(v, kn, fl, i) \/ \E k \in DOMAIN r.todo : r.todo[k] = i
Kept(v, kn) ==
  /\ kn \in [Txs -> Int]
  /\ \A tx \in Txs : kn[tx] \in {Fill!Other, Fill!NoRow} \/ (kn[tx] \in 1..Len(v) /\ v[kn[tx]] = tx)
FillTypes ==
  /\ venue \in Seq(Txs) /\ Len(venue) <= FillTrades
  /\ Kept(venue, known)
  /\ fillNow \in 0..FillNow /\ fillFaults \in 0..FillFaults
  /\ trader \in [seen : {"absent", "visible"}, marked : Fill!Never..fillNow]
  /\ job \in [Fill!Jobs -> JobRows(Len(venue))]
  /\ visits \subseteq 0..Len(venue)
FillInv ==
  /\ FillTypes
  /\ \A n \in visits : \A i \in Recent(n) : Have(venue, known, failed, i)
  /\ \A j \in Fill!Jobs : JobOK(venue, known, failed, job[j])

\* The newest trades are the recent ones.
LEMMA NewestIs ==
  ASSUME NEW n \in Nat
  PROVE  /\ Fill!Newest(n) \in Seq(1..n)
         /\ \A i \in Recent(n) : \E k \in DOMAIN Fill!Newest(n) : Fill!Newest(n)[k] = i
         /\ \A k \in DOMAIN Fill!Newest(n) : Fill!Newest(n)[k] \in Recent(n)
<1> DEFINE s == IF n < FetchPage THEN n ELSE FetchPage
<1>1. s \in Nat /\ s <= n /\ s <= FetchPage /\ (s = n \/ s = FetchPage)
  BY FillAssumption
<1>2. Fill!Newest(n) = [i \in 1..s |-> n + 1 - i]
  BY DEF Fill!Newest
<1> HIDE DEF s
<1>3. \A i \in 1..s : n + 1 - i \in 1..n
  BY <1>1
<1>4. Fill!Newest(n) \in Seq(1..n)
  BY <1>1, <1>2, <1>3
<1>5. ASSUME NEW i \in Recent(n) PROVE \E k \in DOMAIN Fill!Newest(n) : Fill!Newest(n)[k] = i
  <2> DEFINE k == n + 1 - i
  <2>1. i \in 1..n /\ n - i < FetchPage
    BY DEF Recent
  <2>2. k \in 1..s /\ n + 1 - k = i
    BY <1>1, <2>1, FillAssumption
  <2> QED
    BY <1>2, <2>2
<1>6. ASSUME NEW k \in DOMAIN Fill!Newest(n) PROVE Fill!Newest(n)[k] \in Recent(n)
  <2>1. k \in 1..s /\ Fill!Newest(n)[k] = n + 1 - k
    BY <1>2
  <2> QED
    BY <1>1, <1>3, <2>1, FillAssumption DEF Recent
<1> QED
  BY <1>4, <1>5, <1>6

\* A worker at rest, or before a fetch, has nothing to insert.
LEMMA IdleRests ==
  ASSUME NEW n \in Nat
  PROVE  Fill!Idle \in JobRows(n) /\ Fill!Idle.todo = <<>> /\ Fill!Idle.seen = 0 /\ Fill!Idle.pc = "idle"
<1>1. TRUE \in BOOLEAN /\ <<>> \in Seq(BOOLEAN) /\ <<>> \in Seq(1..n)
  OBVIOUS
<1> QED
  BY <1>1 DEF Fill!Idle, JobRows

\* A job with nothing fetched owes nothing.
LEMMA RestsWell ==
  ASSUME NEW v, NEW kn, NEW fl, NEW r, r.todo = <<>>, r.seen = 0
  PROVE  JobOK(v, kn, fl, r)
BY DEF JobOK, Recent

\* A job that is about to fetch owes nothing.
LEMMA Awaits ==
  ASSUME NEW n \in Nat, NEW v, NEW kn, NEW fl, NEW own \in BOOLEAN
  PROVE  LET r == [Fill!Idle EXCEPT !.pc = "fetch", !.own = own] IN r \in JobRows(n) /\ JobOK(v, kn, fl, r)
<1> DEFINE r == [Fill!Idle EXCEPT !.pc = "fetch", !.own = own]
<1>1. r \in JobRows(n)
  BY IdleRests DEF JobRows
<1>2. r.todo = <<>> /\ r.seen = 0
  BY IdleRests DEF JobRows
<1> QED
  BY <1>1, <1>2, RestsWell

\* Nor does one of the workers' own lists.
LEMMA Visits ==
  ASSUME NEW n \in Nat, NEW v, NEW kn, NEW fl
  PROVE  LET r == [Fill!Idle EXCEPT !.pc = "fetch"] IN r \in JobRows(n) /\ JobOK(v, kn, fl, r)
<1> DEFINE r == [Fill!Idle EXCEPT !.pc = "fetch"]
<1>1. r \in JobRows(n)
  BY IdleRests DEF JobRows
<1>2. r.todo = <<>> /\ r.seen = 0
  BY IdleRests DEF JobRows
<1> QED
  BY <1>1, <1>2, RestsWell

\* Nor one that turns to its next trader,
LEMMA ItemRests ==
  ASSUME NEW n \in Nat, NEW v, NEW kn, NEW fl, NEW items \in Seq(BOOLEAN), items # <<>>
  PROVE  Fill!Item(items) \in JobRows(n) /\ JobOK(v, kn, fl, Fill!Item(items))
<1>1. Head(items) \in BOOLEAN /\ Tail(items) \in Seq(BOOLEAN)
  BY HeadTailProperties
<1> DEFINE h == Head(items)
           t == Tail(items)
           r == [Fill!Idle EXCEPT !.pc = "fetch", !.own = h, !.rest = t]
<1>2. h \in BOOLEAN /\ t \in Seq(BOOLEAN)
  BY <1>1
<1>3. Fill!Item(items) = r
  BY DEF Fill!Item
<1> HIDE DEF h, t
<1>4. r \in JobRows(n)
  BY <1>2, IdleRests DEF JobRows
<1>5. r.todo = <<>> /\ r.seen = 0
  BY IdleRests DEF JobRows
<1> QED
  BY <1>3, <1>4, <1>5, RestsWell

\* or to none.
LEMMA NextRests ==
  ASSUME NEW n \in Nat, NEW v, NEW kn, NEW fl, NEW rest \in Seq(BOOLEAN), NEW r \in Fill!NextItem(rest)
  PROVE  r \in JobRows(n) /\ JobOK(v, kn, fl, r)
<1>1. CASE r = Fill!Idle
  BY <1>1, IdleRests, RestsWell
<1>2. CASE r # Fill!Idle
  <2>1. PICK i \in DOMAIN rest : r = Fill!Item(SubSeq(rest, i, Len(rest)))
    BY <1>2 DEF Fill!NextItem
  <2>2. i \in 1..Len(rest) /\ Len(rest) \in Nat
    OBVIOUS
  <2>3. \A k \in i..Len(rest) : rest[k] \in BOOLEAN
    BY <2>2, ElementOfSeq
  <2>4. SubSeq(rest, i, Len(rest)) \in Seq(BOOLEAN) /\ Len(SubSeq(rest, i, Len(rest))) = Len(rest) - i + 1
    BY <2>2, <2>3, SubSeqProperties
  <2>5. SubSeq(rest, i, Len(rest)) # <<>>
    <3> DEFINE tail == SubSeq(rest, i, Len(rest))
    <3>1. Len(tail) > 0
      BY <2>2, <2>4
    <3>2. Len(<<>>) = 0
      OBVIOUS
    <3> HIDE DEF tail
    <3>3. tail # <<>>
      BY <3>1, <3>2
    <3> QED
      BY <3>3 DEF tail
  <2> QED
    BY <2>1, <2>4, <2>5, ItemRests
<1> QED
  BY <1>1, <1>2

\* What was fetched is to be inserted.
LEMMA Fetched ==
  ASSUME NEW n \in Nat, NEW v, NEW kn, NEW fl, NEW r \in JobRows(n)
  PROVE  LET r2 == [r EXCEPT !.pc = "insert", !.todo = Fill!Newest(n), !.seen = n] IN
         r2 \in JobRows(n) /\ JobOK(v, kn, fl, r2)
<1> DEFINE r2 == [r EXCEPT !.pc = "insert", !.todo = Fill!Newest(n), !.seen = n]
<1>1. r2.pc = "insert" /\ r2.todo = Fill!Newest(n) /\ r2.seen = n /\ n \in 0..n
  BY DEF JobRows
<1>2. r2 \in JobRows(n)
  BY <1>1, NewestIs DEF JobRows
<1>3. JobOK(v, kn, fl, r2)
  BY <1>1, NewestIs DEF JobOK
<1> QED
  BY <1>2, <1>3

\* A fetch that failed leaves nothing to insert.
LEMMA Unfetched ==
  ASSUME NEW n \in Nat, NEW v, NEW kn, NEW fl, NEW r \in JobRows(n), r.pc = "fetch", JobOK(v, kn, fl, r)
  PROVE  LET r2 == [r EXCEPT !.pc = "insert"] IN r2 \in JobRows(n) /\ JobOK(v, kn, fl, r2)
<1> DEFINE r2 == [r EXCEPT !.pc = "insert"]
<1>1. r2 \in JobRows(n)
  BY DEF JobRows
<1>2. r2.pc = "insert" /\ r2.todo = r.todo /\ r2.seen = r.seen
  BY DEF JobRows
<1>3. JobOK(v, kn, fl, r2)
  BY <1>2 DEF JobOK
<1> QED
  BY <1>1, <1>3

\* A row that is there is taken off the list.
LEMMA Popped ==
  ASSUME NEW n \in Nat, NEW v, NEW kn, NEW fl, NEW r \in JobRows(n), r.pc = "insert", r.todo # <<>>,
         JobOK(v, kn, fl, r), Have(v, kn, fl, Head(r.todo))
  PROVE  LET r2 == [r EXCEPT !.todo = Tail(@)] IN r2 \in JobRows(n) /\ JobOK(v, kn, fl, r2)
<1> DEFINE r2 == [r EXCEPT !.todo = Tail(@)]
<1>1. r.todo \in Seq(1..n)
  BY DEF JobRows
<1>2. Tail(r.todo) \in Seq(1..n)
  BY <1>1, HeadTailProperties
<1>3. r2 \in JobRows(n)
  BY <1>2 DEF JobRows
<1>4. r2.pc = r.pc /\ r2.todo = Tail(r.todo) /\ r2.seen = r.seen
  BY DEF JobRows
<1>5. ASSUME NEW i \in Recent(r.seen), ~Have(v, kn, fl, i) PROVE \E k \in DOMAIN r2.todo : r2.todo[k] = i
  <2>1. PICK k \in DOMAIN r.todo : r.todo[k] = i
    BY <1>5 DEF JobOK
  <2>2. k # 1
    BY <1>1, <1>5, <2>1
  <2>3. k - 1 \in DOMAIN Tail(r.todo) /\ Tail(r.todo)[k - 1] = i
    BY <1>1, <2>1, <2>2
  <2> QED
    BY <1>4, <2>3
<1>6. JobOK(v, kn, fl, r2)
  BY <1>4, <1>5 DEF JobOK
<1> QED
  BY <1>3, <1>6

\* The first day has no trades.
LEMMA FillStarts == Fill!Init => FillInv
<1> SUFFICES ASSUME Fill!Init PROVE FillInv
  OBVIOUS
<1>1. /\ venue = <<>> /\ known = [tx \in Txs |-> Fill!NoRow] /\ visits = {} /\ fillNow = 0 /\ fillFaults = FillFaults
      /\ trader = [seen |-> "absent", marked |-> Fill!Never] /\ job = [j \in Fill!Jobs |-> Fill!Idle]
  BY DEF Fill!Init
<1>2. Len(venue) = 0 /\ venue \in Seq(Txs)
  BY <1>1
<1>3. Fill!Idle \in JobRows(0) /\ JobOK(venue, known, failed, Fill!Idle)
  BY IdleRests, RestsWell
<1>4. Kept(venue, known)
  BY <1>1 DEF Kept, Fill!NoRow
<1>5. trader \in [seen : {"absent", "visible"}, marked : Fill!Never..fillNow]
  BY <1>1 DEF Fill!Never
<1>6. fillNow \in 0..FillNow /\ fillFaults \in 0..FillFaults /\ Len(venue) <= FillTrades
  BY <1>1, <1>2, FillAssumption
<1> QED
  BY <1>1, <1>2, <1>3, <1>4, <1>5, <1>6 DEF FillInv, FillTypes

\* Rows, trades and failures only become more, so what is done stays done.
FillGrows ==
  /\ Len(venue') \in Nat /\ Len(venue) <= Len(venue') /\ \A i \in 1..Len(venue) : venue'[i] = venue[i]
  /\ \A tx \in Txs : known[tx] # Fill!NoRow => known'[tx] # Fill!NoRow
  /\ failed \subseteq failed'

\* More trades, more rows and more failures take nothing back.
LEMMA FillMore ==
  ASSUME FillInv, FillGrows
  PROVE  /\ \A n \in visits : \A i \in Recent(n) : Have(venue', known', failed', i)
         /\ \A j \in Fill!Jobs : /\ JobOK(venue', known', failed', job[j])
                                 /\ job[j] \in JobRows(Len(venue'))
<1>0. venue \in Seq(Txs) /\ Len(venue) \in Nat /\ \A i \in 1..Len(venue) : venue[i] \in Txs
  BY DEF FillInv, FillTypes
<1>1. ASSUME NEW n \in 0..Len(venue), NEW i \in Recent(n), Have(venue, known, failed, i)
      PROVE  Have(venue', known', failed', i)
  <2>1. i \in 1..Len(venue)
    BY <1>0 DEF Recent
  <2> QED
    BY <1>0, <1>1, <2>1 DEF Have, FillGrows
<1>2. \A n \in visits : \A i \in Recent(n) : Have(venue', known', failed', i)
  BY <1>1 DEF FillInv, FillTypes
<1>3. ASSUME NEW j \in Fill!Jobs PROVE JobOK(venue', known', failed', job[j])
  <2>1. JobOK(venue, known, failed, job[j]) /\ job[j].seen \in 0..Len(venue)
    BY DEF FillInv, FillTypes, JobRows
  <2> QED
    BY <1>1, <2>1 DEF JobOK
<1>4. ASSUME NEW j \in Fill!Jobs PROVE job[j] \in JobRows(Len(venue'))
  <2>1. job[j] \in JobRows(Len(venue))
    BY DEF FillInv, FillTypes
  <2>2. 1..Len(venue) \subseteq 1..Len(venue') /\ 0..Len(venue) \subseteq 0..Len(venue')
    BY <1>0 DEF FillGrows
  <2>3. Seq(1..Len(venue)) \subseteq Seq(1..Len(venue'))
    <3>1. ASSUME NEW s \in Seq(1..Len(venue)) PROVE s \in Seq(1..Len(venue'))
      <4>1. Len(s) \in Nat /\ s \in [1..Len(s) -> 1..Len(venue)]
        BY LenProperties
      <4>2. s \in [1..Len(s) -> 1..Len(venue')]
        BY <2>2, <4>1
      <4> QED
        BY SMTT(40), <4>1, <4>2, SeqDef
    <3> QED
      BY <3>1
  <2> QED
    BY <2>1, <2>2, <2>3 DEF JobRows
<1> QED
  BY <1>2, <1>3, <1>4

\* A transaction gets a row once, and a row of a trade is one of its transaction.
WithRow(kn, tx, x) == [kn EXCEPT ![tx] = IF @ = Fill!NoRow THEN x ELSE @]

\* A row is of the trade it was made of; one that is there stays as it is.
LEMMA Recorded ==
  ASSUME NEW v \in Seq(Txs), NEW kn, Kept(v, kn), NEW tx \in Txs, NEW x,
         x = Fill!Other \/ (x \in 1..Len(v) /\ v[x] = tx)
  PROVE  /\ Kept(v, WithRow(kn, tx, x)) /\ WithRow(kn, tx, x)[tx] # Fill!NoRow
         /\ \A t \in Txs : kn[t] # Fill!NoRow => WithRow(kn, tx, x)[t] # Fill!NoRow
<1> DEFINE kn2 == [kn EXCEPT ![tx] = IF @ = Fill!NoRow THEN x ELSE @]
<1>0. WithRow(kn, tx, x) = kn2
  BY DEF WithRow
<1>1. x \in Int /\ x # Fill!NoRow
  BY DEF Fill!Other, Fill!NoRow
<1>2. kn2 \in [Txs -> Int]
  BY <1>1 DEF Kept
<1>3. kn2[tx] # Fill!NoRow /\ \A t \in Txs : t # tx => kn2[t] = kn[t]
  BY <1>1 DEF Kept
<1>4. \A t \in Txs : kn[t] # Fill!NoRow => kn2[t] # Fill!NoRow
  BY <1>3
<1>5. ASSUME NEW t \in Txs
      PROVE  kn2[t] \in {Fill!Other, Fill!NoRow} \/ (kn2[t] \in 1..Len(v) /\ v[kn2[t]] = t)
  BY <1>3 DEF Kept
<1> QED
  BY <1>0, <1>2, <1>3, <1>4, <1>5 DEF Kept

\* What a step of one job has to show: the rows grew, its own row is right, its marks are true.
LEMMA FillMoves ==
  ASSUME FillInv, FillGrows, Kept(venue', known'), venue' = venue,
         fillNow' = fillNow, fillFaults' \in 0..fillFaults,
         trader' \in [seen : {"absent", "visible"}, marked : Fill!Never..fillNow],
         NEW j \in Fill!Jobs, NEW r \in JobRows(Len(venue)), job' = [job EXCEPT ![j] = r],
         JobOK(venue', known', failed', r),
         visits' = visits \/ (visits' = visits \cup {job[j].seen} /\ job[j].todo = <<>>)
  PROVE  FillInv'
<1>0. Len(venue) \in Nat
  BY DEF FillInv, FillTypes
<1>1. /\ \A n \in visits : \A i \in Recent(n) : Have(venue', known', failed', i)
      /\ \A k \in Fill!Jobs : JobOK(venue', known', failed', job[k])
  BY FillMore
<1>2. job' \in [Fill!Jobs -> JobRows(Len(venue))] /\ \A k \in Fill!Jobs : job'[k] = IF k = j THEN r ELSE job[k]
  BY DEF FillInv, FillTypes
<1>3. \A k \in Fill!Jobs : JobOK(venue', known', failed', job'[k])
  BY <1>1, <1>2
<1>4. job[j].seen \in 0..Len(venue) /\ visits \subseteq 0..Len(venue)
  BY DEF FillInv, FillTypes, JobRows
<1>5. visits' \subseteq 0..Len(venue)
  BY <1>4
<1>6. \A n \in visits' : \A i \in Recent(n) : Have(venue', known', failed', i)
  <2>1. job[j].todo = <<>> => \A i \in Recent(job[j].seen) : Have(venue', known', failed', i)
    BY <1>1 DEF JobOK
  <2> QED
    BY <1>1, <2>1
<1>7. fillFaults' \in 0..FillFaults
  BY FillAssumption DEF FillInv, FillTypes
<1>8. FillTypes'
  BY <1>2, <1>5, <1>7 DEF FillInv, FillTypes, Fill!Never, Fill!Jobs
<1> QED
  BY <1>3, <1>6, <1>8 DEF FillInv, Fill!Jobs

\* Every step keeps what is still to be inserted.
LEMMA FillSteps == FillInv /\ (Fill!Next \/ UNCHANGED fillVars) => FillInv'
<1> SUFFICES ASSUME FillInv, Fill!Next \/ UNCHANGED fillVars PROVE FillInv'
  OBVIOUS
<1>0. /\ venue \in Seq(Txs) /\ Len(venue) \in Nat /\ \A i \in 1..Len(venue) : venue[i] \in Txs
      /\ Kept(venue, known) /\ fillNow \in 0..FillNow /\ fillFaults \in 0..FillFaults
      /\ trader \in [seen : {"absent", "visible"}, marked : Fill!Never..fillNow]
      /\ \A j \in Fill!Jobs : job[j] \in JobRows(Len(venue)) /\ JobOK(venue, known, failed, job[j])
  BY DEF FillInv, FillTypes
<1>1. ASSUME UNCHANGED fillVars PROVE FillInv'
  BY <1>1 DEF fillVars, FillInv, FillTypes, Kept, JobOK, Have
<1>2. ASSUME NEW tx \in Txs, Fill!Happens(tx) PROVE FillInv'
  <2>1. /\ venue' = Append(venue, tx) /\ Len(venue) < FillTrades
        /\ UNCHANGED <<known, trader, job, fillNow, fillFaults, visits, failed>>
    BY <1>2 DEF Fill!Happens
  <2>2. /\ venue' \in Seq(Txs) /\ Len(venue') = Len(venue) + 1
        /\ \A i \in 1..Len(venue) : venue'[i] = venue[i]
    BY <1>0, <2>1, AppendProperties
  <2>3. FillGrows
    BY <1>0, <2>1, <2>2 DEF FillGrows
  <2>4. Kept(venue', known')
    BY <1>0, <2>1, <2>2 DEF Kept
  <2>5. Len(venue') <= FillTrades /\ 0..Len(venue) \subseteq 0..Len(venue')
    BY <1>0, <2>1, <2>2, FillAssumption
  <2>6. job' \in [Fill!Jobs -> JobRows(Len(venue'))]
    BY <2>1, <2>3, FillMore DEF FillInv, FillTypes
  <2>7. FillTypes'
    BY <2>1, <2>2, <2>4, <2>5, <2>6 DEF FillInv, FillTypes, Fill!Jobs, Fill!Never
  <2> QED
    BY <2>1, <2>3, <2>7, FillMore DEF FillInv, Fill!Jobs
<1>3. ASSUME NEW i \in DOMAIN venue, NEW owner \in {i, Fill!Other}, Fill!Watched(i, owner) PROVE FillInv'
  <2>1. /\ known' = WithRow(known, venue[i], owner)
        /\ UNCHANGED <<venue, trader, job, fillNow, fillFaults, visits, failed>>
    BY <1>3 DEF Fill!Watched, Fill!Record, WithRow
  <2>2. i \in 1..Len(venue) /\ venue[i] \in Txs
    BY <1>0
  <2>3. /\ Kept(venue, known') /\ \A t \in Txs : known[t] # Fill!NoRow => known'[t] # Fill!NoRow
    BY <1>0, <2>1, <2>2, Recorded
  <2>4. FillGrows
    BY <1>0, <2>1, <2>3 DEF FillGrows
  <2>5. FillTypes'
    BY <2>1, <2>3 DEF FillInv, FillTypes, Fill!Jobs, Fill!Never
  <2> QED
    BY <2>1, <2>4, <2>5, FillMore DEF FillInv, Fill!Jobs
<1>4. ASSUME Fill!Passes PROVE FillInv'
  <2>1. /\ fillNow < FillNow /\ fillNow' = fillNow + 1
        /\ UNCHANGED <<venue, known, trader, job, fillFaults, visits, failed>>
    BY <1>4 DEF Fill!Passes
  <2>2. fillNow' \in 0..FillNow /\ Fill!Never..fillNow \subseteq Fill!Never..fillNow'
    BY <1>0, <2>1, FillAssumption DEF Fill!Never
  <2>3. trader' \in [seen : {"absent", "visible"}, marked : Fill!Never..fillNow']
    BY <1>0, <2>1, <2>2
  <2>4. FillTypes'
    BY <2>1, <2>2, <2>3 DEF FillInv, FillTypes, Kept, Fill!Never
  <2> QED
    BY <2>1, <2>4 DEF FillInv, JobOK, Have
<1>5. ASSUME UNCHANGED <<venue, known>>, failed' = failed PROVE FillGrows
  BY <1>0, <1>5 DEF FillGrows
<1>6. ASSUME NEW own \in BOOLEAN, Fill!StartImport(own) PROVE FillInv'
  <2> DEFINE r == [Fill!Idle EXCEPT !.pc = "fetch", !.own = own]
  <2>1. /\ trader' = [trader EXCEPT !.seen = IF @ = "absent" THEN "visible" ELSE @]
        /\ job' = [job EXCEPT !["import"] = r] /\ "import" \in Fill!Jobs
        /\ UNCHANGED <<venue, known, fillNow, fillFaults, visits, failed>>
    BY <1>6 DEF Fill!StartImport, Fill!Step, Fill!Jobs
  <2>2. r \in JobRows(Len(venue)) /\ JobOK(venue', known', failed', r)
    BY <1>0, Awaits
  <2>3. trader' \in [seen : {"absent", "visible"}, marked : Fill!Never..fillNow]
    BY <1>0, <2>1
  <2> HIDE DEF r
  <2>4. FillGrows /\ Kept(venue', known')
    BY <1>0, <1>5, <2>1
  <2>9. fillFaults' \in 0..fillFaults /\ trader' \in [seen : {"absent", "visible"}, marked : Fill!Never..fillNow]
    BY <1>0, <2>1
  <2> QED
    BY <1>0, <2>1, <2>2, <2>3, <2>4, <2>9, FillMoves
<1>7. ASSUME NEW own \in BOOLEAN, Fill!StartBatch(<<own, ~own>>) PROVE FillInv'
  <2> DEFINE r == Fill!Item(<<own, ~own>>)
  <2>1. /\ trader' = [trader EXCEPT !.seen = IF @ = "absent" THEN "visible" ELSE @]
        /\ job' = [job EXCEPT !["import"] = r] /\ "import" \in Fill!Jobs
        /\ UNCHANGED <<venue, known, fillNow, fillFaults, visits, failed>>
    BY <1>7 DEF Fill!StartBatch, Fill!Step, Fill!Jobs
  <2>2. <<own, ~own>> \in Seq(BOOLEAN) /\ <<own, ~own>> # <<>>
    OBVIOUS
  <2>3. r \in JobRows(Len(venue)) /\ JobOK(venue', known', failed', r)
    BY <1>0, <2>2, ItemRests
  <2>4. trader' \in [seen : {"absent", "visible"}, marked : Fill!Never..fillNow]
    BY <1>0, <2>1
  <2> HIDE DEF r
  <2>5. FillGrows /\ Kept(venue', known')
    BY <1>0, <1>5, <2>1
  <2>9. fillFaults' \in 0..fillFaults /\ trader' \in [seen : {"absent", "visible"}, marked : Fill!Never..fillNow]
    BY <1>0, <2>1
  <2> QED
    BY <1>0, <2>1, <2>3, <2>4, <2>5, <2>9, FillMoves
<1>8. ASSUME Fill!StartVisit PROVE FillInv'
  <2> DEFINE r == [Fill!Idle EXCEPT !.pc = "fetch"]
  <2>1. /\ job' = [job EXCEPT !["worker"] = r] /\ "worker" \in Fill!Jobs
        /\ UNCHANGED <<venue, known, trader, fillNow, fillFaults, visits, failed>>
    BY <1>8 DEF Fill!StartVisit, Fill!Step, Fill!Jobs
  <2>2. r \in JobRows(Len(venue)) /\ JobOK(venue', known', failed', r)
    BY <1>0, Visits
  <2> HIDE DEF r
  <2>3. FillGrows /\ Kept(venue', known')
    BY <1>0, <1>5, <2>1
  <2>9. fillFaults' \in 0..fillFaults /\ trader' \in [seen : {"absent", "visible"}, marked : Fill!Never..fillNow]
    BY <1>0, <2>1
  <2> QED
    BY <1>0, <2>1, <2>2, <2>3, <2>9, FillMoves
<1>9. ASSUME NEW j \in Fill!Jobs, Fill!Fetch(j) PROVE FillInv'
  <2> DEFINE r == [job[j] EXCEPT !.pc = "insert", !.todo = Fill!Newest(Len(venue)), !.seen = Len(venue)]
  <2>1. /\ job' = [job EXCEPT ![j] = r]
        /\ UNCHANGED <<venue, known, trader, fillNow, fillFaults, visits, failed>>
    BY <1>9 DEF Fill!Fetch, Fill!Step
  <2>2. r \in JobRows(Len(venue)) /\ JobOK(venue', known', failed', r)
    BY <1>0, Fetched
  <2> HIDE DEF r
  <2>3. FillGrows /\ Kept(venue', known')
    BY <1>0, <1>5, <2>1
  <2>9. fillFaults' \in 0..fillFaults /\ trader' \in [seen : {"absent", "visible"}, marked : Fill!Never..fillNow]
    BY <1>0, <2>1
  <2> QED
    BY <1>0, <2>1, <2>2, <2>3, <2>9, FillMoves
<1>10. ASSUME Fill!Fault PROVE fillFaults' \in 0..fillFaults
  BY <1>0, <1>10 DEF Fill!Fault
<1>11. ASSUME NEW j \in Fill!Jobs, Fill!FetchFails(j) PROVE FillInv'
  <2> DEFINE r == IF j = "import" THEN [job[j] EXCEPT !.pc = "insert"] ELSE Fill!Idle
  <2>1. /\ job' = [job EXCEPT ![j] = r] /\ fillFaults' \in 0..fillFaults /\ job[j].pc = "fetch"
        /\ UNCHANGED <<venue, known, trader, fillNow, visits, failed>>
    BY <1>10, <1>11 DEF Fill!FetchFails, Fill!Step
  <2>2. JobOK(venue', known', failed', job[j])
    BY <1>0, <2>1
  <2>3. r \in JobRows(Len(venue)) /\ JobOK(venue', known', failed', r)
    BY <1>0, <2>1, <2>2, Unfetched, IdleRests, RestsWell
  <2> HIDE DEF r
  <2>4. FillGrows /\ Kept(venue', known')
    BY <1>0, <1>5, <2>1
  <2> QED
    BY <1>0, <2>1, <2>3, <2>4, FillMoves
<1>12. ASSUME NEW j \in Fill!Jobs, Fill!Insert(j) PROVE FillInv'
  <2> DEFINE i == Head(job[j].todo)
             x == IF job[j].own THEN i ELSE Fill!Other
             r == [job[j] EXCEPT !.todo = Tail(@)]
  <2>1. /\ job[j].pc = "insert" /\ job[j].todo # <<>>
        /\ known' = WithRow(known, venue[i], x)
        /\ job' = [job EXCEPT ![j] = r]
        /\ UNCHANGED <<venue, trader, fillNow, fillFaults, visits, failed>>
    BY <1>12 DEF Fill!Insert, Fill!Step, Fill!Record, WithRow
  <2>2. i \in 1..Len(venue) /\ venue[i] \in Txs
    BY <1>0, <2>1, HeadTailProperties DEF JobRows
  <2>3. x = Fill!Other \/ (x \in 1..Len(venue) /\ venue[x] = venue[i])
    BY <2>2
  <2>4. job[j] \in JobRows(Len(venue)) /\ Len(venue) \in Nat
    BY <1>0
  <2> HIDE DEF x
  <2>5. /\ Kept(venue, known') /\ known'[venue[i]] # Fill!NoRow
        /\ \A t \in Txs : known[t] # Fill!NoRow => known'[t] # Fill!NoRow
    BY <1>0, <2>1, <2>2, <2>3, Recorded
  <2>6. FillGrows /\ Kept(venue', known')
    BY <1>0, <2>1, <2>5 DEF FillGrows
  <2>7. JobOK(venue', known', failed', job[j]) /\ Have(venue', known', failed', i)
    BY <2>1, <2>5, <2>6, FillMore DEF Have
  <2>8. r \in JobRows(Len(venue)) /\ JobOK(venue', known', failed', r)
    BY <2>1, <2>4, <2>7, Popped
  <2> HIDE DEF r
  <2>9. fillFaults' \in 0..fillFaults /\ trader' \in [seen : {"absent", "visible"}, marked : Fill!Never..fillNow]
    BY <1>0, <2>1
  <2> QED
    BY <1>0, <2>1, <2>6, <2>8, <2>9, FillMoves
<1>13. ASSUME NEW j \in Fill!Jobs, Fill!InsertFails(j) PROVE FillInv'
  <2> DEFINE r == [job[j] EXCEPT !.todo = Tail(@)]
  <2>1. /\ job[j].pc = "insert" /\ job[j].todo # <<>> /\ fillFaults' \in 0..fillFaults
        /\ failed' = failed \cup {Head(job[j].todo)}
        /\ job' = [job EXCEPT ![j] = r]
        /\ UNCHANGED <<venue, known, trader, fillNow, visits>>
    BY <1>10, <1>13 DEF Fill!InsertFails, Fill!Step
  <2>2. job[j] \in JobRows(Len(venue)) /\ Len(venue) \in Nat
    BY <1>0
  <2>3. FillGrows /\ Kept(venue', known')
    BY <1>0, <2>1 DEF FillGrows
  <2>4. JobOK(venue', known', failed', job[j]) /\ Have(venue', known', failed', Head(job[j].todo))
    BY <2>1, <2>3, FillMore DEF Have
  <2>5. r \in JobRows(Len(venue)) /\ JobOK(venue', known', failed', r)
    BY <2>1, <2>2, <2>4, Popped
  <2> HIDE DEF r
  <2> QED
    BY <1>0, <2>1, <2>3, <2>5, FillMoves
<1>14. ASSUME NEW j \in Fill!Jobs, Fill!Mark(j) PROVE FillInv'
  <2>1. /\ job[j].pc = "insert" /\ job[j].todo = <<>>
        /\ trader' = [trader EXCEPT !.marked = fillNow] /\ visits' = visits \cup {job[j].seen}
        /\ UNCHANGED <<venue, known, fillNow, fillFaults, failed>>
    BY <1>14 DEF Fill!Mark
  <2>2. PICK r \in Fill!NextItem(job[j].rest) : job' = [job EXCEPT ![j] = r]
    BY <1>14 DEF Fill!Mark, Fill!Step
  <2>3. job[j].rest \in Seq(BOOLEAN)
    BY <1>0 DEF JobRows
  <2>4. r \in JobRows(Len(venue)) /\ JobOK(venue', known', failed', r)
    BY <1>0, <2>2, <2>3, NextRests
  <2>5. fillNow \in Fill!Never..fillNow
    BY <1>0 DEF Fill!Never
  <2>6. trader' \in [seen : {"absent", "visible"}, marked : Fill!Never..fillNow]
    BY <1>0, <2>1, <2>5
  <2>7. FillGrows /\ Kept(venue', known') /\ fillFaults' \in 0..fillFaults
    BY <1>0, <1>5, <2>1
  <2> QED
    BY <2>1, <2>2, <2>4, <2>6, <2>7, FillMoves
<1>15. ASSUME NEW j \in Fill!Jobs, Fill!MarkFails(j) PROVE FillInv'
  <2>1. /\ fillFaults' \in 0..fillFaults /\ UNCHANGED <<venue, known, trader, fillNow, visits, failed>>
    BY <1>10, <1>15 DEF Fill!MarkFails
  <2>2. PICK r \in Fill!NextItem(job[j].rest) : job' = [job EXCEPT ![j] = r]
    BY <1>15 DEF Fill!MarkFails, Fill!Step
  <2>3. job[j].rest \in Seq(BOOLEAN)
    BY <1>0 DEF JobRows
  <2>4. r \in JobRows(Len(venue)) /\ JobOK(venue', known', failed', r)
    BY <1>0, <2>2, <2>3, NextRests
  <2>5. FillGrows /\ Kept(venue', known')
    BY <1>0, <1>5, <2>1
  <2> QED
    BY <1>0, <2>1, <2>2, <2>4, <2>5, FillMoves
<1>16. ASSUME Fill!Crash PROVE FillInv'
  <2>1. /\ job' = [j \in Fill!Jobs |-> Fill!Idle] /\ fillFaults' \in 0..fillFaults
        /\ UNCHANGED <<venue, known, trader, fillNow, visits, failed>>
    BY <1>10, <1>16 DEF Fill!Crash
  <2>2. /\ Fill!Idle \in JobRows(Len(venue)) /\ JobOK(venue', known', failed', Fill!Idle)
    BY <1>0, IdleRests, RestsWell
  <2> HIDE DEF Fill!Idle
  <2>3. fillFaults' \in 0..FillFaults
    BY <1>0, <2>1, FillAssumption
  <2>4. job' \in [Fill!Jobs -> JobRows(Len(venue))]
    BY <2>1, <2>2
  <2>5. FillTypes'
    BY <2>1, <2>3, <2>4 DEF FillInv, FillTypes, Kept, Fill!Never, Fill!Jobs
  <2> QED
    BY <2>1, <2>2, <2>5 DEF FillInv, Have, Fill!Jobs
<1>17. ASSUME Fill!Next PROVE FillInv'
  BY <1>2, <1>3, <1>4, <1>6, <1>7, <1>8, <1>9, <1>11, <1>12, <1>13, <1>14, <1>15, <1>16, <1>17 DEF Fill!Next
<1> QED
  BY <1>1, <1>17

\* A fetch that was marked left no trade of its page without a row.
LEMMA FillHolds == FillInv => Fill!TypeOK /\ Fill!BackfilledIsWhole
<1> SUFFICES ASSUME FillInv PROVE Fill!TypeOK /\ Fill!BackfilledIsWhole
  OBVIOUS
<1>1. Fill!TypeOK
  <2>1. \A tx \in Txs : known[tx] \in {Fill!Other, Fill!NoRow} \/ venue[known[tx]] = tx
    BY DEF FillInv, FillTypes, Kept
  <2>2. \A j \in Fill!Jobs : job[j].pc \in {"idle", "fetch", "insert"} /\ job[j].seen \in 0..Len(venue)
    BY DEF FillInv, FillTypes, JobRows
  <2>3. trader.seen \in {"absent", "visible"} /\ trader.marked \in Fill!Never..fillNow
    BY DEF FillInv, FillTypes
  <2> QED
    BY <2>1, <2>2, <2>3 DEF FillInv, FillTypes, Fill!TypeOK
<1>2. ASSUME NEW n \in visits, NEW k \in DOMAIN Fill!Newest(n)
      PROVE  LET i == Fill!Newest(n)[k] IN known[venue[i]] # Fill!NoRow \/ i \in failed
  <2>1. n \in Nat
    BY DEF FillInv, FillTypes
  <2>2. Fill!Newest(n)[k] \in Recent(n)
    BY <1>2, <2>1, NewestIs
  <2> QED
    BY <2>2 DEF FillInv, Have
<1> QED
  BY <1>1, <1>2 DEF Fill!BackfilledIsWhole

----------------------------------------------------------------------------
(* TraderRows: what a pass of figures still owes, and the boards' rows. *)

\* TraderRows: what a pass has still to write, and what it has written.
PageNames == {"curve", "timeline", "tags"}
Writes(n) == [page : PageNames, key : {<<>>}, of : SUBSET (1..n)]
               \cup [page : {"row"}, key : Rows!Keys, of : SUBSET (1..n)]
Figures(n) == [self : {"none", "empty", "seed", "worker"}, of : SUBSET (1..n), official : {"none", "board", "delta"}]
Tasks == [do : {"board", "category", "delta"}, p : Rows!Periods] \cup [do : {"snap"}, p : {""}]
IngestTasks == [do : {"category", "trader", "seed"}, p : Rows!Periods]

WillBe(td, pg, key, S) ==
  \E i \in DOMAIN td : /\ td[i].page = pg /\ td[i].key = key /\ td[i].of = S
                       /\ \A j \in DOMAIN td : j > i => ~(td[j].page = pg /\ td[j].key = key)
Untouched(td, pg, key) == \A j \in DOMAIN td : ~(td[j].page = pg /\ td[j].key = key)
StoredAs(rs, ps, pg, key, S) ==
  IF pg = "row" THEN rs[key].self = "worker" /\ rs[key].of = S ELSE ps[pg] = S
Comes(td, rs, ps, pg, key, S) == WillBe(td, pg, key, S) \/ (Untouched(td, pg, key) /\ StoredAs(rs, ps, pg, key, S))

Win(rw, p, at, S) == IF p = "all" THEN S ELSE {i \in S : rw[i].day >= at - CutoffDays}
CIn(rw, S) == {i \in S : rw[i].cat = "C"}
Owed(rw, at, S, mp, key, T) ==
  \E p \in Rows!Periods :
    LET W == Win(rw, p, at, S) IN
    /\ W # {}
    /\ (key = <<p, "OVERALL">> /\ T = W) \/ (mp /\ CIn(rw, W) # {} /\ key = <<p, "C">> /\ T = CIn(rw, W))
AllCome(td, rs, ps, rw, at, S, mp) ==
  /\ \A pg \in PageNames : Comes(td, rs, ps, pg, <<>>, S)
  /\ \A key \in Rows!Keys, T \in SUBSET S : Owed(rw, at, S, mp, key, T) => Comes(td, rs, ps, "row", key, T)

Boards(rs, bd) == \A p \in bd : rs[<<p, "OVERALL">>].official = "board"
WorkerStays(rs, rs2) ==
  \A k \in Rows!Keys : rs[k].self = "worker" => rs2[k].self = "worker" /\ rs2[k].of = rs[k].of

PerfTypes(n, t, r) ==
  /\ r.pc \in {"idle", "read", "curve", "rows"} /\ r.todo \in Seq(Writes(n)) /\ r.of \subseteq 1..n
  /\ r.at \in 0..t /\ r.mapped \in BOOLEAN /\ r.ok \in BOOLEAN
  /\ r \in [pc : {"idle", "read", "curve", "rows"}, todo : Seq(Writes(n)), of : SUBSET (1..n), at : Nat, mapped : BOOLEAN, ok : BOOLEAN]
PageTypes ==
  /\ raw \in Seq([day : Nat, cat : {"C", "other"}]) /\ seen \in {"absent", "visible"}
  /\ rows \in [Rows!Keys -> Figures(Len(raw))] /\ pages \in [PageNames -> SUBSET (1..Len(raw))]
  /\ snaps \subseteq 0..pageNow /\ pageNow \in Nat /\ rounds \in 0..MaxRounds /\ pageFaults \in 0..PageFaults
  /\ boarded \subseteq Rows!Periods
  /\ ingest \in Seq(IngestTasks)
  /\ official \in [todo : Seq(Tasks), at : 0..pageNow, hit : SUBSET boarded]
PassOK ==
  /\ PerfTypes(Len(raw), pageNow, perf)
  /\ whole.done \in BOOLEAN /\ whole.of \subseteq 1..Len(raw)
  /\ perf.pc \in {"idle", "read"} => perf.todo = <<>>
  /\ whole.done => perf.pc \in {"idle", "read"}
  /\ perf.pc = "curve" /\ perf.ok => Comes(perf.todo, rows, pages, "curve", <<>>, perf.of)
  /\ perf.pc \in {"curve", "rows"} => perf.of # {}
  /\ perf.pc = "rows" /\ perf.ok => AllCome(perf.todo, rows, pages, raw, perf.at, perf.of, perf.mapped)
  /\ whole.done => AllCome(<<>>, rows, pages, raw, whole.at, whole.of, whole.mapped)
PageInv == PageTypes /\ PassOK /\ Boards(rows, boarded)

\* What comes still comes when other workers write their part of the rows.
LEMMA ComesStays ==
  ASSUME NEW td, NEW rs, NEW rs2, NEW ps, NEW rw, NEW rw2, NEW at, NEW S, NEW mp, WorkerStays(rs, rs2),
         \A i \in S : rw2[i] = rw[i], AllCome(td, rs, ps, rw, at, S, mp)
  PROVE  AllCome(td, rs2, ps, rw2, at, S, mp)
<1>1. \A p \in Rows!Periods : Win(rw2, p, at, S) = Win(rw, p, at, S)
  BY DEF Win
<1>2. \A p \in Rows!Periods : CIn(rw2, Win(rw, p, at, S)) = CIn(rw, Win(rw, p, at, S))
  BY DEF Win, CIn
<1>3. \A key \in Rows!Keys, T \in SUBSET S : Owed(rw2, at, S, mp, key, T) => Owed(rw, at, S, mp, key, T)
  BY <1>1, <1>2 DEF Owed
<1>4. \A pg \in PageNames : Comes(td, rs2, ps, pg, <<>>, S)
  BY DEF AllCome, Comes, StoredAs, PageNames
<1>5. \A key \in Rows!Keys, T \in SUBSET S : Comes(td, rs, ps, "row", key, T) => Comes(td, rs2, ps, "row", key, T)
  BY DEF Comes, StoredAs, WorkerStays
<1> QED
  BY <1>3, <1>4, <1>5 DEF AllCome

\* A write that is done is stored, the others still come.
LEMMA ComesOn ==
  ASSUME NEW n \in Nat, NEW td \in Seq(Writes(n)), td # <<>>, NEW rs, NEW ps, NEW rs2, NEW ps2,
         IF Head(td).page = "row"
         THEN /\ ps2 = ps /\ rs2[Head(td).key].self = "worker" /\ rs2[Head(td).key].of = Head(td).of
              /\ \A k \in Rows!Keys : k # Head(td).key => rs2[k] = rs[k]
         ELSE rs2 = rs /\ ps2[Head(td).page] = Head(td).of /\ \A pg \in PageNames : pg # Head(td).page => ps2[pg] = ps[pg],
         NEW pg \in PageNames \cup {"row"}, NEW key, pg = "row" => key \in Rows!Keys, pg # "row" => key = <<>>, NEW S,
         Comes(td, rs, ps, pg, key, S)
  PROVE  Comes(Tail(td), rs2, ps2, pg, key, S)
<1> DEFINE w == Head(td)
<1>1. /\ Len(td) \in Nat /\ DOMAIN td = 1..Len(td) /\ Len(td) > 0 /\ w = td[1] /\ w \in Writes(n)
      /\ DOMAIN Tail(td) = 1..(Len(td) - 1) /\ \A i \in 1..(Len(td) - 1) : Tail(td)[i] = td[i + 1]
  <2>1. Len(td) \in Nat \ {0} /\ DOMAIN td = 1..Len(td)
    BY EmptySeq, LenProperties
  <2>2. w \in Writes(n) /\ Tail(td) \in Seq(Writes(n)) /\ Len(Tail(td)) = Len(td) - 1
        /\ \A i \in 1..Len(Tail(td)) : Tail(td)[i] = td[i + 1]
    BY HeadTailProperties
  <2>3. w = td[1]
    OBVIOUS
  <2> QED
    BY <2>1, <2>2, <2>3, LenProperties
<1>2. CASE w.page = pg /\ w.key = key /\ ~Untouched(Tail(td), pg, key)
  <2>1. PICK j \in 1..(Len(td) - 1) : td[j + 1].page = pg /\ td[j + 1].key = key
    BY <1>1, <1>2 DEF Untouched
  <2>2. j + 1 \in DOMAIN td /\ j + 1 > 1
    BY <1>1, <2>1
  <2>3. ~Untouched(td, pg, key)
    BY <2>1, <2>2 DEF Untouched
  <2>4. PICK i \in DOMAIN td : /\ td[i].page = pg /\ td[i].key = key /\ td[i].of = S
                               /\ \A m \in DOMAIN td : m > i => ~(td[m].page = pg /\ td[m].key = key)
    BY <2>3 DEF Comes, WillBe
  <2>5. i # 1
    BY <2>1, <2>2, <2>4
  <2>6. i - 1 \in DOMAIN Tail(td) /\ Tail(td)[i - 1] = td[i]
    BY <1>1, <2>5
  <2>7. \A m \in DOMAIN Tail(td) : m > i - 1 => ~(Tail(td)[m].page = pg /\ Tail(td)[m].key = key)
    BY <1>1, <2>4
  <2> QED
    BY <2>4, <2>6, <2>7 DEF Comes, WillBe
<1>3. CASE w.page = pg /\ w.key = key /\ Untouched(Tail(td), pg, key)
  <2>1. ~Untouched(td, pg, key)
    BY <1>1, <1>3 DEF Untouched
  <2>2. PICK i \in DOMAIN td : /\ td[i].page = pg /\ td[i].key = key /\ td[i].of = S
    BY <2>1 DEF Comes, WillBe
  <2>3. i = 1
    <3> SUFFICES ASSUME i # 1 PROVE FALSE
      OBVIOUS
    <3>1. i - 1 \in DOMAIN Tail(td) /\ Tail(td)[i - 1] = td[i]
      BY <1>1
    <3> QED
      BY <1>3, <2>2, <3>1 DEF Untouched
  <2>4. w.of = S
    BY <1>1, <2>2, <2>3
  <2>5. StoredAs(rs2, ps2, pg, key, S)
    BY <1>3, <2>4 DEF StoredAs
  <2> QED
    BY <1>3, <2>5 DEF Comes
<1>4. CASE ~(w.page = pg /\ w.key = key)
  <2>1. w.page = pg => pg = "row"
    BY <1>1, <1>4 DEF Writes, PageNames
  <2>2. StoredAs(rs, ps, pg, key, S) => StoredAs(rs2, ps2, pg, key, S)
    BY <1>4, <2>1 DEF StoredAs
  <2>3. Untouched(td, pg, key) => Untouched(Tail(td), pg, key)
    <3> SUFFICES ASSUME Untouched(td, pg, key), NEW j \in DOMAIN Tail(td) PROVE ~(Tail(td)[j].page = pg /\ Tail(td)[j].key = key)
      BY DEF Untouched
    <3>1. j + 1 \in DOMAIN td /\ Tail(td)[j] = td[j + 1]
      BY <1>1
    <3> QED
      BY <3>1 DEF Untouched
  <2>4. WillBe(td, pg, key, S) => WillBe(Tail(td), pg, key, S)
    <3> SUFFICES ASSUME WillBe(td, pg, key, S) PROVE WillBe(Tail(td), pg, key, S)
      OBVIOUS
    <3>1. PICK i \in DOMAIN td : /\ td[i].page = pg /\ td[i].key = key /\ td[i].of = S
                                 /\ \A m \in DOMAIN td : m > i => ~(td[m].page = pg /\ td[m].key = key)
      BY DEF WillBe
    <3>2. i # 1
      BY <1>1, <1>4, <3>1
    <3>3. i - 1 \in DOMAIN Tail(td) /\ Tail(td)[i - 1] = td[i]
      BY <1>1, <3>2
    <3>4. \A m \in DOMAIN Tail(td) : m > i - 1 => ~(Tail(td)[m].page = pg /\ Tail(td)[m].key = key)
      BY <1>1, <3>1
    <3> QED
      BY <3>1, <3>3, <3>4 DEF WillBe
  <2> QED
    BY <2>2, <2>3, <2>4 DEF Comes
<1> QED
  BY <1>2, <1>3, <1>4

\* What comes in a list comes in a longer one, unless it is written again.
LEMMA CatComes ==
  ASSUME NEW X, NEW a \in Seq(X), NEW b \in Seq(X), NEW pg, NEW key, NEW S
  PROVE  /\ WillBe(b, pg, key, S) => WillBe(a \o b, pg, key, S)
         /\ WillBe(a, pg, key, S) /\ Untouched(b, pg, key) => WillBe(a \o b, pg, key, S)
         /\ Untouched(a, pg, key) /\ Untouched(b, pg, key) => Untouched(a \o b, pg, key)
<1>1. /\ Len(a) \in Nat /\ Len(b) \in Nat /\ DOMAIN a = 1..Len(a) /\ DOMAIN b = 1..Len(b)
      /\ DOMAIN (a \o b) = 1..(Len(a) + Len(b))
      /\ \A i \in 1..Len(a) : (a \o b)[i] = a[i]
      /\ \A i \in 1..Len(b) : (a \o b)[Len(a) + i] = b[i]
  BY ConcatProperties, LenProperties
<1> DEFINE c == a \o b
<1>2. DOMAIN c = 1..(Len(a) + Len(b)) /\ (\A i \in 1..Len(a) : c[i] = a[i]) /\ \A i \in 1..Len(b) : c[Len(a) + i] = b[i]
  BY <1>1
<1> HIDE DEF c
<1>3. \A m \in DOMAIN c : m \in 1..Len(a) \/ (m - Len(a) \in DOMAIN b /\ c[m] = b[m - Len(a)])
  <2> SUFFICES ASSUME NEW m \in DOMAIN c, m \notin 1..Len(a)
               PROVE  m - Len(a) \in DOMAIN b /\ c[m] = b[m - Len(a)]
    OBVIOUS
  <2>1. m - Len(a) \in 1..Len(b) /\ Len(a) + (m - Len(a)) = m
    BY <1>1, <1>2
  <2> QED
    BY <1>1, <1>2, <2>1
<1>4. ASSUME WillBe(b, pg, key, S) PROVE WillBe(c, pg, key, S)
  <2>1. PICK i \in DOMAIN b : /\ b[i].page = pg /\ b[i].key = key /\ b[i].of = S
                              /\ \A j \in DOMAIN b : j > i => ~(b[j].page = pg /\ b[j].key = key)
    BY <1>4 DEF WillBe
  <2>2. Len(a) + i \in DOMAIN c /\ c[Len(a) + i] = b[i]
    BY <1>1, <1>2
  <2>3. ASSUME NEW m \in DOMAIN c, m > Len(a) + i PROVE ~(c[m].page = pg /\ c[m].key = key)
    <3>1. m \notin 1..Len(a) /\ m - Len(a) > i
      BY <1>1, <1>2, <2>3
    <3> QED
      BY <1>3, <2>1, <3>1
  <2> QED
    BY <2>1, <2>2, <2>3 DEF WillBe
<1>5. ASSUME WillBe(a, pg, key, S), Untouched(b, pg, key) PROVE WillBe(c, pg, key, S)
  <2>1. PICK i \in DOMAIN a : /\ a[i].page = pg /\ a[i].key = key /\ a[i].of = S
                              /\ \A j \in DOMAIN a : j > i => ~(a[j].page = pg /\ a[j].key = key)
    BY <1>5 DEF WillBe
  <2>2. i \in DOMAIN c /\ c[i] = a[i]
    BY <1>1, <1>2
  <2>3. ASSUME NEW m \in DOMAIN c, m > i PROVE ~(c[m].page = pg /\ c[m].key = key)
    BY <1>1, <1>2, <1>3, <1>5, <2>1, <2>3 DEF Untouched
  <2> QED
    BY <2>1, <2>2, <2>3 DEF WillBe
<1>6. ASSUME Untouched(a, pg, key), Untouched(b, pg, key) PROVE Untouched(c, pg, key)
  BY <1>1, <1>2, <1>3, <1>6 DEF Untouched
<1> QED
  BY <1>4, <1>5, <1>6 DEF c

\* The writes of one period.
LEMMA PeriodPlan ==
  ASSUME NEW n \in Nat, NEW p \in Rows!Periods, NEW W \in SUBSET (1..n), W # {}, NEW mp \in BOOLEAN
  PROVE  LET td == Rows!ForPeriod(p, W, mp) IN
         /\ td \in Seq(Writes(n))
         /\ WillBe(td, "timeline", <<>>, W) /\ WillBe(td, "row", <<p, "OVERALL">>, W)
         /\ Untouched(td, "curve", <<>>)
         /\ IF p = "all" THEN WillBe(td, "tags", <<>>, W) ELSE Untouched(td, "tags", <<>>)
         /\ mp /\ Rows!InC(W) # {} => WillBe(td, "row", <<p, "C">>, Rows!InC(W))
         /\ \A key \in Rows!Keys : key[1] # p => Untouched(td, "row", key)
<1> DEFINE a == <<Rows!Page("timeline", W), Rows!RowOf(<<p, "OVERALL">>, W)>>
           b == IF p = "all" THEN <<Rows!Page("tags", W)>> ELSE <<>>
           c == IF mp /\ Rows!InC(W) # {} THEN <<Rows!RowOf(<<p, "C">>, Rows!InC(W))>> ELSE <<>>
           X == Writes(n)
<1>1. Rows!ForPeriod(p, W, mp) = (a \o b) \o c
  BY DEF Rows!ForPeriod
<1>2. Rows!InC(W) \subseteq 1..n
  BY DEF Rows!InC
<1>3. /\ <<p, "OVERALL">> \in Rows!Keys /\ <<p, "C">> \in Rows!Keys
      /\ Rows!Page("timeline", W) \in X /\ Rows!Page("tags", W) \in X
      /\ Rows!RowOf(<<p, "OVERALL">>, W) \in X /\ Rows!RowOf(<<p, "C">>, Rows!InC(W)) \in X
  BY <1>2 DEF Rows!Page, Rows!RowOf, Writes, PageNames, Rows!Keys
<1>4. a \in Seq(X) /\ b \in Seq(X) /\ c \in Seq(X)
  BY <1>3
<1>5. /\ WillBe(a, "timeline", <<>>, W) /\ WillBe(a, "row", <<p, "OVERALL">>, W)
      /\ Untouched(a, "curve", <<>>) /\ Untouched(a, "tags", <<>>)
      /\ \A key \in Rows!Keys : key # <<p, "OVERALL">> => Untouched(a, "row", key)
  <2>1. DOMAIN a = {1, 2} /\ a[1] = Rows!Page("timeline", W) /\ a[2] = Rows!RowOf(<<p, "OVERALL">>, W)
    OBVIOUS
  <2>2. /\ a[1].page = "timeline" /\ a[1].key = <<>> /\ a[1].of = W
        /\ a[2].page = "row" /\ a[2].key = <<p, "OVERALL">> /\ a[2].of = W
    BY <2>1 DEF Rows!Page, Rows!RowOf
  <2> HIDE DEF a
  <2> QED
    BY <2>1, <2>2 DEF WillBe, Untouched
<1>6. /\ p = "all" => WillBe(b, "tags", <<>>, W)
      /\ p # "all" => Untouched(b, "tags", <<>>)
      /\ Untouched(b, "curve", <<>>) /\ Untouched(b, "timeline", <<>>)
      /\ \A key \in Rows!Keys : Untouched(b, "row", key)
  <2>1. CASE p # "all"
    BY <2>1 DEF Untouched
  <2>2. CASE p = "all"
    <3>1. DOMAIN b = {1} /\ b[1] = Rows!Page("tags", W)
      BY <2>2
    <3>2. b[1].page = "tags" /\ b[1].key = <<>> /\ b[1].of = W
      BY <3>1 DEF Rows!Page
    <3> HIDE DEF b
    <3> QED
      BY <2>2, <3>1, <3>2 DEF WillBe, Untouched
  <2> QED
    BY <2>1, <2>2
<1>7. /\ mp /\ Rows!InC(W) # {} => WillBe(c, "row", <<p, "C">>, Rows!InC(W))
      /\ \A pg \in PageNames : Untouched(c, pg, <<>>)
      /\ \A key \in Rows!Keys : key # <<p, "C">> => Untouched(c, "row", key)
  <2>1. CASE ~(mp /\ Rows!InC(W) # {})
    BY <2>1 DEF Untouched
  <2>2. CASE mp /\ Rows!InC(W) # {}
    <3>1. DOMAIN c = {1} /\ c[1] = Rows!RowOf(<<p, "C">>, Rows!InC(W))
      BY <2>2
    <3>2. c[1].page = "row" /\ c[1].key = <<p, "C">> /\ c[1].of = Rows!InC(W)
      BY <3>1 DEF Rows!RowOf
    <3> HIDE DEF c
    <3> QED
      BY <2>2, <3>1, <3>2 DEF WillBe, Untouched, PageNames
  <2> QED
    BY <2>1, <2>2
<1> HIDE DEF a, b, c, X
<1>8. /\ a \o b \in Seq(X) /\ (a \o b) \o c \in Seq(X)
  BY <1>4, ConcatProperties
<1>9. /\ <<p, "OVERALL">> \in Rows!Keys /\ <<p, "OVERALL">> # <<p, "C">>
      /\ \A key \in Rows!Keys : key[1] # p => key # <<p, "OVERALL">> /\ key # <<p, "C">>
      /\ {"timeline", "curve", "tags"} \subseteq PageNames
  BY <1>3 DEF PageNames
<1>10. /\ WillBe(a \o b, "timeline", <<>>, W) /\ WillBe(a \o b, "row", <<p, "OVERALL">>, W)
       /\ Untouched(a \o b, "curve", <<>>)
       /\ p = "all" => WillBe(a \o b, "tags", <<>>, W)
       /\ p # "all" => Untouched(a \o b, "tags", <<>>)
       /\ \A key \in Rows!Keys : key # <<p, "OVERALL">> => Untouched(a \o b, "row", key)
  BY <1>4, <1>5, <1>6, <1>9, CatComes
<1> DEFINE d == a \o b
<1> HIDE DEF d
<1>11. d \in Seq(X)
  BY <1>8 DEF d
<1>12. /\ WillBe(d \o c, "timeline", <<>>, W) /\ WillBe(d \o c, "row", <<p, "OVERALL">>, W)
       /\ Untouched(d \o c, "curve", <<>>)
       /\ p = "all" => WillBe(d \o c, "tags", <<>>, W)
       /\ p # "all" => Untouched(d \o c, "tags", <<>>)
       /\ mp /\ Rows!InC(W) # {} => WillBe(d \o c, "row", <<p, "C">>, Rows!InC(W))
       /\ \A key \in Rows!Keys : key[1] # p => Untouched(d \o c, "row", key)
  BY <1>4, <1>7, <1>9, <1>10, <1>11, CatComes DEF d
<1> QED
  BY <1>1, <1>8, <1>12 DEF d, X

\* The writes of a pass are those it owes, one of each.
LEMMA PlanComes ==
  ASSUME NEW n \in Nat, NEW S \in SUBSET (1..n), S # {}, NEW at, NEW mp \in BOOLEAN, NEW rs, NEW ps, ps["curve"] = S
  PROVE  /\ Rows!Plan(S, at, mp) \in Seq(Writes(n))
         /\ AllCome(Rows!Plan(S, at, mp), rs, ps, raw, at, S, mp)
<1> DEFINE W == Rows!Window("1m", at, S)
           a == Rows!ForPeriod("1m", W, mp)
           b == Rows!ForPeriod("all", S, mp)
           X == Writes(n)
<1>1. Rows!Plan(S, at, mp) = a \o b
  BY DEF Rows!Plan
<1>2. W \in SUBSET (1..n) /\ "1m" \in Rows!Periods /\ "all" \in Rows!Periods
  BY DEF Rows!Window, Rows!Periods
<1>3. \A key \in Rows!Keys : key[1] \in {"1m", "all"}
  BY DEF Rows!Keys, Rows!Periods
<1>4. /\ a \in Seq(X) /\ Untouched(a, "curve", <<>>) /\ Untouched(a, "tags", <<>>)
      /\ W # {} => WillBe(a, "row", <<"1m", "OVERALL">>, W)
      /\ W # {} /\ mp /\ Rows!InC(W) # {} => WillBe(a, "row", <<"1m", "C">>, Rows!InC(W))
  <2>1. CASE W = {}
    <3>1. a = <<>>
      BY <2>1 DEF Rows!ForPeriod
    <3> HIDE DEF a
    <3> QED
      BY <2>1, <3>1 DEF Untouched
  <2>2. CASE W # {}
    BY <1>2, <2>2, PeriodPlan
  <2> QED
    BY <2>1, <2>2
<1>5. /\ b \in Seq(X) /\ Untouched(b, "curve", <<>>) /\ WillBe(b, "tags", <<>>, S) /\ WillBe(b, "timeline", <<>>, S)
      /\ WillBe(b, "row", <<"all", "OVERALL">>, S)
      /\ mp /\ Rows!InC(S) # {} => WillBe(b, "row", <<"all", "C">>, Rows!InC(S))
      /\ \A key \in Rows!Keys : key[1] # "all" => Untouched(b, "row", key)
  BY <1>2, PeriodPlan
<1> HIDE DEF W, a, b, X
<1>6. Untouched(a \o b, "curve", <<>>) /\ WillBe(a \o b, "tags", <<>>, S) /\ WillBe(a \o b, "timeline", <<>>, S)
  BY <1>4, <1>5, CatComes
<1>7. \A pg \in PageNames : Comes(a \o b, rs, ps, pg, <<>>, S)
  BY <1>6 DEF Comes, StoredAs, PageNames
<1>8. /\ Win(raw, "1m", at, S) = W /\ Win(raw, "all", at, S) = S
      /\ CIn(raw, W) = Rows!InC(W) /\ CIn(raw, S) = Rows!InC(S)
  BY DEF W, Win, CIn, Rows!Window, Rows!InC
<1>9. ASSUME NEW key \in Rows!Keys, NEW T \in SUBSET S, Owed(raw, at, S, mp, key, T) PROVE WillBe(a \o b, "row", key, T)
  <2>1. PICK p \in {"1m", "all"} :
          LET V == Win(raw, p, at, S) IN
          /\ V # {}
          /\ (key = <<p, "OVERALL">> /\ T = V) \/ (mp /\ CIn(raw, V) # {} /\ key = <<p, "C">> /\ T = CIn(raw, V))
    BY <1>9 DEF Owed, Rows!Periods
  <2>2. CASE p = "all"
    <3>1. WillBe(b, "row", key, T)
      BY <1>5, <1>8, <2>1, <2>2
    <3> QED
      BY <1>4, <1>5, <3>1, CatComes
  <2>3. CASE p = "1m"
    <3>1. WillBe(a, "row", key, T)
      BY <1>4, <1>8, <2>1, <2>3
    <3>2. key[1] = "1m"
      BY <2>1, <2>3
    <3>3. Untouched(b, "row", key)
      BY <1>5, <3>2
    <3> QED
      BY <1>4, <1>5, <3>1, <3>3, CatComes
  <2> QED
    BY <2>2, <2>3
<1>10. a \o b \in Seq(X)
  BY <1>4, <1>5, ConcatProperties
<1> QED
  BY <1>1, <1>7, <1>9, <1>10 DEF AllCome, Comes, X

\* What each worker writes of a row.
Seeded(rs, k) ==
  [rs EXCEPT ![k] = [rs[k] EXCEPT !.self = IF @ = "worker" THEN @ ELSE "seed", !.official = "board"]]
Officially(rs, k, source) ==
  [rs EXCEPT ![k] = [rs[k] EXCEPT !.self = IF @ = "none" THEN "empty" ELSE @, !.official = source]]
Planted(rs, k) == [rs EXCEPT ![k] = IF @ = Rows!NoRow THEN [Rows!NoRow EXCEPT !.self = "seed"] ELSE @]
Worked(rs, k, S) == [rs EXCEPT ![k] = [@ EXCEPT !.self = "worker", !.of = S]]

\* A row that is not there.
LEMMA BlankFigures ==
  ASSUME NEW n \in Nat
  PROVE  Rows!NoRow \in Figures(n) /\ Rows!NoRow.self = "none" /\ Rows!NoRow.official = "none"
BY DEF Rows!NoRow, Figures

\* The boards seed a row, and leave a worker's figures.
LEMMA SeededRow ==
  ASSUME NEW n \in Nat, NEW rs \in [Rows!Keys -> Figures(n)], NEW k \in Rows!Keys
  PROVE  /\ Seeded(rs, k) \in [Rows!Keys -> Figures(n)] /\ WorkerStays(rs, Seeded(rs, k))
         /\ \A q \in Rows!Keys : q # k => Seeded(rs, k)[q] = rs[q]
<1> DEFINE r == [rs[k] EXCEPT !.self = IF @ = "worker" THEN @ ELSE "seed", !.official = "board"]
<1>1. r \in Figures(n) /\ (rs[k].self = "worker" => r.self = "worker") /\ r.of = rs[k].of
  BY DEF Figures
<1>2. Seeded(rs, k) = [rs EXCEPT ![k] = r]
  BY DEF Seeded
<1> HIDE DEF r
<1> QED
  BY <1>1, <1>2 DEF WorkerStays

\* Official figures, beside whatever else the row has.
LEMMA OfficialRow ==
  ASSUME NEW n \in Nat, NEW rs \in [Rows!Keys -> Figures(n)], NEW k \in Rows!Keys, NEW source \in {"board", "delta"}
  PROVE  /\ Officially(rs, k, source) \in [Rows!Keys -> Figures(n)] /\ WorkerStays(rs, Officially(rs, k, source))
         /\ Officially(rs, k, source)[k].official = source
         /\ \A q \in Rows!Keys : q # k => Officially(rs, k, source)[q] = rs[q]
<1> DEFINE r == [rs[k] EXCEPT !.self = IF @ = "none" THEN "empty" ELSE @, !.official = source]
<1>1. r \in Figures(n) /\ (rs[k].self = "worker" => r.self = "worker") /\ r.of = rs[k].of /\ r.official = source
  BY DEF Figures
<1>2. Officially(rs, k, source) = [rs EXCEPT ![k] = r]
  BY DEF Officially
<1> HIDE DEF r
<1> QED
  BY <1>1, <1>2 DEF WorkerStays

\* A new trader's rows, in place of none.
LEMMA PlantedRow ==
  ASSUME NEW n \in Nat, NEW rs \in [Rows!Keys -> Figures(n)], NEW k \in Rows!Keys
  PROVE  /\ Planted(rs, k) \in [Rows!Keys -> Figures(n)] /\ WorkerStays(rs, Planted(rs, k))
         /\ \A q \in Rows!Keys : rs[q].official = "board" => Planted(rs, k)[q].official = "board"
<1> DEFINE s == [Rows!NoRow EXCEPT !.self = "seed"]
           r == IF rs[k] = Rows!NoRow THEN s ELSE rs[k]
<1>1. s \in Figures(n)
  BY BlankFigures DEF Figures
<1>2. r \in Figures(n) /\ (rs[k].self = "worker" => r = rs[k]) /\ (rs[k].official = "board" => r = rs[k])
  BY <1>1, BlankFigures
<1>3. Planted(rs, k) = [rs EXCEPT ![k] = r]
  BY DEF Planted
<1> HIDE DEF r
<1> QED
  BY <1>2, <1>3 DEF WorkerStays

\* The worker's figures, beside the official ones.
LEMMA WorkedRow ==
  ASSUME NEW n \in Nat, NEW rs \in [Rows!Keys -> Figures(n)], NEW k \in Rows!Keys, NEW S \in SUBSET (1..n)
  PROVE  /\ Worked(rs, k, S) \in [Rows!Keys -> Figures(n)]
         /\ Worked(rs, k, S)[k].self = "worker" /\ Worked(rs, k, S)[k].of = S
         /\ \A q \in Rows!Keys : q # k => Worked(rs, k, S)[q] = rs[q]
         /\ \A q \in Rows!Keys : Worked(rs, k, S)[q].official = rs[q].official
<1> DEFINE r == [rs[k] EXCEPT !.self = "worker", !.of = S]
<1>1. r \in Figures(n) /\ r.self = "worker" /\ r.of = S /\ r.official = rs[k].official
  BY DEF Figures
<1>2. Worked(rs, k, S) = [rs EXCEPT ![k] = r]
  BY DEF Worked
<1> HIDE DEF r
<1> QED
  BY <1>1, <1>2

\* A step of another worker leaves what the pass has done.
LEMMA PassStays ==
  ASSUME PageInv, PageTypes', WorkerStays(rows, rows'), Boards(rows', boarded'),
         Len(raw) <= Len(raw'), \A i \in 1..Len(raw) : raw'[i] = raw[i], pageNow <= pageNow',
         UNCHANGED <<pages, perf, whole>>
  PROVE  PageInv'
<1>0. Len(raw) \in Nat /\ Len(raw') \in Nat /\ pageNow \in Nat /\ pageNow' \in Nat
  BY DEF PageInv, PageTypes
<1>1. 1..Len(raw) \subseteq 1..Len(raw') /\ 0..pageNow \subseteq 0..pageNow'
  BY <1>0
<1>2. Writes(Len(raw)) \subseteq Writes(Len(raw'))
  <2>1. SUBSET (1..Len(raw)) \subseteq SUBSET (1..Len(raw'))
    BY <1>1
  <2> QED
    BY <2>1 DEF Writes
<1>3. \A s \in Seq(Writes(Len(raw))) : s \in Seq(Writes(Len(raw')))
  <2> SUFFICES ASSUME NEW s \in Seq(Writes(Len(raw))) PROVE s \in Seq(Writes(Len(raw')))
    OBVIOUS
  <2>1. Len(s) \in Nat /\ s \in [1..Len(s) -> Writes(Len(raw))]
    BY LenProperties
  <2>2. s \in [1..Len(s) -> Writes(Len(raw'))]
    BY <1>2, <2>1
  <2> QED
    BY <2>1, <2>2, SeqDef
<1>4. PerfTypes(Len(raw'), pageNow', perf)
  <2>1. perf.of \subseteq 1..Len(raw') /\ perf.at \in 0..pageNow' /\ perf.todo \in Seq(Writes(Len(raw')))
    BY <1>1, <1>3 DEF PageInv, PassOK, PerfTypes
  <2> HIDE DEF Writes
  <2>2. perf = [pc |-> perf.pc, todo |-> perf.todo, of |-> perf.of, at |-> perf.at, mapped |-> perf.mapped, ok |-> perf.ok]
    BY DEF PageInv, PassOK, PerfTypes
  <2>3. /\ perf.pc \in {"idle", "read", "curve", "rows"} /\ perf.mapped \in BOOLEAN /\ perf.ok \in BOOLEAN
        /\ perf.at \in Nat
    BY DEF PageInv, PassOK, PerfTypes
  <2> QED
    BY <2>1, <2>2, <2>3 DEF PerfTypes
<1>5. whole.of \subseteq 1..Len(raw')
  BY <1>1 DEF PageInv, PassOK
<1>6. /\ perf.of \subseteq 1..Len(raw) /\ whole.of \subseteq 1..Len(raw)
  BY DEF PageInv, PassOK, PerfTypes
<1>7. ASSUME AllCome(perf.todo, rows, pages, raw, perf.at, perf.of, perf.mapped)
      PROVE  AllCome(perf.todo, rows', pages, raw', perf.at, perf.of, perf.mapped)
  <2>1. \A i \in perf.of : raw'[i] = raw[i]
    BY <1>6
  <2> QED
    BY <1>7, <2>1, ComesStays
<1>8. ASSUME AllCome(<<>>, rows, pages, raw, whole.at, whole.of, whole.mapped)
      PROVE  AllCome(<<>>, rows', pages, raw', whole.at, whole.of, whole.mapped)
  <2>1. \A i \in whole.of : raw'[i] = raw[i]
    BY <1>6
  <2> QED
    BY <1>8, <2>1, ComesStays
<1>9. Comes(perf.todo, rows, pages, "curve", <<>>, perf.of) => Comes(perf.todo, rows', pages, "curve", <<>>, perf.of)
  BY DEF Comes, StoredAs
<1>10. PassOK'
  <2>1. UNCHANGED <<pages, perf, whole>>
    OBVIOUS
  <2>2. PassOK
    BY DEF PageInv
  <2> HIDE DEF PageInv
  <2> QED
    BY <1>4, <1>5, <1>7, <1>8, <1>9, <2>1, <2>2 DEF PassOK
<1> QED
  BY <1>10 DEF PageInv

\* Seven elements of a set make a sequence over it.
LEMMA SevenIn ==
  ASSUME NEW X, NEW a \in X, NEW b \in X, NEW c \in X, NEW d \in X, NEW e \in X, NEW f \in X, NEW g \in X
  PROVE  <<a, b, c, d, e, f, g>> \in Seq(X)
OBVIOUS

\* No page has anything at first.
LEMMA PageStarts == Rows!Init => PageInv
<1> SUFFICES ASSUME Rows!Init PROVE PageInv
  OBVIOUS
<1>1. /\ raw = <<>> /\ seen = "absent" /\ rows = [k \in Rows!Keys |-> Rows!NoRow]
      /\ pages = [p \in {"curve", "timeline", "tags"} |-> {}] /\ snaps = {}
      /\ perf = Rows!Resting /\ official = Rows!Off /\ ingest = <<>>
      /\ pageNow = 0 /\ rounds = MaxRounds /\ pageFaults = PageFaults /\ whole = Rows!NoPass /\ boarded = {}
  BY DEF Rows!Init
<1>2. Len(raw) = 0 /\ raw \in Seq([day : Nat, cat : {"C", "other"}]) /\ ingest \in Seq(IngestTasks)
  BY <1>1
<1>3. Rows!NoRow \in Figures(Len(raw))
  BY <1>2, BlankFigures
<1>4. rows \in [Rows!Keys -> Figures(Len(raw))] /\ pages \in [PageNames -> SUBSET (1..Len(raw))]
  BY <1>1, <1>3 DEF PageNames
<1>5. official \in [todo : Seq(Tasks), at : 0..pageNow, hit : SUBSET boarded]
  <2>1. <<>> \in Seq(Tasks) /\ 0 \in 0..pageNow /\ {} \in SUBSET boarded
    BY <1>1
  <2> QED
    BY <1>1, <2>1 DEF Rows!Off
<1>6. PageTypes
  BY <1>1, <1>2, <1>4, <1>5, PagesAssumption DEF PageTypes
<1>7. perf.pc = "idle" /\ perf.todo = <<>> /\ PerfTypes(Len(raw), pageNow, perf)
  <2>1. <<>> \in Seq(Writes(Len(raw))) /\ {} \in SUBSET (1..Len(raw)) /\ 0 \in 0..pageNow /\ 0 \in Nat
    BY <1>1
  <2>2. perf = [pc |-> "idle", todo |-> <<>>, of |-> {}, at |-> 0, mapped |-> FALSE, ok |-> TRUE]
    BY <1>1 DEF Rows!Resting
  <2> QED
    BY <2>1, <2>2 DEF PerfTypes
<1>8. whole.done = FALSE /\ whole.of = {}
  BY <1>1 DEF Rows!NoPass
<1>9. PassOK
  BY <1>7, <1>8 DEF PassOK
<1>10. Boards(rows, boarded)
  BY <1>1 DEF Boards
<1> QED
  BY <1>6, <1>9, <1>10 DEF PageInv

\* Workers that write rows beside the pass.
LEMMA RowsBeside ==
  ASSUME PageInv, UNCHANGED <<raw, pages, perf, whole, pageNow>>,
         rows' \in [Rows!Keys -> Figures(Len(raw))], WorkerStays(rows, rows'),
         seen' \in {"absent", "visible"}, snaps' \subseteq 0..pageNow,
         rounds' \in 0..MaxRounds, pageFaults' \in 0..PageFaults, boarded' \subseteq Rows!Periods,
         ingest' \in Seq(IngestTasks), official' \in [todo : Seq(Tasks), at : 0..pageNow, hit : SUBSET boarded'],
         Boards(rows', boarded')
  PROVE  PageInv'
<1>1. PageTypes'
  BY DEF PageInv, PageTypes, PageNames, Figures, Rows!Keys, Rows!Periods
<1>2. Len(raw) \in Nat /\ pageNow \in Nat
  BY DEF PageInv, PageTypes
<1> QED
  BY <1>1, <1>2, PassStays

\* What the steps use of the invariant.
LEMMA PageTypesHere ==
  PageInv =>
    /\ Len(raw) \in Nat /\ raw \in Seq([day : Nat, cat : {"C", "other"}]) /\ seen \in {"absent", "visible"}
    /\ rows \in [Rows!Keys -> Figures(Len(raw))] /\ pages \in [PageNames -> SUBSET (1..Len(raw))]
    /\ snaps \subseteq 0..pageNow /\ pageNow \in Nat /\ rounds \in 0..MaxRounds /\ pageFaults \in 0..PageFaults
    /\ boarded \subseteq Rows!Periods /\ ingest \in Seq(IngestTasks)
    /\ official \in [todo : Seq(Tasks), at : 0..pageNow, hit : SUBSET boarded]
    /\ Boards(rows, boarded) /\ WorkerStays(rows, rows)
BY DEF PageInv, PageTypes, WorkerStays

\* Rounds and faults stay within their bounds.
LEMMA Spent ==
  ASSUME PageInv
  PROVE  /\ Rows!Round => rounds' \in 0..MaxRounds
         /\ pageFaults > 0 /\ pageFaults' = pageFaults - 1 => pageFaults' \in 0..PageFaults
BY PagesAssumption DEF PageInv, PageTypes, Rows!Round

\* What imports, trades and time do.
LEMMA PageOutside ==
  ASSUME PageInv,
         \/ \E day \in 0..pageNow, cat \in {"C", "other"} : Rows!Recorded(day, cat)
         \/ Rows!Appears \/ Rows!SnapPortfolio \/ Rows!Passes
  PROVE  PageInv'
<1>0. /\ Len(raw) \in Nat /\ raw \in Seq([day : Nat, cat : {"C", "other"}]) /\ seen \in {"absent", "visible"}
      /\ rows \in [Rows!Keys -> Figures(Len(raw))] /\ pages \in [PageNames -> SUBSET (1..Len(raw))]
      /\ snaps \subseteq 0..pageNow /\ pageNow \in Nat /\ rounds \in 0..MaxRounds /\ pageFaults \in 0..PageFaults
      /\ boarded \subseteq Rows!Periods /\ ingest \in Seq(IngestTasks)
      /\ official \in [todo : Seq(Tasks), at : 0..pageNow, hit : SUBSET boarded]
      /\ Boards(rows, boarded) /\ WorkerStays(rows, rows)
  BY PageTypesHere
<1>1. ASSUME NEW day \in 0..pageNow, NEW cat \in {"C", "other"}, Rows!Recorded(day, cat) PROVE PageInv'
  <2>1. /\ raw' = Append(raw, [day |-> day, cat |-> cat])
        /\ UNCHANGED <<seen, rows, pages, snaps, perf, official, ingest, pageNow, rounds, pageFaults, whole, boarded>>
    BY <1>1 DEF Rows!Recorded
  <2>2. [day |-> day, cat |-> cat] \in [day : Nat, cat : {"C", "other"}]
    BY <1>0
  <2>3. /\ raw' \in Seq([day : Nat, cat : {"C", "other"}]) /\ Len(raw') = Len(raw) + 1
        /\ \A i \in 1..Len(raw) : raw'[i] = raw[i]
    BY <1>0, <2>1, <2>2, AppendProperties
  <2>4. 1..Len(raw) \subseteq 1..Len(raw') /\ Len(raw) <= Len(raw')
    BY <1>0, <2>3
  <2>5. SUBSET (1..Len(raw)) \subseteq SUBSET (1..Len(raw'))
    BY <2>4
  <2>6. Figures(Len(raw)) \subseteq Figures(Len(raw'))
    BY <2>5 DEF Figures
  <2>7. rows' \in [Rows!Keys -> Figures(Len(raw'))] /\ pages' \in [PageNames -> SUBSET (1..Len(raw'))]
    BY <1>0, <2>1, <2>5, <2>6
  <2>8. PageTypes'
    BY <1>0, <2>1, <2>3, <2>7 DEF PageTypes, Rows!Keys, Rows!Periods, PageNames, Figures
  <2> QED
    BY <1>0, <2>1, <2>3, <2>4, <2>8, PassStays
<1>2. ASSUME Rows!Appears PROVE PageInv'
  BY <1>0, <1>2, RowsBeside DEF Rows!Appears
<1>3. ASSUME Rows!SnapPortfolio PROVE PageInv'
  <2>1. /\ snaps' = snaps \cup {pageNow} /\ Rows!Round
        /\ UNCHANGED <<raw, seen, rows, pages, perf, official, ingest, pageNow, pageFaults, whole, boarded>>
    BY <1>3 DEF Rows!SnapPortfolio
  <2>2. snaps' \subseteq 0..pageNow /\ rounds' \in 0..MaxRounds
    BY <1>0, <2>1, Spent
  <2> QED
    BY <1>0, <2>1, <2>2, RowsBeside
<1>4. ASSUME Rows!Passes PROVE PageInv'
  <2>1. /\ pageNow' = pageNow + 1
        /\ UNCHANGED <<raw, seen, rows, pages, snaps, perf, official, ingest, rounds, pageFaults, whole, boarded>>
    BY <1>4 DEF Rows!Passes
  <2>2. 0..pageNow \subseteq 0..pageNow' /\ pageNow' \in Nat /\ pageNow <= pageNow'
    BY <1>0, <2>1
  <2>3. snaps' \subseteq 0..pageNow' /\ official' \in [todo : Seq(Tasks), at : 0..pageNow', hit : SUBSET boarded']
    BY <1>0, <2>1, <2>2
  <2>4. PageTypes'
    BY <1>0, <2>1, <2>2, <2>3 DEF PageTypes, Rows!Keys, Rows!Periods, PageNames, Figures
  <2> QED
    BY <1>0, <2>1, <2>2, <2>4, PassStays
<1> QED
  BY <1>1, <1>2, <1>3, <1>4

\* ingest, and official_pnl.
LEMMA PageBoards ==
  ASSUME PageInv,
         \/ \E p \in Rows!Periods : Rows!StartIngest(p)
         \/ Rows!StartOfficial
         \/ \E b \in BOOLEAN : Rows!Ingest(b) \/ Rows!Official(b)
  PROVE  PageInv'
<1>0. /\ Len(raw) \in Nat /\ raw \in Seq([day : Nat, cat : {"C", "other"}]) /\ seen \in {"absent", "visible"}
      /\ rows \in [Rows!Keys -> Figures(Len(raw))] /\ pages \in [PageNames -> SUBSET (1..Len(raw))]
      /\ snaps \subseteq 0..pageNow /\ pageNow \in Nat /\ rounds \in 0..MaxRounds /\ pageFaults \in 0..PageFaults
      /\ boarded \subseteq Rows!Periods /\ ingest \in Seq(IngestTasks)
      /\ official \in [todo : Seq(Tasks), at : 0..pageNow, hit : SUBSET boarded]
      /\ Boards(rows, boarded) /\ WorkerStays(rows, rows)
  BY PageTypesHere
<1>r. Len(raw) \in Nat /\ rows \in [Rows!Keys -> Figures(Len(raw))]
  BY <1>0
<1>00. \A p \in Rows!Periods, c \in {"OVERALL", "C"} : <<p, c>> \in Rows!Keys
  BY DEF Rows!Keys
<1>1. ASSUME NEW p \in Rows!Periods, Rows!StartIngest(p) PROVE PageInv'
  <2>1. /\ Rows!Round /\ ingest' = <<[do |-> "category", p |-> p], [do |-> "trader", p |-> p]>>
        /\ UNCHANGED <<raw, seen, rows, pages, snaps, perf, official, pageNow, pageFaults, whole, boarded>>
    BY <1>1 DEF Rows!StartIngest
  <2>2. [do |-> "category", p |-> p] \in IngestTasks /\ [do |-> "trader", p |-> p] \in IngestTasks
    BY DEF IngestTasks
  <2>3. ingest' \in Seq(IngestTasks) /\ rounds' \in 0..MaxRounds
    BY <2>1, <2>2, Spent
  <2> QED
    BY <1>0, <2>1, <2>3, RowsBeside
<1>2. ASSUME Rows!StartOfficial PROVE PageInv'
  <2>1. /\ Rows!Round /\ official' = [todo |-> Rows!Rounds, at |-> pageNow, hit |-> {}]
        /\ UNCHANGED <<raw, seen, rows, pages, snaps, perf, ingest, pageNow, pageFaults, whole, boarded>>
    BY <1>2 DEF Rows!StartOfficial
  <2>2. /\ \A d \in {"board", "category", "delta"} : \A p \in {"1m", "all"} : Rows!Task(d, p) \in Tasks
        /\ Rows!Task("snap", "") \in Tasks
    BY DEF Rows!Task, Tasks, Rows!Periods
  <2>3. Rows!Rounds \in Seq(Tasks)
    BY <2>2, SevenIn DEF Rows!Rounds
  <2> HIDE DEF Rows!Rounds
  <2>4. official' \in [todo : Seq(Tasks), at : 0..pageNow, hit : SUBSET boarded]
    BY <1>0, <2>1, <2>3
  <2>5. rounds' \in 0..MaxRounds
    BY <2>1, Spent
  <2> QED
    BY <1>0, <2>1, <2>4, <2>5, RowsBeside
<1>3. ASSUME NEW ok \in BOOLEAN, Rows!Ingest(ok) PROVE PageInv'
  <2> DEFINE task == Head(ingest)
  <2>1. /\ ingest # <<>>
        /\ IF task.do = "category" /\ ok THEN rows' = Seeded(rows, <<task.p, "C">>)
           ELSE IF task.do = "seed" /\ ok THEN rows' = Planted(rows, <<"all", "OVERALL">>)
           ELSE UNCHANGED rows
        /\ seen' = IF task.do = "trader" /\ ok /\ seen = "absent" THEN "visible" ELSE seen
        /\ ingest' = IF task.do = "trader" /\ seen' # seen THEN <<[do |-> "seed", p |-> task.p]>> ELSE Tail(ingest)
        /\ UNCHANGED <<raw, pages, snaps, perf, official, pageNow, rounds, pageFaults, whole, boarded>>
    BY <1>3 DEF Rows!Ingest, Rows!SeedCategory, Rows!SeedTrader, Seeded, Planted
  <2>2. task \in IngestTasks /\ Tail(ingest) \in Seq(IngestTasks)
    BY <1>0, <2>1, HeadTailProperties
  <2>3. task.p \in Rows!Periods
    BY <2>2 DEF IngestTasks
  <2>4. [do |-> "seed", p |-> task.p] \in IngestTasks
    BY <2>3 DEF IngestTasks
  <2> HIDE DEF task
  <2>5. ingest' \in Seq(IngestTasks) /\ seen' \in {"absent", "visible"}
    BY <1>0, <2>1, <2>2, <2>4
  <2> DEFINE c == <<task.p, "C">>
             a == <<"all", "OVERALL">>
  <2>6. c \in Rows!Keys /\ a \in Rows!Keys /\ \A p \in Rows!Periods : <<p, "OVERALL">> # c /\ <<p, "OVERALL">> \in Rows!Keys
    BY <1>00, <2>3 DEF Rows!Periods
  <2>7. rows' \in {rows, Seeded(rows, c), Planted(rows, a)}
    BY <2>1
  <2> HIDE DEF c, a
  <2>8. rows' \in [Rows!Keys -> Figures(Len(raw))] /\ WorkerStays(rows, rows')
    <3>1. CASE rows' = rows
      BY <1>0, <3>1
    <3>2. CASE rows' = Seeded(rows, c)
      BY <1>r, <2>6, <3>2, SeededRow
    <3>3. CASE rows' = Planted(rows, a)
      BY <1>r, <2>6, <3>3, PlantedRow
    <3> QED
      BY <2>7, <3>1, <3>2, <3>3
  <2>9. \A p \in Rows!Periods : rows[<<p, "OVERALL">>].official = "board" => rows'[<<p, "OVERALL">>].official = "board"
    <3>1. CASE rows' = rows
      BY <3>1
    <3>2. CASE rows' = Seeded(rows, c)
      BY <1>r, <2>6, <3>2, SeededRow
    <3>3. CASE rows' = Planted(rows, a)
      BY <1>r, <2>6, <3>3, PlantedRow
    <3> QED
      BY <2>7, <3>1, <3>2, <3>3
  <2>10. Boards(rows', boarded')
    BY <1>0, <2>1, <2>9 DEF Boards
  <2> QED
    BY <1>0, <2>1, <2>5, <2>8, <2>10, RowsBeside
<1>4. ASSUME NEW done \in BOOLEAN, Rows!Official(done) PROVE PageInv'
  <2> DEFINE task == Head(official.todo)
             hits == task.do = "board" /\ done
  <2>1. /\ official.todo # <<>>
        /\ IF hits THEN rows' = Officially(rows, <<task.p, "OVERALL">>, "board")
           ELSE IF task.do = "category" /\ done THEN rows' = Seeded(rows, <<task.p, "C">>)
           ELSE IF task.do = "delta" /\ done
                THEN \/ UNCHANGED rows
                     \/ /\ rows[<<task.p, "OVERALL">>].official # "board"
                        /\ rows' = Officially(rows, <<task.p, "OVERALL">>, "delta")
           ELSE UNCHANGED rows
        /\ snaps' \in {snaps, snaps \cup {official.at}}
        /\ boarded' = IF hits THEN boarded \cup {task.p} ELSE boarded
        /\ official' = [official EXCEPT !.todo = Tail(@), !.hit = IF hits THEN @ \cup {task.p} ELSE @]
        /\ UNCHANGED <<raw, seen, pages, perf, ingest, pageNow, rounds, pageFaults, whole>>
    BY <1>4 DEF Rows!Official, Rows!SetOfficial, Rows!SeedCategory, Rows!SetDelta, Officially, Seeded
  <2>2. official.todo \in Seq(Tasks) /\ official.at \in 0..pageNow /\ official.hit \in SUBSET boarded
    BY <1>0
  <2>3. task \in Tasks /\ Tail(official.todo) \in Seq(Tasks)
    BY <2>1, <2>2, HeadTailProperties
  <2>4. task.do \in {"board", "category", "delta"} => task.p \in Rows!Periods
    BY <2>3 DEF Tasks
  <2> DEFINE hit == IF hits THEN official.hit \cup {task.p} ELSE official.hit
             todo == Tail(official.todo)
  <2>5. boarded' \subseteq Rows!Periods /\ hit \subseteq boarded'
    BY <1>0, <2>1, <2>2, <2>4
  <2>6. official' = [official EXCEPT !.todo = todo, !.hit = hit] /\ todo \in Seq(Tasks)
    BY <2>1, <2>3
  <2> HIDE DEF hit, todo
  <2>7. official' \in [todo : Seq(Tasks), at : 0..pageNow, hit : SUBSET boarded']
    BY <1>0, <2>5, <2>6
  <2>8. snaps' \subseteq 0..pageNow
    BY <1>0, <2>1, <2>2
  <2> HIDE DEF task
  <2> DEFINE c == <<task.p, "C">>
             k == <<task.p, "OVERALL">>
  <2>9. /\ task.do \in {"board", "category", "delta"} => c \in Rows!Keys /\ k \in Rows!Keys
        /\ \A p \in Rows!Periods : <<p, "OVERALL">> # c /\ <<p, "OVERALL">> \in Rows!Keys
        /\ \A p \in Rows!Periods : p # task.p => <<p, "OVERALL">> # k
        /\ k = <<task.p, "OVERALL">>
    BY <1>00, <2>4
  <2>10. \/ rows' = rows /\ boarded' = boarded
         \/ rows' = Officially(rows, k, "board") /\ k \in Rows!Keys /\ boarded' = boarded \cup {task.p}
         \/ rows' = Seeded(rows, c) /\ c \in Rows!Keys /\ boarded' = boarded
         \/ rows' = Officially(rows, k, "delta") /\ k \in Rows!Keys /\ rows[k].official # "board" /\ boarded' = boarded
    BY <2>1, <2>9
  <2> HIDE DEF c, k
  <2>11. /\ rows' \in [Rows!Keys -> Figures(Len(raw))] /\ WorkerStays(rows, rows')
    <3>1. CASE rows' = rows
      BY <1>0, <3>1
    <3>2. CASE rows' = Officially(rows, k, "board") /\ k \in Rows!Keys
      BY <1>r, <3>2, OfficialRow
    <3>3. CASE rows' = Seeded(rows, c) /\ c \in Rows!Keys
      BY <1>r, <3>3, SeededRow
    <3>4. CASE rows' = Officially(rows, k, "delta") /\ k \in Rows!Keys
      BY <1>r, <3>4, OfficialRow
    <3> QED
      BY <2>10, <3>1, <3>2, <3>3, <3>4
  <2>12. Boards(rows', boarded')
    <3>1. CASE rows' = rows /\ boarded' = boarded
      BY <1>0, <3>1
    <3>2. CASE rows' = Officially(rows, k, "board") /\ k \in Rows!Keys /\ boarded' = boarded \cup {task.p}
      <4>1. rows'[k].official = "board" /\ \A q \in Rows!Keys : q # k => rows'[q] = rows[q]
        BY <1>r, <3>2, OfficialRow
      <4> QED
        BY <1>0, <2>9, <3>2, <4>1 DEF Boards
    <3>3. CASE rows' = Seeded(rows, c) /\ c \in Rows!Keys /\ boarded' = boarded
      <4>1. \A q \in Rows!Keys : q # c => rows'[q] = rows[q]
        BY <1>r, <3>3, SeededRow
      <4> QED
        BY <1>0, <2>9, <3>3, <4>1 DEF Boards
    <3>4. CASE rows' = Officially(rows, k, "delta") /\ k \in Rows!Keys /\ rows[k].official # "board" /\ boarded' = boarded
      <4>1. \A q \in Rows!Keys : q # k => rows'[q] = rows[q]
        BY <1>r, <3>4, OfficialRow
      <4> QED
        BY <1>0, <2>9, <3>4, <4>1 DEF Boards
    <3> QED
      BY <2>10, <3>1, <3>2, <3>3, <3>4
  <2> HIDE DEF hits
  <2> QED
    BY SMTT(40), <1>0, <2>1, <2>5, <2>7, <2>8, <2>11, <2>12, RowsBeside
<1> QED
  BY <1>1, <1>2, <1>3, <1>4

\* The pass itself.
LEMMA PerfStep ==
  ASSUME PageInv, UNCHANGED <<raw, seen, snaps, official, ingest, pageNow, boarded>>,
         rows' \in [Rows!Keys -> Figures(Len(raw))], pages' \in [PageNames -> SUBSET (1..Len(raw))],
         rounds' \in 0..MaxRounds, pageFaults' \in 0..PageFaults, Boards(rows', boarded), PassOK'
  PROVE  PageInv'
<1>1. PageTypes'
  BY DEF PageInv, PageTypes, PageNames, Figures, Rows!Keys, Rows!Periods
<1> QED
  BY <1>1 DEF PageInv, Boards

\* One write of a pass.
LEMMA PageWrites ==
  ASSUME PageInv, Rows!WriteNext
  PROVE  PageInv'
<1>r. Len(raw) \in Nat /\ rows \in [Rows!Keys -> Figures(Len(raw))] /\ pages \in [PageNames -> SUBSET (1..Len(raw))]
  BY PageTypesHere
<1>0. /\ perf.todo \in Seq(Writes(Len(raw)))
      /\ PerfTypes(Len(raw), pageNow, perf) /\ whole.done \in BOOLEAN /\ whole.of \subseteq 1..Len(raw)
  BY DEF PageInv, PassOK, PerfTypes
<1> DEFINE w == Head(perf.todo)
           n == Len(raw)
<1>1. /\ perf.todo # <<>>
      /\ IF w.page = "row" THEN rows' = Worked(rows, w.key, w.of) /\ UNCHANGED pages
         ELSE pages' = [pages EXCEPT ![w.page] = w.of] /\ UNCHANGED rows
      /\ perf' = [perf EXCEPT !.todo = Tail(@)]
      /\ UNCHANGED <<raw, seen, snaps, official, ingest, pageNow, rounds, pageFaults, whole, boarded>>
  BY DEF Rows!WriteNext, Worked
<1>2. w \in Writes(n) /\ Tail(perf.todo) \in Seq(Writes(n))
  BY <1>0, <1>1, HeadTailProperties
<1>3. /\ w.page = "row" => w.key \in Rows!Keys
      /\ w.page # "row" => w.page \in PageNames
      /\ w.of \in SUBSET (1..n)
  BY <1>2 DEF Writes, PageNames
<1> HIDE DEF w
<1>4. /\ rows' \in [Rows!Keys -> Figures(n)] /\ pages' \in [PageNames -> SUBSET (1..n)]
      /\ \A q \in Rows!Keys : rows'[q].official = rows[q].official
  <2>1. CASE w.page = "row"
    BY <1>r, <1>1, <1>3, <2>1, WorkedRow
  <2>2. CASE w.page # "row"
    BY <1>r, <1>1, <1>3, <2>2
  <2> QED
    BY <2>1, <2>2
<1>5. Boards(rows', boarded)
  <2>1. \A p \in boarded : <<p, "OVERALL">> \in Rows!Keys
    BY DEF PageInv, PageTypes, Rows!Keys
  <2> QED
    BY <1>4, <2>1 DEF PageInv, Boards
<1>6. IF w.page = "row"
      THEN /\ pages' = pages /\ rows'[w.key].self = "worker" /\ rows'[w.key].of = w.of
           /\ \A k \in Rows!Keys : k # w.key => rows'[k] = rows[k]
      ELSE rows' = rows /\ pages'[w.page] = w.of /\ \A pg \in PageNames : pg # w.page => pages'[pg] = pages[pg]
  <2>1. CASE w.page = "row"
    BY <1>r, <1>1, <1>3, <2>1, WorkedRow
  <2>2. CASE w.page # "row"
    BY <1>r, <1>1, <1>3, <2>2
  <2> QED
    BY <2>1, <2>2
<1>7. ASSUME NEW pg \in PageNames \cup {"row"}, NEW key, pg = "row" => key \in Rows!Keys, pg # "row" => key = <<>>,
             NEW S, Comes(perf.todo, rows, pages, pg, key, S)
      PROVE  Comes(Tail(perf.todo), rows', pages', pg, key, S)
  BY <1>r, <1>0, <1>1, <1>6, <1>7, ComesOn DEF w
<1> DEFINE td == Tail(perf.todo)
<1>8. /\ perf'.todo = td /\ perf'.pc = perf.pc /\ perf'.of = perf.of /\ perf'.at = perf.at
      /\ perf'.mapped = perf.mapped /\ perf'.ok = perf.ok
      /\ PerfTypes(n, pageNow, perf')
  <2>1. td \in Seq(Writes(n))
    BY <1>2
  <2>2. perf' = [perf EXCEPT !.todo = td]
    BY <1>1
  <2> HIDE DEF td
  <2> QED
    BY <1>0, <2>1, <2>2 DEF PerfTypes
<1>9. perf.pc \in {"curve", "rows"} /\ ~whole.done
  BY <1>0, <1>1 DEF PageInv, PassOK, PerfTypes
<1>10. "curve" \in PageNames /\ "row" \notin PageNames
  BY DEF PageNames
<1>11. Comes(perf.todo, rows, pages, "curve", <<>>, perf.of) => Comes(td, rows', pages', "curve", <<>>, perf.of)
  BY <1>7, <1>10
<1>12. ASSUME AllCome(perf.todo, rows, pages, raw, perf.at, perf.of, perf.mapped)
       PROVE  AllCome(td, rows', pages', raw, perf.at, perf.of, perf.mapped)
  BY <1>7, <1>10, <1>12 DEF AllCome
<1> HIDE DEF td
<1>13. PassOK'
  <2>1. PassOK
    BY DEF PageInv
  <2> HIDE DEF PageInv
  <2> QED
    BY <1>0, <1>1, <1>8, <1>9, <1>11, <1>12, <2>1 DEF PassOK
<1>14. rounds' \in 0..MaxRounds /\ pageFaults' \in 0..PageFaults
  BY <1>1, PageTypesHere
<1> QED
  BY <1>1, <1>4, <1>5, <1>13, <1>14, PerfStep

\* A pass begins, reads its trades, fails or ends.
LEMMA PagePass ==
  ASSUME PageInv,
         \/ Rows!StartPerf \/ Rows!ReadTrades \/ Rows!WriteFails \/ Rows!EndPerf \/ Rows!Crash
         \/ \E b \in BOOLEAN : Rows!MapCategories(b)
  PROVE  PageInv'
<1>0. /\ Len(raw) \in Nat /\ raw \in Seq([day : Nat, cat : {"C", "other"}]) /\ seen \in {"absent", "visible"}
      /\ rows \in [Rows!Keys -> Figures(Len(raw))] /\ pages \in [PageNames -> SUBSET (1..Len(raw))]
      /\ snaps \subseteq 0..pageNow /\ pageNow \in Nat /\ rounds \in 0..MaxRounds /\ pageFaults \in 0..PageFaults
      /\ boarded \subseteq Rows!Periods /\ ingest \in Seq(IngestTasks)
      /\ official \in [todo : Seq(Tasks), at : 0..pageNow, hit : SUBSET boarded]
      /\ Boards(rows, boarded) /\ WorkerStays(rows, rows)
  BY PageTypesHere
<1>p. /\ PassOK /\ PerfTypes(Len(raw), pageNow, perf)
      /\ perf.todo \in Seq(Writes(Len(raw))) /\ perf.of \subseteq 1..Len(raw) /\ perf.mapped \in BOOLEAN
      /\ perf.pc \in {"idle", "read", "curve", "rows"}
  BY DEF PageInv, PassOK, PerfTypes
<1>e. <<>> \in Seq(Writes(Len(raw))) /\ {} \in SUBSET (1..Len(raw)) /\ 0 \in 0..pageNow /\ 0 \in Nat /\ pageNow \in 0..pageNow
  BY <1>0
<1>i. /\ Rows!Resting.pc = "idle" /\ Rows!Resting.todo = <<>> /\ PerfTypes(Len(raw), pageNow, Rows!Resting)
  BY <1>e DEF Rows!Resting, PerfTypes
<1>w. Rows!NoPass.done = FALSE /\ Rows!NoPass.of = {}
  BY DEF Rows!NoPass
<1>1. ASSUME Rows!StartPerf PROVE PageInv'
  <2> DEFINE r == [Rows!Resting EXCEPT !.pc = "read", !.at = pageNow]
  <2>1. /\ perf.pc = "idle" /\ perf' = r /\ Rows!Round
        /\ UNCHANGED <<raw, seen, rows, pages, snaps, official, ingest, pageNow, pageFaults, whole, boarded>>
    BY <1>1 DEF Rows!StartPerf
  <2>2. r.pc = "read" /\ r.todo = <<>> /\ PerfTypes(Len(raw), pageNow, r)
    BY <1>0, <1>e, <1>i DEF PerfTypes
  <2> HIDE DEF r
  <2>3. PassOK'
    BY <1>p, <2>1, <2>2 DEF PassOK
  <2>4. rounds' \in 0..MaxRounds
    BY <2>1, Spent
  <2> QED
    BY <1>0, <2>1, <2>3, <2>4, PerfStep
<1>2. ASSUME Rows!ReadTrades PROVE PageInv'
  <2> DEFINE S == 1..Len(raw)
             td == <<Rows!Page("curve", S)>>
             r == [perf EXCEPT !.pc = "curve", !.of = S, !.todo = td]
  <2>1. /\ perf.pc = "read" /\ whole' = Rows!NoPass
        /\ IF raw = <<>> THEN perf' = Rows!Resting ELSE perf' = r
        /\ UNCHANGED <<raw, seen, rows, pages, snaps, official, ingest, pageNow, rounds, pageFaults, boarded>>
    <3>1. DOMAIN raw = S
      BY <1>0
    <3> QED
      BY <1>2, <3>1 DEF Rows!ReadTrades
  <2>2. Rows!Page("curve", S) \in Writes(Len(raw)) /\ Rows!Page("curve", S).page = "curve"
        /\ Rows!Page("curve", S).key = <<>> /\ Rows!Page("curve", S).of = S
    BY DEF Rows!Page, Writes, PageNames
  <2>3. td \in Seq(Writes(Len(raw))) /\ DOMAIN td = {1} /\ td[1] = Rows!Page("curve", S)
    BY <2>2
  <2>4. WillBe(td, "curve", <<>>, S)
    <3> HIDE DEF td
    <3> QED
      BY <2>2, <2>3 DEF WillBe
  <2>5. Comes(td, rows, pages, "curve", <<>>, S)
    BY <2>4 DEF Comes
  <2> HIDE DEF td
  <2>6. r.pc = "curve" /\ r.of = S /\ r.todo = td /\ PerfTypes(Len(raw), pageNow, r)
    BY <1>p, <2>3 DEF PerfTypes
  <2>7. raw # <<>> => S # {}
    <3>1. raw # <<>> => Len(raw) \in Nat \ {0}
      BY <1>0, EmptySeq
    <3>2. raw # <<>> => 1 \in S
      BY <3>1
    <3> QED
      BY <3>2
  <2> HIDE DEF r, S
  <2>8. PassOK'
    <3>1. CASE raw = <<>>
      BY <1>i, <1>w, <2>1, <3>1 DEF PassOK
    <3>2. CASE raw # <<>>
      BY <1>w, <2>1, <2>5, <2>6, <2>7, <3>2 DEF PassOK
    <3> QED
      BY <3>1, <3>2
  <2> QED
    BY <1>0, <2>1, <2>8, PerfStep
<1>3. ASSUME Rows!WriteFails PROVE PageInv'
  <2> DEFINE td == Tail(perf.todo)
             r == [perf EXCEPT !.todo = td, !.ok = FALSE]
  <2>1. /\ perf.todo # <<>> /\ pageFaults > 0 /\ pageFaults' = pageFaults - 1 /\ perf' = r
        /\ UNCHANGED <<raw, seen, rows, pages, snaps, official, ingest, pageNow, rounds, whole, boarded>>
    BY <1>3 DEF Rows!WriteFails
  <2>2. td \in Seq(Writes(Len(raw)))
    BY <1>p, <2>1, HeadTailProperties
  <2> HIDE DEF td
  <2>3. r.pc = perf.pc /\ r.of = perf.of /\ r.ok = FALSE /\ PerfTypes(Len(raw), pageNow, r)
    BY <1>p, <2>2 DEF PerfTypes
  <2> HIDE DEF r
  <2>4. perf.pc \in {"curve", "rows"} /\ ~whole.done
    BY <1>p, <2>1 DEF PassOK
  <2>5. PassOK'
    BY <1>p, <2>1, <2>3, <2>4 DEF PassOK
  <2>6. pageFaults' \in 0..PageFaults
    BY <2>1, Spent
  <2> QED
    BY <1>0, <2>1, <2>5, <2>6, PerfStep
<1>4. ASSUME Rows!EndPerf PROVE PageInv'
  <2> DEFINE all == [done |-> TRUE, of |-> perf.of, at |-> perf.at, mapped |-> perf.mapped]
  <2>1. /\ perf.pc = "rows" /\ perf.todo = <<>> /\ perf' = Rows!Resting
        /\ whole' = IF perf.ok THEN all ELSE Rows!NoPass
        /\ UNCHANGED <<raw, seen, rows, pages, snaps, official, ingest, pageNow, rounds, pageFaults, boarded>>
    BY <1>4 DEF Rows!EndPerf
  <2>2. all.done = TRUE /\ all.of = perf.of /\ all.at = perf.at /\ all.mapped = perf.mapped
    OBVIOUS
  <2> HIDE DEF all
  <2>3. perf.ok => AllCome(<<>>, rows, pages, raw, perf.at, perf.of, perf.mapped)
    BY <1>p, <2>1 DEF PassOK
  <2>4. PassOK'
    <3>1. CASE perf.ok
      BY <1>i, <1>p, <2>1, <2>2, <2>3, <3>1 DEF PassOK
    <3>2. CASE ~perf.ok
      BY <1>i, <1>w, <2>1, <3>2 DEF PassOK
    <3> QED
      BY <3>1, <3>2
  <2> QED
    BY <1>0, <2>1, <2>4, PerfStep
<1>5. ASSUME Rows!Crash PROVE PageInv'
  <2>1. /\ pageFaults > 0 /\ pageFaults' = pageFaults - 1
        /\ perf' = Rows!Resting /\ official' = Rows!Off /\ ingest' = <<>>
        /\ UNCHANGED <<raw, seen, rows, pages, snaps, pageNow, rounds, whole, boarded>>
    BY <1>5 DEF Rows!Crash
  <2>2. official' \in [todo : Seq(Tasks), at : 0..pageNow, hit : SUBSET boarded]
    <3>1. <<>> \in Seq(Tasks) /\ 0 \in 0..pageNow /\ {} \in SUBSET boarded
      BY <1>0
    <3> QED
      BY <2>1, <3>1 DEF Rows!Off
  <2>3. ingest' \in Seq(IngestTasks) /\ pageFaults' \in 0..PageFaults
    BY <2>1, Spent
  <2>4. PageTypes'
    BY <1>0, <2>1, <2>2, <2>3 DEF PageTypes, Rows!Keys, Rows!Periods, PageNames, Figures
  <2>5. PassOK'
    BY <1>i, <1>p, <2>1 DEF PassOK
  <2> QED
    BY <1>0, <2>1, <2>4, <2>5 DEF PageInv, Boards
<1>6. ASSUME NEW mp \in BOOLEAN, Rows!MapCategories(mp) PROVE PageInv'
  <2> DEFINE td == Rows!Plan(perf.of, perf.at, mp)
             r == [perf EXCEPT !.pc = "rows", !.mapped = mp, !.todo = td]
  <2>1. /\ perf.pc = "curve" /\ perf.todo = <<>> /\ perf' = r
        /\ UNCHANGED <<raw, seen, rows, pages, snaps, official, ingest, pageNow, rounds, pageFaults, whole, boarded>>
    BY <1>6 DEF Rows!MapCategories
  <2>2. perf.ok => pages["curve"] = perf.of
    <3>1. ~WillBe(<<>>, "curve", <<>>, perf.of)
      BY DEF WillBe
    <3>2. perf.ok => Comes(<<>>, rows, pages, "curve", <<>>, perf.of)
      BY <1>p, <2>1 DEF PassOK
    <3> QED
      BY <3>1, <3>2 DEF Comes, StoredAs
  <2>3. perf.of \in SUBSET (1..Len(raw)) /\ perf.of # {} /\ ~whole.done
    BY <1>p, <2>1 DEF PassOK
  <2>4. td \in Seq(Writes(Len(raw)))
    <3> DEFINE ps == [pg \in {"curve"} |-> perf.of]
    <3>1. ps["curve"] = perf.of
      OBVIOUS
    <3> QED
      BY <1>0, <2>3, <3>1, PlanComes
  <2>5. perf.ok => AllCome(td, rows, pages, raw, perf.at, perf.of, mp)
    <3> SUFFICES ASSUME perf.ok PROVE AllCome(td, rows, pages, raw, perf.at, perf.of, mp)
      OBVIOUS
    <3> DEFINE n == Len(raw)
               S == perf.of
               at == perf.at
    <3>1. n \in Nat /\ S \in SUBSET (1..n) /\ S # {} /\ pages["curve"] = S
      BY <1>0, <2>2, <2>3
    <3> HIDE DEF n, S, at
    <3>2. AllCome(Rows!Plan(S, at, mp), rows, pages, raw, at, S, mp)
      BY <3>1, PlanComes
    <3> QED
      BY <3>2 DEF S, at
  <2> HIDE DEF td
  <2>6. /\ r.pc = "rows" /\ r.of = perf.of /\ r.at = perf.at /\ r.mapped = mp /\ r.ok = perf.ok /\ r.todo = td
        /\ PerfTypes(Len(raw), pageNow, r)
    BY <1>p, <2>4 DEF PerfTypes
  <2> HIDE DEF r
  <2>7. PassOK'
    BY <1>p, <2>1, <2>3, <2>5, <2>6 DEF PassOK
  <2> QED
    BY <1>0, <2>1, <2>7, PerfStep
<1> QED
  BY <1>1, <1>2, <1>3, <1>4, <1>5, <1>6

\* Every step keeps what a pass owes.
LEMMA PageSteps == PageInv /\ (Rows!Next \/ UNCHANGED pageVars) => PageInv'
<1> SUFFICES ASSUME PageInv, Rows!Next \/ UNCHANGED pageVars PROVE PageInv'
  OBVIOUS
<1>1. ASSUME UNCHANGED pageVars PROVE PageInv'
  <2>1. UNCHANGED <<raw, seen, rows, pages, snaps, perf, official, ingest, pageNow, rounds, pageFaults, whole, boarded>>
    BY <1>1 DEF pageVars
  <2> QED
    BY <2>1, PageTypesHere, RowsBeside
<1>2. ASSUME Rows!Next PROVE PageInv'
  BY <1>2, PageOutside, PageBoards, PageWrites, PagePass DEF Rows!Next
<1> QED
  BY <1>1, <1>2

\* What has been stored is what shows.
LEMMA PageHolds == PageInv => Rows!TypeOK /\ Rows!RowsAreTrue
<1> SUFFICES ASSUME PageInv PROVE Rows!TypeOK /\ Rows!RowsAreTrue
  OBVIOUS
<1>0. /\ Len(raw) \in Nat /\ DOMAIN raw = 1..Len(raw)
      /\ rows \in [Rows!Keys -> Figures(Len(raw))] /\ pages \in [PageNames -> SUBSET (1..Len(raw))]
      /\ snaps \subseteq 0..pageNow /\ rounds \in 0..MaxRounds /\ pageFaults \in 0..PageFaults
      /\ official.hit \in SUBSET boarded
  BY DEF PageInv, PageTypes
<1>1. Rows!TypeOK
  <2>1. \A k \in Rows!Keys : /\ rows[k].self \in {"none", "empty", "seed", "worker"}
                             /\ rows[k].of \subseteq DOMAIN raw
                             /\ rows[k].official \in {"none", "board", "delta"}
    BY <1>0 DEF Figures
  <2>2. perf.pc \in {"idle", "read", "curve", "rows"}
    BY DEF PageInv, PassOK, PerfTypes
  <2>3. \A p \in DOMAIN pages : pages[p] \subseteq DOMAIN raw
    BY <1>0
  <2> QED
    BY <1>0, <2>1, <2>2, <2>3 DEF Rows!TypeOK
<1>2. ASSUME whole.done
      PROVE  /\ \A p \in DOMAIN pages : pages[p] = whole.of
             /\ \A p \in Rows!Periods :
                  LET S == Rows!Window(p, whole.at, whole.of) IN
                  /\ S # {} => Rows!Displayed(p, "OVERALL") = [self |-> "worker", of |-> S]
                  /\ whole.mapped /\ Rows!InC(S) # {} => Rows!Displayed(p, "C") = [self |-> "worker", of |-> Rows!InC(S)]
  <2>1. AllCome(<<>>, rows, pages, raw, whole.at, whole.of, whole.mapped)
    BY <1>2 DEF PageInv, PassOK
  <2>2. ASSUME NEW pg, NEW key, NEW S, Comes(<<>>, rows, pages, pg, key, S) PROVE StoredAs(rows, pages, pg, key, S)
    <3>1. ~WillBe(<<>>, pg, key, S)
      BY DEF WillBe
    <3> QED
      BY <2>2, <3>1 DEF Comes
  <2>3. \A p \in DOMAIN pages : pages[p] = whole.of
    BY <1>0, <2>1, <2>2 DEF AllCome, StoredAs, PageNames
  <2>4. ASSUME NEW key \in Rows!Keys, NEW S, Owed(raw, whole.at, whole.of, whole.mapped, key, S)
        PROVE  rows[key].self = "worker" /\ rows[key].of = S
    <3>1. S \in SUBSET whole.of
      BY <2>4 DEF Owed, Win, CIn
    <3>2. Comes(<<>>, rows, pages, "row", key, S)
      BY <2>1, <2>4, <3>1 DEF AllCome
    <3> QED
      BY <2>2, <3>2 DEF StoredAs
  <2>5. ASSUME NEW p \in Rows!Periods, NEW c \in {"OVERALL", "C"}, NEW S,
               Owed(raw, whole.at, whole.of, whole.mapped, <<p, c>>, S)
        PROVE  Rows!Displayed(p, c) = [self |-> "worker", of |-> S]
    <3>1. <<p, c>> \in Rows!Keys
      BY DEF Rows!Keys
    <3>2. rows[<<p, c>>].self = "worker" /\ rows[<<p, c>>].of = S
      BY <2>4, <2>5, <3>1
    <3>3. rows[<<p, c>>] # Rows!NoRow
      BY <3>2, BlankFigures
    <3> QED
      BY <3>2, <3>3 DEF Rows!Displayed
  <2>6. ASSUME NEW p \in Rows!Periods
        PROVE  LET S == Rows!Window(p, whole.at, whole.of) IN
               /\ S # {} => Rows!Displayed(p, "OVERALL") = [self |-> "worker", of |-> S]
               /\ whole.mapped /\ Rows!InC(S) # {} => Rows!Displayed(p, "C") = [self |-> "worker", of |-> Rows!InC(S)]
    <3> DEFINE S == Rows!Window(p, whole.at, whole.of)
    <3>1. S = Win(raw, p, whole.at, whole.of) /\ Rows!InC(S) = CIn(raw, S)
      BY DEF Rows!Window, Rows!InC, Win, CIn
    <3> HIDE DEF S
    <3>2. S # {} => Owed(raw, whole.at, whole.of, whole.mapped, <<p, "OVERALL">>, S)
      BY <3>1 DEF Owed
    <3>3. CIn(raw, S) # {} => S # {}
      BY DEF CIn
    <3>4. whole.mapped /\ CIn(raw, S) # {} => Owed(raw, whole.at, whole.of, whole.mapped, <<p, "C">>, CIn(raw, S))
      BY <3>1, <3>3 DEF Owed
    <3> QED
      BY <2>5, <3>1, <3>2, <3>4 DEF S
  <2> QED
    BY <2>3, <2>6
<1>3. Rows!BoardsStay
  BY DEF PageInv, Boards, Rows!BoardsStay
<1> QED
  BY <1>1, <1>2, <1>3 DEF Rows!RowsAreTrue, Rows!FiguresAreWhole

----------------------------------------------------------------------------
(* OrderPricing: the price that was kept came from a book that was shown. *)

\* OrderPricing: what the worker knows of the order it claimed.
Gated == ask.price > 0 /\ ask.size > 1
PricedBy(a, b, p) ==
  LET best == Pri!Best(b) IN
  /\ b.bids # <<>> /\ b.asks # <<>> /\ best[1] > 0 /\ best[2] > 0 /\ ~Pri!OffMid(p, best[1], best[2])
  /\ p = IF a.cross THEN Pri!Limit(a.side, a.price, best[1], best[2]) ELSE 100 * a.price
Priced(a, sh, p) == \E b \in sh : PricedBy(a, b, p)
Claimed == {"dispatched", "submitted", "failed"}
KeptOrder(a, k, ng) ==
  [cents |-> Pri!Cents(a.side, k.price, k.size), lots |-> Pri!Lots(k.size), stamp |-> k.stamp, negRisk |-> ng]

PriTypes ==
  /\ ask \in [side : {"buy", "sell"}, price : Nat, size : Nat, cross : BOOLEAN]
  /\ ask.price < 2 * MinNotional
  /\ row \in [status : {"pending", "dispatched", "submitted", "skipped", "failed"},
              kept : [price : Nat, size : Nat, stamp : 0..1]]
  /\ pc \in {"take", "gates", "book", "claim", "post", "answer", "end"}
  /\ read \in [min : {0} \cup Minimums, book : {Pri!Blank} \cup Books, price : Nat]
  /\ market \in [book : Books, min : Minimums, open : BOOLEAN, negRisk : BOOLEAN]
  /\ moves \in 0..MaxMoves /\ fails \in 0..MaxFails /\ clock \in 0..1
  /\ shown \subseteq Books
  /\ Len(posted) \in Nat /\ DOMAIN posted = 1..Len(posted)
PriClaims ==
  /\ pc \in {"take", "gates", "book", "claim"} <=> row.status = "pending"
  /\ pc \in {"post", "answer"} <=> row.status = "dispatched"
  /\ pc = "gates" => ask.price > 0
  /\ pc \in {"book", "claim"} => Gated
  /\ pc = "claim" => Priced(ask, shown, read.price)
  /\ row.status \in Claimed => Gated /\ Priced(ask, shown, row.kept.price) /\ row.kept.size = ask.size
  /\ row.status \notin Claimed => posted = <<>>
PriPosts ==
  /\ \A i \in DOMAIN posted : \E ng \in BOOLEAN : posted[i].order = KeptOrder(ask, row.kept, ng)
  /\ \A i \in DOMAIN posted : posted[i].taken => posted[i].order = KeptOrder(ask, row.kept, market.negRisk)
  /\ \A i, j \in DOMAIN posted : posted[i].taken /\ posted[j].taken => i = j
PriInv == PriTypes /\ market.book \in shown /\ PriClaims /\ PriPosts

\* The greatest and the least of a set.
LEMMA MaxOf ==
  ASSUME NEW S \in SUBSET Int, NEW m \in S, \A x \in S : x <= m
  PROVE  Pri!Max(S) = m
<1>1. \A y \in S : m >= y
  OBVIOUS
<1>2. \A x \in S : (\A y \in S : x >= y) => x = m
  OBVIOUS
<1> QED
  BY <1>1, <1>2 DEF Pri!Max

\* The least.
LEMMA MinOf ==
  ASSUME NEW S \in SUBSET Int, NEW m \in S, \A x \in S : m <= x
  PROVE  Pri!Min(S) = m
<1>1. \A y \in S : m <= y
  OBVIOUS
<1>2. \A x \in S : (\A y \in S : x <= y) => x = m
  OBVIOUS
<1> QED
  BY <1>1, <1>2 DEF Pri!Min

\* The best prices of a book are its last.
LEMMA BestIsLast ==
  ASSUME NEW b \in Books, b.bids # <<>>, b.asks # <<>>
  PROVE  /\ Pri!Best(b)[1] = b.bids[Len(b.bids)] /\ Pri!Best(b)[2] = b.asks[Len(b.asks)]
         /\ Pri!Best(b)[1] \in Nat /\ Pri!Best(b)[2] \in Nat
<1>1. b.bids \in Seq(Nat) /\ b.asks \in Seq(Nat)
  BY PricingAssumption
<1>2. /\ Len(b.bids) \in Nat \ {0} /\ DOMAIN b.bids = 1..Len(b.bids)
      /\ Len(b.asks) \in Nat \ {0} /\ DOMAIN b.asks = 1..Len(b.asks)
  BY <1>1, EmptySeq, LenProperties
<1>3. /\ \A i \in DOMAIN b.bids : b.bids[i] <= b.bids[Len(b.bids)] /\ b.bids[i] \in Nat
      /\ \A i \in DOMAIN b.asks : b.asks[i] >= b.asks[Len(b.asks)] /\ b.asks[i] \in Nat
  BY <1>1, <1>2, PricingAssumption, ElementOfSeq
<1>4. Pri!Max({b.bids[i] : i \in DOMAIN b.bids}) = b.bids[Len(b.bids)]
  <2> DEFINE S == {b.bids[i] : i \in DOMAIN b.bids}
             m == b.bids[Len(b.bids)]
  <2>1. S \in SUBSET Int /\ m \in S /\ \A x \in S : x <= m
    BY <1>2, <1>3
  <2> HIDE DEF S, m
  <2>2. Pri!Max(S) = m
    BY <2>1, MaxOf
  <2> QED
    BY <2>2 DEF S, m
<1>5. Pri!Min({b.asks[i] : i \in DOMAIN b.asks}) = b.asks[Len(b.asks)]
  <2> DEFINE S == {b.asks[i] : i \in DOMAIN b.asks}
             m == b.asks[Len(b.asks)]
  <2>1. S \in SUBSET Int /\ m \in S /\ \A x \in S : m <= x
    BY <1>2, <1>3
  <2> HIDE DEF S, m
  <2>2. Pri!Min(S) = m
    BY <2>1, MinOf
  <2> QED
    BY <2>2 DEF S, m
<1>6. Pri!Best(b) = <<b.bids[Len(b.bids)], b.asks[Len(b.asks)]>>
  BY <1>4, <1>5 DEF Pri!Best
<1> QED
  BY <1>2, <1>3, <1>6

\* The signal's price and the slippage.
Up(price)   == price * (100 + Slip)
Down(price) == price * (100 - Slip)

\* The price of an order that crosses is the best of the other side, or as far as the signal lets it.
LEMMA LimitIs ==
  ASSUME NEW price \in Nat, NEW bid \in Nat, NEW offer \in Nat, price > 0, bid > 0, offer > 0,
         NEW p, NEW side \in {"buy", "sell"}, p = Pri!Limit(side, price, bid, offer)
  PROVE  /\ side = "buy" => /\ p \in Nat /\ p > 0 /\ p <= Up(price)
                            /\ p = Up(price) \/ p = 100 * offer
         /\ side = "sell" => /\ p \in Nat /\ p >= 100 /\ p >= Down(price)
                             /\ p = Down(price) \/ p = 100 * bid
<1> DEFINE up == price * (100 + Slip)
           down == price * (100 - Slip)
<1>1. up \in Int /\ down \in Int /\ up > 0
  <2>1. Slip \in Nat
    BY PricingAssumption
  <2>2. 100 + Slip \in Nat /\ 100 + Slip > 0
    BY <2>1
  <2> QED
    BY <2>1, <2>2
<1> HIDE DEF up, down
<1>2. Pri!Limit("buy", price, bid, offer) = IF 100 * offer <= up THEN 100 * offer ELSE up
  <2>1. CASE 100 * offer <= up
    <3>1. Pri!Min({100 * offer, up}) = 100 * offer
      BY <1>1, <2>1, MinOf
    <3> QED
      BY <2>1, <3>1 DEF Pri!Limit, up
  <2>2. CASE ~(100 * offer <= up)
    <3>1. Pri!Min({100 * offer, up}) = up
      BY <1>1, <2>2, MinOf
    <3> QED
      BY <2>2, <3>1 DEF Pri!Limit, up
  <2> QED
    BY <2>1, <2>2
<1>3. Pri!Limit("sell", price, bid, offer) = IF 100 * bid >= down THEN 100 * bid ELSE down
  <2>1. CASE 100 * bid >= down
    <3>1. Pri!Max({100 * bid, down}) = 100 * bid
      BY <1>1, <2>1, MaxOf
    <3> QED
      BY <2>1, <3>1 DEF Pri!Limit, down
  <2>2. CASE ~(100 * bid >= down)
    <3>1. Pri!Max({100 * bid, down}) = down
      BY <1>1, <2>2, MaxOf
    <3> QED
      BY <2>2, <3>1 DEF Pri!Limit, down
  <2> QED
    BY <2>1, <2>2
<1> QED
  BY <1>1, <1>2, <1>3 DEF up, down, Up, Down

\* Whole cents beside the exact amount.
LEMMA CentsAre ==
  ASSUME NEW p \in Nat, NEW size \in Nat, NEW L \in Nat, L = Pri!Lots(size), NEW x \in Nat, x = p * L
  PROVE  /\ LET c == Pri!Cents("buy", p, size) IN c \in Int /\ x <= 100 * c /\ 100 * c < x + 100
         /\ LET c == Pri!Cents("sell", p, size) IN c \in Int /\ 100 * c <= x /\ x < 100 * c + 100
<1>1. Pri!Cents("buy", p, size) = -((-x) \div 100) /\ Pri!Cents("sell", p, size) = x \div 100
  BY DEF Pri!Cents, Pri!Ceil
<1>2. \A n \in Int : n \div 100 \in Int /\ 100 * (n \div 100) <= n /\ n < 100 * (n \div 100) + 100
  OBVIOUS
<1>3. -x \in Int /\ x \in Int
  OBVIOUS
<1> QED
  BY <1>1, <1>2, <1>3

\* Products with a number of lots.
LEMMA TimesMono ==
  ASSUME NEW a \in Int, NEW b \in Int, NEW L \in Nat, a <= b
  PROVE  a * L <= b * L
OBVIOUS

\* They are positive where both factors are.
LEMMA TimesPositive ==
  ASSUME NEW a \in Nat, NEW L \in Nat, a > 0, L > 0
  PROVE  a * L > 0
OBVIOUS

\* More than one contract makes a lot.
LEMMA LotsAre ==
  ASSUME NEW size \in Nat, size > 1
  PROVE  Pri!Lots(size) \in Nat /\ Pri!Lots(size) > 0
BY DEF Pri!Lots

\* Whoever passes the gates can pay for a whole lot.
LEMMA GatesPass ==
  ASSUME NEW price \in Nat, NEW size \in Nat, price > 0, price < 2 * MinNotional, price * size >= 2 * MinNotional
  PROVE  size > 1
<1>1. MinNotional \in Nat
  BY PricingAssumption
<1>2. CASE size = 0
  BY <1>1, <1>2
<1>3. CASE size = 1
  BY <1>1, <1>3
<1> QED
  BY <1>2, <1>3

\* A price from a book is near that book, and within the signal's.
LEMMA PriceIs ==
  ASSUME NEW a \in [side : {"buy", "sell"}, price : Nat, size : Nat, cross : BOOLEAN], a.price > 0,
         NEW b \in Books, NEW p, PricedBy(a, b, p)
  PROVE  /\ p \in Nat /\ b.bids # <<>> /\ b.asks # <<>>
         /\ ~Pri!OffMid(p, b.bids[Len(b.bids)], b.asks[Len(b.asks)])
         /\ b.bids[Len(b.bids)] \in Nat /\ b.asks[Len(b.asks)] \in Nat
         /\ a.side = "buy" => /\ p > 0 /\ p <= Up(a.price)
                              /\ a.cross => p = Up(a.price) \/ p = 100 * b.asks[Len(b.asks)]
         /\ a.side = "sell" => /\ p >= 100 /\ p >= Down(a.price)
                               /\ a.cross => p = Down(a.price) \/ p = 100 * b.bids[Len(b.bids)]
<1> DEFINE bid == b.bids[Len(b.bids)]
           offer == b.asks[Len(b.asks)]
<1>1. /\ b.bids # <<>> /\ b.asks # <<>> /\ bid \in Nat /\ offer \in Nat
      /\ Pri!Best(b)[1] = bid /\ Pri!Best(b)[2] = offer
  BY BestIsLast DEF PricedBy
<1>2. /\ bid > 0 /\ offer > 0 /\ ~Pri!OffMid(p, bid, offer)
      /\ p = IF a.cross THEN Pri!Limit(a.side, a.price, bid, offer) ELSE 100 * a.price
  BY <1>1 DEF PricedBy
<1> HIDE DEF bid, offer
<1>3. CASE a.cross /\ a.side = "buy"
  <2> DEFINE price == a.price
  <2>1. price \in Nat /\ price > 0 /\ bid \in Nat /\ offer \in Nat /\ bid > 0 /\ offer > 0
    BY <1>1, <1>2
  <2>2. p = Pri!Limit("buy", price, bid, offer)
    BY <1>2, <1>3
  <2> HIDE DEF price
  <2>3. p \in Nat /\ p > 0 /\ p <= Up(price)
    BY <2>1, <2>2, LimitIs
  <2>4. p = Up(price) \/ p = 100 * offer
    BY <2>1, <2>2, LimitIs
  <2> QED
    BY <1>1, <1>2, <1>3, <2>3, <2>4 DEF bid, offer, price
<1>4. CASE a.cross /\ a.side = "sell"
  <2> DEFINE price == a.price
  <2>1. price \in Nat /\ price > 0 /\ bid \in Nat /\ offer \in Nat /\ bid > 0 /\ offer > 0
    BY <1>1, <1>2
  <2>2. p = Pri!Limit("sell", price, bid, offer)
    BY <1>2, <1>4
  <2> HIDE DEF price
  <2>3. p \in Nat /\ p >= 100 /\ p >= Down(price)
    BY <2>1, <2>2, LimitIs
  <2>4. p = Down(price) \/ p = 100 * bid
    BY <2>1, <2>2, LimitIs
  <2> QED
    BY <1>1, <1>2, <1>4, <2>3, <2>4 DEF bid, offer, price
<1>5. CASE ~a.cross
  <2>1. a.price \in Nat /\ p = 100 * a.price /\ p \in Nat /\ p >= 100
    BY <1>2, <1>5
  <2>2. Slip \in Nat
    BY PricingAssumption
  <2>3. a.price * 100 <= Up(a.price) /\ a.price * 100 >= Down(a.price)
    <3>1. 100 <= 100 + Slip /\ 100 >= 100 - Slip /\ 100 + Slip \in Int /\ 100 - Slip \in Int
      BY <2>2
    <3> DEFINE hi == 100 + Slip
               lo == 100 - Slip
    <3> HIDE DEF hi, lo
    <3>2. 100 * a.price <= hi * a.price /\ lo * a.price <= 100 * a.price
      BY <2>1, <3>1, TimesMono DEF hi, lo
    <3>3. hi \in Int /\ lo \in Int
      BY <3>1 DEF hi, lo
    <3>4. 100 * a.price = a.price * 100 /\ hi * a.price = a.price * hi /\ lo * a.price = a.price * lo
      BY <2>1, <3>3
    <3>5. a.price * 100 <= a.price * hi /\ a.price * lo <= a.price * 100
      BY <3>2, <3>4
    <3>6. a.price * 100 \in Int /\ a.price * lo \in Int
      BY <2>1, <3>3
    <3>7. a.price * 100 >= a.price * lo
      BY <3>5, <3>6
    <3> QED
      BY <3>5, <3>7 DEF hi, lo, Up, Down
  <2>4. p = a.price * 100 /\ p > 0
    BY <2>1
  <2>5. p <= Up(a.price) /\ p >= Down(a.price)
    BY <2>3, <2>4
  <2> QED
    BY <1>1, <1>2, <1>5, <2>1, <2>4, <2>5 DEF bid, offer
<1> QED
  BY <1>3, <1>4, <1>5

\* What an order of the kept price and size costs.
LEMMA SentIs ==
  ASSUME PriInv, Gated, Priced(ask, shown, row.kept.price), row.kept.size = ask.size,
         NEW o, NEW ng, o = KeptOrder(ask, row.kept, ng)
  PROVE  Pri!WithinSignal(o) /\ Pri!Crosses(o) /\ Pri!NearSomeBook /\ o.cents > 0 /\ o.lots > 0
<1>1. PICK b \in shown : PricedBy(ask, b, row.kept.price)
  BY DEF Priced
<1>2. b \in Books /\ ask \in [side : {"buy", "sell"}, price : Nat, size : Nat, cross : BOOLEAN] /\ ask.price > 0
  BY DEF PriInv, PriTypes, Gated
<1> DEFINE p == row.kept.price
           bid == b.bids[Len(b.bids)]
           offer == b.asks[Len(b.asks)]
           up == Up(ask.price)
           down == Down(ask.price)
           L == o.lots
           c == o.cents
<1>3. /\ p \in Nat /\ b.bids # <<>> /\ b.asks # <<>> /\ ~Pri!OffMid(p, bid, offer) /\ bid \in Nat /\ offer \in Nat
      /\ ask.side = "buy" => p > 0 /\ p <= up /\ (ask.cross => p = up \/ p = 100 * offer)
      /\ ask.side = "sell" => p >= 100 /\ p >= down /\ (ask.cross => p = down \/ p = 100 * bid)
  BY <1>1, <1>2, PriceIs
<1>4. Pri!NearSomeBook
  BY <1>3 DEF Pri!NearSomeBook
<1>5. /\ L = Pri!Lots(ask.size) /\ c = Pri!Cents(ask.side, p, ask.size)
  BY DEF KeptOrder
<1>6. L \in Nat /\ L > 0
  BY <1>2, <1>5, LotsAre DEF Gated
<1>7. up \in Int /\ down \in Int
  <2>1. Slip \in Nat /\ ask.price \in Nat
    BY <1>2, PricingAssumption
  <2>2. 100 + Slip \in Int /\ 100 - Slip \in Int
    BY <2>1
  <2> QED
    BY <2>1, <2>2 DEF Up, Down
<1> HIDE DEF p, bid, offer, up, down, L, c
<1> DEFINE x == p * L
<1>8. x \in Nat
  BY <1>3, <1>6
<1>9. CASE ask.side = "buy"
  <2>1. c \in Int /\ x <= 100 * c /\ 100 * c < x + 100
    BY ZenonT(60), <1>2, <1>3, <1>5, <1>6, <1>8, <1>9, CentsAre
  <2>2. x <= up * L /\ up * L \in Int /\ x > 0
    <3>1. p * L <= up * L
      BY <1>3, <1>6, <1>7, <1>9, TimesMono
    <3>2. up * L \in Int
      BY <1>6, <1>7
    <3>4. x > 0
      BY <1>3, <1>6, <1>9, TimesPositive
    <3> QED
      BY <3>1, <3>2, <3>4
  <2>3. c > 0 /\ 100 * c < up * L + 100
    BY <1>8, <2>1, <2>2
  <2>4. ASSUME ask.cross PROVE 100 * c >= up * L \/ c >= offer * L
    <3>1. CASE p = up
      BY <2>1, <3>1
    <3>2. CASE p = 100 * offer
      <4>1. x = 100 * (offer * L) /\ offer * L \in Nat
        BY <1>3, <1>6, <3>2
      <4> DEFINE y == offer * L
      <4>2. x = 100 * y /\ y \in Nat
        BY <4>1
      <4> HIDE DEF x, y
      <4>3. c >= y
        BY <2>1, <4>2
      <4> QED
        BY <4>3 DEF y
    <3> QED
      BY <1>3, <1>9, <2>4, <3>1, <3>2
  <2> HIDE DEF x
  <2>5. Pri!WithinSignal(o)
    BY <1>9, <2>3 DEF Pri!WithinSignal, up, Up, L, c
  <2>6. Pri!Crosses(o)
    BY <1>1, <1>3, <1>9, <2>4 DEF Pri!Crosses, up, Up, L, c, offer
  <2> QED
    BY <1>4, <1>6, <2>3, <2>5, <2>6 DEF L, c
<1>10. CASE ask.side = "sell"
  <2>1. c \in Int /\ 100 * c <= x /\ x < 100 * c + 100
    BY <1>2, <1>3, <1>5, <1>6, <1>8, <1>10, CentsAre
  <2>2. down * L <= x /\ down * L \in Int
    BY <1>3, <1>6, <1>7, <1>10, TimesMono
  <2>3. x >= 100
    <3>1. 100 * L <= x
      BY <1>3, <1>6, <1>10, TimesMono
    <3> QED
      BY <1>6, <1>8, <3>1
  <2>4. c > 0 /\ 100 * c > down * L - 100
    BY <1>8, <2>1, <2>2, <2>3
  <2>5. ASSUME ask.cross PROVE 100 * c <= down * L \/ c <= bid * L
    <3>1. CASE p = down
      BY <2>1, <3>1
    <3>2. CASE p = 100 * bid
      <4>1. x = 100 * (bid * L) /\ bid * L \in Nat
        BY <1>3, <1>6, <3>2
      <4> DEFINE y == bid * L
      <4>2. x = 100 * y /\ y \in Nat
        BY <4>1
      <4> HIDE DEF x, y
      <4>3. c <= y
        BY <2>1, <4>2
      <4> QED
        BY <4>3 DEF y
    <3> QED
      BY <1>3, <1>10, <2>5, <3>1, <3>2
  <2> HIDE DEF x
  <2>6. Pri!WithinSignal(o)
    BY <1>10, <2>4 DEF Pri!WithinSignal, down, Down, L, c
  <2>7. Pri!Crosses(o)
    BY <1>1, <1>3, <1>10, <2>5 DEF Pri!Crosses, down, Down, L, c, bid
  <2> QED
    BY <1>4, <1>6, <2>4, <2>6, <2>7 DEF L, c
<1> QED
  BY <1>2, <1>9, <1>10

\* What was sent is within the signal's price, near a book that was shown, and taken once.
LEMMA PriHolds == PriInv => Pri!TypeOK /\ Pri!SentIsSafe
<1> SUFFICES ASSUME PriInv PROVE Pri!TypeOK /\ Pri!SentIsSafe
  OBVIOUS
<1>1. Pri!TypeOK
  BY DEF PriInv, PriTypes, Pri!TypeOK
<1>2. ASSUME NEW i \in DOMAIN posted
      PROVE  LET o == posted[i].order IN
             Pri!WithinSignal(o) /\ Pri!Crosses(o) /\ Pri!NearSomeBook /\ o.cents > 0 /\ o.lots > 0
  <2>1. posted # <<>>
    OBVIOUS
  <2>2. Gated /\ Priced(ask, shown, row.kept.price) /\ row.kept.size = ask.size
    BY <2>1 DEF PriInv, PriClaims
  <2>3. PICK ng \in BOOLEAN : posted[i].order = KeptOrder(ask, row.kept, ng)
    BY DEF PriInv, PriPosts
  <2> QED
    BY <2>2, <2>3, SentIs
<1>3. \A i, j \in DOMAIN posted : posted[i].taken /\ posted[j].taken => i = j
  BY DEF PriInv, PriPosts
<1> QED
  BY <1>1, <1>2, <1>3 DEF Pri!SentIsSafe

\* A pending order has sent nothing.
LEMMA PriStarts == Pri!Init => PriInv
<1> SUFFICES ASSUME Pri!Init PROVE PriInv
  OBVIOUS
<1>1. PICK a \in Asks, cross \in BOOLEAN : ask = [side |-> a.side, price |-> a.price, size |-> a.size, cross |-> cross]
  BY DEF Pri!Init
<1>2. PICK b \in Books, min \in Minimums, negRisk \in BOOLEAN :
        market = [book |-> b, min |-> min, open |-> TRUE, negRisk |-> negRisk]
  BY DEF Pri!Init
<1>3. /\ row = [status |-> "pending", kept |-> Pri!NoKept] /\ pc = "take" /\ read = Pri!NoRead
      /\ moves = MaxMoves /\ fails = MaxFails /\ clock = 0 /\ posted = <<>> /\ shown = {market.book}
  BY DEF Pri!Init
<1>4. /\ ask \in [side : {"buy", "sell"}, price : Nat, size : Nat, cross : BOOLEAN]
      /\ ask.price < 2 * MinNotional
  BY <1>1, PricingAssumption
<1>5. row.status = "pending" /\ row \in [status : {"pending", "dispatched", "submitted", "skipped", "failed"},
                                        kept : [price : Nat, size : Nat, stamp : 0..1]]
  BY <1>3 DEF Pri!NoKept
<1>6. read \in [min : {0} \cup Minimums, book : {Pri!Blank} \cup Books, price : Nat]
  BY <1>3 DEF Pri!NoRead
<1>7. market \in [book : Books, min : Minimums, open : BOOLEAN, negRisk : BOOLEAN] /\ market.book = b
  BY <1>2
<1>8. moves \in 0..MaxMoves /\ fails \in 0..MaxFails /\ clock \in 0..1
  BY <1>3, PricingAssumption
<1>9. Len(posted) = 0 /\ DOMAIN posted = {}
  BY <1>3
<1>10. PriTypes
  BY <1>3, <1>4, <1>5, <1>6, <1>7, <1>8, <1>9 DEF PriTypes
<1> QED
  BY <1>3, <1>5, <1>9, <1>10 DEF PriInv, PriClaims, PriPosts, Claimed

PriRows == [status : {"pending", "dispatched", "submitted", "skipped", "failed"},
            kept : [price : Nat, size : Nat, stamp : 0..1]]
PriReads == [min : {0} \cup Minimums, book : {Pri!Blank} \cup Books, price : Nat]
PriMarkets == [book : Books, min : Minimums, open : BOOLEAN, negRisk : BOOLEAN]

\* Books that were shown stay shown, so a price that came from one stays a price; the claims and
\* the posts of an order that is claimed stay as they are.
LEMMA PriQuiet ==
  ASSUME PriInv, UNCHANGED <<ask, posted>>, row' \in PriRows, row'.kept = row.kept,
         pc' \in {"take", "gates", "book", "claim", "post", "answer", "end"}, read' \in PriReads,
         market' \in PriMarkets, market'.negRisk = market.negRisk, market'.book \in shown',
         shown' \subseteq Books, shown \subseteq shown',
         moves' \in 0..MaxMoves, fails' \in 0..MaxFails, clock' \in 0..1,
         row'.status \in Claimed <=> row.status \in Claimed,
         pc' \in {"take", "gates", "book", "claim"} <=> row'.status = "pending",
         pc' \in {"post", "answer"} <=> row'.status = "dispatched",
         pc' = "gates" => ask.price > 0, pc' \in {"book", "claim"} => Gated,
         pc' = "claim" => Priced(ask, shown', read'.price)
  PROVE  PriInv'
<1>1. PriTypes'
  BY DEF PriInv, PriTypes, PriRows, PriReads, PriMarkets
<1>2. Gated' <=> Gated
  BY DEF Gated
<1>3. row.status \in Claimed => Gated /\ Priced(ask, shown, row.kept.price) /\ row.kept.size = ask.size
  BY DEF PriInv, PriClaims
<1>4. Priced(ask, shown, row.kept.price) => Priced(ask', shown', row'.kept.price)
  BY DEF Priced
<1>5. PriClaims'
  <2>1. row'.status \in Claimed => Gated' /\ Priced(ask', shown', row'.kept.price) /\ row'.kept.size = ask'.size
    BY <1>2, <1>3, <1>4
  <2>2. row'.status \notin Claimed => posted' = <<>>
    BY DEF PriInv, PriClaims
  <2> QED
    BY <1>2, <2>1, <2>2 DEF PriClaims
<1>6. PriPosts'
  BY DEF PriInv, PriPosts
<1> QED
  BY <1>1, <1>5, <1>6 DEF PriInv

\* What the steps use of the invariant.
LEMMA PriHere ==
  PriInv =>
    /\ ask \in [side : {"buy", "sell"}, price : Nat, size : Nat, cross : BOOLEAN] /\ ask.price < 2 * MinNotional
    /\ row \in PriRows /\ pc \in {"take", "gates", "book", "claim", "post", "answer", "end"}
    /\ read \in PriReads /\ market \in PriMarkets /\ market.book \in shown /\ shown \subseteq Books
    /\ moves \in 0..MaxMoves /\ fails \in 0..MaxFails /\ clock \in 0..1
    /\ pc \in {"take", "gates", "book", "claim"} <=> row.status = "pending"
    /\ pc \in {"post", "answer"} <=> row.status = "dispatched"
    /\ pc = "gates" => ask.price > 0
    /\ pc \in {"book", "claim"} => Gated
    /\ pc = "claim" => Priced(ask, shown, read.price)
BY DEF PriInv, PriTypes, PriClaims, PriRows, PriReads, PriMarkets

\* The market, time, and what ends an order or takes it back.
LEMMA PriMarketSteps ==
  ASSUME PriInv, (\E b \in Books : Pri!Moves(b)) \/ Pri!Closes \/ Pri!Passes \/ Pri!Skip \/ Pri!Crash
                 \/ \E lost \in BOOLEAN : Pri!Answer(lost)
  PROVE  PriInv'
<1>0. /\ ask \in [side : {"buy", "sell"}, price : Nat, size : Nat, cross : BOOLEAN]
      /\ row \in PriRows /\ pc \in {"take", "gates", "book", "claim", "post", "answer", "end"}
      /\ read \in PriReads /\ market \in PriMarkets /\ market.book \in shown /\ shown \subseteq Books
      /\ moves \in 0..MaxMoves /\ fails \in 0..MaxFails /\ clock \in 0..1
      /\ pc \in {"take", "gates", "book", "claim"} <=> row.status = "pending"
      /\ pc \in {"post", "answer"} <=> row.status = "dispatched"
      /\ pc = "gates" => ask.price > 0
      /\ pc \in {"book", "claim"} => Gated
      /\ pc = "claim" => Priced(ask, shown, read.price)
  BY PriHere
<1>f. /\ moves > 0 /\ moves' = moves - 1 => moves' \in 0..MaxMoves
      /\ Pri!Fail => fails' \in 0..MaxFails
  BY <1>0, PricingAssumption DEF Pri!Fail
<1>1. ASSUME NEW b \in Books, Pri!Moves(b) PROVE PriInv'
  <2>1. /\ moves > 0 /\ moves' = moves - 1 /\ market' = [market EXCEPT !.book = b] /\ shown' = shown \cup {b}
        /\ UNCHANGED <<ask, row, pc, read, fails, clock, posted>>
    BY <1>1 DEF Pri!Moves
  <2>2. market' \in PriMarkets /\ market'.negRisk = market.negRisk /\ market'.book \in shown'
    BY <1>0, <2>1 DEF PriMarkets
  <2>3. shown \subseteq shown' /\ shown' \subseteq Books /\ moves' \in 0..MaxMoves
    BY <1>0, <1>f, <2>1
  <2>4. Priced(ask, shown, read.price) => Priced(ask, shown', read'.price)
    BY <2>1 DEF Priced
  <2> QED
    BY <1>0, <2>1, <2>2, <2>3, <2>4, PriQuiet
<1>2. ASSUME Pri!Closes PROVE PriInv'
  <2>1. /\ moves > 0 /\ moves' = moves - 1 /\ market' = [market EXCEPT !.open = FALSE]
        /\ UNCHANGED <<ask, row, pc, read, fails, clock, posted, shown>>
    BY <1>2 DEF Pri!Closes
  <2>2. market' \in PriMarkets /\ market'.negRisk = market.negRisk /\ market'.book \in shown'
    BY <1>0, <2>1 DEF PriMarkets
  <2> QED
    BY <1>0, <1>f, <2>1, <2>2, PriQuiet
<1>3. ASSUME Pri!Passes PROVE PriInv'
  <2>1. clock' = 1 /\ UNCHANGED <<ask, row, pc, read, market, moves, fails, posted, shown>>
    BY <1>3 DEF Pri!Passes
  <2>2. clock' \in 0..1
    BY <2>1
  <2> QED
    BY <1>0, <2>1, <2>2, PriQuiet
<1>4. ASSUME NEW s \in {"skipped", "submitted", "failed"}, row' = [row EXCEPT !.status = s]
      PROVE  row' \in PriRows /\ row'.kept = row.kept /\ row'.status = s
  BY <1>0, <1>4 DEF PriRows
<1>5. ASSUME Pri!Skip PROVE PriInv'
  <2>1. /\ pc \in {"take", "gates", "book", "claim"} /\ row' = [row EXCEPT !.status = "skipped"] /\ pc' = "end"
        /\ UNCHANGED <<ask, read, market, moves, fails, clock, posted, shown>>
    BY <1>5 DEF Pri!Skip, Pri!End
  <2>2. row' \in PriRows /\ row'.kept = row.kept /\ row'.status = "skipped"
    BY <1>4, <2>1
  <2>3. row.status \notin Claimed /\ row'.status \notin Claimed
    BY <1>0, <2>1, <2>2 DEF Claimed
  <2> QED
    BY <1>0, <2>1, <2>2, <2>3, PriQuiet
<1>6. ASSUME NEW lost \in BOOLEAN, Pri!Answer(lost) PROVE PriInv'
  <2>1. PICK s \in {"submitted", "failed"} : row' = [row EXCEPT !.status = s]
    BY <1>6 DEF Pri!Answer, Pri!End, Pri!Answered
  <2>2. /\ pc = "answer" /\ pc' = "end" /\ (Pri!Fail \/ UNCHANGED fails)
        /\ UNCHANGED <<ask, read, market, moves, clock, posted, shown>>
    BY <1>6 DEF Pri!Answer, Pri!End
  <2>3. row' \in PriRows /\ row'.kept = row.kept /\ row'.status = s
    BY <1>4, <2>1
  <2>4. row.status \in Claimed /\ row'.status \in Claimed /\ row'.status \notin {"pending", "dispatched"}
    BY <1>0, <2>2, <2>3 DEF Claimed
  <2>5. fails' \in 0..MaxFails
    BY <1>0, <1>f, <2>2
  <2> QED
    BY <1>0, <2>2, <2>3, <2>4, <2>5, PriQuiet
<1>7. ASSUME Pri!Crash PROVE PriInv'
  <2>1. /\ pc # "end" /\ Pri!Fail /\ pc' = (IF row.status = "pending" THEN "take" ELSE "post")
        /\ read' = Pri!NoRead
        /\ UNCHANGED <<ask, row, market, moves, clock, posted, shown>>
    BY <1>7 DEF Pri!Crash
  <2>2. read' \in PriReads
    BY <2>1 DEF Pri!NoRead, PriReads
  <2>3. row.status \in {"pending", "dispatched"}
    BY <1>0, <2>1
  <2>4. fails' \in 0..MaxFails
    BY <1>f, <2>1
  <2>5. pc' \in {"take", "post"} /\ (pc' = "take" <=> row'.status = "pending") /\ (pc' = "post" <=> row'.status = "dispatched")
    BY <2>1, <2>3
  <2> QED
    BY <1>0, <2>1, <2>2, <2>4, <2>5, PriQuiet
<1> QED
  BY <1>1, <1>2, <1>3, <1>5, <1>6, <1>7

\* The worker, up to the price.
LEMMA PriGateSteps ==
  ASSUME PriInv, (\E f, g \in BOOLEAN : Pri!Take(f, g)) \/ Pri!Gates \/ Pri!Price
  PROVE  PriInv'
<1>0. /\ ask \in [side : {"buy", "sell"}, price : Nat, size : Nat, cross : BOOLEAN] /\ ask.price < 2 * MinNotional
      /\ row \in PriRows /\ pc \in {"take", "gates", "book", "claim", "post", "answer", "end"}
      /\ read \in PriReads /\ market \in PriMarkets /\ market.book \in shown /\ shown \subseteq Books
      /\ moves \in 0..MaxMoves /\ fails \in 0..MaxFails /\ clock \in 0..1
      /\ pc \in {"take", "gates", "book", "claim"} <=> row.status = "pending"
      /\ pc \in {"post", "answer"} <=> row.status = "dispatched"
      /\ pc = "gates" => ask.price > 0
      /\ pc \in {"book", "claim"} => Gated
  BY PriHere
<1>1. ASSUME NEW f \in BOOLEAN, NEW g \in BOOLEAN, Pri!Take(f, g) PROVE PriInv'
  <2> DEFINE T == {x \in {"min", "state"} : IF x = "min" THEN f ELSE g}
             gone == Pri!Cardinality(T)
  <2>1. /\ pc = "take" /\ ask.price > 0 /\ gone <= fails /\ fails' = fails - gone
        /\ read' = [read EXCEPT !.min = Pri!Minimum(f)] /\ pc' = "gates"
        /\ UNCHANGED <<ask, row, market, moves, clock, posted, shown>>
    BY <1>1 DEF Pri!Take, Pri!Parses, Pri!Goes
  <2>2. gone \in Nat
    <3>1. IsFiniteSet({"min", "state"})
      <4>1. IsFiniteSet({"min"})
        BY FS_Singleton
      <4>2. IsFiniteSet({"min"} \cup {"state"})
        BY <4>1, FS_AddElement
      <4>3. {"min"} \cup {"state"} = {"min", "state"}
        OBVIOUS
      <4> QED
        BY <4>2, <4>3
    <3>2. IsFiniteSet(T)
      BY <3>1, FS_Subset
    <3> HIDE DEF T
    <3>3. Cardinality(T) \in Nat
      BY <3>2, FS_CardinalityType
    <3> QED
      BY <3>3 DEF Pri!Cardinality, Cardinality
  <2> HIDE DEF gone
  <2>3. fails' \in 0..MaxFails
    BY <1>0, <2>1, <2>2, PricingAssumption
  <2>4. Pri!Minimum(f) \in {0} \cup Minimums
    BY <1>0 DEF Pri!Minimum, PriMarkets
  <2>5. read' \in PriReads
    BY <1>0, <2>1, <2>4 DEF PriReads
  <2> QED
    BY <1>0, <2>1, <2>3, <2>5, PriQuiet
<1>2. ASSUME Pri!Gates PROVE PriInv'
  <2>1. /\ pc = "gates" /\ ask.price * ask.size >= 2 * MinNotional /\ pc' = "book"
        /\ UNCHANGED <<ask, row, read, market, moves, fails, clock, posted, shown>>
    BY <1>2 DEF Pri!Gates, Pri!Goes
  <2> DEFINE price == ask.price
             size == ask.size
  <2>2. price \in Nat /\ size \in Nat /\ price > 0 /\ price < 2 * MinNotional /\ price * size >= 2 * MinNotional
    BY <1>0, <2>1
  <2> HIDE DEF price, size
  <2>3. size > 1
    BY <2>2, GatesPass
  <2>4. Gated
    BY <2>2, <2>3 DEF Gated, price, size
  <2> QED
    BY <1>0, <2>1, <2>4, PriQuiet
<1>3. ASSUME Pri!Price PROVE PriInv'
  <2> DEFINE b == market.book
             best == Pri!Best(b)
             p == IF ask.cross THEN Pri!Limit(ask.side, ask.price, best[1], best[2]) ELSE 100 * ask.price
  <2>1. /\ pc = "book" /\ best[1] > 0 /\ best[2] > 0 /\ ~Pri!OffMid(p, best[1], best[2])
        /\ read' = [read EXCEPT !.book = b, !.price = p] /\ pc' = "claim"
        /\ UNCHANGED <<ask, row, market, moves, fails, clock, posted, shown>>
    BY <1>3 DEF Pri!Price, Pri!Goes
  <2>2. b \in Books /\ b \in shown /\ Gated
    BY <1>0, <2>1 DEF PriMarkets
  <2>3. b.bids # <<>> /\ b.asks # <<>>
    <3> SUFFICES ASSUME b.bids = <<>> \/ b.asks = <<>> PROVE FALSE
      OBVIOUS
    <3>1. best = <<0, 0>>
      BY DEF Pri!Best
    <3> QED
      BY <2>1, <3>1
  <2> HIDE DEF b
  <2>4. PricedBy(ask, b, p)
    BY <2>1, <2>3 DEF PricedBy
  <2> HIDE DEF best, p
  <2>5. p \in Nat
    BY <1>0, <2>2, <2>4, PriceIs DEF Gated
  <2>6. read' \in PriReads /\ read'.price = p
    BY <1>0, <2>1, <2>2, <2>5 DEF PriReads
  <2>7. Priced(ask, shown', read'.price)
    BY <2>1, <2>2, <2>4, <2>6 DEF Priced
  <2> QED
    BY <1>0, <2>1, <2>2, <2>6, <2>7, PriQuiet
<1> QED
  BY <1>1, <1>2, <1>3

\* The claim keeps price and size; every order that is sent is of those.
LEMMA PriSendSteps ==
  ASSUME PriInv, Pri!Claim \/ \E looked \in BOOLEAN : Pri!Post(looked)
  PROVE  PriInv'
<1>0. /\ ask \in [side : {"buy", "sell"}, price : Nat, size : Nat, cross : BOOLEAN] /\ ask.price < 2 * MinNotional
      /\ row \in PriRows /\ pc \in {"take", "gates", "book", "claim", "post", "answer", "end"}
      /\ read \in PriReads /\ market \in PriMarkets /\ market.book \in shown /\ shown \subseteq Books
      /\ moves \in 0..MaxMoves /\ fails \in 0..MaxFails /\ clock \in 0..1
      /\ pc \in {"take", "gates", "book", "claim"} <=> row.status = "pending"
      /\ pc \in {"post", "answer"} <=> row.status = "dispatched"
      /\ pc \in {"book", "claim"} => Gated
      /\ pc = "claim" => Priced(ask, shown, read.price)
  BY PriHere
<1>1. ASSUME Pri!Claim PROVE PriInv'
  <2> DEFINE k == [price |-> read.price, size |-> ask.size, stamp |-> clock]
  <2>1. /\ pc = "claim" /\ row' = [status |-> "dispatched", kept |-> k] /\ pc' = "post"
        /\ UNCHANGED <<ask, read, market, moves, fails, clock, posted, shown>>
    BY <1>1 DEF Pri!Claim, Pri!Goes
  <2>2. k \in [price : Nat, size : Nat, stamp : 0..1] /\ k.price = read.price /\ k.size = ask.size
    BY <1>0 DEF PriReads
  <2> HIDE DEF k
  <2>3. row' \in PriRows /\ row'.status = "dispatched" /\ row'.kept = k
    BY <2>1, <2>2 DEF PriRows
  <2>4. posted = <<>>
    BY <1>0, <2>1 DEF PriInv, PriClaims, Claimed
  <2>5. PriTypes'
    BY <2>1, <2>3 DEF PriInv, PriTypes, PriRows
  <2>6. PriClaims'
    <3>1. pc' = "post" /\ row'.status = "dispatched" /\ row'.status \in Claimed /\ row'.kept.size = ask'.size
      BY <2>1, <2>2, <2>3 DEF Claimed
    <3>2. Gated'
      BY <1>0, <2>1 DEF Gated
    <3>3. Priced(ask, shown, read.price) /\ row'.kept.price = read.price
      BY <1>0, <2>1, <2>2, <2>3
    <3>4. Priced(ask', shown', row'.kept.price)
      BY <2>1, <3>3
    <3> QED
      BY <3>1, <3>2, <3>4 DEF PriClaims
  <2>7. PriPosts'
    BY <2>1, <2>4 DEF PriPosts
  <2> QED
    BY <2>1, <2>5, <2>6, <2>7 DEF PriInv
<1>2. ASSUME NEW looked \in BOOLEAN, Pri!Post(looked) PROVE PriInv'
  <2> DEFINE ng == looked /\ market.negRisk
             o == KeptOrder(ask, row.kept, ng)
             e == [order |-> o, taken |-> Pri!Takes(o)]
             n == Len(posted)
  <2>1. Pri!SignedOrder(looked) = o
    BY DEF Pri!SignedOrder, Pri!Contract, KeptOrder
  <2>2. /\ pc = "post" /\ (Pri!Fail \/ UNCHANGED fails) /\ posted' = Append(posted, e) /\ pc' = "answer"
        /\ UNCHANGED <<ask, row, read, market, moves, clock, shown>>
    BY <1>2, <2>1 DEF Pri!Post, Pri!Goes
  <2>3. n \in Nat /\ DOMAIN posted = 1..n
    BY DEF PriInv, PriTypes
  <2>4. ng \in BOOLEAN /\ o.negRisk = ng
    BY <1>0 DEF KeptOrder, PriMarkets
  <2>5. e.order = o /\ (e.taken <=> Pri!Takes(o))
    OBVIOUS
  <2>6. Pri!Takes(o) => ng = market.negRisk /\ \A i \in DOMAIN posted : posted[i].order = o => ~posted[i].taken
    BY <2>4 DEF Pri!Takes
  <2> HIDE DEF ng, e
  <2>7. Len(posted') = n + 1 /\ DOMAIN posted' = 1..(n + 1) /\ posted'[n + 1] = e /\ \A i \in 1..n : posted'[i] = posted[i]
    BY <2>2, <2>3
  <2> HIDE DEF n
  <2>8. \A i \in 1..(n + 1) : i \in 1..n \/ i = n + 1
    BY <2>3
  <2>9. fails' \in 0..MaxFails
    BY <1>0, <2>2, PricingAssumption DEF Pri!Fail
  <2>10. PriTypes'
    <3>1. Len(posted') \in Nat /\ DOMAIN posted' = 1..Len(posted')
      BY <2>3, <2>7
    <3> QED
      BY <2>2, <2>9, <3>1 DEF PriInv, PriTypes
  <2>11. PriClaims'
    BY <1>0, <2>2 DEF PriInv, PriClaims, Gated, Claimed
  <2>12. PriPosts'
    <3>1. PriPosts
      BY DEF PriInv
    <3>2. ASSUME NEW i \in DOMAIN posted'
          PROVE  /\ \E x \in BOOLEAN : posted'[i].order = KeptOrder(ask, row.kept, x)
                 /\ posted'[i].taken => posted'[i].order = KeptOrder(ask, row.kept, market.negRisk)
      <4>1. CASE i \in 1..n
        BY <2>3, <2>7, <3>1, <4>1 DEF PriPosts
      <4>2. CASE i = n + 1
        BY <2>4, <2>5, <2>6, <2>7, <4>2
      <4> QED
        BY <2>7, <2>8, <4>1, <4>2
    <3>3. \A i \in 1..n : ~(posted[i].taken /\ Pri!Takes(o))
      BY <2>3, <2>6, <3>1 DEF PriPosts
    <3>4. ASSUME NEW i \in DOMAIN posted', NEW j \in DOMAIN posted', posted'[i].taken, posted'[j].taken PROVE i = j
      <4>1. CASE i \in 1..n /\ j \in 1..n
        BY <2>3, <2>7, <3>1, <3>4, <4>1 DEF PriPosts
      <4>2. CASE i \in 1..n /\ j = n + 1
        BY <2>5, <2>7, <3>3, <3>4, <4>2
      <4>3. CASE i = n + 1 /\ j \in 1..n
        BY <2>5, <2>7, <3>3, <3>4, <4>3
      <4> QED
        BY <2>7, <2>8, <4>1, <4>2, <4>3
    <3> QED
      BY <2>2, <3>2, <3>4 DEF PriPosts
  <2> QED
    BY <1>0, <2>2, <2>10, <2>11, <2>12 DEF PriInv
<1> QED
  BY <1>1, <1>2

\* Every step keeps what the worker knows of its order.
LEMMA PriSteps == PriInv /\ (Pri!Next \/ UNCHANGED pricingVars) => PriInv'
<1> SUFFICES ASSUME PriInv, Pri!Next \/ UNCHANGED pricingVars PROVE PriInv'
  OBVIOUS
<1>1. ASSUME UNCHANGED pricingVars PROVE PriInv'
  <2>1. UNCHANGED <<ask, row, pc, read, market, moves, fails, clock, posted, shown>>
    BY <1>1 DEF pricingVars
  <2> QED
    BY <2>1 DEF PriInv, PriTypes, PriClaims, PriPosts, Gated
<1>2. ASSUME Pri!Next PROVE PriInv'
  BY <1>2, PriMarketSteps, PriGateSteps, PriSendSteps DEF Pri!Next
<1> QED
  BY <1>1, <1>2

----------------------------------------------------------------------------
(* PositionLedger: what a position holds, what it cost, and when. *)

\* PositionLedger: what one position and its bookkeeper know after the trades so far.
Positions ==
  [opened : Int, closed : Int, segment : Int, held : Seq(Int), isClosed : BOOLEAN,
   bought : Nat, sold : Nat, avg : Nat, realized : Int, running : Nat]
Accounts ==
  [held : Nat, cash : Int, paid : Int, rounded : Int, last : Nat, since : Int, sales : Nat, resumed : BOOLEAN]
LedTrades == [side : {"BUY", "SELL"}, size : Nat \ {0}, price : Nat, ts : Nat]

\* What is held, what was paid for it and earned with it, and when.
HeldAs(p, n) ==
  /\ p.running = n.held /\ p.bought - p.sold = p.running
  /\ p.isClosed => p.running = 0
  /\ n.since # -1 => (p.isClosed <=> p.running = 0)
PaidAs(p, n) ==
  /\ p.realized - p.running * p.avg = n.cash + n.rounded
  /\ ~n.resumed => p.bought * p.avg + n.rounded = n.paid
  /\ n.sales = 0 => p.sold = 0 /\ p.realized = 0 /\ p.closed = -1
TimedAs(p, n, at) ==
  /\ p.opened \in -1..at /\ p.closed \in -1..at /\ p.segment \in -1..at /\ n.since \in -1..at
  /\ p.isClosed => p.closed # -1
  /\ p.running > 0 => p.opened # -1
  /\ p.segment # -1 => n.since # -1 /\ n.since <= p.segment /\ p.closed <= p.segment
  /\ p.closed # -1 => n.since # -1 /\ n.since <= p.closed
  /\ p.closed = -1 => p.held = <<>>
  /\ p.held # <<>> => SumFunction(p.held) <= p.closed - n.since
Agrees(p, n, at) == HeldAs(p, n) /\ PaidAs(p, n) /\ TimedAs(p, n, at)
LedInv ==
  /\ ledgerNow \in 0..LedgerNow /\ first \in -1..ledgerNow /\ left \in 0..LedgerTrades
  /\ book \in [Tokens -> Positions] /\ notes \in [Tokens -> Accounts]
  /\ \A k \in Tokens : Agrees(book[k], notes[k], ledgerNow) /\ (first = -1 => notes[k].since = -1)

\* The least of two numbers.
LEMMA LedMin ==
  ASSUME NEW a \in Nat, NEW b \in Nat
  PROVE  Led!Min({a, b}) = IF a <= b THEN a ELSE b
<1>1. CASE a <= b
  BY <1>1 DEF Led!Min
<1>2. CASE ~(a <= b)
  BY <1>2 DEF Led!Min
<1> QED
  BY <1>1, <1>2

\* The greatest.
LEMMA LedMax ==
  ASSUME NEW a \in Int
  PROVE  Led!Max({0, a}) = IF a <= 0 THEN 0 ELSE a
<1>1. CASE a <= 0
  BY <1>1 DEF Led!Max
<1>2. CASE ~(a <= 0)
  BY <1>2 DEF Led!Max
<1> QED
  BY <1>1, <1>2

\* A quotient and the remainder.
LEMMA Division ==
  ASSUME NEW a \in Int, NEW b \in Nat \ {0}
  PROVE  /\ a \div b \in Int /\ a % b \in 0..(b - 1) /\ a = b * (a \div b) + (a % b)
         /\ a \in Nat => a \div b \in Nat
OBVIOUS

\* A sum of numbers is longer by the one that comes last.
LEMMA SumAppend ==
  ASSUME NEW s \in Seq(Int), NEW x \in Int
  PROVE  SumFunction(Append(s, x)) = SumFunction(s) + x /\ SumFunction(s) \in Int
<1> DEFINE n == Len(s)
           u == Append(s, x)
           S == 1..n
<1>1. n \in Nat /\ DOMAIN s = S /\ \A i \in S : s[i] \in Int
  BY LenProperties
<1>2. u \in Seq(Int) /\ Len(u) = n + 1 /\ (\A i \in S : u[i] = s[i]) /\ u[n + 1] = x
  BY AppendProperties
<1>3. DOMAIN u = 1..(n + 1)
  BY <1>2, LenProperties
<1>4. 1..(n + 1) = S \cup {n + 1} /\ n + 1 \notin S /\ IsFiniteSet(S)
  <2> HIDE DEF n
  <2>1. 1..(n + 1) = S \cup {n + 1} /\ n + 1 \notin S
    BY <1>1
  <2>2. IsFiniteSet(1..n)
    BY <1>1, FS_Interval
  <2> QED
    BY <2>1, <2>2
<1> HIDE DEF n, u, S
<1>5. \A y \in S \cup {n + 1} : u[y] \in Int
  BY <1>1, <1>2
<1>6. SumFunctionOnSet(u, S \cup {n + 1}) = SumFunctionOnSet(u, S) + x
  BY <1>2, <1>4, <1>5, SumAdd
<1>7. SumFunctionOnSet(u, S) = SumFunctionOnSet(s, S)
  BY <1>1, <1>2, <1>4, SumSame
<1>8. SumFunctionOnSet(s, S) \in Int
  BY <1>1, <1>4, SumType
<1>9. SumFunction(u) = SumFunctionOnSet(u, S \cup {n + 1}) /\ SumFunction(s) = SumFunctionOnSet(s, S)
  BY <1>1, <1>3, <1>4 DEF SumFunction
<1> QED
  BY <1>6, <1>7, <1>8, <1>9 DEF u

\* A position that is opened again is worth as much as before, and opened at the latest now.
LEMMA ReopenIs ==
  ASSUME NEW p \in Positions, NEW t \in LedTrades, p.isClosed => p.running = 0, NEW q, q = Led!Reopen(p, t)
  PROVE  /\ q \in Positions /\ ~q.isClosed /\ q.running = p.running /\ q.bought = p.bought /\ q.sold = p.sold
         /\ q.closed = p.closed /\ q.held = p.held /\ q.realized = p.realized
         /\ q.avg = p.avg \/ (p.isClosed /\ q.avg = 0)
         /\ q.opened = t.ts \/ (q.opened = p.opened /\ (t.side = "BUY" => p.opened # -1))
         /\ q.segment = t.ts \/ (q.segment = p.segment /\ (t.side = "BUY" => p.segment # -1))
<1>1. CASE p.isClosed
  <2> DEFINE ts == t.ts
             no == FALSE
             zero == 0
  <2>1. ts \in Int /\ no \in BOOLEAN /\ zero \in Nat /\ ts = t.ts /\ ~no /\ zero = 0
    BY DEF LedTrades
  <2>2. q = [p EXCEPT !.isClosed = no, !.opened = ts, !.segment = ts, !.running = zero, !.avg = zero]
    BY <1>1 DEF Led!Reopen
  <2> HIDE DEF ts, no, zero
  <2>3. q \in Positions
    BY <2>1, <2>2 DEF Positions
  <2>4. /\ q.isClosed = no /\ q.running = zero /\ q.bought = p.bought /\ q.sold = p.sold /\ q.closed = p.closed
        /\ q.held = p.held /\ q.realized = p.realized /\ q.avg = zero /\ q.opened = ts /\ q.segment = ts
    BY <2>1, <2>2 DEF Positions
  <2> QED
    BY <1>1, <2>1, <2>3, <2>4
<1>2. CASE ~p.isClosed /\ t.side = "BUY"
  <2> DEFINE o == IF p.opened = -1 THEN t.ts ELSE p.opened
             s == IF p.segment = -1 THEN t.ts ELSE p.segment
  <2>1. q = [p EXCEPT !.opened = o, !.segment = s]
    BY <1>2 DEF Led!Reopen, Led!Never
  <2>2. o \in Int /\ s \in Int
    BY DEF Positions, LedTrades
  <2>3. (o = t.ts \/ (o = p.opened /\ p.opened # -1)) /\ (s = t.ts \/ (s = p.segment /\ p.segment # -1))
    OBVIOUS
  <2> HIDE DEF o, s
  <2>4. q \in Positions
    BY <2>1, <2>2 DEF Positions
  <2>5. /\ q.isClosed = p.isClosed /\ q.running = p.running /\ q.bought = p.bought /\ q.sold = p.sold
        /\ q.closed = p.closed /\ q.held = p.held /\ q.realized = p.realized /\ q.avg = p.avg
        /\ q.opened = o /\ q.segment = s
    BY <2>1, <2>2 DEF Positions
  <2> QED
    BY <1>2, <2>3, <2>4, <2>5
<1>3. CASE ~p.isClosed /\ t.side # "BUY"
  <2>1. q = p
    BY <1>3 DEF Led!Reopen
  <2> QED
    BY <1>3, <2>1
<1> QED
  BY <1>1, <1>2, <1>3

\* A purchase adds its size and what it cost; the average loses the remainder.
LEMMA BuyIs ==
  ASSUME NEW p \in Positions, NEW t \in LedTrades, t.side = "BUY", NEW r, r = Led!Buy(p, t)
  PROVE  /\ r \in Positions /\ r.isClosed = p.isClosed
         /\ r.running = p.running + t.size /\ r.bought = p.bought + t.size
         /\ r.sold = p.sold /\ r.closed = p.closed /\ r.realized = p.realized
         /\ r.held = p.held /\ r.opened = p.opened /\ r.segment = p.segment
         /\ Led!Rounded(p, t) \in Nat
         /\ r.running * r.avg + Led!Rounded(p, t) = p.avg * p.running + t.price * t.size
<1> DEFINE size == p.running + t.size
           cost == p.avg * p.running + t.price * t.size
           bought == p.bought + t.size
           a == cost \div size
<1>1. r = [p EXCEPT !.running = size, !.bought = bought, !.avg = a]
  BY DEF Led!Buy
<1>2. size \in Nat \ {0} /\ bought \in Nat
  BY SMTT(40) DEF Positions, LedTrades
<1>3. cost \in Nat
  <2>1. p.avg \in Nat /\ p.running \in Nat /\ t.price \in Nat /\ t.size \in Nat
    BY DEF Positions, LedTrades
  <2> QED
    BY <2>1
<1>4. Led!Rounded(p, t) = cost % size
  BY DEF Led!Rounded
<1>5. a \in Nat /\ cost % size \in Nat /\ cost = size * a + (cost % size)
  <2> HIDE DEF size, cost
  <2>1. cost \in Int /\ size \in Nat \ {0}
    BY <1>2, <1>3
  <2>2. /\ cost % size \in 0..(size - 1) /\ cost = size * (cost \div size) + (cost % size)
        /\ cost \in Nat => cost \div size \in Nat
    BY <2>1, Division, Zenon
  <2> QED
    BY <1>2, <1>3, <2>2
<1> HIDE DEF size, bought, a
<1>6. r \in Positions
  BY <1>1, <1>2, <1>5 DEF Positions
<1>7. /\ r.isClosed = p.isClosed /\ r.running = size /\ r.bought = bought /\ r.sold = p.sold /\ r.closed = p.closed
      /\ r.realized = p.realized /\ r.held = p.held /\ r.opened = p.opened /\ r.segment = p.segment /\ r.avg = a
  BY <1>1 DEF Positions
<1> QED
  BY <1>4, <1>5, <1>6, <1>7 DEF size, bought

\* The segments held after a closing.
Longer(p, at) == IF p.segment # -1 /\ at > p.segment THEN Append(p.held, at - p.segment) ELSE p.held

\* A closing notes the segment and changes no size.
LEMMA CloseIs ==
  ASSUME NEW p \in Positions, NEW at \in Nat, NEW r, r = Led!CloseSegment(p, at)
  PROVE  /\ r \in Positions /\ r.isClosed /\ r.running = p.running /\ r.bought = p.bought /\ r.sold = p.sold
         /\ r.closed = at /\ r.held = Longer(p, at) /\ r.segment = -1 /\ r.opened = p.opened
         /\ r.realized = p.realized /\ r.avg = p.avg
<1> DEFINE h == Longer(p, at)
           never == -1
           H == Seq(Int)
           yes == TRUE
<1>1. r = [p EXCEPT !.held = h, !.segment = never, !.isClosed = yes, !.closed = at]
  BY DEF Led!CloseSegment, Led!Never, Longer
<1>2. h \in H
  <2>1. p.held \in Seq(Int) /\ p.segment \in Int
    BY DEF Positions
  <2>2. at - p.segment \in Int
    BY <2>1
  <2> QED
    BY <2>1, <2>2, AppendProperties DEF Longer
<1>3. never \in Int /\ yes \in BOOLEAN /\ at \in Int /\ yes = TRUE /\ never = -1
  OBVIOUS
<1>4. Positions = [opened : Int, closed : Int, segment : Int, held : H, isClosed : BOOLEAN,
                   bought : Nat, sold : Nat, avg : Nat, realized : Int, running : Nat]
  BY DEF Positions
<1> HIDE DEF h, never, H, yes
<1>5. r \in Positions
  BY <1>1, <1>2, <1>3, <1>4
<1>6. /\ r.isClosed = yes /\ r.running = p.running /\ r.bought = p.bought /\ r.sold = p.sold /\ r.closed = at
      /\ r.held = h /\ r.segment = never /\ r.opened = p.opened /\ r.realized = p.realized /\ r.avg = p.avg
  BY <1>1, <1>4
<1> QED
  BY <1>3, <1>5, <1>6 DEF h

\* A sale takes what is held at most, and closes the position when nothing is left.
LEMMA SellIs ==
  ASSUME NEW p \in Positions, NEW t \in LedTrades, ~p.isClosed,
         NEW s, s = (IF t.size <= p.running THEN t.size ELSE p.running), NEW r, r = Led!Sell(p, t)
  PROVE  /\ r \in Positions /\ (r.isClosed <=> r.running = 0)
         /\ r.running = p.running - s /\ r.bought = p.bought /\ r.sold = p.sold + s
         /\ r.realized = p.realized + (t.price - p.avg) * s /\ r.avg = p.avg /\ r.opened = p.opened
         /\ r.running = 0 => r.closed = t.ts /\ r.segment = -1 /\ r.held = Longer(p, t.ts)
         /\ r.running # 0 => r.closed = p.closed /\ r.segment = p.segment /\ r.held = p.held
<1> DEFINE won == p.realized + (t.price - p.avg) * s
           rest == p.running - s
           gone == p.sold + s
           less == [p EXCEPT !.realized = won, !.running = rest, !.sold = gone]
<1>1. t.size \in Nat /\ p.running \in Nat /\ t.ts \in Nat /\ s \in Nat /\ s <= p.running
  BY DEF Positions, LedTrades
<1>2. Led!Min({t.size, p.running}) = s
  BY <1>1, LedMin
<1>3. r = IF less.running = 0 THEN Led!CloseSegment(less, t.ts) ELSE less
  BY <1>2 DEF Led!Sell
<1>4. won \in Int /\ rest \in Nat /\ gone \in Nat
  <2>1. t.price \in Nat /\ p.avg \in Nat /\ p.realized \in Int /\ p.sold \in Nat
    BY DEF Positions, LedTrades
  <2>2. t.price - p.avg \in Int
    BY <2>1
  <2> QED
    BY <1>1, <2>1, <2>2
<1> HIDE DEF won, rest, gone
<1>5. less \in Positions
  BY <1>4 DEF Positions
<1>6. /\ less.isClosed = p.isClosed /\ less.running = rest /\ less.bought = p.bought
      /\ less.sold = gone /\ less.closed = p.closed /\ less.realized = won /\ less.avg = p.avg /\ less.opened = p.opened
      /\ less.segment = p.segment /\ less.held = p.held
  BY <1>4 DEF Positions
<1> HIDE DEF less
<1>7. Longer(less, t.ts) = Longer(p, t.ts)
  BY <1>6 DEF Longer
<1>8. CASE less.running = 0
  <2> DEFINE ts == t.ts
  <2>1. r = Led!CloseSegment(less, ts) /\ ts \in Nat
    BY <1>1, <1>3, <1>8
  <2>2. Longer(less, ts) = Longer(p, ts) /\ ts = t.ts
    BY <1>7
  <2> HIDE DEF ts
  <2>3. /\ r \in Positions /\ r.isClosed /\ r.running = less.running /\ r.bought = less.bought /\ r.sold = less.sold
        /\ r.closed = ts /\ r.held = Longer(less, ts) /\ r.segment = -1 /\ r.opened = less.opened
        /\ r.realized = less.realized /\ r.avg = less.avg
    BY <1>5, <2>1, CloseIs
  <2> QED
    BY <1>6, <1>8, <2>2, <2>3 DEF rest, gone, won
<1>9. CASE less.running # 0
  <2>1. r = less
    BY <1>3, <1>9
  <2> QED
    BY <1>5, <1>6, <1>9, <2>1 DEF rest, gone, won
<1> QED
  BY <1>8, <1>9

\* What is noted of a trade.
LEMMA NoteIs ==
  ASSUME NEW n \in Accounts, NEW t \in LedTrades, NEW loss \in Nat, NEW m, m = Led!Note(n, t, loss),
         NEW s, s = (IF t.size <= n.held THEN t.size ELSE n.held)
  PROVE  /\ m \in Accounts /\ m.rounded = n.rounded + loss /\ m.last = t.price
         /\ m.since = IF n.since = -1 THEN t.ts ELSE n.since
         /\ t.side = "BUY" => /\ m.held = n.held + t.size /\ m.cash = n.cash - t.size * t.price
                              /\ m.paid = n.paid + t.size * t.price /\ m.sales = n.sales
                              /\ m.resumed <=> n.resumed \/ n.sales > 0
         /\ t.side = "SELL" => /\ m.held = n.held - s /\ m.cash = n.cash + s * t.price
                               /\ m.paid = n.paid /\ m.sales = n.sales + 1
                               /\ m.resumed <=> n.resumed \/ (n.sales > 0 /\ n.held = 0)
<1> DEFINE held == IF t.side = "BUY" THEN n.held + t.size ELSE Led!Max({0, n.held - t.size})
           cash == n.cash + (n.held - held) * t.price
           paid == n.paid + (IF t.side = "BUY" THEN t.size * t.price ELSE 0)
           since == IF n.since = -1 THEN t.ts ELSE n.since
           sales == n.sales + (IF t.side = "SELL" THEN 1 ELSE 0)
           again == n.resumed \/ (n.sales > 0 /\ (t.side = "BUY" \/ n.held = 0))
<1>1. m = [held |-> held, cash |-> cash, paid |-> paid, rounded |-> n.rounded + loss, last |-> t.price,
           since |-> since, sales |-> sales, resumed |-> again]
  BY DEF Led!Note, Led!Never
<1>2. /\ n.held \in Nat /\ n.cash \in Int /\ n.paid \in Int /\ n.rounded \in Int /\ n.since \in Int /\ n.sales \in Nat
      /\ n.resumed \in BOOLEAN /\ t.size \in Nat /\ t.price \in Nat /\ t.ts \in Nat /\ t.side \in {"BUY", "SELL"}
      /\ s \in Nat
  BY DEF Accounts, LedTrades
<1>3. Led!Max({0, n.held - t.size}) = IF n.held - t.size <= 0 THEN 0 ELSE n.held - t.size
  BY <1>2, LedMax
<1>4. held \in Nat /\ (t.side = "BUY" => held = n.held + t.size) /\ (t.side = "SELL" => held = n.held - s)
  BY <1>2, <1>3
<1> HIDE DEF held
<1>5. /\ t.size * t.price \in Nat /\ s * t.price \in Nat /\ (n.held - held) * t.price \in Int
      /\ n.held - held = -t.size => (n.held - held) * t.price = -(t.size * t.price)
      /\ n.held - held = s => (n.held - held) * t.price = s * t.price
  <2> DEFINE d == n.held - held
             b == t.size
             x == t.price
  <2>1. d \in Int /\ b \in Nat /\ x \in Nat /\ s \in Nat
    BY <1>2, <1>4
  <2> HIDE DEF d, b, x
  <2>2. b * x \in Nat /\ s * x \in Nat /\ d * x \in Int /\ (d = -b => d * x = -(b * x)) /\ (d = s => d * x = s * x)
    BY <2>1
  <2> QED
    BY <2>2 DEF d, b, x
<1>6. /\ t.side = "BUY" => n.held - held = -t.size
      /\ t.side = "SELL" => n.held - held = s
  BY <1>2, <1>4
<1>7. /\ cash \in Int /\ (t.side = "BUY" => cash = n.cash - t.size * t.price)
      /\ (t.side = "SELL" => cash = n.cash + s * t.price)
  <2> DEFINE c == (n.held - held) * t.price
             d == t.size * t.price
             e == s * t.price
  <2>1. /\ c \in Int /\ d \in Int /\ e \in Int /\ n.cash \in Int /\ cash = n.cash + c
        /\ (t.side = "BUY" => c = -d) /\ (t.side = "SELL" => c = e)
    BY <1>2, <1>5, <1>6
  <2> HIDE DEF c, d, e, cash
  <2>2. cash \in Int /\ (t.side = "BUY" => cash = n.cash - d) /\ (t.side = "SELL" => cash = n.cash + e)
    BY <2>1
  <2> QED
    BY <2>2 DEF d, e
<1>8. /\ paid \in Int /\ (t.side = "BUY" => paid = n.paid + t.size * t.price) /\ (t.side = "SELL" => paid = n.paid)
  BY <1>2, <1>5
<1>9. since \in Int /\ sales \in Nat /\ again \in BOOLEAN /\ n.rounded + loss \in Int
  BY <1>2
<1> HIDE DEF cash, paid
<1>10. m \in Accounts
  BY <1>1, <1>2, <1>4, <1>7, <1>8, <1>9 DEF Accounts
<1>11. /\ m.held = held /\ m.cash = cash /\ m.paid = paid /\ m.rounded = n.rounded + loss /\ m.last = t.price
       /\ m.since = since /\ m.sales = sales /\ m.resumed = again
  BY <1>1
<1>12. /\ t.side = "BUY" => m.sales = n.sales /\ (m.resumed <=> n.resumed \/ n.sales > 0)
       /\ t.side = "SELL" => m.sales = n.sales + 1 /\ (m.resumed <=> n.resumed \/ (n.sales > 0 /\ n.held = 0))
  <2>1. /\ t.side = "BUY" => (again <=> n.resumed \/ n.sales > 0)
        /\ t.side = "SELL" => (again <=> n.resumed \/ (n.sales > 0 /\ n.held = 0))
    OBVIOUS
  <2>2. m.resumed <=> again
    BY <1>11
  <2>3. (t.side = "BUY" => m.sales = n.sales) /\ (t.side = "SELL" => m.sales = n.sales + 1)
    BY <1>2, <1>11
  <2> HIDE DEF again
  <2> QED
    BY <2>1, <2>2, <2>3
<1> QED
  BY <1>4, <1>7, <1>8, <1>10, <1>11, <1>12

\* A segment that is closed adds what it held, from its begin to now.
LEMMA LongerIs ==
  ASSUME NEW p \in Positions, NEW at \in Nat, NEW since \in -1..at,
         p.closed \in -1..at, p.segment \in -1..at,
         p.segment # -1 => since # -1 /\ since <= p.segment /\ p.closed <= p.segment,
         p.closed # -1 => since # -1 /\ since <= p.closed,
         p.closed = -1 => p.held = <<>>,
         p.held # <<>> => SumFunction(p.held) <= p.closed - since
  PROVE  Longer(p, at) # <<>> => SumFunction(Longer(p, at)) <= at - since
<1> DEFINE h == p.held
<1>1. h \in Seq(Int) /\ p.segment \in Int /\ p.closed \in Int /\ since \in Int
  BY DEF Positions
<1>2. SumFunction(h) \in Int /\ (h = <<>> => SumFunction(h) = 0)
  <2>1. SumFunction(h) \in Int
    BY <1>1, SumAppend
  <2>2. ASSUME h = <<>> PROVE SumFunction(h) = 0
    <3>1. DOMAIN h = {}
      BY <2>2
    <3> QED
      BY <3>1, SumEmpty DEF SumFunction
  <2> QED
    BY <2>1, <2>2
<1>3. CASE p.segment # -1 /\ at > p.segment
  <2> DEFINE x == at - p.segment
  <2>1. Longer(p, at) = Append(h, x) /\ x \in Int
    BY <1>1, <1>3 DEF Longer
  <2>2. SumFunction(Append(h, x)) = SumFunction(h) + x
    BY <1>1, <2>1, SumAppend
  <2>3. SumFunction(h) <= p.segment - since
    BY <1>1, <1>2, <1>3
  <2> HIDE DEF h
  <2> QED
    BY <1>1, <1>2, <2>1, <2>2, <2>3
<1>4. CASE ~(p.segment # -1 /\ at > p.segment)
  <2>1. Longer(p, at) = h
    BY <1>4 DEF Longer
  <2>2. h # <<>> => SumFunction(h) <= at - since
    BY <1>1, <1>2
  <2> QED
    BY <2>1, <2>2
<1> QED
  BY <1>3, <1>4

\* A purchase keeps the position with its notes.
LEMMA BuyKeeps ==
  ASSUME NEW p \in Positions, NEW n \in Accounts, NEW at \in Nat, Agrees(p, n, at),
         NEW t \in LedTrades, t.ts = at, t.side = "BUY",
         NEW q, q = Led!Reopen(p, t), NEW r, r = Led!Buy(q, t), NEW m, m = Led!Note(n, t, Led!Rounded(q, t))
  PROVE  r \in Positions /\ m \in Accounts /\ Agrees(r, m, at) /\ m.since # -1
<1> DEFINE loss == Led!Rounded(q, t)
<1>1. /\ HeldAs(p, n) /\ PaidAs(p, n) /\ TimedAs(p, n, at) /\ (p.isClosed => p.running = 0)
  BY DEF Agrees, HeldAs
<1>2. /\ q \in Positions /\ ~q.isClosed /\ q.running = p.running /\ q.bought = p.bought /\ q.sold = p.sold
      /\ q.closed = p.closed /\ q.held = p.held /\ q.realized = p.realized
      /\ q.avg = p.avg \/ (p.isClosed /\ q.avg = 0)
      /\ q.opened = at \/ (q.opened = p.opened /\ p.opened # -1)
      /\ q.segment = at \/ (q.segment = p.segment /\ p.segment # -1)
  BY <1>1, ReopenIs
<1>3. /\ r \in Positions /\ r.isClosed = q.isClosed /\ r.running = q.running + t.size /\ r.bought = q.bought + t.size
      /\ r.sold = q.sold /\ r.closed = q.closed /\ r.realized = q.realized
      /\ r.held = q.held /\ r.opened = q.opened /\ r.segment = q.segment
      /\ loss \in Nat /\ r.running * r.avg + loss = q.avg * q.running + t.price * t.size
  BY <1>2, BuyIs
<1> HIDE DEF loss
<1>4. /\ m \in Accounts /\ m.rounded = n.rounded + loss /\ m.since = IF n.since = -1 THEN at ELSE n.since
      /\ m.held = n.held + t.size /\ m.cash = n.cash - t.size * t.price
      /\ m.paid = n.paid + t.size * t.price /\ m.sales = n.sales /\ (m.resumed <=> n.resumed \/ n.sales > 0)
  BY <1>3, NoteIs DEF loss
<1>5. /\ p.running \in Nat /\ p.bought \in Nat /\ p.sold \in Nat /\ p.avg \in Nat /\ p.realized \in Int
      /\ p.closed \in Int /\ p.opened \in Int /\ p.segment \in Int
      /\ q.avg \in Nat /\ r.avg \in Nat /\ t.size \in Nat /\ t.size > 0 /\ t.price \in Nat
      /\ n.held \in Nat /\ n.cash \in Int /\ n.paid \in Int /\ n.rounded \in Int /\ n.sales \in Nat /\ n.since \in Int
      /\ n.resumed \in BOOLEAN
  <2>1. /\ p.running \in Nat /\ p.bought \in Nat /\ p.sold \in Nat /\ p.avg \in Nat /\ p.realized \in Int
        /\ p.closed \in Int /\ p.opened \in Int /\ p.segment \in Int
    BY DEF Positions
  <2>2. q.avg \in Nat /\ r.avg \in Nat
    <3>1. q \in Positions /\ r \in Positions
      BY <1>2, <1>3
    <3> QED
      BY <3>1 DEF Positions
  <2>3. t.size \in Nat /\ t.size > 0 /\ t.price \in Nat
    BY DEF LedTrades
  <2>4. /\ n.held \in Nat /\ n.cash \in Int /\ n.paid \in Int /\ n.rounded \in Int /\ n.sales \in Nat
        /\ n.since \in Int /\ n.resumed \in BOOLEAN
    BY DEF Accounts
  <2> QED
    BY <2>1, <2>2, <2>3, <2>4
<1>6. HeldAs(r, m)
  BY <1>1, <1>2, <1>3, <1>4, <1>5 DEF HeldAs
<1>7. PaidAs(r, m)
  <2> DEFINE x == p.running * p.avg
             y == r.running * r.avg
             z == t.size * t.price
             b == p.bought * p.avg
             c == r.bought * r.avg
  <2>1. x \in Int /\ y \in Int /\ z \in Int /\ b \in Int /\ c \in Int
    BY <1>2, <1>3, <1>5
  <2>2. q.avg * q.running = x
    <3>1. CASE q.avg = p.avg
      BY <1>2, <1>5, <3>1
    <3>2. CASE p.isClosed /\ q.avg = 0
      <4>1. p.running = 0
        BY <1>1, <3>2
      <4> QED
        BY <1>2, <1>5, <3>2, <4>1
    <3> QED
      BY <1>2, <3>1, <3>2
  <2>3. t.price * t.size = z
    BY <1>5
  <2>4. y + loss = x + z
    BY <1>3, <2>2, <2>3
  <2>5. r.realized - y = m.cash + m.rounded
    <3>1. p.realized - x = n.cash + n.rounded
      BY <1>1 DEF PaidAs
    <3>2. r.realized = p.realized /\ m.cash = n.cash - z /\ m.rounded = n.rounded + loss
      BY <1>2, <1>3, <1>4
    <3> DEFINE e == p.realized
               c1 == n.cash
               o == n.rounded
    <3>3. e - x = c1 + o /\ y + loss = x + z /\ e \in Int /\ c1 \in Int /\ o \in Int /\ loss \in Int
          /\ x \in Int /\ y \in Int /\ z \in Int
      BY <1>3, <1>5, <2>1, <2>4, <3>1
    <3> HIDE DEF x, y, z, e, c1, o
    <3>4. e - y = (c1 - z) + (o + loss)
      BY <3>3
    <3> QED
      BY <3>2, <3>4 DEF e, c1, o
  <2>6. ASSUME ~m.resumed PROVE c + m.rounded = m.paid
    <3>1. ~n.resumed /\ n.sales = 0
      BY <1>4, <1>5, <2>6
    <3>2. p.sold = 0 /\ p.closed = -1
      BY <1>1, <3>1 DEF PaidAs
    <3>3. p.bought = p.running /\ ~p.isClosed
      BY SMTT(40), <1>1, <1>5, <3>2 DEF HeldAs, TimedAs
    <3>4. b = x /\ c = y
      BY <1>2, <1>3, <3>3
    <3>5. b + n.rounded = n.paid
      BY <1>1, <3>1 DEF PaidAs
    <3>6. m.rounded = n.rounded + loss /\ m.paid = n.paid + z
      BY <1>4
    <3> HIDE DEF x, y, z, b, c
    <3> QED
      BY <1>3, <1>5, <2>1, <2>4, <3>4, <3>5, <3>6
  <2>7. m.sales = 0 => r.sold = 0 /\ r.realized = 0 /\ r.closed = -1
    BY <1>1, <1>2, <1>3, <1>4 DEF PaidAs
  <2> QED
    BY <2>5, <2>6, <2>7 DEF PaidAs
<1>8. TimedAs(r, m, at)
  <2>1. /\ p.opened \in -1..at /\ p.closed \in -1..at /\ p.segment \in -1..at /\ n.since \in -1..at
        /\ p.segment # -1 => n.since # -1 /\ n.since <= p.segment /\ p.closed <= p.segment
        /\ p.closed # -1 => n.since # -1 /\ n.since <= p.closed
        /\ p.closed = -1 => p.held = <<>>
        /\ p.held # <<>> => SumFunction(p.held) <= p.closed - n.since
    BY <1>1 DEF TimedAs
  <2>2. /\ ~r.isClosed /\ r.closed = p.closed /\ r.held = p.held
        /\ r.opened = at \/ (r.opened = p.opened /\ p.opened # -1)
        /\ r.segment = at \/ (r.segment = p.segment /\ p.segment # -1)
    BY <1>2, <1>3
  <2>3. m.since \in -1..at /\ m.since # -1 /\ (n.since # -1 => m.since = n.since)
    BY <1>4, <2>1
  <2>4. p.held # <<>> => m.since = n.since
    BY <2>1, <2>3
  <2>5. m.since <= at /\ (p.closed # -1 => m.since = n.since) /\ (p.segment # -1 => m.since = n.since)
    BY <2>1, <2>3
  <2> QED
    BY <2>1, <2>2, <2>3, <2>4, <2>5 DEF TimedAs
<1>9. m.since # -1
  BY <1>4
<1> QED
  BY <1>3, <1>4, <1>6, <1>7, <1>8, <1>9 DEF Agrees

\* So does a sale, of what is held at most.
LEMMA SaleKeeps ==
  ASSUME NEW p \in Positions, NEW n \in Accounts, NEW at \in Nat, Agrees(p, n, at),
         NEW t \in LedTrades, t.ts = at, t.side = "SELL",
         NEW q, q = Led!Reopen(p, t), NEW r, r = Led!Sell(q, t), NEW m, m = Led!Note(n, t, Led!Rounded(q, t))
  PROVE  r \in Positions /\ m \in Accounts /\ Agrees(r, m, at) /\ m.since # -1
<1> DEFINE s == IF t.size <= p.running THEN t.size ELSE p.running
<1>1. /\ HeldAs(p, n) /\ PaidAs(p, n) /\ TimedAs(p, n, at) /\ (p.isClosed => p.running = 0) /\ n.held = p.running
  BY DEF Agrees, HeldAs
<1>2. /\ q \in Positions /\ ~q.isClosed /\ q.running = p.running /\ q.bought = p.bought /\ q.sold = p.sold
      /\ q.closed = p.closed /\ q.held = p.held /\ q.realized = p.realized
      /\ q.avg = p.avg \/ (p.isClosed /\ q.avg = 0)
      /\ q.opened = at \/ q.opened = p.opened
      /\ q.segment = at \/ q.segment = p.segment
  BY <1>1, ReopenIs
<1>3. /\ r \in Positions /\ (r.isClosed <=> r.running = 0)
      /\ r.running = q.running - s /\ r.bought = q.bought /\ r.sold = q.sold + s
      /\ r.realized = q.realized + (t.price - q.avg) * s /\ r.avg = q.avg /\ r.opened = q.opened
      /\ r.running = 0 => r.closed = at /\ r.segment = -1 /\ r.held = Longer(q, at)
      /\ r.running # 0 => r.closed = q.closed /\ r.segment = q.segment /\ r.held = q.held
  <2>1. s = IF t.size <= q.running THEN t.size ELSE q.running
    BY <1>2
  <2> HIDE DEF s
  <2> QED
    BY <1>2, <2>1, SellIs
<1>4. /\ m \in Accounts /\ m.rounded = n.rounded /\ m.since = IF n.since = -1 THEN at ELSE n.since
      /\ m.held = n.held - s /\ m.cash = n.cash + s * t.price
      /\ m.paid = n.paid /\ m.sales = n.sales + 1 /\ (m.resumed <=> n.resumed \/ (n.sales > 0 /\ n.held = 0))
  <2> DEFINE loss == 0
  <2>1. loss \in Nat /\ m = Led!Note(n, t, loss) /\ s = (IF t.size <= n.held THEN t.size ELSE n.held)
    BY <1>1 DEF Led!Rounded
  <2>2. n.rounded \in Int
    BY DEF Accounts
  <2> HIDE DEF s
  <2> QED
    BY <2>1, <2>2, NoteIs
<1>5. /\ p.running \in Nat /\ p.bought \in Nat /\ p.sold \in Nat /\ p.avg \in Nat /\ p.realized \in Int
      /\ p.closed \in Int /\ p.opened \in Int /\ p.segment \in Int
      /\ q.avg \in Nat /\ r.avg \in Nat /\ t.size \in Nat /\ t.size > 0 /\ t.price \in Nat
      /\ n.held \in Nat /\ n.cash \in Int /\ n.paid \in Int /\ n.rounded \in Int /\ n.sales \in Nat /\ n.since \in Int
      /\ n.resumed \in BOOLEAN /\ s \in Nat /\ s <= p.running
  <2>1. /\ p.running \in Nat /\ p.bought \in Nat /\ p.sold \in Nat /\ p.avg \in Nat /\ p.realized \in Int
        /\ p.closed \in Int /\ p.opened \in Int /\ p.segment \in Int
    BY DEF Positions
  <2>2. q.avg \in Nat /\ r.avg \in Nat
    <3>1. q \in Positions /\ r \in Positions
      BY <1>2, <1>3
    <3> QED
      BY <3>1 DEF Positions
  <2>3. t.size \in Nat /\ t.size > 0 /\ t.price \in Nat
    BY DEF LedTrades
  <2>4. /\ n.held \in Nat /\ n.cash \in Int /\ n.paid \in Int /\ n.rounded \in Int /\ n.sales \in Nat
        /\ n.since \in Int /\ n.resumed \in BOOLEAN
    BY DEF Accounts
  <2> QED
    BY <2>1, <2>2, <2>3, <2>4
<1> HIDE DEF s
<1>6. HeldAs(r, m)
  BY <1>1, <1>2, <1>3, <1>4, <1>5 DEF HeldAs
<1>7. PaidAs(r, m)
  <2> DEFINE x == p.running * p.avg
             u == q.running * q.avg
             y == r.running * r.avg
             z == s * t.price
             w == (t.price - q.avg) * s
             v == s * q.avg
  <2>1. x \in Int /\ y \in Int /\ z \in Int /\ w \in Int /\ v \in Int /\ u \in Int
    BY SMTT(40), <1>2, <1>3, <1>5
  <2>2. u = x
    <3>1. CASE q.avg = p.avg
      BY <1>2, <3>1
    <3>2. CASE p.isClosed /\ q.avg = 0
      <4>1. p.running = 0
        BY <1>1, <3>2
      <4> QED
        BY <1>2, <1>5, <3>2, <4>1
    <3> QED
      BY <1>2, <3>1, <3>2
  <2>3. w = z - v
    BY <1>5
  <2>4. y = u - v
    <3>1. y = (p.running - s) * q.avg /\ u = p.running * q.avg
      BY <1>2, <1>3
    <3> QED
      BY <1>5, <3>1
  <2>5. r.realized - y = m.cash + m.rounded
    <3>1. p.realized - x = n.cash + n.rounded
      BY <1>1 DEF PaidAs
    <3>2. r.realized = p.realized + w /\ m.cash = n.cash + z /\ m.rounded = n.rounded
      BY <1>2, <1>3, <1>4
    <3> HIDE DEF x, y, z, u, v, w
    <3> QED
      BY <1>5, <2>1, <2>2, <2>3, <2>4, <3>1, <3>2
  <2>6. ASSUME ~m.resumed PROVE r.bought * r.avg + m.rounded = m.paid
    <3>1. ~n.resumed /\ (n.sales = 0 \/ n.held # 0)
      BY <1>4, <1>5, <2>6
    <3>2. n.sales = 0 => ~p.isClosed
      BY <1>1 DEF PaidAs, TimedAs
    <3>3. q.avg = p.avg
      BY <1>1, <1>2, <3>1, <3>2
    <3>4. r.bought * r.avg = p.bought * p.avg
      BY <1>2, <1>3, <3>3
    <3>5. p.bought * p.avg + n.rounded = n.paid
      BY <1>1, <3>1 DEF PaidAs
    <3> QED
      BY <1>4, <3>4, <3>5
  <2>7. m.sales # 0
    BY <1>4, <1>5
  <2> QED
    BY <2>5, <2>6, <2>7 DEF PaidAs
<1>8. TimedAs(r, m, at)
  <2>1. /\ p.opened \in -1..at /\ p.closed \in -1..at /\ p.segment \in -1..at /\ n.since \in -1..at
        /\ p.running > 0 => p.opened # -1
        /\ p.segment # -1 => n.since # -1 /\ n.since <= p.segment /\ p.closed <= p.segment
        /\ p.closed # -1 => n.since # -1 /\ n.since <= p.closed
        /\ p.closed = -1 => p.held = <<>>
        /\ p.held # <<>> => SumFunction(p.held) <= p.closed - n.since
    BY <1>1 DEF TimedAs
  <2>2. m.since \in -1..at /\ m.since # -1 /\ (n.since # -1 => m.since = n.since)
    BY <1>4, <2>1
  <2>3. p.held # <<>> => m.since = n.since
    BY <2>1, <2>2
  <2>4. m.since <= at /\ (p.closed # -1 => m.since = n.since) /\ (p.segment # -1 => m.since = n.since)
    BY <2>1, <2>2
  <2>5. /\ q.segment \in -1..at /\ (q.segment # -1 => m.since <= q.segment /\ q.closed <= q.segment)
        /\ q.closed \in -1..at /\ (q.closed # -1 => m.since <= q.closed)
        /\ (q.closed = -1 => q.held = <<>>) /\ (q.held # <<>> => SumFunction(q.held) <= q.closed - m.since)
        /\ q.opened \in -1..at
    BY <1>2, <2>1, <2>2, <2>3, <2>4
  <2>6. CASE r.running = 0
    <3>1. Longer(q, at) # <<>> => SumFunction(Longer(q, at)) <= at - m.since
      BY <1>2, <2>2, <2>5, LongerIs
    <3>2. r.closed = at /\ r.segment = -1 /\ r.held = Longer(q, at) /\ r.isClosed /\ r.opened = q.opened
      BY <1>3, <2>6
    <3> QED
      BY <2>2, <2>4, <2>5, <2>6, <3>1, <3>2 DEF TimedAs
  <2>7. CASE r.running # 0
    <3>1. r.closed = q.closed /\ r.segment = q.segment /\ r.held = q.held /\ ~r.isClosed /\ r.opened = q.opened
      BY <1>3, <2>7
    <3>2. p.running > 0 /\ r.opened # -1
      BY <1>2, <1>3, <1>5, <2>1, <2>7
    <3> QED
      BY <2>2, <2>5, <3>1, <3>2 DEF TimedAs
  <2> QED
    BY <2>6, <2>7
<1>9. m.since # -1
  BY <1>4
<1> QED
  BY <1>3, <1>4, <1>6, <1>7, <1>8, <1>9 DEF Agrees

\* One more trade: the position is as the bookkeeper notes.
LEMMA ReplayKeeps ==
  ASSUME NEW p \in Positions, NEW n \in Accounts, NEW at \in Nat, Agrees(p, n, at),
         NEW t \in LedTrades, t.ts = at,
         NEW r, r = Led!Replay(p, t), NEW m, m = Led!Note(n, t, Led!Rounded(Led!Reopen(p, t), t))
  PROVE  r \in Positions /\ m \in Accounts /\ Agrees(r, m, at) /\ m.since # -1
<1> DEFINE q == Led!Reopen(p, t)
           loss == Led!Rounded(q, t)
<1>1. CASE t.side = "BUY"
  <2>1. r = Led!Buy(q, t)
    BY <1>1 DEF Led!Replay
  <2> QED
    BY <1>1, <2>1, BuyKeeps
<1>2. CASE t.side = "SELL"
  <2>1. r = Led!Sell(q, t)
    BY <1>2 DEF Led!Replay
  <2> QED
    BY <1>2, <2>1, SaleKeeps
<1>3. t.side \in {"BUY", "SELL"}
  BY DEF LedTrades
<1> QED
  BY <1>1, <1>2, <1>3

\* Sums of PositionLedger are those of SumLemmas.
LEMMA LedSum == \A f, S : Led!SumFunctionOnSet(f, S) = SumFunctionOnSet(f, S)
BY DEF SumFunctionOnSet, FoldFunctionOnSet, MapThenFoldSet,
       Led!SumFunctionOnSet, Led!FoldFunctionOnSet, Led!MapThenFoldSet

\* A position with no trade holds nothing.
LEMMA LedStarts == Led!Init => LedInv
<1> SUFFICES ASSUME Led!Init PROVE LedInv
  OBVIOUS
<1>1. /\ book = [k \in Tokens |-> Led!Fresh] /\ notes = [k \in Tokens |-> Led!Unnoted]
      /\ first = -1 /\ ledgerNow = 0 /\ left = LedgerTrades
  BY DEF Led!Init, Led!Never
<1>2. <<>> \in Seq(Int)
  OBVIOUS
<1>3. Led!Fresh \in Positions /\ Led!Unnoted \in Accounts
  BY <1>2 DEF Led!Fresh, Led!Never, Led!Unnoted, Positions, Accounts
<1>4. Agrees(Led!Fresh, Led!Unnoted, 0) /\ Led!Unnoted.since = -1
  BY DEF Led!Fresh, Led!Never, Led!Unnoted, Agrees, HeldAs, PaidAs, TimedAs
<1> QED
  BY <1>1, <1>3, <1>4, LedgerAssumption DEF LedInv

\* Every trade keeps the position with the bookkeeper's notes.
LEMMA LedSteps == ASSUME LedInv, Led!Next \/ UNCHANGED ledgerVars PROVE LedInv'
<1>0. /\ ledgerNow \in 0..LedgerNow /\ first \in -1..ledgerNow /\ left \in 0..LedgerTrades
      /\ book \in [Tokens -> Positions] /\ notes \in [Tokens -> Accounts]
      /\ \A k \in Tokens : Agrees(book[k], notes[k], ledgerNow) /\ (first = -1 => notes[k].since = -1)
  BY DEF LedInv
<1>1. ASSUME NEW k \in Tokens, NEW side \in {"BUY", "SELL"}, NEW size \in TradeSizes, NEW price \in TradePrices,
             Led!Trade(k, side, size, price)
      PROVE  LedInv'
  <2> DEFINE t == [side |-> side, size |-> size, price |-> price, ts |-> ledgerNow]
             r == Led!Replay(book[k], t)
             m == Led!Note(notes[k], t, Led!Rounded(Led!Reopen(book[k], t), t))
  <2>1. /\ left > 0 /\ left' = left - 1 /\ ledgerNow' = ledgerNow
        /\ book' = [book EXCEPT ![k] = r] /\ notes' = [notes EXCEPT ![k] = m]
        /\ first' = IF first = -1 THEN ledgerNow ELSE first
    BY <1>1 DEF Led!Trade, Led!Never
  <2>2. t \in LedTrades /\ t.ts = ledgerNow /\ ledgerNow \in Nat
    BY <1>0, LedgerAssumption DEF LedTrades
  <2>3. book[k] \in Positions /\ notes[k] \in Accounts /\ Agrees(book[k], notes[k], ledgerNow)
    BY <1>0
  <2> HIDE DEF t
  <2>4. r \in Positions /\ m \in Accounts /\ Agrees(r, m, ledgerNow) /\ m.since # -1
    BY <2>2, <2>3, ReplayKeeps
  <2> HIDE DEF r, m
  <2>5. ASSUME NEW j \in Tokens PROVE Agrees(book'[j], notes'[j], ledgerNow') /\ (first' = -1 => notes'[j].since = -1)
    <3>1. first' # -1
      BY <1>0, <2>1
    <3>2. Agrees(book'[j], notes'[j], ledgerNow')
      BY <1>0, <2>1, <2>4
    <3> QED
      BY <3>1, <3>2
  <2>6. book' \in [Tokens -> Positions] /\ notes' \in [Tokens -> Accounts]
    BY <1>0, <2>1, <2>4
  <2>7. left' \in 0..LedgerTrades /\ first' \in -1..ledgerNow' /\ ledgerNow' \in 0..LedgerNow
    BY <1>0, <2>1, LedgerAssumption
  <2>8. \A j \in Tokens : Agrees(book[j], notes[j], ledgerNow)' /\ (first' = -1 => notes'[j].since = -1)
    BY <2>5 DEF Agrees, HeldAs, PaidAs, TimedAs
  <2> QED
    BY <2>6, <2>7, <2>8 DEF LedInv
<1>2. ASSUME Led!TimePasses PROVE LedInv'
  <2>1. ledgerNow < LedgerNow /\ ledgerNow' = ledgerNow + 1 /\ UNCHANGED <<book, notes, first, left>>
    BY <1>2 DEF Led!TimePasses
  <2>2. ASSUME NEW j \in Tokens PROVE Agrees(book[j], notes[j], ledgerNow')
    <3>1. Agrees(book[j], notes[j], ledgerNow)
      BY <1>0
    <3>2. \A x \in Int : x \in -1..ledgerNow => x \in -1..ledgerNow'
      BY <1>0, <2>1
    <3>3. TimedAs(book[j], notes[j], ledgerNow')
      BY <3>1, <3>2 DEF Agrees, TimedAs
    <3> QED
      BY <3>1, <3>3 DEF Agrees
  <2>3. \A j \in Tokens : Agrees(book[j], notes[j], ledgerNow)' /\ (first' = -1 => notes'[j].since = -1)
    BY <1>0, <2>1, <2>2 DEF Agrees, HeldAs, PaidAs, TimedAs
  <2> QED
    BY <1>0, <2>1, <2>3, LedgerAssumption DEF LedInv
<1>3. CASE UNCHANGED ledgerVars
  BY <1>3 DEF ledgerVars, LedInv, Agrees, HeldAs, PaidAs, TimedAs
<1> QED
  BY <1>1, <1>2, <1>3 DEF Led!Next

\* What the ledger knows of each token that was traded.
LEMMA LedKnows ==
  ASSUME LedInv
  PROVE  /\ IsFiniteSet(Led!Traded) /\ Led!Traded \subseteq Tokens
         /\ \A k \in Tokens : /\ book[k] \in Positions /\ notes[k] \in Accounts
                              /\ Agrees(book[k], notes[k], ledgerNow)
                              /\ k \in Led!Traded <=> notes[k].since # -1
         /\ first \in Int /\ ledgerNow \in Nat /\ first <= ledgerNow
<1>1. Led!Traded \subseteq Tokens
  BY DEF Led!Traded
<1>2. IsFiniteSet(Led!Traded)
  BY <1>1, HotAssumption, FS_Subset
<1> QED
  BY <1>1, <1>2, LedgerAssumption DEF LedInv, Led!Traded, Led!Never

\* Positions hold what the trades leave.
LEMMA LedSizes == LedInv => Led!TypeOK /\ Led!PositionsAreHeld
<1> SUFFICES ASSUME LedInv PROVE Led!TypeOK /\ Led!PositionsAreHeld
  OBVIOUS
<1>1. ASSUME NEW k \in Tokens
      PROVE  book[k] \in Positions /\ HeldAs(book[k], notes[k]) /\ book[k].closed \in -1..ledgerNow
  BY DEF LedInv, Agrees, TimedAs
<1>2. Led!TypeOK
  BY <1>1 DEF LedInv, Led!TypeOK, Led!Never, Positions
<1>3. Led!PositionsAreHeld
  BY <1>1 DEF Led!PositionsAreHeld, Led!Traded, Led!Never, HeldAs
<1> QED
  BY <1>2, <1>3

\* Segments fit between the first trade and the last close.
LEMMA LedSegments == LedInv => Led!SegmentsFit
<1> SUFFICES ASSUME LedInv, NEW k \in Led!Traded, book[k].held # <<>>
             PROVE  Led!SumFunction(book[k].held) <= book[k].closed - notes[k].since
  BY DEF Led!SegmentsFit
<1>1. TimedAs(book[k], notes[k], ledgerNow)
  BY LedKnows DEF Agrees
<1>2. Led!SumFunction(book[k].held) = SumFunction(book[k].held)
  BY LedSum DEF SumFunction, Led!SumFunction
<1> QED
  BY <1>1, <1>2 DEF TimedAs

\* Profit is the cash and the holdings, but for what the averages lost.
LEMMA LedMoney == LedInv => Led!MoneyAddsUp
<1> SUFFICES ASSUME LedInv PROVE Led!MoneyAddsUp
  OBVIOUS
<1> DEFINE S == Led!Traded
           A == {k \in S : ~book[k].isClosed}
           e == Led!Earned
           u == [k \in Tokens |-> book[k].running * (notes[k].last - book[k].avg)]
           w == [k \in Tokens |-> notes[k].cash + notes[k].held * notes[k].last + notes[k].rounded]
<1>1. Led!MoneyAddsUp <=> SumFunctionOnSet(e, S) + SumFunctionOnSet(u, A) = SumFunctionOnSet(w, S)
  BY LedSum DEF Led!MoneyAddsUp, Led!Performance
<1>2. IsFiniteSet(S) /\ S \subseteq Tokens /\ A \subseteq S
  BY LedKnows
<1>3. ASSUME NEW k \in S
      PROVE  e[k] \in Int /\ u[k] \in Int /\ w[k] = e[k] + u[k] /\ (k \notin A => u[k] = 0)
  <2> DEFINE p == book[k]
             n == notes[k]
  <2>1. p \in Positions /\ n \in Accounts /\ HeldAs(p, n) /\ PaidAs(p, n)
    BY <1>2, LedKnows DEF Agrees
  <2>2. /\ e[k] = p.realized /\ u[k] = p.running * (n.last - p.avg) /\ w[k] = n.cash + n.held * n.last + n.rounded
        /\ k \notin A => p.isClosed
    BY <1>2 DEF Led!Earned
  <2> HIDE DEF p, n, e, u, w, S, A
  <2>3. /\ p.realized \in Int /\ p.running \in Nat /\ p.avg \in Nat /\ n.last \in Nat /\ n.cash \in Int
        /\ n.rounded \in Int
    BY <2>1 DEF Positions, Accounts
  <2>4. n.held = p.running /\ p.realized - p.running * p.avg = n.cash + n.rounded /\ (p.isClosed => p.running = 0)
    BY <2>1 DEF HeldAs, PaidAs
  <2> DEFINE x == p.running * p.avg
             y == p.running * n.last
  <2>5. x \in Int /\ y \in Int /\ p.running * (n.last - p.avg) = y - x
    BY <2>3
  <2>6. n.held * n.last = y
    BY <2>4
  <2>7. p.realized - x = n.cash + n.rounded
    BY <2>4
  <2> HIDE DEF x, y
  <2>8. u[k] = y - x /\ w[k] = n.cash + y + n.rounded
    BY <2>2, <2>5, <2>6
  <2>9. w[k] = e[k] + u[k]
    <3> DEFINE a == p.realized
               b == n.cash
               d == n.rounded
    <3>1. a \in Int /\ b \in Int /\ d \in Int /\ x \in Int /\ y \in Int /\ a - x = b + d
      BY <2>3, <2>5, <2>7
    <3>2. e[k] = a /\ u[k] = y - x /\ w[k] = b + y + d
      BY <2>2, <2>8
    <3> HIDE DEF a, b, d
    <3>3. b + y + d = a + (y - x)
      BY <3>1
    <3> QED
      BY <3>2, <3>3
  <2>10. k \notin A => u[k] = 0
    <3>1. ASSUME k \notin A PROVE p.running * (n.last - p.avg) = 0
      BY <2>2, <2>3, <2>4, <3>1
    <3> QED
      BY <2>2, <3>1
  <2> QED
    BY <2>2, <2>3, <2>5, <2>8, <2>9, <2>10
<1> HIDE DEF S, A, e, u, w
<1>4. SumFunctionOnSet(w, S) = SumFunctionOnSet(e, S) + SumFunctionOnSet(u, S)
  BY <1>2, <1>3, SumPlus
<1>5. SumFunctionOnSet(u, S) = SumFunctionOnSet(u, A)
  BY <1>2, <1>3, SumPart
<1> QED
  BY <1>1, <1>4, <1>5

\* The cost basis is what was paid.
LEMMA LedBasis == LedInv => Led!BasisIsPaid
<1> SUFFICES ASSUME LedInv, ~Led!Resumed PROVE Led!BasisIsPaid
  BY DEF Led!BasisIsPaid
<1> DEFINE S == Led!Traded
           c == [k \in Tokens |-> book[k].bought * book[k].avg]
           w == [k \in Tokens |-> notes[k].paid - notes[k].rounded]
<1>1. Led!BasisIsPaid <=> SumFunctionOnSet(c, S) = SumFunctionOnSet(w, S)
  BY LedSum DEF Led!BasisIsPaid, Led!Performance
<1>2. IsFiniteSet(S) /\ S \subseteq Tokens
  BY LedKnows
<1>3. ASSUME NEW k \in S PROVE c[k] \in Int /\ w[k] = c[k]
  <2> DEFINE p == book[k]
             n == notes[k]
  <2>1. p \in Positions /\ n \in Accounts /\ PaidAs(p, n) /\ ~n.resumed
    BY <1>2, LedKnows DEF Agrees, Led!Resumed
  <2>2. c[k] = p.bought * p.avg /\ w[k] = n.paid - n.rounded
    BY <1>2
  <2> HIDE DEF p, n, c, w
  <2>3. p.bought \in Nat /\ p.avg \in Nat /\ n.paid \in Int /\ n.rounded \in Int
    BY <2>1 DEF Positions, Accounts
  <2>4. p.bought * p.avg + n.rounded = n.paid
    BY <2>1 DEF PaidAs
  <2> DEFINE x == p.bought * p.avg
  <2>5. x \in Int /\ x + n.rounded = n.paid
    BY <2>3, <2>4
  <2> HIDE DEF x
  <2>6. n.paid - n.rounded = x
    BY <2>3, <2>5
  <2> QED
    BY <2>2, <2>5, <2>6 DEF x
<1> HIDE DEF S, c, w
<1> QED
  BY <1>1, <1>2, <1>3, SumSame

\* The last point of a sampling that ends now is worth the realised profit and the cost of what is held.
LEMMA LedEquity == LedInv => Led!EquityIsWhole
<1> SUFFICES ASSUME LedInv, NEW step \in Steps, first # -1, (ledgerNow - first) % step = 0, ~Led!SoldInPart
             PROVE  Led!Equity(step)[Len(Led!Equity(step))]
                      = Led!Performance.realized + Led!SumFunctionOnSet(Led!Cost, Led!Traded)
  BY DEF Led!EquityIsWhole, Led!Never
<1> DEFINE S == Led!Traded
           at == ledgerNow
           n == (at - first) \div step
           R == {k \in S : book[k].closed # -1 /\ Led!Truncate(book[k].closed, step) <= at}
           O == {k \in S : /\ book[k].opened # -1 /\ book[k].opened <= at
                           /\ book[k].closed = -1 \/ book[k].closed > at}
           e == Led!Earned
           c == Led!Cost
<1>1. IsFiniteSet(S) /\ S \subseteq Tokens /\ first \in Int /\ at \in Int /\ first <= at /\ step \in Nat \ {0}
  BY LedKnows, LedgerAssumption
<1>2. n \in Nat /\ first + n * step = at /\ n + 1 \in Nat
  <2> DEFINE d == at - first
  <2>1. d \in Nat /\ d % step = 0
    BY <1>1
  <2>2. d \div step \in Nat /\ d = step * (d \div step) + (d % step)
    <3> HIDE DEF d
    <3>1. d \in Int
      BY <2>1
    <3> QED
      BY <1>1, <2>1, <3>1, Division
  <2> HIDE DEF n
  <2>3. n \in Nat /\ d = step * n
    BY <1>1, <2>1, <2>2 DEF n
  <2>4. step * n = n * step /\ step * n \in Int
    BY <1>1, <2>3
  <2> DEFINE x == step * n
  <2>5. x \in Int /\ at - first = x /\ n * step = x
    BY <2>3, <2>4
  <2> HIDE DEF x
  <2>6. first + x = at
    BY <1>1, <2>5
  <2> QED
    BY <2>3, <2>5, <2>6
<1>3. /\ DOMAIN Led!Equity(step) = 1..(n + 1)
      /\ Led!Equity(step)[n + 1] = Led!Realized(first + ((n + 1) - 1) * step, step)
                                     + Led!OpenValue(first + ((n + 1) - 1) * step)
  BY <1>2 DEF Led!Equity
<1>4. Len(Led!Equity(step)) = n + 1 /\ first + ((n + 1) - 1) * step = at
  <2> HIDE DEF n
  <2>1. (n + 1) - 1 = n
    BY <1>2
  <2>2. Led!Equity(step) = [i \in 1..(n + 1) |-> Led!Equity(step)[i]]
    BY <1>3 DEF Led!Equity
  <2> DEFINE g == Led!Equity(step)
             m == n + 1
  <2>3. m \in Nat /\ g = [i \in 1..m |-> g[i]]
    BY <1>2, <2>2
  <2> HIDE DEF g, m
  <2>4. Len(g) = m
    BY <2>3
  <2> QED
    BY <1>2, <2>1, <2>4 DEF g, m
<1>5. Led!Realized(at, step) = SumFunctionOnSet(e, R) /\ Led!OpenValue(at) = SumFunctionOnSet(c, O)
  BY LedSum DEF Led!Realized, Led!OpenValue, Led!Never
<1>6. Led!Performance.realized = SumFunctionOnSet(e, S) /\ Led!SumFunctionOnSet(c, S) = SumFunctionOnSet(c, S)
  BY LedSum DEF Led!Performance
<1>7. ASSUME NEW k \in S
      PROVE  e[k] \in Int /\ c[k] \in Int /\ (k \notin R => e[k] = 0) /\ (k \notin O => c[k] = 0)
  <2> DEFINE p == book[k]
             m == notes[k]
  <2>1. p \in Positions /\ m \in Accounts /\ HeldAs(p, m) /\ PaidAs(p, m) /\ TimedAs(p, m, at) /\ m.since # -1
    BY <1>1, LedKnows DEF Agrees
  <2>2. e[k] = p.realized /\ c[k] = p.running * p.avg /\ ~(p.running > 0 /\ m.sales > 0)
    BY <1>1 DEF Led!Earned, Led!Cost, Led!SoldInPart
  <2>3. k \notin R => p.closed = -1 \/ ~(Led!Truncate(p.closed, step) <= at)
    OBVIOUS
  <2>4. k \notin O => p.opened = -1 \/ p.opened > at \/ ~(p.closed = -1 \/ p.closed > at)
    BY <1>1, <2>1 DEF Positions
  <2> HIDE DEF p, m, e, c, R, O, S
  <2>5. p.realized \in Int /\ p.running \in Nat /\ p.avg \in Nat /\ m.sales \in Nat /\ p.closed \in Int /\ p.opened \in Int
    BY <2>1 DEF Positions, Accounts
  <2>6. p.closed \in -1..at /\ p.opened \in -1..at
    BY <2>1 DEF TimedAs
  <2>7. Led!Truncate(p.closed, step) <= at
    <3> DEFINE d == p.closed - first
               q == d \div step
    <3>1. d \in Int
      BY <1>1, <2>5
    <3>2. q \in Int /\ d % step \in 0..(step - 1) /\ d = step * q + (d % step)
      <4> HIDE DEF d
      <4> QED
        BY <1>1, <3>1, Division
    <3>3. Led!Truncate(p.closed, step) = first + q * step
      BY DEF Led!Truncate
    <3> HIDE DEF q
    <3>4. q * step = step * q /\ step * q \in Int
      BY <1>1, <3>2
    <3> DEFINE x == step * q
               rem == d % step
    <3>5. x \in Int /\ rem \in Int /\ rem >= 0 /\ p.closed - first = x + rem /\ Led!Truncate(p.closed, step) = first + x
      BY <1>1, <3>2, <3>3, <3>4
    <3> HIDE DEF x, rem
    <3> QED
      BY <1>1, <2>5, <2>6, <3>5
  <2>8. ASSUME p.closed = -1 PROVE p.realized = 0
    <3>1. ~p.isClosed
      BY <2>1, <2>8 DEF TimedAs
    <3>2. p.running # 0
      BY <2>1, <3>1 DEF HeldAs
    <3>3. m.sales = 0
      BY <2>2, <2>5, <3>2
    <3> QED
      BY <2>1, <3>3 DEF PaidAs
  <2>9. ASSUME p.running # 0 PROVE k \in O
    <3>1. m.sales = 0
      BY <2>2, <2>5, <2>9
    <3>2. p.closed = -1 /\ p.opened # -1
      BY <2>1, <2>5, <2>9, <3>1 DEF PaidAs, TimedAs
    <3> QED
      BY <1>1, <2>4, <2>5, <2>6, <3>2
  <2>10. p.running = 0 => p.running * p.avg = 0
    BY <2>5
  <2> QED
    BY <2>2, <2>3, <2>5, <2>7, <2>8, <2>9, <2>10
<1>8. R \subseteq S /\ O \subseteq S
  OBVIOUS
<1> HIDE DEF S, R, O, e, c, n, at
<1>9. SumFunctionOnSet(e, S) = SumFunctionOnSet(e, R) /\ SumFunctionOnSet(c, S) = SumFunctionOnSet(c, O)
  BY <1>1, <1>7, <1>8, SumPart
<1> QED
  BY <1>3, <1>4, <1>5, <1>6, <1>9 DEF S, c

----------------------------------------------------------------------------
(* PositionLedger: drawdowns. *)

\* The greatest of a set.
LEMMA LedMaxOf ==
  ASSUME NEW S, S \subseteq Int, NEW m \in S, \A x \in S : x <= m
  PROVE  Led!Max(S) = m
<1>1. \A y \in S : m >= y
  OBVIOUS
<1>2. \A x \in S : (\A y \in S : x >= y) => x = m
  OBVIOUS
<1> QED
  BY <1>1, <1>2 DEF Led!Max

\* A drawdown is no worse than another, as fractions.
NoWorse(d, e) == ~(e[2] > 0 /\ e[1] * d[2] > d[1] * e[2])

\* What is no worse than a drawdown is no worse than a deeper one.
LEMMA NoWorseThanWorse ==
  ASSUME NEW d \in Int \X Int, NEW e \in Int \X Int, NEW f \in Int \X Int, d[2] > 0, f[2] > 0, e[2] >= 0,
         NoWorse(d, e), f[1] * d[2] > d[1] * f[2]
  PROVE  NoWorse(f, e)
<1> SUFFICES ASSUME e[2] > 0 PROVE e[1] * f[2] <= f[1] * e[2]
  BY DEF NoWorse
<1> DEFINE d1 == d[1]
           d2 == d[2]
           e1 == e[1]
           e2 == e[2]
           f1 == f[1]
           f2 == f[2]
<1>1. /\ d1 \in Int /\ d2 \in Int /\ e1 \in Int /\ e2 \in Int /\ f1 \in Int /\ f2 \in Int
      /\ d2 > 0 /\ e2 > 0 /\ f2 > 0 /\ f1 * d2 > d1 * f2
  OBVIOUS
<1>2. e1 * d2 <= d1 * e2
  <2>1. ~(e1 * d2 > d1 * e2)
    BY DEF NoWorse
  <2>2. e1 * d2 \in Int /\ d1 * e2 \in Int
    BY <1>1
  <2> QED
    BY <2>1, <2>2
<1> HIDE DEF d1, d2, e1, e2, f1, f2
<1>3. \A a, b, c \in Int : a <= b /\ c > 0 => a * c <= b * c
  OBVIOUS
<1>4. (e1 * d2) * f2 <= (d1 * e2) * f2
  BY <1>1, <1>2, <1>3
<1>5. (d1 * f2) * e2 <= (f1 * d2) * e2
  BY <1>1, <1>3
<1>6. (e1 * f2) * d2 <= (f1 * e2) * d2
  <2>1. /\ (e1 * d2) * f2 = (e1 * f2) * d2 /\ (d1 * e2) * f2 = (d1 * f2) * e2 /\ (f1 * d2) * e2 = (f1 * e2) * d2
        /\ (e1 * f2) * d2 \in Int /\ (d1 * f2) * e2 \in Int /\ (f1 * e2) * d2 \in Int
    BY <1>1
  <2> DEFINE a == (e1 * f2) * d2
             b == (d1 * f2) * e2
             c == (f1 * e2) * d2
  <2>2. a <= b /\ b <= c /\ a \in Int /\ b \in Int /\ c \in Int
    BY <1>4, <1>5, <2>1
  <2> HIDE DEF a, b, c
  <2>3. a <= c
    BY <2>2
  <2> QED
    BY <2>3 DEF a, c
<1>7. e1 * f2 <= f1 * e2
  <2> DEFINE a == e1 * f2
             b == f1 * e2
  <2>1. a \in Int /\ b \in Int /\ a * d2 <= b * d2
    BY <1>1, <1>6
  <2> HIDE DEF a, b
  <2> SUFFICES ASSUME ~(a <= b) PROVE FALSE
    BY <2>1 DEF a, b
  <2>2. b + 1 <= a
    BY <2>1
  <2>3. (b + 1) * d2 <= a * d2
    BY <1>1, <1>3, <2>1, <2>2
  <2>4. (b + 1) * d2 = b * d2 + d2 /\ b * d2 \in Int /\ a * d2 \in Int
    BY <1>1, <2>1
  <2> DEFINE x == b * d2
             y == a * d2
  <2>5. x \in Int /\ y \in Int /\ y <= x /\ x + d2 <= y
    BY <2>1, <2>3, <2>4
  <2> HIDE DEF x, y
  <2> QED
    BY <1>1, <2>5
<1> QED
  BY <1>7 DEF e1, e2, f1, f2

\* PositionLedger: the peak of the first points of a curve, and the drawdown from it.
Tops(curve, i) == {0} \cup {curve[j] : j \in 1..i}
IsPeak(m, curve, i) == m \in Tops(curve, i) /\ \A x \in Tops(curve, i) : x <= m
Higher(m, x) == IF x <= m THEN m ELSE x
LEMMA PeakIs ==
  ASSUME NEW n \in Nat, NEW curve \in [1..n -> Int], NEW i \in 1..n, NEW m, IsPeak(m, curve, i - 1)
  PROVE  /\ Led!Max({m, curve[i]}) = Higher(m, curve[i]) /\ Higher(m, curve[i]) \in Int
         /\ Higher(m, curve[i]) >= 0 /\ IsPeak(Higher(m, curve[i]), curve, i)
         /\ Led!Drawdown(curve, i) = <<Higher(m, curve[i]) - curve[i], Higher(m, curve[i])>>
<1> DEFINE k == Higher(m, curve[i])
<1>0. m \in Tops(curve, i - 1) /\ \A x \in Tops(curve, i - 1) : x <= m
  BY DEF IsPeak
<1>1. Tops(curve, i) = Tops(curve, i - 1) \cup {curve[i]}
  <2>1. 1..i = (1..(i - 1)) \cup {i}
    OBVIOUS
  <2> QED
    BY <2>1 DEF Tops
<1>2. Tops(curve, i - 1) \subseteq Int /\ 0 \in Tops(curve, i - 1) /\ curve[i] \in Int
  BY DEF Tops
<1>3. /\ k \in Tops(curve, i) /\ k \in Int /\ k >= 0
      /\ \A x \in Tops(curve, i) : x <= k
      /\ k \in {m, curve[i]} /\ \A x \in {m, curve[i]} : x <= k
  BY <1>0, <1>1, <1>2 DEF Higher
<1> HIDE DEF k
<1>4. Led!Max({m, curve[i]}) = k
  <2>1. {m, curve[i]} \subseteq Int
    BY <1>0, <1>2
  <2> QED
    BY <1>3, <2>1, LedMaxOf
<1>5. Led!Max(Tops(curve, i)) = k
  <2>1. Tops(curve, i) \subseteq Int
    BY <1>1, <1>2
  <2> QED
    BY <1>3, <2>1, LedMaxOf
<1>6. Led!Drawdown(curve, i) = <<Led!Max(Tops(curve, i)) - curve[i], Led!Max(Tops(curve, i))>>
  BY DEF Led!Drawdown, Tops
<1>7. /\ Led!Max({m, curve[i]}) = k /\ k \in Int /\ k >= 0 /\ IsPeak(k, curve, i)
      /\ Led!Drawdown(curve, i) = <<k - curve[i], k>>
  BY <1>3, <1>4, <1>5, <1>6 DEF IsPeak
<1> QED
  BY <1>7 DEF k

\* PositionLedger: what MaxDrawdown keeps while it adds the results up.
Runs == [equity : Int, peak : Int, worst : Int \X Int]
RunStart == [equity |-> 0, peak |-> 0, worst |-> <<0, 1>>]
RunStep(last, pnl) ==
  LET equity == last.equity + pnl
      peak   == Led!Max({last.peak, equity})
  IN [equity |-> equity, peak |-> peak, worst |-> Led!Worse(last.worst, <<peak - equity, peak>>)]
RunBody(g, pnls) == [i \in 0..Len(pnls) |-> IF i = 0 THEN RunStart ELSE RunStep(g[i - 1], pnls[i])]
TheRun(pnls) == CHOOSE run : run = RunBody(run, pnls)

\* Every step stays among the runs.
LEMMA RunStepIs ==
  ASSUME NEW last \in Runs, NEW pnl \in Int
  PROVE  RunStep(last, pnl) \in Runs
<1> DEFINE equity == last.equity + pnl
           peak == Led!Max({last.peak, equity})
           worst == Led!Worse(last.worst, <<peak - equity, peak>>)
<1>1. equity \in Int /\ last.peak \in Int /\ last.worst \in Int \X Int
  BY DEF Runs
<1>2. peak \in Int
  <2>1. CASE equity <= last.peak
    <3>1. last.peak \in {last.peak, equity} /\ \A x \in {last.peak, equity} : x <= last.peak
      BY <1>1, <2>1
    <3>2. {last.peak, equity} \subseteq Int
      BY <1>1
    <3> HIDE DEF equity
    <3> QED
      BY <1>1, <3>1, <3>2, LedMaxOf
  <2>2. CASE ~(equity <= last.peak)
    <3>1. equity \in {last.peak, equity} /\ \A x \in {last.peak, equity} : x <= equity
      BY <1>1, <2>2
    <3>2. {last.peak, equity} \subseteq Int
      BY <1>1
    <3> HIDE DEF equity
    <3> QED
      BY <1>1, <3>1, <3>2, LedMaxOf
  <2> QED
    BY <2>1, <2>2
<1>3. worst \in Int \X Int
  <2> HIDE DEF equity, peak
  <2>1. <<peak - equity, peak>> \in Int \X Int
    BY <1>1, <1>2
  <2> QED
    BY <1>1, <2>1 DEF Led!Worse
<1>4. RunStep(last, pnl) = [equity |-> equity, peak |-> peak, worst |-> worst]
  BY DEF RunStep
<1> HIDE DEF equity, peak, worst
<1> QED
  BY <1>1, <1>2, <1>3, <1>4 DEF Runs

\* MaxDrawdown is the end of the run.
LEMMA MaxDrawdownIs ==
  ASSUME NEW n \in Nat, NEW pnls \in [1..n -> Int]
  PROVE  /\ Led!MaxDrawdown(pnls) = TheRun(pnls)[n].worst
         /\ TheRun(pnls)[0] = RunStart
         /\ \A i \in 1..n : TheRun(pnls)[i] = RunStep(TheRun(pnls)[i - 1], pnls[i])
<1>1. Len(pnls) = n
  OBVIOUS
<1>2. Led!MaxDrawdown(pnls) = TheRun(pnls)[Len(pnls)].worst
  BY DEF Led!MaxDrawdown, TheRun, RunBody, RunStart, RunStep
<1>3. RunStart \in Runs
  BY DEF RunStart, Runs
<1> DEFINE step == [x \in (1..n) \X Runs |-> RunStep(x[2], pnls[x[1]])]
<1>4. step \in [(1..n) \X Runs -> Runs]
  <2> SUFFICES ASSUME NEW x \in (1..n) \X Runs PROVE RunStep(x[2], pnls[x[1]]) \in Runs
    OBVIOUS
  <2>1. x[2] \in Runs /\ pnls[x[1]] \in Int
    OBVIOUS
  <2> QED
    BY <2>1, RunStepIs
<1>5. PICK g \in [0..n -> Runs] : g[0] = RunStart /\ \A i \in 1..n : g[i] = step[<<i, g[i - 1]>>]
  <2> HIDE DEF step
  <2>1. \E g \in [0..n -> Runs] : Iterated(g, n, RunStart, step)
    BY <1>3, <1>4, Iterates
  <2> QED
    BY <2>1 DEF Iterated
<1>6. ASSUME NEW i \in 1..n PROVE g[i] = RunStep(g[i - 1], pnls[i])
  <2>1. i - 1 \in 0..n /\ g[i - 1] \in Runs
    BY <1>5
  <2>2. <<i, g[i - 1]>> \in (1..n) \X Runs
    BY <2>1
  <2>3. step[<<i, g[i - 1]>>] = RunStep(g[i - 1], pnls[i])
    BY <2>2
  <2> QED
    BY <1>5, <2>3
<1>7. g = RunBody(g, pnls)
  <2>1. RunBody(g, pnls) = [i \in 0..n |-> IF i = 0 THEN RunStart ELSE RunStep(g[i - 1], pnls[i])]
    BY <1>1 DEF RunBody
  <2>2. \A i \in 0..n : g[i] = IF i = 0 THEN RunStart ELSE RunStep(g[i - 1], pnls[i])
    BY <1>5, <1>6
  <2> HIDE DEF step
  <2> QED
    BY <2>1, <2>2
<1>8. TheRun(pnls) = RunBody(TheRun(pnls), pnls)
  BY <1>7 DEF TheRun
<1> HIDE DEF step
<1> DEFINE h == TheRun(pnls)
<1>9. h = [i \in 0..n |-> IF i = 0 THEN RunStart ELSE RunStep(h[i - 1], pnls[i])]
  BY <1>1, <1>8 DEF RunBody
<1> HIDE DEF h
<1>10. h[0] = RunStart /\ \A i \in 1..n : h[i] = RunStep(h[i - 1], pnls[i])
  BY <1>9
<1> QED
  BY <1>1, <1>2, <1>10 DEF h

\* Adding up what each point adds to the one before gives the curve, its peaks and its deepest drawdown.
RunAt(s, curve, i) ==
  /\ s \in Runs /\ s.equity = (IF i = 0 THEN 0 ELSE curve[i])
  /\ s.peak \in Tops(curve, i) /\ \A x \in Tops(curve, i) : x <= s.peak
  /\ s.worst[2] > 0
  /\ \A j \in 1..i : NoWorse(s.worst, Led!Drawdown(curve, j))
  /\ s.worst = <<0, 1>> \/ \E j \in 1..i : s.worst = Led!Drawdown(curve, j)

\* One more point.
LEMMA RunFollows ==
  ASSUME NEW n \in Nat, NEW curve \in [1..n -> Int], NEW i \in 1..n, NEW s, RunAt(s, curve, i - 1),
         NEW v \in Int, v = curve[i] - (IF i = 1 THEN 0 ELSE curve[i - 1]),
         \A j \in 1..n : Led!Drawdown(curve, j) \in Int \X Int /\ Led!Drawdown(curve, j)[2] >= 0
  PROVE  RunAt(RunStep(s, v), curve, i)
<1> DEFINE c == curve[i]
           m == s.peak
           k == Higher(m, c)
           e == Led!Drawdown(curve, i)
           w == Led!Worse(s.worst, e)
<1>1. s \in Runs /\ s.equity + v = c /\ c \in Int /\ m \in Int /\ s.worst \in Int \X Int
  <2>1. s \in Runs /\ s.equity = (IF i - 1 = 0 THEN 0 ELSE curve[i - 1])
    BY DEF RunAt
  <2>2. m \in Int /\ s.worst \in Int \X Int
    BY <2>1 DEF Runs
  <2>3. c \in Int
    OBVIOUS
  <2>4. s.equity + v = c
    <3>1. CASE i = 1
      BY <2>1, <2>3, <3>1
    <3>2. CASE i # 1
      <4> DEFINE x == curve[i - 1]
      <4>1. x \in Int /\ s.equity = x /\ v = c - x
        BY <2>1, <3>2
      <4> HIDE DEF x, c
      <4> QED
        BY <2>3, <4>1
    <3> QED
      BY <3>1, <3>2
  <2> QED
    BY <2>1, <2>2, <2>3, <2>4
<1>2. /\ Led!Max({m, c}) = k /\ k \in Int /\ k >= 0 /\ k \in Tops(curve, i) /\ \A x \in Tops(curve, i) : x <= k
      /\ e = <<k - c, k>>
  <2>1. IsPeak(m, curve, i - 1)
    BY DEF RunAt, IsPeak
  <2> HIDE DEF m
  <2>2. /\ Led!Max({m, curve[i]}) = k /\ k \in Int /\ k >= 0 /\ IsPeak(k, curve, i)
        /\ Led!Drawdown(curve, i) = <<k - curve[i], k>>
    BY <2>1, PeakIs
  <2> QED
    BY <2>2 DEF IsPeak
<1> HIDE DEF k, c
<1>3. RunStep(s, v) = [equity |-> c, peak |-> k, worst |-> w]
  BY <1>1, <1>2 DEF RunStep
<1>4. e \in Int \X Int /\ e[2] >= 0
  OBVIOUS
<1> HIDE DEF e
<1>5. w \in Int \X Int /\ w[2] > 0
  BY <1>1, <1>4 DEF Led!Worse, RunAt
<1>6. NoWorse(w, e)
  <2>1. CASE e[2] > 0 /\ e[1] * s.worst[2] > s.worst[1] * e[2]
    <3>1. w = e
      BY <2>1 DEF Led!Worse
    <3>2. e[1] * e[2] \in Int
      BY <1>4
    <3>3. ~(e[1] * e[2] > e[1] * e[2])
      BY <3>2
    <3> QED
      BY <3>1, <3>3 DEF NoWorse
  <2>2. CASE ~(e[2] > 0 /\ e[1] * s.worst[2] > s.worst[1] * e[2])
    BY <2>2 DEF Led!Worse, NoWorse
  <2> QED
    BY <2>1, <2>2
<1>7. ASSUME NEW j \in 1..(i - 1) PROVE NoWorse(w, Led!Drawdown(curve, j))
  <2> DEFINE f == Led!Drawdown(curve, j)
  <2>1. f \in Int \X Int /\ f[2] >= 0 /\ NoWorse(s.worst, f) /\ s.worst[2] > 0
    BY DEF RunAt
  <2> HIDE DEF f
  <2>2. CASE e[2] > 0 /\ e[1] * s.worst[2] > s.worst[1] * e[2]
    <3>1. w = e
      BY <2>2 DEF Led!Worse
    <3>2. NoWorse(e, f)
      BY <1>1, <1>4, <2>1, <2>2, NoWorseThanWorse
    <3> QED
      BY <3>1, <3>2 DEF f
  <2>3. CASE ~(e[2] > 0 /\ e[1] * s.worst[2] > s.worst[1] * e[2])
    <3>1. w = s.worst
      BY <2>3 DEF Led!Worse
    <3> QED
      BY <2>1, <3>1 DEF f
  <2> QED
    BY <2>2, <2>3
<1>8. \A j \in 1..i : NoWorse(w, Led!Drawdown(curve, j))
  <2> SUFFICES ASSUME NEW j \in 1..i PROVE NoWorse(w, Led!Drawdown(curve, j))
    OBVIOUS
  <2>1. j = i \/ j \in 1..(i - 1)
    OBVIOUS
  <2> QED
    BY <1>6, <1>7, <2>1 DEF e
<1>9. w = <<0, 1>> \/ \E j \in 1..i : w = Led!Drawdown(curve, j)
  <2>1. w = e \/ w = s.worst
    BY DEF Led!Worse
  <2>2. CASE w = e
    BY <2>2 DEF e
  <2>3. CASE w = s.worst
    <3>1. s.worst = <<0, 1>> \/ \E j \in 1..(i - 1) : s.worst = Led!Drawdown(curve, j)
      BY DEF RunAt
    <3>2. \A j \in 1..(i - 1) : j \in 1..i
      OBVIOUS
    <3> QED
      BY <2>3, <3>1, <3>2
  <2> QED
    BY <2>1, <2>2, <2>3
<1> HIDE DEF w, m
<1> DEFINE r == RunStep(s, v)
<1>10. r \in Runs /\ r.equity = c /\ r.peak = k /\ r.worst = w
  <2> DEFINE P == Int \X Int
  <2>1. w \in P /\ Runs = [equity : Int, peak : Int, worst : P] /\ r = [equity |-> c, peak |-> k, worst |-> w]
    BY <1>3, <1>5 DEF Runs
  <2> HIDE DEF P, r
  <2> QED
    BY <1>1, <1>2, <2>1
<1> HIDE DEF r
<1>11. r.equity = (IF i = 0 THEN 0 ELSE curve[i])
  BY <1>10 DEF c
<1>12. r.peak \in Tops(curve, i) /\ \A x \in Tops(curve, i) : x <= r.peak
  BY <1>2, <1>10
<1>13. /\ r.worst[2] > 0 /\ \A j \in 1..i : NoWorse(r.worst, Led!Drawdown(curve, j))
       /\ r.worst = <<0, 1>> \/ \E j \in 1..i : r.worst = Led!Drawdown(curve, j)
  BY <1>5, <1>8, <1>9, <1>10
<1>14. RunAt(r, curve, i)
  BY <1>10, <1>11, <1>12, <1>13, Zenon DEF RunAt
<1> QED
  BY <1>14 DEF r

\* The greatest drawdown from the daily results is the deepest of the curve's points.
LEMMA DeepestIs ==
  ASSUME NEW n \in Nat, NEW curve \in [1..n -> Int], NEW worst, worst = Led!MaxDrawdown(Led!DailyPnl(curve))
  PROVE  /\ \A i \in 1..n : Led!Worse(worst, Led!Drawdown(curve, i)) = worst
         /\ worst = <<0, 1>> \/ \E i \in 1..n : worst = Led!Drawdown(curve, i)
<1> DEFINE pnls == Led!DailyPnl(curve)
           run == TheRun(pnls)
           G == {i \in 0..n : RunAt(run[i], curve, i)}
<1>1. pnls = [i \in 1..n |-> curve[i] - (IF i = 1 THEN 0 ELSE curve[i - 1])]
  BY DEF Led!DailyPnl
<1>2. ASSUME NEW i \in 1..n PROVE pnls[i] \in Int /\ pnls[i] = curve[i] - (IF i = 1 THEN 0 ELSE curve[i - 1])
  <2>1. i = 1 \/ i - 1 \in 1..n
    OBVIOUS
  <2> QED
    BY <1>1, <2>1
<1>3. pnls \in [1..n -> Int]
  BY <1>1, <1>2
<1> HIDE DEF pnls
<1>4. /\ Led!MaxDrawdown(pnls) = run[n].worst /\ run[0] = RunStart
      /\ \A i \in 1..n : run[i] = RunStep(run[i - 1], pnls[i])
  BY <1>3, MaxDrawdownIs
<1> HIDE DEF run
<1>5. 0 \in G
  <2>1. Tops(curve, 0) = {0}
    BY DEF Tops
  <2> QED
    BY <1>4, <2>1 DEF RunAt, RunStart, Runs
<1>6. ASSUME NEW i \in 1..n PROVE Led!Drawdown(curve, i) \in Int \X Int /\ Led!Drawdown(curve, i)[2] >= 0
  <2>1. IsFiniteSet(Tops(curve, i)) /\ Tops(curve, i) \subseteq Int /\ 0 \in Tops(curve, i)
    <3> DEFINE S == 1..i
               V == {curve[j] : j \in S}
    <3>1. IsFiniteSet(S)
      BY FS_Interval
    <3>2. [j \in S |-> curve[j]] \in Surjection(S, V)
      BY DEF Surjection
    <3>3. IsFiniteSet(V)
      <4> HIDE DEF S, V
      <4> QED
        BY <3>1, <3>2, FS_Surjection
    <3>4. IsFiniteSet({0})
      BY FS_Singleton
    <3>5. IsFiniteSet({0} \cup V)
      <4> HIDE DEF V
      <4> QED
        BY <3>3, <3>4, FS_Union
    <3>6. V \subseteq Int
      OBVIOUS
    <3> QED
      BY <3>5, <3>6 DEF Tops
  <2>2. PICK m \in Tops(curve, i) : \A x \in Tops(curve, i) : x <= m
    BY <2>1, HasGreatest
  <2>3. Led!Max(Tops(curve, i)) = m /\ m >= 0 /\ m \in Int
    BY <2>1, <2>2, LedMaxOf
  <2>4. Led!Drawdown(curve, i) = <<Led!Max(Tops(curve, i)) - curve[i], Led!Max(Tops(curve, i))>>
    BY DEF Led!Drawdown, Tops
  <2> QED
    BY <2>3, <2>4
<1>7. ASSUME NEW i \in 0..n, i < n, i \in G PROVE i + 1 \in G
  <2> DEFINE k == i + 1
  <2>1. k \in 1..n /\ k - 1 = i
    BY <1>7
  <2>2. RunAt(run[i], curve, i)
    BY <1>7
  <2>3. run[k] = RunStep(run[i], pnls[k])
    BY <1>4, <2>1
  <2> HIDE DEF k
  <2>4. RunAt(RunStep(run[i], pnls[k]), curve, k)
    BY <1>2, <1>6, <2>1, <2>2, RunFollows
  <2> QED
    BY <2>1, <2>3, <2>4 DEF k
<1>8. n \in G
  <2>1. 0..n \subseteq G
    <3> HIDE DEF G
    <3> QED
      BY <1>5, <1>7, UpTo
  <2> QED
    BY <2>1
<1>9. RunAt(run[n], curve, n) /\ worst = run[n].worst
  BY <1>4, <1>8 DEF pnls
<1>10. ASSUME NEW i \in 1..n PROVE Led!Worse(worst, Led!Drawdown(curve, i)) = worst
  <2>1. NoWorse(worst, Led!Drawdown(curve, i))
    BY <1>9 DEF RunAt
  <2> QED
    BY <2>1 DEF NoWorse, Led!Worse
<1> QED
  BY <1>9, <1>10 DEF RunAt

\* The curve of a ledger is a sequence of numbers.
LEMMA EquityIs ==
  ASSUME LedInv, NEW step \in Nat \ {0}
  PROVE  /\ (ledgerNow - first) \div step + 1 \in Nat \ {0}
         /\ Led!Equity(step) \in [1..((ledgerNow - first) \div step + 1) -> Int]
<1>1. (ledgerNow - first) \div step \in Nat
  <2>1. ledgerNow - first \in Nat
    BY LedKnows
  <2> DEFINE d == ledgerNow - first
  <2> HIDE DEF d
  <2>2. d \in Int /\ d \in Nat
    BY <2>1 DEF d
  <2>3. d \div step \in Nat
    BY <2>1, <2>2, Division
  <2> QED
    BY <2>3 DEF d
<1>2. ASSUME NEW k \in Tokens PROVE Led!Earned[k] \in Int /\ Led!Cost[k] \in Int
  <2>1. book[k] \in Positions
    BY LedKnows
  <2>2. book[k].realized \in Int /\ book[k].running \in Nat /\ book[k].avg \in Nat
    BY <2>1 DEF Positions
  <2> QED
    BY <2>2 DEF Led!Earned, Led!Cost
<1>3. ASSUME NEW S \in SUBSET Led!Traded
      PROVE  Led!SumFunctionOnSet(Led!Earned, S) \in Int /\ Led!SumFunctionOnSet(Led!Cost, S) \in Int
  <2>1. IsFiniteSet(S) /\ S \subseteq Tokens
    BY LedKnows, FS_Subset
  <2> QED
    BY <1>2, <2>1, LedSum, SumType
<1>4. ASSUME NEW ts PROVE Led!Realized(ts, step) \in Int /\ Led!OpenValue(ts) \in Int
  BY <1>3 DEF Led!Realized, Led!OpenValue
<1> QED
  BY <1>1, <1>4 DEF Led!Equity

\* The drawdown of the figures is that of the curve.
LEMMA LedDrawdowns == LedInv => Led!DrawdownsAgree
<1> SUFFICES ASSUME LedInv, NEW step \in Steps
             PROVE  LET curve == Led!Equity(step)
                        worst == Led!MaxDrawdown(Led!DailyPnl(curve))
                    IN /\ \A i \in DOMAIN curve : Led!Worse(worst, Led!Drawdown(curve, i)) = worst
                       /\ worst = <<0, 1>> \/ \E i \in DOMAIN curve : worst = Led!Drawdown(curve, i)
  BY DEF Led!DrawdownsAgree
<1> DEFINE n == (ledgerNow - first) \div step + 1
           curve == Led!Equity(step)
           worst == Led!MaxDrawdown(Led!DailyPnl(curve))
<1>0. step \in Nat \ {0}
  BY LedgerAssumption
<1>1. n \in Nat /\ curve \in [1..n -> Int] /\ DOMAIN curve = 1..n
  BY <1>0, EquityIs
<1> HIDE DEF n, curve
<1>2. /\ \A i \in 1..n : Led!Worse(worst, Led!Drawdown(curve, i)) = worst
      /\ worst = <<0, 1>> \/ \E i \in 1..n : worst = Led!Drawdown(curve, i)
  BY <1>1, DeepestIs
<1> QED
  BY <1>1, <1>2 DEF curve

----------------------------------------------------------------------------
(* PositionLedger: samples and days of a curve. *)

\* A function on 1..n is a sequence.
LEMMA IsSeq ==
  ASSUME NEW S, NEW n \in Nat, NEW s \in [1..n -> S]
  PROVE  s \in Seq(S) /\ Len(s) = n
<1>1. Len(s) = n
  OBVIOUS
<1>2. s \in UNION {[1..m -> S] : m \in Nat}
  OBVIOUS
<1> QED
  BY <1>1, <1>2, SeqDef

\* Quotients by the same number follow the numbers.
LEMMA QuotientsFollow ==
  ASSUME NEW a \in Int, NEW b \in Int, NEW d \in Nat \ {0}
  PROVE  /\ a <= b => a \div d <= b \div d
         /\ a + d <= b => a \div d < b \div d
         /\ (a \div d) * d <= a
         /\ \A c \in Int : a < d * c => a \div d < c
<1> DEFINE p == a \div d
           q == b \div d
           r == a % d
           s == b % d
<1>1. /\ p \in Int /\ q \in Int /\ r \in 0..(d - 1) /\ s \in 0..(d - 1) /\ a = d * p + r /\ b = d * q + s
  BY Division
<1> HIDE DEF p, q, r, s
<1>2. \A u, v \in Int : u <= v => d * u <= d * v
  OBVIOUS
<1>3. \A u, v \in Int : d * u \in Int /\ d * (u + 1) = d * u + d /\ u * d = d * u
  OBVIOUS
<1>4. ASSUME a <= b PROVE p <= q
  <2> SUFFICES ASSUME q + 1 <= p PROVE FALSE
    BY <1>1
  <2>1. d * q + d <= d * p
    BY <1>1, <1>2, <1>3
  <2> DEFINE x == d * p
             y == d * q
  <2>2. x \in Int /\ y \in Int /\ y + d <= x /\ a = x + r /\ b = y + s
    BY <1>1, <1>3, <2>1
  <2> HIDE DEF x, y
  <2> QED
    BY <1>1, <1>4, <2>2
<1>5. ASSUME a + d <= b PROVE p < q
  <2> SUFFICES ASSUME q <= p PROVE FALSE
    BY <1>1
  <2>1. d * q <= d * p
    BY <1>1, <1>2
  <2> DEFINE x == d * p
             y == d * q
  <2>2. x \in Int /\ y \in Int /\ y <= x /\ a = x + r /\ b = y + s
    BY <1>1, <1>3, <2>1
  <2> HIDE DEF x, y
  <2> QED
    BY <1>1, <1>5, <2>2
<1>6. p * d <= a
  <2> DEFINE x == d * p
  <2>1. x \in Int /\ p * d = x /\ a = x + r
    BY <1>1, <1>3
  <2> HIDE DEF x
  <2> QED
    BY <1>1, <2>1
<1>7. ASSUME NEW c \in Int, a < d * c PROVE p < c
  <2> SUFFICES ASSUME c <= p PROVE FALSE
    BY <1>1
  <2>1. d * c <= d * p
    BY <1>1, <1>2
  <2> DEFINE x == d * p
             y == d * c
  <2>2. x \in Int /\ y \in Int /\ y <= x /\ a = x + r /\ a < y
    BY <1>1, <1>3, <1>7, <2>1
  <2> HIDE DEF x, y
  <2> QED
    BY <1>1, <2>2
<1> QED
  BY <1>4, <1>5, <1>6, <1>7 DEF p, q

\* A sparkline keeps both ends and shows no point twice.
Spread(n, max) ==
  LET s == Led!Sparkline(n, max) IN s[1] = 1 /\ s[Len(s)] = n /\ \A i \in 1..Len(s) - 1 : s[i] < s[i + 1]
LEMMA Spreads == ASSUME NEW n \in Nat \ {0}, NEW max \in Nat \ {0} PROVE Spread(n, max)
<1> DEFINE s == Led!Sparkline(n, max)
<1>1. CASE n <= max
  <2>1. s = [i \in 1..n |-> i]
    BY <1>1 DEF Led!Sparkline
  <2> HIDE DEF s
  <2>2. Len(s) = n
    BY <2>1
  <2> QED
    BY <2>1, <2>2 DEF s, Spread
<1>2. CASE ~(n <= max)
  <2> DEFINE f == [i \in 1..max |-> ((i - 1) * n) \div max + 1]
  <2>1. s = Append(f, n)
    BY <1>2 DEF Led!Sparkline
  <2>2. ASSUME NEW i \in 1..max PROVE (i - 1) * n \in Nat /\ f[i] \in Int /\ f[i] = ((i - 1) * n) \div max + 1
    <3>1. (i - 1) * n \in Nat
      BY <2>2
    <3>2. ((i - 1) * n) \div max \in Int
      <4> DEFINE x == (i - 1) * n
      <4>1. x \in Int
        BY <3>1
      <4> HIDE DEF x
      <4>2. x \div max \in Int
        BY <4>1, Division
      <4> QED
        BY <4>2 DEF x
    <3> QED
      BY <3>1, <3>2
  <2>3. f \in [1..max -> Int]
    BY <2>2
  <2> HIDE DEF f, s
  <2>4. f \in Seq(Int) /\ Len(f) = max /\ max \in Nat /\ n \in Int
    BY <2>3, IsSeq
  <2>5. Len(s) = max + 1 /\ (\A i \in 1..max : s[i] = f[i]) /\ s[max + 1] = n
    <3>1. Len(Append(f, n)) = Len(f) + 1 /\ (\A i \in 1..Len(f) : Append(f, n)[i] = f[i]) /\ Append(f, n)[Len(f) + 1] = n
      BY <2>4, AppendProperties
    <3> QED
      BY <2>1, <2>4, <3>1
  <2>6. s[1] = 1
    <3>1. 1 \in 1..max /\ (1 - 1) * n = 0
      OBVIOUS
    <3> DEFINE x == (1 - 1) * n
    <3>2. f[1] = x \div max + 1 /\ x = 0
      BY <2>2, <3>1
    <3> HIDE DEF x
    <3>3. 0 \div max = 0
      OBVIOUS
    <3> QED
      BY <2>5, <3>1, <3>2, <3>3
  <2>7. ASSUME NEW i \in 1..max, i < max PROVE s[i] < s[i + 1]
    <3> DEFINE x == (i - 1) * n
               j == i + 1
               y == (j - 1) * n
    <3>1. j \in 1..max /\ y = x + n /\ x \in Int /\ y \in Int
      BY <2>7
    <3>2. f[i] = x \div max + 1 /\ f[j] = y \div max + 1 /\ f[i] \in Int /\ f[j] \in Int
      BY <2>2, <3>1
    <3>3. s[i] = f[i] /\ s[j] = f[j] /\ x + max <= y
      BY <1>2, <2>5, <3>1
    <3> HIDE DEF x, y, j
    <3>4. x \div max < y \div max /\ x \div max \in Int /\ y \div max \in Int
      BY <3>1, <3>3, QuotientsFollow, Division
    <3>5. s[i] < s[j]
      BY <3>2, <3>3, <3>4
    <3> QED
      BY <3>5 DEF j
  <2>8. s[max] < n
    <3> DEFINE x == (max - 1) * n
               c == n - 1
               y == max * c
    <3>1. x \in Int /\ y \in Int /\ c \in Int
      OBVIOUS
    <3>2. x = max * n - n /\ y = max * n - max
      OBVIOUS
    <3>3. x < y
      <4> DEFINE z == max * n
      <4>1. z \in Int /\ x = z - n /\ y = z - max
        BY <3>2
      <4> HIDE DEF x, y, z
      <4> QED
        BY <1>2, <4>1
    <3>4. s[max] = x \div max + 1
      BY <2>2, <2>5
    <3> HIDE DEF x
    <3>5. x < max * c
      BY <3>3
    <3> HIDE DEF y, c
    <3>6. x \div max < c /\ x \div max \in Int
      BY <3>1, <3>5, QuotientsFollow, Division
    <3> QED
      BY <3>1, <3>4, <3>6 DEF c
  <2>9. ASSUME NEW i \in 1..Len(s) - 1 PROVE s[i] < s[i + 1]
    <3>1. i \in 1..max
      BY <2>5
    <3>2. CASE i < max
      BY <2>7, <3>1, <3>2
    <3>3. CASE i = max
      BY <2>5, <2>8, <3>3
    <3> QED
      BY <3>1, <3>2, <3>3
  <2> QED
    BY <2>5, <2>6, <2>9 DEF s, Spread
<1> QED
  BY <1>1, <1>2

LEMMA LedSamples == Led!SamplesAreKept
<1>1. ASSUME NEW n \in 1..2 * LedgerTrades, NEW max \in 1..LedgerTrades PROVE Spread(n, max)
  <2>1. n \in Nat \ {0} /\ max \in Nat \ {0}
    BY LedgerAssumption
  <2> QED
    BY <2>1, Spreads
<1> QED
  BY <1>1 DEF Led!SamplesAreKept, Spread

\* Sampled points, and sequences of them that go forward in time.
Points == [ts : Int, equity : Int]
Goes(s) == s \in Seq(Points) /\ \A i, j \in 1..Len(s) : i < j => s[i].ts < s[j].ts

\* The ledger counts as everyone does.
LEMMA LedCardinality == \A S : Led!Cardinality(S) = Cardinality(S)
BY DEF Cardinality, Led!Cardinality

\* The ascending enumeration of the ledger enumerates.
LEMMA LedAscending ==
  ASSUME NEW S, IsFiniteSet(S), S \subseteq Int
  PROVE  Rises(Led!Ascending(S), S)
<1>1. PICK s : Rises(s, S)
  BY HasRising
<1>2. s \in [1..Cardinality(S) -> S] /\ \A i, j \in DOMAIN s : i < j => s[i] < s[j]
  BY <1>1 DEF Rises
<1>3. Led!Ascending(S) = CHOOSE r \in [1..Cardinality(S) -> S] : \A i, j \in DOMAIN r : i < j => r[i] < r[j]
  BY LedCardinality DEF Led!Ascending
<1> HIDE DEF Rises
<1>4. /\ Led!Ascending(S) \in [1..Cardinality(S) -> S]
      /\ \A i, j \in DOMAIN Led!Ascending(S) : i < j => Led!Ascending(S)[i] < Led!Ascending(S)[j]
  BY <1>2, <1>3, Zenon
<1> QED
  BY <1>4 DEF Rises

\* The days of finitely many points.
LEMMA DaysAre ==
  ASSUME NEW points \in Seq(Points), NEW day \in Nat \ {0}
  PROVE  /\ IsFiniteSet(Led!Days(points, day)) /\ Led!Days(points, day) \subseteq Int
         /\ Led!ToSet(points) = {points[i] : i \in 1..Len(points)} /\ Led!ToSet(points) \subseteq Points
         /\ IsFiniteSet(Led!ToSet(points))
         /\ \A p \in Led!ToSet(points) : p.ts \div day \in Led!Days(points, day)
<1> DEFINE I == 1..Len(points)
           P == {points[i] : i \in I}
           D == {p.ts \div day : p \in P}
<1>1. DOMAIN points = I /\ IsFiniteSet(I) /\ \A i \in I : points[i] \in Points
  BY FS_Interval, LenProperties
<1>2. Led!ToSet(points) = P /\ Led!Days(points, day) = D
  BY <1>1 DEF Led!ToSet, Led!Days
<1>3. P \subseteq Points
  BY <1>1
<1>4. IsFiniteSet(P)
  <2>1. [i \in I |-> points[i]] \in Surjection(I, P)
    BY DEF Surjection
  <2> HIDE DEF I, P
  <2> QED
    BY <1>1, <2>1, FS_Surjection
<1>5. IsFiniteSet(D)
  <2> HIDE DEF P
  <2>1. [p \in P |-> p.ts \div day] \in Surjection(P, D)
    BY DEF Surjection
  <2> HIDE DEF D
  <2> QED
    BY <1>4, <2>1, FS_Surjection
<1>6. D \subseteq Int
  <2> SUFFICES ASSUME NEW p \in P PROVE p.ts \div day \in Int
    OBVIOUS
  <2> DEFINE t == p.ts
  <2>1. t \in Int
    BY <1>3 DEF Points
  <2> HIDE DEF t
  <2>2. t \div day \in Int
    BY <2>1, Division
  <2> QED
    BY <2>2 DEF t
<1>7. \A p \in P : p.ts \div day \in D
  OBVIOUS
<1> QED
  BY <1>2, <1>3, <1>4, <1>5, <1>6, <1>7

\* One point of each day goes forward in time, whichever it is, and is stamped no later than some
\* point of its day.
NoLater(s, points) == \A i \in 1..Len(s) : \E p \in Led!ToSet(points) : s[i].ts <= p.ts
LEMMA ByDayGoes ==
  ASSUME NEW points \in Seq(Points), NEW day \in Nat \ {0}, NEW pick \in Led!Picks(points, day)
  PROVE  Goes(Led!ByDay(points, day, pick)) /\ NoLater(Led!ByDay(points, day, pick), points)
<1> DEFINE D == Led!Days(points, day)
           P == Led!ToSet(points)
           days == Led!Ascending(D)
           n == Cardinality(D)
           at(i) == [ts |-> days[i] * day, equity |-> pick[days[i]].equity]
           s == Led!ByDay(points, day, pick)
<1>1. pick \in [D -> P] /\ \A d \in D : pick[d].ts \div day = d
  BY DEF Led!Picks
<1>2. IsFiniteSet(D) /\ D \subseteq Int /\ P \subseteq Points /\ n \in Nat
  BY DaysAre, FS_CardinalityType
<1>3. Rises(days, D)
  BY <1>2, LedAscending
<1>4. days \in [1..n -> D] /\ \A i, j \in 1..n : i < j => days[i] < days[j]
  BY <1>3 DEF Rises
<1>5. s = [i \in 1..n |-> at(i)]
  BY <1>4 DEF Led!ByDay
<1> HIDE DEF D, P, days, n, s
<1>6. ASSUME NEW i \in 1..n
      PROVE  /\ days[i] \in Int /\ at(i) \in Points /\ s[i].ts = days[i] * day
             /\ \E p \in P : s[i].ts <= p.ts
  <2>1. days[i] \in D /\ pick[days[i]] \in P /\ pick[days[i]].ts \div day = days[i]
    BY <1>1, <1>4
  <2>2. days[i] \in Int /\ pick[days[i]] \in Points
    BY <1>2, <2>1
  <2> DEFINE t == pick[days[i]].ts
             e == pick[days[i]].equity
             x == days[i]
  <2>3. t \in Int /\ e \in Int /\ x \in Int /\ t \div day = x
    BY <2>1, <2>2 DEF Points
  <2>4. s[i].ts = x * day /\ at(i) = [ts |-> x * day, equity |-> e]
    BY <1>5
  <2> HIDE DEF t, e, x
  <2>5. (t \div day) * day <= t
    BY <2>3, QuotientsFollow
  <2>6. x * day <= t /\ x * day \in Int
    BY <2>3, <2>5
  <2>7. at(i) \in Points
    BY <2>3, <2>4, <2>6 DEF Points
  <2> QED
    BY <2>1, <2>2, <2>4, <2>6, <2>7 DEF t, x
<1>7. s \in [1..n -> Points]
  BY <1>5, <1>6
<1>8. s \in Seq(Points) /\ Len(s) = n
  BY <1>2, <1>7, IsSeq
<1>9. ASSUME NEW i \in 1..n, NEW j \in 1..n, i < j PROVE s[i].ts < s[j].ts
  <2> DEFINE x == days[i]
             y == days[j]
  <2>1. x \in Int /\ y \in Int /\ x < y /\ s[i].ts = x * day /\ s[j].ts = y * day
    BY <1>4, <1>6, <1>9
  <2> HIDE DEF x, y
  <2>2. x * day < y * day
    BY <2>1
  <2> QED
    BY <2>1, <2>2
<1>10. Goes(s)
  BY <1>8, <1>9 DEF Goes
<1>11. NoLater(s, points)
  BY <1>6, <1>8 DEF NoLater, P
<1> QED
  BY <1>10, <1>11 DEF s

\* Points that are kept go forward in time, and the last stays the last.
LEMMA KeptGoes ==
  ASSUME NEW points, Goes(points), NEW S \in SUBSET (1..Len(points))
  PROVE  LET s == Led!Kept(points, S)
         IN /\ Goes(s)
            /\ \A i \in 1..Len(s) : \E k \in S : s[i] = points[k]
            /\ Len(points) \in S => Len(s) \in Nat \ {0} /\ s[Len(s)] = points[Len(points)]
<1> DEFINE N == Len(points)
           n == Cardinality(S)
           at == Led!Ascending(S)
           s == Led!Kept(points, S)
<1>1. points \in Seq(Points) /\ N \in Nat /\ \A i, j \in 1..N : i < j => points[i].ts < points[j].ts
  BY LenProperties DEF Goes
<1>2. IsFiniteSet(S) /\ S \subseteq Int /\ n \in Nat
  <2>1. IsFiniteSet(1..N) /\ 1..N \subseteq Int
    BY <1>1, FS_Interval
  <2> QED
    BY <2>1, FS_Subset, FS_CardinalityType
<1>3. Rises(at, S)
  BY <1>2, LedAscending
<1>4. at \in [1..n -> S] /\ \A i, j \in 1..n : i < j => at[i] < at[j]
  BY <1>3 DEF Rises
<1>5. s = [i \in 1..n |-> points[at[i]]]
  BY <1>4 DEF Led!Kept
<1>6. N \in S => n \in Nat \ {0} /\ at[n] = N
  <2> SUFFICES ASSUME N \in S PROVE n \in Nat \ {0} /\ at[n] = N
    OBVIOUS
  <2>1. \A y \in S : y <= N
    BY <1>1
  <2> QED
    BY <1>2, <1>3, <2>1, RisingEnds
<1> HIDE DEF N, n, at, s
<1>7. ASSUME NEW i \in 1..n PROVE at[i] \in S /\ at[i] \in 1..N /\ points[at[i]] \in Points
  <2>1. at[i] \in S
    BY <1>4
  <2>2. at[i] \in 1..N
    BY <2>1 DEF N
  <2> QED
    BY <1>1, <2>1, <2>2 DEF N
<1>8. s \in [1..n -> Points]
  BY <1>5, <1>7
<1>9. s \in Seq(Points) /\ Len(s) = n
  BY <1>2, <1>8, IsSeq
<1>10. ASSUME NEW i \in 1..n, NEW j \in 1..n, i < j PROVE s[i].ts < s[j].ts
  BY <1>1, <1>4, <1>5, <1>7, <1>10
<1>11. Goes(s)
  BY <1>9, <1>10 DEF Goes
<1>12. \A i \in 1..Len(s) : \E k \in S : s[i] = points[k]
  BY <1>5, <1>7, <1>9
<1>13. N \in S => Len(s) \in Nat \ {0} /\ s[Len(s)] = points[N]
  <2> SUFFICES ASSUME N \in S PROVE n \in Nat \ {0} /\ s[n] = points[N]
    BY <1>9
  <2>1. n \in Nat \ {0} /\ at[n] = N /\ n \in 1..n
    BY <1>2, <1>6
  <2> QED
    BY <1>5, <2>1
<1> QED
  BY <1>11, <1>12, <1>13 DEF s, N

\* Each day has a last point, and the last point of the last day is the last of all.
LEMMA LastOfDayIs ==
  ASSUME NEW points, Goes(points), Len(points) > 0, NEW day \in Nat \ {0}
  PROVE  /\ Led!LastOfDay(points, day) \in Led!Picks(points, day)
         /\ LET s == Led!ByDay(points, day, Led!LastOfDay(points, day))
            IN s[Len(s)].equity = points[Len(points)].equity
<1> DEFINE N == Len(points)
           D == Led!Days(points, day)
           P == Led!ToSet(points)
           days == Led!Ascending(D)
           last == Led!LastOfDay(points, day)
           s == Led!ByDay(points, day, last)
           Latest(d, p) == p.ts \div day = d /\ \A q \in P : q.ts \div day = d => q.ts <= p.ts
<1>1. points \in Seq(Points) /\ N \in Nat \ {0} /\ \A i, j \in 1..N : i < j => points[i].ts < points[j].ts
  BY LenProperties DEF Goes
<1>2. /\ IsFiniteSet(D) /\ D \subseteq Int /\ P = {points[i] : i \in 1..N} /\ P \subseteq Points /\ IsFiniteSet(P)
      /\ \A p \in P : p.ts \div day \in D
  BY <1>1, DaysAre
<1>3. D = {p.ts \div day : p \in P}
  BY DEF Led!Days
<1>4. ASSUME NEW d \in D PROVE \E p \in P : Latest(d, p)
  <2> DEFINE Q == {p \in P : p.ts \div day = d}
             T == {p.ts : p \in Q}
  <2>1. PICK p \in P : p.ts \div day = d
    BY <1>3
  <2>2. IsFiniteSet(Q)
    BY <1>2, FS_Subset
  <2>3. IsFiniteSet(T)
    <3> HIDE DEF Q
    <3>1. [q \in Q |-> q.ts] \in Surjection(Q, T)
      BY DEF Surjection
    <3> HIDE DEF T
    <3> QED
      BY <2>2, <3>1, FS_Surjection
  <2>4. T \subseteq Int /\ T # {}
    BY <1>2, <2>1 DEF Points
  <2>5. PICK t \in T : \A u \in T : u <= t
    <3> HIDE DEF T
    <3> QED
      BY <2>3, <2>4, HasGreatest
  <2>6. PICK q \in Q : q.ts = t
    OBVIOUS
  <2>7. \A r \in P : r.ts \div day = d => r.ts <= q.ts
    BY <2>5, <2>6
  <2> QED
    BY <2>6, <2>7
<1> DEFINE f == [d \in D |-> CHOOSE p \in P : Latest(d, p)]
<1>5. \A d \in D : f[d] \in P /\ Latest(d, f[d])
  <2> SUFFICES ASSUME NEW d \in D PROVE (CHOOSE p \in P : Latest(d, p)) \in P /\ Latest(d, CHOOSE p \in P : Latest(d, p))
    OBVIOUS
  <2> HIDE DEF Latest
  <2> QED
    BY <1>4
<1>6. f \in [D -> P]
  BY <1>5
<1> HIDE DEF f
<1>7. f \in Led!Picks(points, day) /\ \A p \in P : p.ts <= f[p.ts \div day].ts
  BY <1>2, <1>5, <1>6 DEF Led!Picks
<1>8. last \in Led!Picks(points, day) /\ \A p \in P : p.ts <= last[p.ts \div day].ts
  BY <1>7 DEF Led!LastOfDay
<1>9. last \in [D -> P] /\ \A d \in D : last[d].ts \div day = d
  BY <1>8 DEF Led!Picks
<1> DEFINE z == points[N]
           dz == z.ts \div day
           n == Cardinality(D)
<1>10. N \in 1..N /\ z \in P /\ dz \in D
  BY <1>1, <1>2
<1>11. ASSUME NEW p \in P PROVE p.ts <= z.ts /\ p.ts \div day <= dz /\ (p.ts >= z.ts => p = z)
  <2>1. PICK i \in 1..N : p = points[i]
    BY <1>2
  <2>2. p.ts \in Int /\ z.ts \in Int
    BY <1>2, <1>10 DEF Points
  <2>3. i = N \/ i < N
    OBVIOUS
  <2>4. p = z \/ p.ts < z.ts
    BY <1>1, <1>10, <2>1, <2>3
  <2> DEFINE a == p.ts
             b == z.ts
  <2>5. a \in Int /\ b \in Int /\ a <= b
    BY <2>2, <2>4
  <2> HIDE DEF a, b
  <2>6. a \div day <= b \div day
    BY <2>5, QuotientsFollow
  <2> QED
    BY <2>2, <2>4, <2>5, <2>6 DEF a, b
<1>12. \A d \in D : d <= dz
  BY <1>3, <1>11
<1>13. Rises(days, D)
  BY <1>2, LedAscending
<1> HIDE DEF D, P, days, last, s, n, dz
<1>14. n \in Nat \ {0} /\ days[n] = dz
  BY <1>2, <1>10, <1>12, <1>13, RisingEnds DEF n
<1>15. last[dz] \in P /\ z.ts <= last[dz].ts
  BY <1>8, <1>9, <1>10 DEF dz
<1>16. last[dz] = z
  <2> DEFINE p == last[dz]
  <2>1. p \in P /\ z.ts <= p.ts
    BY <1>15
  <2>2. p.ts \in Int /\ z.ts \in Int
    BY <1>2, <1>10, <2>1 DEF Points
  <2> HIDE DEF p
  <2>3. p = z
    BY <1>11, <2>1, <2>2
  <2> QED
    BY <2>3 DEF p
<1>17. DOMAIN days = 1..n
  BY <1>13 DEF Rises, n
<1>18. s = [i \in 1..n |-> [ts |-> days[i] * day, equity |-> last[days[i]].equity]]
  BY <1>17 DEF Led!ByDay, s, days, D
<1>19. Len(s) = n /\ s[n].equity = z.equity
  BY <1>14, <1>16, <1>18
<1> QED
  BY <1>8, <1>19 DEF s, last

\* Days before a time and points from it on go forward together, and the last stays the last.
LEMMA AutoGoes ==
  ASSUME NEW points, Goes(points), NEW day \in Nat \ {0}, NEW from \in Int,
         Len(points) > 0, from <= points[Len(points)].ts,
         NEW pick \in Led!Picks(Led!Before(points, from), day)
  PROVE  LET s == Led!Auto(points, day, from, pick)
         IN Goes(s) /\ s[Len(s)] = points[Len(points)]
<1> DEFINE N == Len(points)
           A == {i \in DOMAIN points : points[i].ts < from}
           B == {i \in DOMAIN points : points[i].ts >= from}
           a == Led!ByDay(Led!Before(points, from), day, pick)
           b == Led!Kept(points, B)
           s == Led!Auto(points, day, from, pick)
<1>1. points \in Seq(Points) /\ N \in Nat \ {0} /\ DOMAIN points = 1..N
  BY LenProperties DEF Goes
<1>2. A \in SUBSET (1..N) /\ B \in SUBSET (1..N) /\ N \in B
  BY <1>1
<1>3. Led!Before(points, from) = Led!Kept(points, A) /\ s = a \o b
  BY DEF Led!Before, Led!Auto
<1>4. /\ Goes(Led!Kept(points, A))
      /\ \A i \in 1..Len(Led!Kept(points, A)) : \E k \in A : Led!Kept(points, A)[i] = points[k]
  BY <1>2, KeptGoes
<1>5. /\ Goes(b) /\ (\A i \in 1..Len(b) : \E k \in B : b[i] = points[k])
      /\ Len(b) \in Nat \ {0} /\ b[Len(b)] = points[N]
  <2> HIDE DEF B
  <2> QED
    BY <1>2, KeptGoes
<1>6. Led!Before(points, from) \in Seq(Points)
  BY <1>3, <1>4 DEF Goes
<1>7. Goes(a) /\ NoLater(a, Led!Before(points, from))
  BY <1>6, ByDayGoes
<1>8. ASSUME NEW p \in Led!ToSet(Led!Before(points, from)) PROVE p.ts < from /\ p \in Points
  <2>1. p \in {Led!Before(points, from)[i] : i \in 1..Len(Led!Before(points, from))} /\ p \in Points
    BY <1>6, DaysAre
  <2>2. PICK i \in 1..Len(Led!Before(points, from)) : p = Led!Before(points, from)[i]
    BY <2>1
  <2>3. PICK k \in A : p = points[k]
    BY <1>3, <1>4, <2>2
  <2> QED
    BY <2>1, <2>3
<1>9. ASSUME NEW i \in 1..Len(a) PROVE a[i].ts < from /\ a[i] \in Points
  <2>1. PICK p \in Led!ToSet(Led!Before(points, from)) : a[i].ts <= p.ts
    BY <1>7 DEF NoLater
  <2>2. a[i] \in Points
    BY <1>7 DEF Goes
  <2>3. p.ts \in Int /\ a[i].ts \in Int /\ p.ts < from
    BY <1>8, <2>2 DEF Points
  <2> HIDE DEF a
  <2> QED
    BY <2>1, <2>2, <2>3
<1>10. ASSUME NEW i \in 1..Len(b) PROVE b[i].ts >= from /\ b[i] \in Points
  <2>1. PICK k \in B : b[i] = points[k]
    BY <1>5
  <2>2. b[i] \in Points
    BY <1>5 DEF Goes
  <2> QED
    BY <2>1, <2>2
<1> HIDE DEF A, B, a, b, s, N
<1>11. /\ a \in Seq(Points) /\ b \in Seq(Points) /\ Len(a) \in Nat /\ Len(b) \in Nat \ {0}
       /\ \A i, j \in 1..Len(a) : i < j => a[i].ts < a[j].ts
       /\ \A i, j \in 1..Len(b) : i < j => b[i].ts < b[j].ts
  BY <1>5, <1>7, LenProperties DEF Goes
<1> DEFINE m == Len(a)
           n == Len(b)
<1>12. /\ s \in Seq(Points) /\ Len(s) = m + n
       /\ \A i \in 1..(m + n) : s[i] = IF i <= m THEN a[i] ELSE b[i - m]
  BY <1>3, <1>11, ConcatProperties
<1> HIDE DEF m, n
<1>13. m \in Nat /\ n \in Nat \ {0}
  BY <1>11 DEF m, n
<1>14. ASSUME NEW i \in 1..(m + n), NEW j \in 1..(m + n), i < j PROVE s[i].ts < s[j].ts
  <2>1. CASE j <= m
    <3>1. i \in 1..m /\ j \in 1..m /\ s[i] = a[i] /\ s[j] = a[j]
      BY <1>12, <1>13, <1>14, <2>1
    <3> QED
      BY <1>11, <1>14, <3>1 DEF m
  <2>2. CASE i <= m /\ ~(j <= m)
    <3>1. i \in 1..m /\ j - m \in 1..n /\ s[i] = a[i] /\ s[j] = b[j - m]
      BY <1>12, <1>13, <2>2
    <3>2. a[i].ts < from /\ a[i].ts \in Int
      BY <1>9, <3>1 DEF m, Points
    <3> DEFINE k == j - m
    <3>3. k \in 1..n /\ s[j] = b[k]
      BY <3>1
    <3> HIDE DEF k
    <3>4. b[k].ts >= from /\ b[k].ts \in Int
      BY <1>10, <3>3 DEF n, Points
    <3> QED
      BY <3>1, <3>2, <3>3, <3>4
  <2>3. CASE ~(i <= m)
    <3> DEFINE k == j - m
               l == i - m
    <3>1. l \in 1..n /\ k \in 1..n /\ l < k /\ s[i] = b[l] /\ s[j] = b[k]
      BY <1>12, <1>13, <1>14, <2>3
    <3> HIDE DEF k, l
    <3> QED
      BY <1>11, <3>1 DEF n
  <2> QED
    BY <2>1, <2>2, <2>3
<1>15. Goes(s)
  BY <1>12, <1>14 DEF Goes
<1>16. s[m + n] = b[n]
  <2>1. m + n \in 1..(m + n) /\ ~(m + n <= m) /\ (m + n) - m = n
    BY <1>13
  <2> QED
    BY <1>12, <2>1
<1> QED
  BY <1>5, <1>12, <1>15, <1>16 DEF s, n, N

\* Curves go forward and keep their end.
LEMMA LedCurves == LedInv => Led!CurvesAreKept
<1> DEFINE e == Led!Equity(1)
           curve == [i \in DOMAIN e |-> [ts |-> first + i - 1, equity |-> e[i]]]
           worth == curve[Len(curve)].equity
           Forward(s) == \A i \in 1..Len(s) - 1 : s[i].ts < s[i + 1].ts
           Ends(s) == s[Len(s)].equity = worth
<1> SUFFICES ASSUME LedInv, first # -1, ledgerNow = LedgerNow, NEW day \in Steps
             PROVE  /\ \A pick \in Led!Picks(curve, day) : Forward(Led!ByDay(curve, day, pick))
                    /\ Ends(Led!ByDay(curve, day, Led!LastOfDay(curve, day)))
                    /\ \A from \in first..ledgerNow : \A pick \in Led!Picks(Led!Before(curve, from), day) :
                         Forward(Led!Auto(curve, day, from, pick)) /\ Ends(Led!Auto(curve, day, from, pick))
  BY DEF Led!CurvesAreKept, Led!Never
<1> DEFINE N == (ledgerNow - first) \div 1 + 1
<1>1. first \in Int /\ ledgerNow \in Nat /\ first <= ledgerNow /\ day \in Nat \ {0}
  BY LedKnows, LedgerAssumption
<1>2. N = ledgerNow - first + 1
  BY <1>1
<1>3. N \in Nat \ {0} /\ e \in [1..N -> Int] /\ DOMAIN e = 1..N
  BY EquityIs
<1> HIDE DEF e, N
<1>4. curve \in [1..N -> Points]
  <2> SUFFICES ASSUME NEW i \in 1..N PROVE [ts |-> first + i - 1, equity |-> e[i]] \in Points
    BY <1>3
  <2> DEFINE t == first + i - 1
             v == e[i]
  <2>1. t \in Int /\ v \in Int
    BY <1>1, <1>3
  <2>2. \A a, b \in Int : [ts |-> a, equity |-> b] \in Points
    BY DEF Points
  <2> QED
    BY <2>1, <2>2
<1>5. curve \in Seq(Points) /\ Len(curve) = N
  BY <1>3, <1>4, IsSeq
<1>6. \A i \in 1..N : curve[i].ts = first + i - 1
  BY <1>3
<1> HIDE DEF curve
<1>7. Goes(curve)
  BY <1>1, <1>3, <1>5, <1>6 DEF Goes
<1>8. Len(curve) > 0 /\ curve[Len(curve)].ts = ledgerNow
  BY <1>1, <1>2, <1>3, <1>5, <1>6
<1>9. ASSUME NEW s, Goes(s) PROVE Forward(s)
  <2>1. Len(s) \in Nat
    BY <1>9, LenProperties DEF Goes
  <2> SUFFICES ASSUME NEW i \in 1..Len(s) - 1 PROVE s[i].ts < s[i + 1].ts
    OBVIOUS
  <2>2. i \in 1..Len(s) /\ i + 1 \in 1..Len(s) /\ i < i + 1
    BY <2>1
  <2> QED
    BY <1>9, <2>2 DEF Goes
<1> HIDE DEF Forward
<1>10. ASSUME NEW pick \in Led!Picks(curve, day) PROVE Forward(Led!ByDay(curve, day, pick))
  BY <1>1, <1>5, <1>9, ByDayGoes
<1>11. Ends(Led!ByDay(curve, day, Led!LastOfDay(curve, day)))
  BY <1>1, <1>7, <1>8, LastOfDayIs
<1>12. ASSUME NEW from \in first..ledgerNow, NEW pick \in Led!Picks(Led!Before(curve, from), day)
       PROVE  Forward(Led!Auto(curve, day, from, pick)) /\ Ends(Led!Auto(curve, day, from, pick))
  <2>1. from \in Int /\ from <= curve[Len(curve)].ts
    BY <1>1, <1>8
  <2>2. /\ Goes(Led!Auto(curve, day, from, pick))
        /\ Led!Auto(curve, day, from, pick)[Len(Led!Auto(curve, day, from, pick))] = curve[Len(curve)]
    BY <1>1, <1>7, <1>8, <2>1, AutoGoes
  <2> QED
    BY <1>9, <2>2
<1> QED
  BY <1>10, <1>11, <1>12

\* All that PositionLedger promises.
LEMMA LedHolds == LedInv => Led!TypeOK /\ Led!LedgerAddsUp
BY LedSizes, LedSegments, LedMoney, LedBasis, LedEquity, LedDrawdowns, LedCurves, LedSamples DEF Led!LedgerAddsUp

----------------------------------------------------------------------------
(* Portfolio: lots and what a page makes of them. *)

\* Sums of Portfolio are those of SumLemmas.
LEMMA PorSum == \A f, S : Por!SumFunctionOnSet(f, S) = SumFunctionOnSet(f, S)
BY DEF SumFunctionOnSet, FoldFunctionOnSet, MapThenFoldSet,
       Por!SumFunctionOnSet, Por!FoldFunctionOnSet, Por!MapThenFoldSet

\* Portfolio: executions are what the page takes, and none is of a day to come.
Executions ==
  [token : Tokens, follow : Follows, side : {"buy", "sell"}, size : Int, price : Int, fee : Int, day : Int]
PorInv ==
  /\ today \in 0..MaxDay /\ execs \in Seq(Executions) /\ Len(execs) \in 0..MaxExecs
  /\ \A i \in 1..Len(execs) : execs[i].day \in 0..today

\* No execution, no day gone.
LEMMA PorStarts == Por!Init => PorInv
<1>1. <<>> \in Seq(Executions) /\ Len(<<>>) = 0
  OBVIOUS
<1> QED
  BY <1>1, PortfolioAssumption DEF Por!Init, PorInv

\* An execution is of the day it is booked.
LEMMA PorSteps == ASSUME PorInv, Por!Next \/ UNCHANGED portfolioVars PROVE PorInv'
<1>0. /\ today \in 0..MaxDay /\ execs \in Seq(Executions) /\ Len(execs) \in 0..MaxExecs
      /\ \A i \in 1..Len(execs) : execs[i].day \in 0..today
  BY DEF PorInv
<1>1. ASSUME NEW e \in Executions, e.day = today, Por!Executed(e) PROVE PorInv'
  <2>1. Len(execs) < MaxExecs /\ execs' = Append(execs, e) /\ today' = today
    BY <1>1 DEF Por!Executed
  <2> DEFINE n == Len(execs)
  <2>2. execs' \in Seq(Executions) /\ Len(execs') = n + 1 /\ execs'[n + 1] = e /\ \A i \in 1..n : execs'[i] = execs[i]
    BY <1>0, <2>1, AppendProperties
  <2>3. n \in 0..MaxExecs /\ n < MaxExecs
    BY <1>0, <2>1
  <2> HIDE DEF n
  <2>4. n + 1 \in 0..MaxExecs
    BY <2>3, PortfolioAssumption
  <2>5. ASSUME NEW i \in 1..(n + 1) PROVE execs'[i].day \in 0..today'
    <3>1. CASE i = n + 1
      BY <1>0, <1>1, <2>1, <2>2, <3>1, PortfolioAssumption
    <3>2. CASE i # n + 1
      <4>1. i \in 1..n
        BY <2>3, <3>2
      <4> QED
        BY <1>0, <2>1, <2>2, <4>1 DEF n
    <3> QED
      BY <3>1, <3>2
  <2> QED
    BY <1>0, <2>1, <2>2, <2>4, <2>5 DEF PorInv
<1>2. ASSUME Por!DayPasses PROVE PorInv'
  BY <1>0, <1>2, PortfolioAssumption DEF Por!DayPasses, PorInv
<1>3. CASE UNCHANGED portfolioVars
  BY <1>3 DEF portfolioVars, PorInv
<1>4. ASSUME NEW k \in Tokens, NEW f \in Follows, NEW side \in {"buy", "sell"}, NEW size \in CopySizes,
             NEW price \in CopyPrices, NEW fee \in Fees,
             Por!Executed([token |-> k, follow |-> f, side |-> side, size |-> size, price |-> price, fee |-> fee,
                           day |-> today])
      PROVE  PorInv'
  <2> DEFINE e == [token |-> k, follow |-> f, side |-> side, size |-> size, price |-> price, fee |-> fee, day |-> today]
  <2>1. size \in Int /\ price \in Int /\ fee \in Int /\ today \in Int
    BY <1>0, PortfolioAssumption
  <2>2. e \in Executions
    BY <2>1 DEF Executions
  <2>3. e.day = today /\ Por!Executed(e)
    BY <1>4
  <2> HIDE DEF e
  <2> QED
    BY <1>1, <2>2, <2>3
<1> QED
  BY <1>2, <1>3, <1>4 DEF Por!Next

\* Lots, what a sale has taken of them, and the book of them.
Lots == [size : Int, cost : Int]
Takings == [remain : Int, cost : Int, queue : Seq(Lots)]
Closings == [pnl : Int, follow : Follows, day : Int]
LotBooks == [lots : [Tokens -> Seq(Lots)], closed : Seq(Closings)]

\* A sale takes of a lot and leaves lots.
LEMMA TakeIs ==
  ASSUME NEW a \in Takings, NEW lot \in Lots
  PROVE  Por!Take(a, lot) \in Takings
<1> DEFINE take == Por!Min({a.remain, lot.size})
           rest == [lot EXCEPT !.size = @ - take]
           remain == a.remain - take
           cost == a.cost + take * lot.cost
           queue == IF lot.size = take THEN a.queue ELSE Append(a.queue, rest)
           Q == Seq(Lots)
<1>1. a.remain \in Int /\ a.cost \in Int /\ a.queue \in Seq(Lots) /\ lot.size \in Int /\ lot.cost \in Int
  BY DEF Takings, Lots
<1>2. take \in Int
  <2> DEFINE x == a.remain
             y == lot.size
  <2>1. x \in Int /\ y \in Int
    BY <1>1
  <2> HIDE DEF x, y
  <2>2. Por!Min({x, y}) \in Int
    <3>1. CASE x <= y
      BY <2>1, <3>1 DEF Por!Min
    <3>2. CASE ~(x <= y)
      BY <2>1, <3>2 DEF Por!Min
    <3> QED
      BY <3>1, <3>2
  <2> QED
    BY <2>2 DEF x, y
<1> HIDE DEF take
<1>3. remain \in Int
  BY <1>1, <1>2
<1>4. cost \in Int
  BY <1>1, <1>2
<1>5. rest \in Lots
  BY <1>1, <1>2 DEF Lots
<1>6. queue \in Seq(Lots)
  <2> HIDE DEF rest
  <2>1. Append(a.queue, rest) \in Seq(Lots)
    BY <1>1, <1>5, AppendProperties
  <2> QED
    BY <1>1, <2>1
<1>7. Por!Take(a, lot) = [remain |-> remain, cost |-> cost, queue |-> queue]
  BY DEF Por!Take, take
<1>8. Takings = [remain : Int, cost : Int, queue : Q] /\ queue \in Q
  BY <1>6 DEF Takings
<1> HIDE DEF remain, cost, queue, Q
<1> QED
  BY <1>3, <1>4, <1>7, <1>8

\* Portfolio: the equation of a sale that goes through the lots.
TakenBody(g, queue, size) ==
  [i \in 0..Len(queue) |->
     IF i = 0 THEN [remain |-> size, cost |-> 0, queue |-> <<>>] ELSE Por!Take(g[i - 1], queue[i])]
TheTaken(queue, size) == CHOOSE taken : taken = TakenBody(taken, queue, size)

\* What a sale of lots costs, and the lots it leaves.
LEMMA ConsumeIs ==
  ASSUME NEW queue \in Seq(Lots), NEW size \in Int
  PROVE  Por!Consume(queue, size) \in Takings
<1> DEFINE n == Len(queue)
           start == [remain |-> size, cost |-> 0, queue |-> <<>>]
           step == [x \in (1..n) \X Takings |-> Por!Take(x[2], queue[x[1]])]
           h == TheTaken(queue, size)
<1>1. Por!Consume(queue, size) = h[n]
  BY DEF Por!Consume, TheTaken, TakenBody
<1>2. n \in Nat /\ \A i \in 1..n : queue[i] \in Lots
  BY LenProperties
<1>3. start \in Takings
  <2> DEFINE Q == Seq(Lots)
             none == <<>>
  <2>1. none \in Q /\ start = [remain |-> size, cost |-> 0, queue |-> none] /\ Takings = [remain : Int, cost : Int, queue : Q]
    BY DEF Takings
  <2> HIDE DEF Q, none, start
  <2> QED
    BY <2>1
<1>4. step \in [(1..n) \X Takings -> Takings]
  <2> SUFFICES ASSUME NEW x \in (1..n) \X Takings PROVE Por!Take(x[2], queue[x[1]]) \in Takings
    OBVIOUS
  <2>1. x[2] \in Takings /\ queue[x[1]] \in Lots
    BY <1>2
  <2> QED
    BY <2>1, TakeIs
<1> HIDE DEF start, n
<1>5. PICK g \in [0..n -> Takings] : g[0] = start /\ \A i \in 1..n : g[i] = step[<<i, g[i - 1]>>]
  <2> HIDE DEF step
  <2>1. \E g \in [0..n -> Takings] : Iterated(g, n, start, step)
    BY <1>2, <1>3, <1>4, Iterates
  <2> QED
    BY <2>1 DEF Iterated
<1>6. ASSUME NEW i \in 1..n PROVE g[i] = Por!Take(g[i - 1], queue[i])
  <2>1. i - 1 \in 0..n /\ g[i - 1] \in Takings
    BY <1>2, <1>5
  <2>2. <<i, g[i - 1]>> \in (1..n) \X Takings
    BY <2>1
  <2>3. step[<<i, g[i - 1]>>] = Por!Take(g[i - 1], queue[i])
    BY <2>2
  <2> QED
    BY <1>5, <2>3
<1>7. g = TakenBody(g, queue, size)
  <2>1. TakenBody(g, queue, size) = [i \in 0..n |-> IF i = 0 THEN start ELSE Por!Take(g[i - 1], queue[i])]
    BY DEF TakenBody, n, start
  <2>2. \A i \in 0..n : g[i] = IF i = 0 THEN start ELSE Por!Take(g[i - 1], queue[i])
    BY <1>5, <1>6
  <2> HIDE DEF step
  <2> QED
    BY <1>5, <2>1, <2>2
<1>8. h = TakenBody(h, queue, size)
  BY <1>7 DEF TheTaken
<1> HIDE DEF step, h
<1>9. h = [i \in 0..n |-> IF i = 0 THEN start ELSE Por!Take(h[i - 1], queue[i])]
  BY <1>8 DEF TakenBody, n, start
<1> DEFINE G == {i \in 0..n : h[i] \in Takings}
<1>10. 0 \in G
  BY <1>2, <1>3, <1>9
<1>11. ASSUME NEW i \in 0..n, i < n, i \in G PROVE i + 1 \in G
  <2> DEFINE k == i + 1
  <2>1. k \in 1..n /\ k - 1 = i /\ h[i] \in Takings
    BY <1>2, <1>11
  <2> HIDE DEF k
  <2>2. h[k] = Por!Take(h[i], queue[k]) /\ queue[k] \in Lots
    BY <1>2, <1>9, <2>1
  <2>3. h[k] \in Takings
    BY <2>1, <2>2, TakeIs
  <2>4. k \in 0..n
    BY <2>1
  <2> QED
    BY <2>3, <2>4 DEF k
<1>12. n \in G
  <2> HIDE DEF G
  <2>1. 0..n \subseteq G
    BY <1>2, <1>10, <1>11, UpTo
  <2> QED
    BY <1>2, <2>1
<1> QED
  BY <1>1, <1>12

\* An execution keeps the book of lots.
LEMMA ApplyIs ==
  ASSUME NEW a \in LotBooks, NEW e \in Executions
  PROVE  Por!Apply(a, e) \in LotBooks
<1> DEFINE L == [Tokens -> Seq(Lots)]
           C == Seq(Closings)
           k == e.token
<1>1. /\ a.lots \in L /\ a.closed \in C /\ k \in Tokens /\ a.lots[k] \in Seq(Lots)
      /\ e.size \in Int /\ e.price \in Int /\ e.fee \in Int /\ e.day \in Int /\ e.follow \in Follows
  BY DEF LotBooks, Executions
<1>2. LotBooks = [lots : L, closed : C]
  BY DEF LotBooks
<1>3. CASE Por!IsBuy(e)
  <2> DEFINE lot == [size |-> e.size, cost |-> e.price]
             q == Append(a.lots[k], lot)
             lots == [a.lots EXCEPT ![k] = q]
  <2>1. lot \in Lots
    BY <1>1 DEF Lots
  <2>2. q \in Seq(Lots)
    <3> HIDE DEF lot
    <3> QED
      BY <1>1, <2>1, AppendProperties
  <2>3. Por!Apply(a, e) = [a EXCEPT !.lots[k] = q]
    BY <1>3 DEF Por!Apply
  <2> HIDE DEF q
  <2>4. lots \in L
    BY <1>1, <2>2
  <2>5. Por!Apply(a, e) = [a EXCEPT !.lots = lots]
    BY <1>2, <2>3
  <2> HIDE DEF lots, L, C
  <2> QED
    BY <1>2, <2>4, <2>5
<1>4. CASE ~Por!IsBuy(e)
  <2> DEFINE c == Por!Consume(a.lots[k], e.size)
             pnl == e.price * e.size - c.cost - e.fee
             close == [pnl |-> pnl, follow |-> e.follow, day |-> e.day]
             lots == [a.lots EXCEPT ![k] = c.queue]
             closed == Append(a.closed, close)
  <2>1. Por!Apply(a, e) = [a EXCEPT !.lots[k] = c.queue, !.closed = closed]
    BY <1>4 DEF Por!Apply
  <2>2. c \in Takings
    BY <1>1, ConsumeIs
  <2> HIDE DEF c
  <2>3. c.queue \in Seq(Lots) /\ c.cost \in Int
    BY <2>2 DEF Takings
  <2>4. pnl \in Int
    <3> DEFINE x == e.price * e.size
    <3>1. x \in Int
      BY <1>1
    <3> HIDE DEF x
    <3>2. x - c.cost - e.fee \in Int
      BY <1>1, <2>3, <3>1
    <3> QED
      BY <3>2 DEF x
  <2> HIDE DEF pnl
  <2>5. close \in Closings
    BY <1>1, <2>4 DEF Closings
  <2> HIDE DEF close
  <2>6. closed \in C
    BY <1>1, <2>5, AppendProperties
  <2> HIDE DEF closed
  <2>7. lots \in L
    BY <1>1, <2>3
  <2>8. Por!Apply(a, e) = [a EXCEPT !.lots = lots, !.closed = closed]
    BY <1>2, <2>1
  <2> HIDE DEF lots, L, C
  <2> QED
    BY <1>2, <2>6, <2>7, <2>8
<1> QED
  BY <1>3, <1>4

\* Portfolio: the equation of the lots that are rebuilt.
BuiltBody(g, period) ==
  [i \in 0..Len(execs) |->
     IF i = 0 THEN Por!NoLots ELSE IF i \in Por!InRange(period) THEN Por!Apply(g[i - 1], execs[i]) ELSE g[i - 1]]
TheBuilt(period) == CHOOSE built : built = BuiltBody(built, period)

\* What the page rebuilds are lots and closings.
LEMMA RebuiltIs ==
  ASSUME PorInv, NEW period
  PROVE  Por!Rebuilt(period) \in LotBooks
<1> DEFINE n == Len(execs)
           R == Por!InRange(period)
           next(i, a) == IF i \in R THEN Por!Apply(a, execs[i]) ELSE a
           step == [x \in (1..n) \X LotBooks |-> next(x[1], x[2])]
           h == TheBuilt(period)
<1>1. Por!Rebuilt(period) = h[n]
  BY DEF Por!Rebuilt, TheBuilt, BuiltBody
<1>2. n \in Nat /\ \A i \in 1..n : execs[i] \in Executions
  BY LenProperties DEF PorInv
<1>3. Por!NoLots \in LotBooks
  <2> DEFINE L == [Tokens -> Seq(Lots)]
             C == Seq(Closings)
             lots == [k \in Tokens |-> <<>>]
             none == <<>>
  <2>1. lots \in L /\ none \in C
    OBVIOUS
  <2>2. Por!NoLots = [lots |-> lots, closed |-> none] /\ LotBooks = [lots : L, closed : C]
    BY DEF Por!NoLots, LotBooks
  <2> HIDE DEF L, C, lots, none
  <2> QED
    BY <2>1, <2>2
<1>4. ASSUME NEW i \in 1..n, NEW a \in LotBooks PROVE next(i, a) \in LotBooks
  BY <1>2, ApplyIs
<1> HIDE DEF n, R
<1>5. step \in [(1..n) \X LotBooks -> LotBooks]
  <2> HIDE DEF next
  <2> SUFFICES ASSUME NEW x \in (1..n) \X LotBooks PROVE next(x[1], x[2]) \in LotBooks
    OBVIOUS
  <2>1. x[1] \in 1..n /\ x[2] \in LotBooks
    OBVIOUS
  <2> QED
    BY <1>4, <2>1
<1> HIDE DEF next
<1>6. PICK g \in [0..n -> LotBooks] : g[0] = Por!NoLots /\ \A i \in 1..n : g[i] = step[<<i, g[i - 1]>>]
  <2> HIDE DEF step
  <2>1. \E g \in [0..n -> LotBooks] : Iterated(g, n, Por!NoLots, step)
    BY <1>2, <1>3, <1>5, Iterates
  <2> QED
    BY <2>1 DEF Iterated
<1>7. ASSUME NEW i \in 1..n PROVE g[i] = next(i, g[i - 1])
  <2>1. i - 1 \in 0..n /\ g[i - 1] \in LotBooks
    BY <1>2, <1>6
  <2>2. <<i, g[i - 1]>> \in (1..n) \X LotBooks
    BY <2>1
  <2>3. step[<<i, g[i - 1]>>] = next(i, g[i - 1])
    BY <2>2
  <2> QED
    BY <1>6, <2>3
<1>8. ASSUME NEW f PROVE BuiltBody(f, period) = [i \in 0..n |-> IF i = 0 THEN Por!NoLots ELSE next(i, f[i - 1])]
  BY DEF BuiltBody, n, R, next
<1>9. g = BuiltBody(g, period)
  <2>1. \A i \in 0..n : g[i] = IF i = 0 THEN Por!NoLots ELSE next(i, g[i - 1])
    BY <1>6, <1>7
  <2> HIDE DEF step
  <2> QED
    BY ZenonT(60), <1>6, <1>8, <2>1
<1>10. h = BuiltBody(h, period)
  BY <1>9 DEF TheBuilt
<1> HIDE DEF step, h
<1>11. h = [i \in 0..n |-> IF i = 0 THEN Por!NoLots ELSE next(i, h[i - 1])]
  BY <1>8, <1>10
<1> DEFINE G == {i \in 0..n : h[i] \in LotBooks}
<1>12. 0 \in G
  BY <1>2, <1>3, <1>11
<1>13. ASSUME NEW i \in 0..n, i < n, i \in G PROVE i + 1 \in G
  <2> DEFINE k == i + 1
  <2>1. k \in 1..n /\ k - 1 = i /\ h[i] \in LotBooks /\ k \in 0..n
    BY <1>2, <1>13
  <2> HIDE DEF k
  <2>2. h[k] = next(k, h[i])
    BY <1>2, <1>11, <2>1
  <2>3. h[k] \in LotBooks
    BY <1>4, <2>1, <2>2
  <2> QED
    BY <2>1, <2>3 DEF k
<1>14. n \in G
  <2> HIDE DEF G
  <2>1. 0..n \subseteq G
    BY <1>2, <1>12, <1>13, UpTo
  <2> QED
    BY <1>2, <2>1
<1> QED
  BY <1>1, <1>14

\* The greatest of a set.
LEMMA PorMaxOf ==
  ASSUME NEW S, S \subseteq Int, NEW m \in S, \A x \in S : x <= m
  PROVE  Por!Max(S) = m
<1>1. \A y \in S : m >= y
  OBVIOUS
<1>2. \A x \in S : (\A y \in S : x >= y) => x = m
  OBVIOUS
<1> QED
  BY <1>1, <1>2 DEF Por!Max

\* The curve of a page ends at the total, and the follows add up to it.
LEMMA PageAgrees ==
  ASSUME PorInv, NEW p
  PROVE  /\ Por!CurveDays(p) # {} => Por!EquityOn(p, Por!Max(Por!CurveDays(p))) = Por!TotalPnl(p)
         /\ Por!TotalPnl(p) = Por!SumFunction([f \in Follows |-> Por!ByFollow(p, f)])
<1> DEFINE closed == Por!Rebuilt(p).closed
           I == 1..Len(closed)
           gain == [i \in I |-> closed[i].pnl]
           days == {closed[i].day : i \in I}
<1>1. closed \in Seq(Closings)
  BY RebuiltIs DEF LotBooks
<1>2. IsFiniteSet(I) /\ DOMAIN closed = I /\ \A i \in I : closed[i] \in Closings
  <2> HIDE DEF closed
  <2>1. Len(closed) \in Nat /\ DOMAIN closed = I /\ \A i \in I : closed[i] \in Closings
    BY <1>1, LenProperties
  <2>2. IsFiniteSet(I)
    BY <2>1, FS_Interval
  <2> QED
    BY <2>1, <2>2
<1>3. ASSUME NEW S PROVE Por!Pnl(closed, S) = SumFunctionOnSet(gain, S)
  BY <1>2, PorSum DEF Por!Pnl
<1>4. Por!TotalPnl(p) = SumFunctionOnSet(gain, I)
  BY <1>2, <1>3 DEF Por!TotalPnl
<1>5. \A f : Por!ByFollow(p, f) = SumFunctionOnSet(gain, {i \in I : closed[i].follow = f})
  BY <1>2, <1>3 DEF Por!ByFollow
<1>6. \A d : Por!EquityOn(p, d) = SumFunctionOnSet(gain, {i \in I : closed[i].day <= d})
  BY <1>2, <1>3 DEF Por!EquityOn
<1>7. Por!CurveDays(p) = days
  BY <1>2 DEF Por!CurveDays
<1>8. \A i \in I : gain[i] \in Int /\ closed[i].follow \in Follows /\ closed[i].day \in Int
  BY <1>2 DEF Closings
<1> HIDE DEF closed, I, gain
<1>9. days # {} => Por!EquityOn(p, Por!Max(days)) = Por!TotalPnl(p)
  <2> SUFFICES ASSUME days # {} PROVE Por!EquityOn(p, Por!Max(days)) = Por!TotalPnl(p)
    OBVIOUS
  <2>1. IsFiniteSet(days) /\ days \subseteq Int
    <3>1. [i \in I |-> closed[i].day] \in Surjection(I, days)
      BY DEF Surjection
    <3>2. days \subseteq Int
      BY <1>8
    <3> HIDE DEF days
    <3> QED
      BY <1>2, <3>1, <3>2, FS_Surjection
  <2>2. \A i \in I : closed[i].day \in days
    OBVIOUS
  <2> HIDE DEF days
  <2>3. PICK m \in days : \A x \in days : x <= m
    BY <2>1, HasGreatest
  <2>4. Por!Max(days) = m
    BY <2>1, <2>3, PorMaxOf
  <2>5. {i \in I : closed[i].day <= m} = I
    BY <2>2, <2>3
  <2> QED
    BY <1>4, <1>6, <2>4, <2>5
<1>10. Por!TotalPnl(p) = Por!SumFunction([f \in Follows |-> Por!ByFollow(p, f)])
  <2> DEFINE key == [i \in I |-> closed[i].follow]
             a == [f \in Follows |-> Por!ByFollow(p, f)]
             b == [f \in Follows |-> SumFunctionOnSet(gain, {i \in I : key[i] = f})]
  <2>1. \A i \in I : key[i] \in Follows /\ key[i] = closed[i].follow
    BY <1>8
  <2>2. ASSUME NEW f \in Follows PROVE a[f] = b[f]
    <3>1. {i \in I : key[i] = f} = {i \in I : closed[i].follow = f}
      BY <2>1
    <3> QED
      BY <1>5, <3>1
  <2>3. a = b
    BY <2>2
  <2>4. IsFiniteSet(Follows)
    BY PortfolioAssumption
  <2>5. SumFunctionOnSet(b, Follows) = SumFunctionOnSet(gain, I)
    <3> HIDE DEF key
    <3> QED
      BY <1>2, <1>8, <2>1, <2>4, SumGroups
  <2>6. Por!SumFunction(a) = SumFunctionOnSet(a, Follows)
    BY PorSum DEF Por!SumFunction
  <2> QED
    BY <1>4, <2>3, <2>5, <2>6
<1> QED
  BY <1>7, <1>9, <1>10

\* Cash that cannot be spent at the venue carries a note.
LEMMA CashIsNoted ==
  ASSUME NEW credential \in {"offline", "unreadable", "live"}, NEW clob \in {"answers", "fails"},
         NEW chain \in {"answers", "fails"}
  PROVE  LET w == Por!WalletView(credential, clob, chain)
         IN ~w.note <=> w.cash = "clob" /\ credential = "live"
<1>1. CASE credential = "live" /\ clob = "answers"
  BY <1>1 DEF Por!WalletView
<1>2. CASE ~(credential = "live" /\ clob = "answers")
  <2>1. Por!WalletView(credential, clob, chain) = Por!Fallback(chain) \/ Por!WalletView(credential, clob, chain) = Por!NoCash
    BY <1>2 DEF Por!WalletView
  <2>2. Por!Fallback(chain).note = TRUE /\ Por!Fallback(chain).cash \in {"chain", "none"}
    BY DEF Por!Fallback
  <2>3. Por!NoCash.note = TRUE /\ Por!NoCash.cash = "none"
    BY DEF Por!NoCash
  <2> QED
    BY <2>1, <2>2, <2>3
<1> QED
  BY <1>1, <1>2

\* All that Portfolio promises.
LEMMA PorHolds == PorInv => Por!TypeOK /\ Por!ViewsAgree
<1> SUFFICES ASSUME PorInv PROVE Por!TypeOK /\ Por!ViewsAgree
  OBVIOUS
<1>1. DOMAIN execs = 1..Len(execs) /\ \A i \in 1..Len(execs) : execs[i] \in Executions
  BY LenProperties DEF PorInv
<1>2. Por!TypeOK
  BY <1>1, PortfolioAssumption DEF PorInv, Por!TypeOK, Executions
<1>3. Por!ViewsAgree
  BY PageAgrees, CashIsNoted DEF Por!ViewsAgree
<1> QED
  BY <1>2, <1>3

----------------------------------------------------------------------------
(* HotReconcile: the rows of the rounds, their windows and what was missed. *)

\* HotReconcile: sums of trades, and the rounds that left rows.
Sized(tr) == [i \in DOMAIN tr |-> tr[i].size]
Sum(tr, S) == SumFunctionOnSet(Sized(tr), S)
Within(tr, k, t) == {i \in DOMAIN tr : tr[i].token = k /\ tr[i].ts <= t}
Between(tr, k, a, b) == {i \in DOMAIN tr : tr[i].token = k /\ a < tr[i].ts /\ tr[i].ts <= b}
Stamped(ps) == {s.at : s \in ps}
Below(ps, t) == {x \in Stamped(ps) : x < t}
Second == 0..MaxTime
Covers(T) == {x \in Second : \E a, b, c \in T : a < x /\ x <= b /\ b < c}
RowOf(ps, tr, k, x) ==
  \/ \E s \in ps : s.token = k /\ s.at = x
  \/ Sum(tr, Within(tr, k, x)) = 0 /\ \A s \in ps : s.token = k => s.at > x
Rowed(ps, tr, k) ==
  /\ \A s \in ps : s.token = k => s.size = Sum(tr, Within(tr, k, s.at))
  /\ \A x \in Stamped(ps) : RowOf(ps, tr, k, x)
SeenMissed(tr, k, lost, seconds) == {i \in lost : tr[i].token = k /\ tr[i].ts \in seconds}

\* The sums of the instance are those of the lemmas.
LEMMA HotSum == \A f, S : Hot!SumFunctionOnSet(f, S) = SumFunctionOnSet(f, S)
BY DEF SumFunctionOnSet, FoldFunctionOnSet, MapThenFoldSet,
       Hot!SumFunctionOnSet, Hot!FoldFunctionOnSet, Hot!MapThenFoldSet

\* Sizes adds up the trades.
LEMMA HotSizes == \A S : Hot!Sizes(S) = Sum(trades, S)
BY HotSum DEF Hot!Sizes, Sum, Sized

\* Sums of trades are numbers.
LEMMA SumIn ==
  ASSUME NEW tr \in Seq(Hot!Trades), NEW S \in SUBSET (DOMAIN tr)
  PROVE  /\ IsFiniteSet(DOMAIN tr) /\ IsFiniteSet(S) /\ Sum(tr, S) \in Int
         /\ \A i \in DOMAIN tr : Sized(tr)[i] = tr[i].size /\ Sized(tr)[i] \in {1, -1} /\ Sized(tr)[i] \in Int
<1>1. Len(tr) \in Nat /\ DOMAIN tr = 1..Len(tr)
  BY LenProperties
<1>2. IsFiniteSet(1..Len(tr))
  BY <1>1, FS_Interval
<1>3. IsFiniteSet(S)
  BY <1>1, <1>2, FS_Subset
<1>4. ASSUME NEW i \in DOMAIN tr PROVE Sized(tr)[i] = tr[i].size /\ tr[i].size \in {1, -1}
  <2>1. tr[i] \in Hot!Trades
    BY <1>1, ElementOfSeq
  <2> QED
    BY <2>1 DEF Sized, Hot!Trades
<1>5. \A i \in DOMAIN tr : Sized(tr)[i] \in Int
  BY <1>4
<1>6. SumFunctionOnSet(Sized(tr), S) \in Int
  BY <1>3, <1>5, SumType
<1> QED
  BY <1>1, <1>2, <1>3, <1>4, <1>5, <1>6 DEF Sum

\* Two sets of trades that share none add up.
LEMMA SumOfTwo ==
  ASSUME NEW tr \in Seq(Hot!Trades), NEW A \in SUBSET (DOMAIN tr), NEW B \in SUBSET (DOMAIN tr), A \cap B = {}
  PROVE  Sum(tr, A \cup B) = Sum(tr, A) + Sum(tr, B)
<1>1. IsFiniteSet(A) /\ IsFiniteSet(B) /\ \A i \in A \cup B : Sized(tr)[i] \in Int
  BY SumIn
<1> QED
  BY <1>1, SumUnion DEF Sum

\* A trade more: the sums over those before it are what they were.
LEMMA SumBefore ==
  ASSUME NEW tr \in Seq(Hot!Trades), NEW e \in Hot!Trades, NEW S \in SUBSET (DOMAIN tr)
  PROVE  Sum(Append(tr, e), S) = Sum(tr, S)
<1> DEFINE more == Append(tr, e)
<1>1. Len(tr) \in Nat /\ DOMAIN tr = 1..Len(tr)
  BY LenProperties
<1>2. DOMAIN more = 1..(Len(tr) + 1) /\ \A i \in 1..Len(tr) : more[i] = tr[i]
  BY <1>1, AppendProperties
<1> HIDE DEF more
<1>3. IsFiniteSet(S) /\ \A i \in S : Sized(tr)[i] \in Int
  BY SumIn
<1>4. \A i \in S : Sized(more)[i] = Sized(tr)[i]
  BY <1>1, <1>2 DEF Sized
<1>5. SumFunctionOnSet(Sized(more), S) = SumFunctionOnSet(Sized(tr), S)
  BY <1>3, <1>4, SumSame
<1> QED
  BY <1>5 DEF Sum, more

\* And with it they grow by its size.
LEMMA SumWith ==
  ASSUME NEW tr \in Seq(Hot!Trades), NEW e \in Hot!Trades, NEW S \in SUBSET (DOMAIN tr)
  PROVE  Sum(Append(tr, e), S \cup {Len(tr) + 1}) = Sum(tr, S) + e.size
<1> DEFINE more == Append(tr, e)
           n == Len(tr) + 1
<1>1. Len(tr) \in Nat /\ DOMAIN tr = 1..Len(tr)
  BY LenProperties
<1>2. more \in Seq(Hot!Trades) /\ DOMAIN more = 1..n /\ more[n] = e /\ n \in DOMAIN more /\ n \notin S /\ S \subseteq DOMAIN more
  BY <1>1, AppendProperties, LenProperties
<1>3. Sum(more, S) = Sum(tr, S)
  BY SumBefore
<1> HIDE DEF more, n
<1>4. IsFiniteSet(S) /\ \A i \in DOMAIN more : Sized(more)[i] = more[i].size /\ Sized(more)[i] \in Int
  BY <1>2, SumIn
<1>5. \A i \in S \cup {n} : Sized(more)[i] \in Int
  BY <1>2, <1>4
<1>6. SumFunctionOnSet(Sized(more), S \cup {n}) = SumFunctionOnSet(Sized(more), S) + Sized(more)[n]
  <2> DEFINE f == Sized(more)
  <2>1. IsFiniteSet(S) /\ n \notin S /\ \A y \in S \cup {n} : f[y] \in Int
    BY <1>2, <1>4, <1>5
  <2> HIDE DEF f
  <2> QED
    BY <2>1, SumAdd DEF f
<1> QED
  BY <1>2, <1>3, <1>4, <1>6 DEF Sum, more, n

\* Seconds have a last and a first.
LEMMA LastSecond ==
  ASSUME NEW T \in SUBSET Second, T # {}
  PROVE  (\E m \in T : \A x \in T : x <= m) /\ (\E m \in T : \A x \in T : m <= x)
<1>1. MaxTime \in Nat
  BY HotAssumption
<1>t. T \subseteq Nat /\ \A x \in T : x \in Nat /\ x <= MaxTime
  BY <1>1 DEF Second
<1>2. \E m \in T : \A x \in T : m <= x
  BY <1>t, LeastNumber
<1>3. \E m \in T : \A x \in T : x <= m
  <2> DEFINE U == {MaxTime - x : x \in T}
  <2>1. U \subseteq Nat /\ U # {}
    <3>1. \A x \in T : MaxTime - x \in Nat
      BY <1>1, <1>t
    <3> QED
      BY <3>1
  <2>2. PICK u \in U : \A v \in U : u <= v
    BY <2>1, LeastNumber
  <2>3. PICK m \in T : u = MaxTime - m
    OBVIOUS
  <2>4. ASSUME NEW x \in T PROVE x <= m
    <3>1. MaxTime - m <= MaxTime - x
      BY <2>2, <2>3
    <3> QED
      BY <1>1, <1>t, <3>1
  <2> QED
    BY <2>4
<1> QED
  BY <1>2, <1>3

\* The greatest and the least of a set.
LEMMA HotMaxOf ==
  ASSUME NEW S \in SUBSET Int, NEW m \in S, \A x \in S : x <= m
  PROVE  Hot!Max(S) = m
<1>1. \A y \in S : m >= y
  OBVIOUS
<1>2. \A x \in S : (\A y \in S : x >= y) => x = m
  OBVIOUS
<1> QED
  BY <1>1, <1>2 DEF Hot!Max

\* The least.
LEMMA HotMinOf ==
  ASSUME NEW S \in SUBSET Int, NEW m \in S, \A x \in S : m <= x
  PROVE  Hot!Min(S) = m
<1>1. \A y \in S : m <= y
  OBVIOUS
<1>2. \A x \in S : (\A y \in S : x <= y) => x = m
  OBVIOUS
<1> QED
  BY <1>1, <1>2 DEF Hot!Min

\* What the worker reads of the rounds before t.
LEMMA LatestIs ==
  ASSUME positions \subseteq Hot!Snapshots, NEW t \in Int
  PROVE  /\ Hot!Latest(t) = {} <=> Below(positions, t) = {}
         /\ \A m \in Below(positions, t) : (\A x \in Below(positions, t) : x <= m) => Hot!NewestOf(Hot!Latest(t)) = m
<1> DEFINE P == Hot!Before(t)
           L == Hot!Latest(t)
           T == Below(positions, t)
<1>1. \A s \in positions : s.at \in Int /\ s.at \in Second
  BY DEF Hot!Snapshots, Hot!Rounds, Second
<1>2. T = {s.at : s \in P} /\ T \subseteq Second /\ \A s \in P : s \in positions
  BY <1>1 DEF Hot!Before, Below, Stamped
<1>3. L = {s \in P : \A r \in P : r.token = s.token => r.at <= s.at}
  BY DEF Hot!Latest
<1> HIDE DEF P, L, T
<1>4. ASSUME NEW m \in T, \A x \in T : x <= m PROVE L # {} /\ Hot!NewestOf(L) = m
  <2>1. PICK s \in P : s.at = m
    BY <1>2
  <2>2. s \in L
    BY <1>2, <1>3, <1>4, <2>1
  <2> DEFINE A == {r.at : r \in L}
  <2>3. A \in SUBSET Int /\ m \in A /\ \A x \in A : x <= m
    BY <1>1, <1>2, <1>3, <1>4, <2>1, <2>2
  <2>4. Hot!NewestOf(L) = Hot!Max(A)
    BY DEF Hot!NewestOf
  <2> HIDE DEF A
  <2> QED
    BY <2>2, <2>3, <2>4, HotMaxOf
<1>5. T = {} => L = {}
  BY <1>2, <1>3
<1>6. T # {} => L # {}
  BY <1>2, <1>4, LastSecond
<1> QED
  BY <1>4, <1>5, <1>6 DEF L, T

\* The size that it reads of a token whose rows are right.
LEMMA SizeRead ==
  ASSUME positions \subseteq Hot!Snapshots, NEW t \in Int, NEW k, Rowed(positions, trades, k),
         NEW m \in Below(positions, t), \A x \in Below(positions, t) : x <= m
  PROVE  Hot!SizeIn(Hot!Latest(t), k) = Sum(trades, Within(trades, k, m))
<1> DEFINE P == Hot!Before(t)
           L == Hot!Latest(t)
<1>1. \A s \in positions : s.at \in Int
  BY DEF Hot!Snapshots, Hot!Rounds
<1>2. P = {s \in positions : s.at < t} /\ \A s \in P : s.at <= m
  BY DEF Hot!Before, Below, Stamped
<1>3. L = {s \in P : \A r \in P : r.token = s.token => r.at <= s.at}
  BY DEF Hot!Latest
<1>4. m \in Stamped(positions) /\ m \in Int /\ m < t
  BY <1>1 DEF Below, Stamped
<1>5. RowOf(positions, trades, k, m)
  BY <1>4 DEF Rowed
<1> HIDE DEF P, L
<1>6. CASE \E s \in positions : s.token = k /\ s.at = m
  <2>1. PICK s \in positions : s.token = k /\ s.at = m
    BY <1>6
  <2>2. s \in L
    BY <1>2, <1>3, <1>4, <2>1
  <2> DEFINE c == CHOOSE r \in L : r.token = k
  <2>3. c \in L /\ c.token = k
    BY <2>1, <2>2
  <2>4. c \in positions /\ c.at = m
    BY <1>1, <1>2, <1>3, <2>1, <2>2, <2>3
  <2>5. c.size = Sum(trades, Within(trades, k, m))
    BY <2>3, <2>4 DEF Rowed
  <2> QED
    BY <2>1, <2>2, <2>5 DEF Hot!SizeIn, L
<1>7. CASE /\ Sum(trades, Within(trades, k, m)) = 0
           /\ \A s \in positions : s.token = k => s.at > m
  <2>1. \A s \in L : s.token # k
    BY <1>1, <1>2, <1>3, <1>4, <1>7
  <2> QED
    BY <1>7, <2>1 DEF Hot!SizeIn, L
<1> QED
  BY <1>5, <1>6, <1>7 DEF RowOf

Of(tr, k) == {i \in DOMAIN tr : tr[i].token = k}
\* Every trade of a second that is over was written or missed; a fetch holds the trades before it.
HotPast ==
  /\ \A i \in DOMAIN trades : trades[i].ts <= hotNow /\ (trades[i].ts < hotNow => i \in ledger \cup missed)
  /\ \A k \in Tokens : Sum(trades, Of(trades, k)) >= 0
HotFetched ==
  hot.pc = "fetched" =>
    /\ hot.at < hotNow /\ hot.had \subseteq DOMAIN trades
    /\ \A k \in Tokens : hot.positions[k] = Sum(trades, {i \in hot.had : trades[i].token = k})
HotStamps ==
  /\ hot.at <= hotNow /\ \A s \in positions : s.at <= hot.at
  /\ \A x \in compared : x < hot.at
\* The rows of an undisturbed token are its size at their time, and no round left it out.
HotRows == \A k \in Tokens \ disturbed : Rowed(positions, trades, k)
\* All seconds between the first round and the last but one are compared, once.
HotWindows ==
  disturbed # Tokens =>
    /\ compared = Covers(IF hot.pc = "stored" THEN Below(positions, hot.at) ELSE Stamped(positions))
    /\ hot.pc = "stored" => hot.at \in Stamped(positions) \/ \A x, y \in Stamped(positions) : x = y
HotSums == \A k \in Tokens \ disturbed : residuals[k] = Sum(trades, SeenMissed(trades, k, missed, compared))
HotInv == Hot!TypeOK /\ HotPast /\ HotFetched /\ HotStamps /\ HotRows /\ HotWindows /\ HotSums

\* No round yet, no trade.
LEMMA HotStarts == Hot!Init => HotInv
<1> SUFFICES ASSUME Hot!Init PROVE HotInv
  OBVIOUS
<1>1. /\ hotNow = 0 /\ trades = <<>> /\ ledger = {} /\ missed = {} /\ positions = {}
      /\ hot = Hot!Idle /\ residuals = Hot!NoPositions /\ compared = {} /\ disturbed = {} /\ hotFaults = 0
  BY DEF Hot!Init
<1>2. hot \in Hot!Locals /\ hot.pc = "idle" /\ hot.at = 0 /\ residuals \in [Tokens -> Int]
      /\ \A k \in Tokens : residuals[k] = 0
  BY <1>1, HotAssumption DEF Hot!Idle, Hot!Locals, Hot!NoPositions, Hot!Rounds
<1>3. trades \in Seq(Hot!Trades) /\ DOMAIN trades = {}
  BY <1>1, EmptySeq
<1>4. Hot!TypeOK
  BY <1>1, <1>2, <1>3, HotAssumption DEF Hot!TypeOK, Hot!Rounds
<1>5. Sum(trades, {}) = 0
  BY SumEmpty DEF Sum
<1>6. \A k : Of(trades, k) = {} /\ SeenMissed(trades, k, missed, compared) = {}
  BY <1>1, <1>3 DEF Of, SeenMissed
<1>7. HotPast /\ HotFetched /\ HotStamps /\ HotSums
  <2>1. HotPast
    <3>1. ASSUME NEW k PROVE Sum(trades, Of(trades, k)) = 0
      BY <1>5, <1>6
    <3>2. \A k \in Tokens : Sum(trades, Of(trades, k)) >= 0
      BY <3>1
    <3> QED
      BY <1>3, <3>2 DEF HotPast
  <2>2. HotFetched /\ HotStamps
    BY <1>1, <1>2 DEF HotFetched, HotStamps
  <2>3. HotSums
    BY <1>2, <1>5, <1>6 DEF HotSums
  <2> QED
    BY <2>1, <2>2, <2>3
<1>8. HotRows /\ HotWindows
  BY <1>1, <1>2 DEF HotRows, HotWindows, Rowed, Stamped, Covers
<1> QED
  BY <1>4, <1>7, <1>8 DEF HotInv

\* What the steps use of the invariant.
LEMMA HotHere ==
  HotInv =>
    /\ hotNow \in Second /\ hotNow \in Nat /\ trades \in Seq(Hot!Trades)
    /\ ledger \subseteq DOMAIN trades /\ missed \subseteq DOMAIN trades \ ledger
    /\ positions \subseteq Hot!Snapshots /\ hot \in Hot!Locals /\ hot.at \in Nat /\ hot.at \in Second
    /\ residuals \in [Tokens -> Int] /\ compared \subseteq Second /\ disturbed \subseteq Tokens
    /\ hotFaults \in 0..HotFaults /\ MaxTime \in Nat
    /\ \A i \in DOMAIN trades : trades[i] \in Hot!Trades /\ trades[i].ts \in Nat
    /\ \A s \in positions : s.at \in Nat /\ s.at \in Second
<1> SUFFICES ASSUME HotInv
             PROVE  /\ hotNow \in Second /\ hotNow \in Nat /\ trades \in Seq(Hot!Trades)
                    /\ ledger \subseteq DOMAIN trades /\ missed \subseteq DOMAIN trades \ ledger
                    /\ positions \subseteq Hot!Snapshots /\ hot \in Hot!Locals /\ hot.at \in Nat /\ hot.at \in Second
                    /\ residuals \in [Tokens -> Int] /\ compared \subseteq Second /\ disturbed \subseteq Tokens
                    /\ hotFaults \in 0..HotFaults /\ MaxTime \in Nat
                    /\ \A i \in DOMAIN trades : trades[i] \in Hot!Trades /\ trades[i].ts \in Nat
                    /\ \A s \in positions : s.at \in Nat /\ s.at \in Second
  OBVIOUS
<1>1. /\ hotNow \in Second /\ trades \in Seq(Hot!Trades)
      /\ ledger \subseteq DOMAIN trades /\ missed \subseteq DOMAIN trades \ ledger
      /\ positions \subseteq Hot!Snapshots /\ hot \in Hot!Locals
      /\ residuals \in [Tokens -> Int] /\ compared \subseteq Second /\ disturbed \subseteq Tokens
      /\ hotFaults \in 0..HotFaults
  BY DEF HotInv, Hot!TypeOK, Hot!Rounds, Second
<1>2. MaxTime \in Nat
  BY HotAssumption
<1>3. hot.at \in Second
  BY <1>1 DEF Hot!Locals, Hot!Rounds, Second
<1>4. \A s \in positions : s.at \in Second
  BY <1>1 DEF Hot!Snapshots, Hot!Rounds, Second
<1>5. ASSUME NEW i \in DOMAIN trades PROVE trades[i] \in Hot!Trades /\ trades[i].ts \in Second
  <2>1. trades[i] \in Hot!Trades
    BY <1>1, ElementOfSeq, LenProperties
  <2> QED
    BY <2>1 DEF Hot!Trades, Hot!Rounds, Second
<1>6. \A x \in Second : x \in Nat
  BY <1>2 DEF Second
<1> QED
  BY <1>1, <1>2, <1>3, <1>4, <1>5, <1>6

\* A trade that a sum does not look at leaves it alone.
LEMMA TradeLeaves ==
  ASSUME NEW tr \in Seq(Hot!Trades), NEW e \in Hot!Trades, NEW k, NEW x, e.token # k \/ ~(e.ts <= x)
  PROVE  Sum(Append(tr, e), Within(Append(tr, e), k, x)) = Sum(tr, Within(tr, k, x))
<1> DEFINE more == Append(tr, e)
           n == Len(tr)
<1>1. n \in Nat /\ DOMAIN tr = 1..n
  BY LenProperties
<1>2. DOMAIN more = 1..(n + 1) /\ more[n + 1] = e /\ \A i \in 1..n : more[i] = tr[i]
  BY <1>1, AppendProperties
<1> HIDE DEF more, n
<1>3. \A i \in 1..(n + 1) : i \in 1..n \/ i = n + 1
  BY <1>1
<1>4. 1..n \subseteq 1..(n + 1)
  BY <1>1
<1>5. Within(more, k, x) = Within(tr, k, x)
  BY <1>1, <1>2, <1>3, <1>4 DEF Within
<1>6. Within(tr, k, x) \in SUBSET (DOMAIN tr)
  BY DEF Within
<1> QED
  BY <1>5, <1>6, SumBefore DEF more

\* A trade in a second that was already snapshotted disturbs its token; any other is later than every round.
LEMMA HotTrade ==
  ASSUME HotInv, NEW k \in Tokens, NEW size \in {1, -1}, Hot!Trade(k, size)
  PROVE  HotInv'
<1> DEFINE e == [token |-> k, size |-> size, ts |-> hotNow]
           n == Len(trades)
<1>1. /\ Hot!Position(k) + size >= 0 /\ trades' = Append(trades, e)
      /\ disturbed' = IF \E s \in positions : s.at = hotNow THEN disturbed \cup {k} ELSE disturbed
      /\ UNCHANGED <<hotNow, ledger, missed, positions, hot, residuals, compared, hotFaults>>
  BY DEF Hot!Trade
<1>2. /\ hotNow \in Second /\ hotNow \in Nat /\ trades \in Seq(Hot!Trades)
      /\ ledger \subseteq DOMAIN trades /\ missed \subseteq DOMAIN trades \ ledger
      /\ hot.at \in Nat /\ \A s \in positions : s.at \in Nat
      /\ compared \subseteq Nat
  BY HotHere DEF Second
<1>3. e \in Hot!Trades /\ e.ts = hotNow /\ e.token = k /\ e.size = size
  BY <1>2 DEF Hot!Trades, Hot!Rounds, Second
<1> HIDE DEF e
<1>4. n \in Nat /\ DOMAIN trades = 1..n
  BY <1>2, LenProperties
<1>5. /\ trades' \in Seq(Hot!Trades) /\ DOMAIN trades' = 1..(n + 1)
      /\ trades'[n + 1] = e /\ \A i \in 1..n : trades'[i] = trades[i]
  BY <1>1, <1>2, <1>3, <1>4, AppendProperties, LenProperties
<1> HIDE DEF n
<1>6. (\A i \in 1..(n + 1) : i \in 1..n \/ i = n + 1) /\ 1..n \subseteq 1..(n + 1) /\ n + 1 \notin 1..n
  BY <1>4
<1>7. \A S \in SUBSET (DOMAIN trades) : Sum(trades', S) = Sum(trades, S)
  BY <1>1, <1>2, <1>3, SumBefore
<1>8. Hot!TypeOK'
  BY <1>1, <1>4, <1>5, <1>6, HotHere DEF HotInv, Hot!TypeOK
<1>9. HotPast'
  <2>1. ASSUME NEW i \in DOMAIN trades' PROVE trades'[i].ts <= hotNow' /\ (trades'[i].ts < hotNow' => i \in ledger' \cup missed')
    <3>1. CASE i \in 1..n
      BY <1>1, <1>4, <1>5, <3>1 DEF HotInv, HotPast
    <3>2. CASE i = n + 1
      BY <1>1, <1>2, <1>3, <1>5, <3>2
    <3> QED
      BY <1>5, <1>6, <3>1, <3>2
  <2>2. ASSUME NEW j \in Tokens PROVE Sum(trades', Of(trades', j)) >= 0
    <3>1. Of(trades, j) \in SUBSET (DOMAIN trades) /\ Sum(trades, Of(trades, j)) >= 0
      BY DEF HotInv, HotPast, Of
    <3>2. CASE j # k
      <4>1. Of(trades', j) = Of(trades, j)
        BY <1>3, <1>4, <1>5, <1>6, <3>2 DEF Of
      <4> QED
        BY <1>7, <3>1, <4>1
    <3>3. CASE j = k
      <4>1. Of(trades', k) = Of(trades, k) \cup {n + 1}
        BY <1>3, <1>4, <1>5, <1>6 DEF Of
      <4>2. Sum(trades', Of(trades, k) \cup {n + 1}) = Sum(trades, Of(trades, k)) + size
        BY <1>1, <1>2, <1>3, <3>1, <3>3, SumWith DEF n
      <4>3. Hot!Position(k) = Sum(trades, Of(trades, k))
        BY HotSizes DEF Hot!Position, Hot!TradesOf, Of
      <4> QED
        BY <1>1, <3>3, <4>1, <4>2, <4>3
    <3> QED
      BY <3>2, <3>3
  <2> QED
    BY <2>1, <2>2 DEF HotPast
<1>10. HotFetched'
  <2> SUFFICES ASSUME hot.pc = "fetched" PROVE HotFetched'
    BY <1>1 DEF HotFetched
  <2>1. /\ hot.at < hotNow /\ hot.had \subseteq DOMAIN trades
        /\ \A j \in Tokens : hot.positions[j] = Sum(trades, {i \in hot.had : trades[i].token = j})
    BY DEF HotInv, HotFetched
  <2>2. ASSUME NEW j \in Tokens PROVE hot.positions[j] = Sum(trades', {i \in hot.had : trades'[i].token = j})
    <3> DEFINE S == {i \in hot.had : trades[i].token = j}
    <3>1. S \in SUBSET (DOMAIN trades) /\ {i \in hot.had : trades'[i].token = j} = S
      BY <1>4, <1>5, <2>1
    <3> HIDE DEF S
    <3>2. Sum(trades', S) = Sum(trades, S)
      BY <1>7, <3>1
    <3> QED
      BY <2>1, <3>1, <3>2 DEF S
  <2>3. hot.had \subseteq DOMAIN trades'
    BY <1>4, <1>5, <1>6, <2>1
  <2> QED
    BY <1>1, <2>1, <2>2, <2>3 DEF HotFetched
<1>11. HotStamps'
  BY <1>1 DEF HotInv, HotStamps
<1>12. HotRows'
  <2> SUFFICES ASSUME NEW j \in Tokens, j \notin disturbed' PROVE Rowed(positions, trades', j)
    BY <1>1 DEF HotRows
  <2>1. j \notin disturbed /\ Rowed(positions, trades, j)
    BY <1>1 DEF HotInv, HotRows
  <2>2. \A s \in positions : s.at <= hotNow
    BY <1>2 DEF HotInv, HotStamps
  <2>3. ASSUME NEW s \in positions PROVE j # k \/ ~(hotNow <= s.at)
    BY <1>1, <1>2, <2>2, <2>3
  <2>4. \A s \in positions : Sum(trades', Within(trades', j, s.at)) = Sum(trades, Within(trades, j, s.at))
    BY <1>1, <1>2, <1>3, <2>3, TradeLeaves
  <2>5. \A x \in Stamped(positions) : Sum(trades', Within(trades', j, x)) = Sum(trades, Within(trades, j, x))
    BY <2>4 DEF Stamped
  <2> QED
    BY <2>1, <2>4, <2>5 DEF Rowed, RowOf
<1>13. HotWindows'
  BY <1>1, HotHere DEF HotInv, HotWindows
<1>14. HotSums'
  <2> SUFFICES ASSUME NEW j \in Tokens, j \notin disturbed'
               PROVE  residuals[j] = Sum(trades', SeenMissed(trades', j, missed, compared))
    BY <1>1 DEF HotSums
  <2>1. j \notin disturbed /\ residuals[j] = Sum(trades, SeenMissed(trades, j, missed, compared))
    BY <1>1 DEF HotInv, HotSums
  <2>2. /\ SeenMissed(trades', j, missed, compared) = SeenMissed(trades, j, missed, compared)
        /\ SeenMissed(trades, j, missed, compared) \in SUBSET (DOMAIN trades)
    BY <1>2, <1>4, <1>5 DEF SeenMissed
  <2> QED
    BY <1>7, <2>1, <2>2
<1> QED
  BY <1>8, <1>9, <1>10, <1>11, <1>12, <1>13, <1>14 DEF HotInv

\* The clock, and what trade_watch writes, misses and catches up.
LEMMA HotWatch ==
  ASSUME HotInv, Hot!Tick \/ \E i \in DOMAIN trades : Hot!Record(i) \/ Hot!Miss(i) \/ Hot!CatchUp(i)
  PROVE  HotInv'
<1>0. /\ hotNow \in Second /\ hotNow \in Nat /\ trades \in Seq(Hot!Trades)
      /\ ledger \subseteq DOMAIN trades /\ missed \subseteq DOMAIN trades \ ledger
      /\ hot.at \in Nat /\ compared \subseteq Second /\ disturbed \subseteq Tokens
      /\ hotFaults \in 0..HotFaults /\ MaxTime \in Nat
      /\ \A i \in DOMAIN trades : trades[i] \in Hot!Trades /\ trades[i].ts \in Nat
  BY HotHere
<1>1. ASSUME Hot!Tick PROVE HotInv'
  <2>1. /\ hotNow < MaxTime /\ DOMAIN trades \subseteq ledger \cup missed /\ hotNow' = hotNow + 1
        /\ UNCHANGED <<trades, ledger, missed, positions, hot, residuals, compared, disturbed, hotFaults>>
    BY <1>1 DEF Hot!Tick
  <2>2. hotNow' \in Hot!Rounds
    BY <1>0, <2>1 DEF Hot!Rounds, Second
  <2>3. Hot!TypeOK'
    BY <2>1, <2>2 DEF HotInv, Hot!TypeOK
  <2>4. HotPast'
    <3>1. \A i \in DOMAIN trades : trades[i].ts <= hotNow'
      BY <1>0, <2>1 DEF HotInv, HotPast
    <3>2. \A k \in Tokens : Sum(trades, Of(trades, k)) >= 0
      BY DEF HotInv, HotPast
    <3> QED
      BY <2>1, <3>1, <3>2 DEF HotPast
  <2>5. HotFetched' /\ HotStamps'
    BY <1>0, <2>1 DEF HotInv, HotFetched, HotStamps
  <2>6. HotRows' /\ HotWindows' /\ HotSums'
    BY <2>1 DEF HotInv, HotRows, HotWindows, HotSums
  <2> QED
    BY <2>3, <2>4, <2>5, <2>6 DEF HotInv
<1>2. ASSUME NEW i \in DOMAIN trades, i \notin ledger \cup missed
      PROVE  trades[i].ts \notin compared
  <2>1. trades[i].ts = hotNow
    BY <1>0, <1>2 DEF HotInv, HotPast
  <2>2. hot.at <= hotNow /\ \A x \in compared : x < hot.at
    BY DEF HotInv, HotStamps
  <2> QED
    BY <1>0, <2>1, <2>2
<1>3. ASSUME NEW l, NEW m, ledger' = l, missed' = m, l \subseteq DOMAIN trades, m \subseteq DOMAIN trades \ l,
             ledger \cup missed \subseteq l \cup m, NEW d, disturbed' = d, d \subseteq Tokens, disturbed \subseteq d,
             \A k \in Tokens \ d : SeenMissed(trades, k, m, compared) = SeenMissed(trades, k, missed, compared),
             hotFaults' \in 0..HotFaults, UNCHANGED <<hotNow, trades, positions, hot, residuals, compared>>
      PROVE  HotInv'
  <2>1. Hot!TypeOK'
    BY <1>3 DEF HotInv, Hot!TypeOK
  <2>2. HotPast' /\ HotFetched' /\ HotStamps'
    BY <1>3 DEF HotInv, HotPast, HotFetched, HotStamps
  <2>3. HotRows'
    BY <1>3 DEF HotInv, HotRows
  <2>4. HotWindows'
    BY <1>0, <1>3 DEF HotInv, HotWindows
  <2>5. HotSums'
    BY <1>3 DEF HotInv, HotSums
  <2> QED
    BY <2>1, <2>2, <2>3, <2>4, <2>5 DEF HotInv
<1>4. ASSUME NEW i \in DOMAIN trades, Hot!Record(i) PROVE HotInv'
  <2> DEFINE l == ledger \cup {i}
  <2>1. /\ i \notin ledger \cup missed /\ ledger' = l /\ missed' = missed /\ disturbed' = disturbed
        /\ UNCHANGED <<hotNow, trades, positions, hot, residuals, compared, hotFaults>>
    BY <1>4 DEF Hot!Record
  <2>2. l \subseteq DOMAIN trades /\ missed \subseteq DOMAIN trades \ l /\ ledger \cup missed \subseteq l \cup missed
    BY <1>0, <2>1
  <2>3. hotFaults' \in 0..HotFaults
    BY <1>0, <2>1
  <2> HIDE DEF l
  <2> QED
    BY <1>0, <1>3, <2>1, <2>2, <2>3
<1>5. ASSUME NEW i \in DOMAIN trades, Hot!Miss(i) PROVE HotInv'
  <2> DEFINE m == missed \cup {i}
  <2>1. /\ i \notin ledger \cup missed /\ ledger' = ledger /\ missed' = m /\ disturbed' = disturbed
        /\ UNCHANGED <<hotNow, trades, positions, hot, residuals, compared>>
        /\ hotFaults < HotFaults /\ hotFaults' = hotFaults + 1
    BY <1>5 DEF Hot!Miss, Hot!Fault
  <2>2. m \subseteq DOMAIN trades \ ledger /\ ledger \cup missed \subseteq ledger \cup m
    BY <1>0, <2>1
  <2>3. hotFaults' \in 0..HotFaults
    BY <1>0, <2>1, HotAssumption
  <2>4. \A k : SeenMissed(trades, k, m, compared) = SeenMissed(trades, k, missed, compared)
    BY <1>2, <2>1 DEF SeenMissed
  <2> HIDE DEF m
  <2> QED
    BY <1>0, <1>3, <2>1, <2>2, <2>3, <2>4
<1>6. ASSUME NEW i \in DOMAIN trades, Hot!CatchUp(i) PROVE HotInv'
  <2> DEFINE l == ledger \cup {i}
             m == missed \ {i}
             d == IF trades[i].ts \in compared THEN disturbed \cup {trades[i].token} ELSE disturbed
  <2>1. /\ i \in missed /\ ledger' = l /\ missed' = m /\ disturbed' = d
        /\ UNCHANGED <<hotNow, trades, positions, hot, residuals, compared, hotFaults>>
    BY <1>6 DEF Hot!CatchUp
  <2>2. l \subseteq DOMAIN trades /\ m \subseteq DOMAIN trades \ l /\ ledger \cup missed \subseteq l \cup m
    BY <1>0, <2>1
  <2>3. hotFaults' \in 0..HotFaults
    BY <1>0, <2>1
  <2>4. trades[i].token \in Tokens
    BY <1>0 DEF Hot!Trades
  <2>5. d \subseteq Tokens /\ disturbed \subseteq d
    BY <1>0, <2>4
  <2>6. \A k \in Tokens \ d : SeenMissed(trades, k, m, compared) = SeenMissed(trades, k, missed, compared)
    BY <2>1 DEF SeenMissed
  <2> HIDE DEF l, m, d
  <2> QED
    BY <1>0, <1>3, <2>1, <2>2, <2>3, <2>5, <2>6
<1> QED
  BY <1>1, <1>4, <1>5, <1>6

\* A round begins, or comes to nothing.
LEMMA HotRound ==
  ASSUME HotInv, Hot!Fetch \/ Hot!NoRound
  PROVE  HotInv'
<1>0. /\ hot \in Hot!Locals /\ hot.at \in Nat /\ hotNow \in Nat /\ disturbed \subseteq Tokens /\ hotFaults \in 0..HotFaults
      /\ trades \in Seq(Hot!Trades)
  BY HotHere
<1>1. ASSUME Hot!Fetch PROVE HotInv'
  <2> DEFINE p == [k \in Tokens |-> Hot!Position(k)]
  <2>1. /\ hot.pc = "idle" /\ hot.at < hotNow
        /\ hot' = [hot EXCEPT !.pc = "fetched", !.positions = p, !.had = DOMAIN trades]
        /\ UNCHANGED <<hotNow, trades, ledger, missed, positions, residuals, compared, disturbed, hotFaults>>
    BY <1>1 DEF Hot!Fetch
  <2>2. ASSUME NEW k \in Tokens PROVE Hot!Position(k) = Sum(trades, Of(trades, k)) /\ Hot!Position(k) \in Nat
    <3>1. Hot!Position(k) = Sum(trades, Of(trades, k))
      BY HotSizes DEF Hot!Position, Hot!TradesOf, Of
    <3>2. Of(trades, k) \in SUBSET (DOMAIN trades) /\ Sum(trades, Of(trades, k)) >= 0
      BY DEF HotInv, HotPast, Of
    <3>3. Sum(trades, Of(trades, k)) \in Int
      BY <1>0, <3>2, SumIn
    <3> QED
      BY <3>1, <3>2, <3>3
  <2>3. p \in [Tokens -> Nat] /\ \A k \in Tokens : p[k] = Sum(trades, Of(trades, k))
    BY <2>2
  <2>4. DOMAIN trades \in SUBSET Nat
    BY <1>0, LenProperties
  <2> HIDE DEF p
  <2>5. hot' \in Hot!Locals /\ hot'.pc = "fetched" /\ hot'.positions = p /\ hot'.had = DOMAIN trades /\ hot'.at = hot.at
    BY <1>0, <2>1, <2>3, <2>4 DEF Hot!Locals
  <2>6. Hot!TypeOK'
    BY <2>1, <2>5 DEF HotInv, Hot!TypeOK
  <2>7. HotPast' /\ HotStamps'
    BY <2>1, <2>5 DEF HotInv, HotPast, HotStamps
  <2>8. HotFetched'
    BY <2>1, <2>3, <2>5 DEF HotFetched, Of
  <2>9. HotRows' /\ HotSums'
    BY <2>1 DEF HotInv, HotRows, HotSums
  <2>10. HotWindows'
    BY <2>1, <2>5 DEF HotInv, HotWindows
  <2> QED
    BY <2>6, <2>7, <2>8, <2>9, <2>10 DEF HotInv
<1>2. ASSUME Hot!NoRound PROVE HotInv'
  <2>1. /\ hot.pc # "idle" /\ hot' = [Hot!Idle EXCEPT !.at = hot.at]
        /\ hotFaults < HotFaults /\ hotFaults' = hotFaults + 1
        /\ disturbed' = IF hot.pc = "stored" THEN Tokens ELSE disturbed
        /\ UNCHANGED <<hotNow, trades, ledger, missed, positions, residuals, compared>>
    BY <1>2 DEF Hot!NoRound, Hot!Fault
  <2>2. hot' \in Hot!Locals /\ hot'.pc = "idle" /\ hot'.at = hot.at
    BY <1>0, <2>1 DEF Hot!Idle, Hot!Locals, Hot!NoPositions
  <2>3. hotFaults' \in 0..HotFaults /\ disturbed' \subseteq Tokens
    BY <1>0, <2>1, HotAssumption
  <2>4. Hot!TypeOK'
    BY <2>1, <2>2, <2>3 DEF HotInv, Hot!TypeOK
  <2>5. HotPast' /\ HotStamps' /\ HotFetched'
    BY <2>1, <2>2 DEF HotInv, HotPast, HotStamps, HotFetched
  <2>6. HotRows' /\ HotSums'
    BY <1>0, <2>1 DEF HotInv, HotRows, HotSums
  <2>7. HotWindows'
    BY <2>1, <2>2 DEF HotInv, HotWindows
  <2> QED
    BY <2>4, <2>5, <2>6, <2>7 DEF HotInv
<1> QED
  BY <1>1, <1>2

\* At most one round left rows.
LEMMA OneStamp ==
  ASSUME positions \subseteq Hot!Snapshots, ~(Hot!Stamps(positions) > 1)
  PROVE  \A x, y \in Stamped(positions) : x = y
<1> SUFFICES ASSUME NEW x \in Stamped(positions), NEW y \in Stamped(positions), x # y PROVE FALSE
  OBVIOUS
<1> DEFINE S == Stamped(positions)
<1>1. S \subseteq Second
  BY DEF Stamped, Hot!Snapshots, Hot!Rounds, Second
<1>2. IsFiniteSet(Second)
  BY HotAssumption, FS_Interval DEF Second
<1>3. IsFiniteSet(S)
  BY <1>1, <1>2, FS_Subset
<1>4. Hot!Stamps(positions) = Cardinality(S)
  BY DEF Hot!Stamps, Stamped, Hot!Cardinality, Cardinality
<1>5. {x} \subseteq S /\ {x} # S /\ Cardinality({x}) = 1
  BY FS_Singleton
<1> HIDE DEF S
<1>6. Cardinality({x}) < Cardinality(S) /\ Cardinality(S) \in Nat
  BY <1>3, <1>5, FS_Subset, FS_CardinalityType
<1> QED
  BY <1>4, <1>5, <1>6

\* The rows of a round: each open position but those that could not be written.
LEMMA HotStore == ASSUME HotInv, Hot!Store PROVE HotInv'
<1>0. /\ hotNow \in Second /\ hotNow \in Nat /\ trades \in Seq(Hot!Trades)
      /\ positions \subseteq Hot!Snapshots /\ hot \in Hot!Locals /\ hot.at \in Nat
      /\ disturbed \subseteq Tokens /\ hotFaults \in 0..HotFaults
      /\ compared \subseteq Second
      /\ \A i \in DOMAIN trades : trades[i] \in Hot!Trades /\ trades[i].ts \in Nat
      /\ \A s \in positions : s.at \in Nat
  BY HotHere
<1>1. PICK lost \in SUBSET Hot!Open :
        /\ IF lost = {} THEN UNCHANGED hotFaults ELSE Hot!Fault
        /\ positions' = positions \cup Hot!Rows(Hot!Open \ lost)
        /\ disturbed' = disturbed \cup Hot!Gone \cup lost \cup {trades[i].token : i \in Hot!Straddling}
                        \cup (IF Hot!Open = lost /\ Hot!Stamps(positions) > 1 THEN Tokens ELSE {})
  BY DEF Hot!Store
<1>2. /\ hot.pc = "fetched" /\ hot' = [hot EXCEPT !.pc = "stored", !.at = hotNow]
      /\ UNCHANGED <<hotNow, trades, ledger, missed, residuals, compared>>
  BY DEF Hot!Store
<1> DEFINE kept == Hot!Open \ lost
           fresh == Hot!Rows(kept)
<1>3. hot' \in Hot!Locals /\ hot'.pc = "stored" /\ hot'.at = hotNow
  BY <1>0, <1>2 DEF Hot!Locals, Hot!Rounds, Second
<1>4. /\ Hot!Open \subseteq Tokens /\ Hot!Gone \subseteq Tokens /\ lost \subseteq Tokens /\ kept \subseteq Tokens
      /\ \A k \in Tokens : k \in Hot!Open <=> hot.positions[k] > 0
      /\ \A k \in Tokens : hot.positions[k] \in Nat
  BY <1>0, <1>1 DEF Hot!Open, Hot!Gone, Hot!Locals
<1>5. fresh = {[token |-> k, size |-> hot.positions[k], at |-> hotNow] : k \in kept}
  BY DEF Hot!Rows
<1>6. /\ \A s \in fresh : s.at = hotNow /\ s.token \in kept /\ s.size = hot.positions[s.token]
      /\ \A k \in kept : \E s \in fresh : s.token = k
      /\ fresh \subseteq Hot!Snapshots
  <2> HIDE DEF kept, fresh
  <2>1. ASSUME NEW s \in fresh
        PROVE  s.at = hotNow /\ s.token \in kept /\ s.size = hot.positions[s.token] /\ s \in Hot!Snapshots
    <3>1. PICK k \in kept : s = [token |-> k, size |-> hot.positions[k], at |-> hotNow]
      BY <1>5
    <3>2. k \in Tokens /\ hot.positions[k] \in Nat /\ hotNow \in Hot!Rounds
      BY <1>0, <1>4 DEF Hot!Rounds, Second
    <3> QED
      BY <3>1, <3>2 DEF Hot!Snapshots
  <2>2. ASSUME NEW k \in kept PROVE \E s \in fresh : s.token = k
    <3> DEFINE s == [token |-> k, size |-> hot.positions[k], at |-> hotNow]
    <3>1. s \in fresh /\ s.token = k
      BY <1>5
    <3> QED
      BY <3>1
  <2> QED
    BY <2>1, <2>2
<1>7. /\ hot.at < hotNow /\ hot.had \subseteq DOMAIN trades
      /\ \A k \in Tokens : hot.positions[k] = Sum(trades, {i \in hot.had : trades[i].token = k})
      /\ \A s \in positions : s.at < hotNow
  BY <1>0, <1>2 DEF HotInv, HotFetched, HotStamps
<1> DEFINE strayed == {trades[i].token : i \in Hot!Straddling}
           all == IF Hot!Open = lost /\ Hot!Stamps(positions) > 1 THEN Tokens ELSE {}
<1>8. strayed \subseteq Tokens /\ all \subseteq Tokens
  BY <1>0 DEF Hot!Straddling, Hot!Trades
<1>9. /\ positions' = positions \cup fresh
      /\ disturbed' = disturbed \cup Hot!Gone \cup lost \cup strayed \cup all
  BY <1>1
<1>c. kept = {} => (disturbed' = Tokens \/ \A x, y \in Stamped(positions) : x = y)
  <2> SUFFICES ASSUME kept = {}, disturbed' # Tokens PROVE \A x, y \in Stamped(positions) : x = y
    OBVIOUS
  <2>1. Hot!Open = lost
    BY <1>1
  <2>2. all # Tokens
    BY <1>0, <1>4, <1>8, <1>9
  <2>3. ~(Hot!Stamps(positions) > 1)
    BY <2>1, <2>2
  <2> QED
    BY <1>0, <2>3, OneStamp
<1> HIDE DEF kept, fresh, all
<1>10. Hot!TypeOK'
  <2>1. hotFaults' \in 0..HotFaults
    BY <1>0, <1>1, HotAssumption DEF Hot!Fault
  <2>2. positions' \subseteq Hot!Snapshots /\ disturbed' \subseteq Tokens
    BY <1>0, <1>4, <1>6, <1>8, <1>9
  <2> QED
    BY <1>2, <1>3, <2>1, <2>2 DEF HotInv, Hot!TypeOK
<1>11. HotPast' /\ HotFetched'
  BY <1>2, <1>3 DEF HotInv, HotPast, HotFetched
<1>12. HotStamps'
  <2>1. \A s \in positions' : s.at <= hotNow
    BY <1>0, <1>6, <1>7, <1>9
  <2>2. \A x \in compared : x < hotNow
    <3>1. \A x \in compared : x < hot.at
      BY DEF HotInv, HotStamps
    <3>2. \A x \in compared : x \in Nat
      BY <1>0, HotHere DEF Second
    <3> QED
      BY <1>0, <1>7, <3>1, <3>2
  <2> QED
    BY <1>0, <1>2, <1>3, <2>1, <2>2 DEF HotStamps
<1>13. Stamped(positions') = Stamped(positions) \cup (IF kept = {} THEN {} ELSE {hotNow})
  <2>1. Stamped(fresh) = IF kept = {} THEN {} ELSE {hotNow}
    BY <1>6 DEF Stamped
  <2> QED
    BY <1>9, <2>1 DEF Stamped
<1>14. HotRows'
  <2> SUFFICES ASSUME NEW k \in Tokens, k \notin disturbed' PROVE Rowed(positions', trades, k)
    BY <1>2 DEF HotRows
  <2>1. /\ k \notin disturbed /\ k \notin Hot!Gone /\ k \notin lost /\ k \notin strayed
        /\ Rowed(positions, trades, k)
    BY <1>9 DEF HotInv, HotRows
  <2> DEFINE size == Sum(trades, Within(trades, k, hotNow))
  <2>2. hot.positions[k] = size
    <3>1. \A i \in DOMAIN trades : trades[i].token = k => i \in hot.had /\ trades[i].ts <= hotNow
      <4>1. \A i \in DOMAIN trades : trades[i].ts <= hotNow
        BY DEF HotInv, HotPast
      <4> QED
        BY <2>1, <4>1 DEF Hot!Straddling
    <3>2. {i \in hot.had : trades[i].token = k} = Within(trades, k, hotNow)
      BY <1>7, <3>1 DEF Within
    <3> QED
      BY <1>7, <3>2
  <2> HIDE DEF size
  <2>3. k \in kept <=> hot.positions[k] > 0
    BY <1>4, <2>1 DEF kept
  <2>4. k \notin kept => size = 0 /\ \A s \in positions' : s.token # k
    <3> SUFFICES ASSUME k \notin kept PROVE size = 0 /\ \A s \in positions' : s.token # k
      OBVIOUS
    <3>1. hot.positions[k] = 0
      BY <1>4, <2>3
    <3>2. \A s \in positions : s.token # k
      BY <2>1, <3>1 DEF Hot!Gone
    <3> QED
      BY <1>6, <1>9, <2>2, <3>1, <3>2
  <2>5. ASSUME NEW s \in positions', s.token = k PROVE s.size = Sum(trades, Within(trades, k, s.at))
    <3>1. CASE s \in positions
      BY <2>1, <2>5, <3>1 DEF Rowed
    <3>2. CASE s \in fresh
      BY <1>6, <2>2, <2>5, <3>2 DEF size
    <3> QED
      BY <1>9, <3>1, <3>2
  <2>6. ASSUME NEW x \in Stamped(positions') PROVE RowOf(positions', trades, k, x)
    <3>1. CASE k \notin kept
      <4>1. \A s \in positions' : s.token = k => s.at > x
        BY <2>4, <3>1
      <4>2. CASE x \in Stamped(positions)
        <5>1. RowOf(positions, trades, k, x)
          BY <2>1, <4>2 DEF Rowed
        <5>2. \A s \in positions : s.token # k
          BY <1>9, <2>4, <3>1
        <5>3. Sum(trades, Within(trades, k, x)) = 0
          BY <5>1, <5>2 DEF RowOf
        <5> QED
          BY <4>1, <5>3 DEF RowOf
      <4>3. CASE x = hotNow
        BY <2>4, <3>1, <4>1, <4>3 DEF RowOf, size
      <4> QED
        BY <1>13, <2>6, <4>2, <4>3
    <3>2. CASE k \in kept
      <4>1. \E s \in fresh : s.token = k /\ s.at = hotNow
        BY <1>6, <3>2
      <4>2. CASE x \in Stamped(positions)
        <5>1. RowOf(positions, trades, k, x)
          BY <2>1, <4>2 DEF Rowed
        <5>2. CASE \E s \in positions : s.token = k /\ s.at = x
          BY <1>9, <5>2 DEF RowOf
        <5>3. CASE /\ Sum(trades, Within(trades, k, x)) = 0
                   /\ \A s \in positions : s.token = k => s.at > x
          <6>1. hotNow > x
            BY <1>7, <4>2 DEF Stamped
          <6>2. \A s \in positions' : s.token = k => s.at > x
            BY <1>6, <1>9, <5>3, <6>1
          <6> QED
            BY <5>3, <6>2 DEF RowOf
        <5> QED
          BY <5>1, <5>2, <5>3 DEF RowOf
      <4>3. CASE x = hotNow
        BY <1>9, <4>1, <4>3 DEF RowOf
      <4> QED
        BY <1>13, <2>6, <4>2, <4>3
    <3> QED
      BY <3>1, <3>2
  <2> QED
    BY <2>5, <2>6 DEF Rowed
<1>15. HotWindows'
  <2> SUFFICES ASSUME disturbed' # Tokens PROVE HotWindows'
    BY <1>2 DEF HotWindows
  <2>1. disturbed # Tokens
    BY <1>4, <1>8, <1>9, <1>10 DEF Hot!TypeOK
  <2>2. compared = Covers(Stamped(positions))
    BY <1>2, <2>1 DEF HotInv, HotWindows
  <2>3. Below(positions', hotNow) = Stamped(positions)
    <3>1. \A x \in Stamped(positions) : x < hotNow
      BY <1>7 DEF Stamped
    <3> QED
      BY <1>0, <1>13, <3>1 DEF Below
  <2>4. hotNow \in Stamped(positions') \/ \A x, y \in Stamped(positions') : x = y
    BY <1>13, <1>c
  <2> QED
    BY <1>2, <1>3, <2>2, <2>3, <2>4 DEF HotWindows
<1>16. HotSums'
  BY <1>2, <1>9 DEF HotInv, HotSums
<1> QED
  BY <1>10, <1>11, <1>12, <1>14, <1>15, <1>16 DEF HotInv

\* A round compares the two before it: the seconds between them and no other.
LEMMA NextWindow ==
  ASSUME NEW St \in SUBSET Second, NEW at \in Second, at \in St, \A x \in St : x <= at,
         NEW T, \A x : x \in T <=> x \in St /\ x < at,
         NEW a, NEW b, b \in T, \A x \in T : x <= b,
         NEW U, \A x : x \in U <=> x \in St /\ x < b, a \in U, \A x \in U : x <= a
  PROVE  /\ Covers(St) = Covers(T) \cup (a + 1)..b
         /\ Covers(T) \cap (a + 1)..b = {}
<1>1. MaxTime \in Nat /\ Second \subseteq Int
  BY HotAssumption DEF Second
<1>2. /\ \A x \in St : x \in Int /\ 0 <= x /\ x <= MaxTime
      /\ a \in St /\ b \in St /\ a < b /\ b < at /\ a \in T /\ at \in Int
  <2>1. a \in St /\ a < b /\ b \in St /\ b < at
    OBVIOUS
  <2>2. \A x \in St : x \in Int /\ 0 <= x /\ x <= MaxTime
    BY <1>1 DEF Second
  <2>3. at \in Int
    BY <1>1
  <2> QED
    BY <2>1, <2>2, <2>3
<1>3. \A x \in T : x = b \/ (x \in U /\ x <= a)
  BY <1>1, <1>2
<1>4. ASSUME NEW x \in Covers(T) PROVE x <= a /\ x \in Int
  <2>1. PICK p \in T, q \in T, r \in T : p < x /\ x <= q /\ q < r
    BY DEF Covers
  <2>2. q \in Int /\ r \in Int /\ r <= b /\ x \in Int
    BY <1>1, <1>2 DEF Covers
  <2>3. q # b
    BY <1>2, <2>1, <2>2
  <2>4. q <= a
    BY <1>3, <2>3
  <2> QED
    BY <1>2, <2>1, <2>2, <2>4
<1>5. Covers(T) \cap (a + 1)..b = {}
  BY <1>2, <1>4
<1>6. ASSUME NEW x \in Covers(St) PROVE x \in Covers(T) \cup (a + 1)..b
  <2>1. PICK p \in St, q \in St, r \in St : p < x /\ x <= q /\ q < r
    BY DEF Covers
  <2>2. x \in Int /\ x \in Second /\ q < at /\ p < at
    BY <1>1, <1>2, <2>1 DEF Covers
  <2>3. q \in T /\ p \in T /\ q <= b
    BY <2>2
  <2>4. CASE x <= a
    BY <1>2, <2>1, <2>2, <2>3, <2>4 DEF Covers
  <2>5. CASE ~(x <= a)
    <3>1. x <= b
      BY <1>2, <2>1, <2>2, <2>3
    <3> QED
      BY <1>2, <2>2, <2>5, <3>1
  <2> QED
    BY <2>4, <2>5
<1>7. ASSUME NEW x \in Covers(T) PROVE x \in Covers(St)
  BY <1>7 DEF Covers
<1>8. ASSUME NEW x \in (a + 1)..b PROVE x \in Covers(St)
  <2>1. x \in Int /\ a < x /\ x <= b /\ b < at
    BY <1>2
  <2>2. x \in Second
    BY <1>1, <1>2, <2>1 DEF Second
  <2> QED
    BY <1>2, <2>1, <2>2 DEF Covers
<1> QED
  BY <1>5, <1>6, <1>7, <1>8

\* Fewer than three rounds leave nothing to compare.
LEMMA NoWindow ==
  ASSUME NEW St \in SUBSET Second, NEW at \in Second, \A x \in St : x <= at,
         \/ \A x, y \in St : x = y
         \/ {x \in St : x < at} = {}
         \/ \E b \in St : b < at /\ (\A x \in St : x < at => x <= b) /\ {x \in St : x < b} = {}
  PROVE  Covers(St) = {} /\ Covers({x \in St : x < at}) = {}
<1>1. \A x \in St : x \in Int /\ at \in Int
  BY HotAssumption DEF Second
<1>2. SUFFICES ASSUME NEW x, x \in Covers(St) \cup Covers({y \in St : y < at}) PROVE FALSE
  OBVIOUS
<1>3. PICK p \in St, q \in St, r \in St : p < x /\ x <= q /\ q < r
  BY <1>2 DEF Covers
<1>4. x \in Int /\ p < q /\ q < at /\ p < at /\ q < r
  <2>1. x \in Int
    BY <1>2, HotAssumption DEF Covers, Second
  <2> QED
    BY <1>1, <1>3, <2>1
<1> QED
  BY <1>1, <1>4

\* What a window signals of a token is what was missed in it.
LEMMA WindowSum ==
  ASSUME HotInv, NEW k \in Tokens, Rowed(positions, trades, k),
         NEW b \in Below(positions, hot.at), \A x \in Below(positions, hot.at) : x <= b,
         NEW a \in Below(positions, b), \A x \in Below(positions, b) : x <= a,
         NEW prev, prev = Hot!Latest(hot.at), NEW older, older = Hot!Latest(b),
         ~Hot!Unmoved(k, prev, older)
  PROVE  Hot!Residual(k, prev, older) = Sum(trades, {i \in missed : trades[i].token = k /\ trades[i].ts \in (a + 1)..b})
<1> DEFINE W == Between(trades, k, a, b)
           In == W \cap ledger
           Out == W \cap missed
           delta == Hot!SizeIn(prev, k) - Hot!SizeIn(older, k)
           covered == Hot!Covered(k, a, b)
<1>0. /\ trades \in Seq(Hot!Trades) /\ positions \subseteq Hot!Snapshots /\ hot.at \in Nat /\ hotNow \in Nat
      /\ ledger \subseteq DOMAIN trades /\ missed \subseteq DOMAIN trades \ ledger
      /\ \A i \in DOMAIN trades : trades[i].ts \in Nat
      /\ \A s \in positions : s.at \in Nat
  BY HotHere
<1>1. a \in Nat /\ b \in Nat /\ a < b /\ b < hot.at /\ b < hotNow
  <2>1. hot.at <= hotNow
    BY DEF HotInv, HotStamps
  <2>2. a \in Nat /\ b \in Nat
    BY <1>0 DEF Below, Stamped
  <2> QED
    BY <1>0, <2>1, <2>2 DEF Below
<1>2. Hot!NewestOf(prev) = b /\ Hot!NewestOf(older) = a
  <2>1. hot.at \in Int /\ b \in Int
    BY <1>0, <1>1
  <2> QED
    BY <1>0, <2>1, LatestIs
<1>3. /\ Hot!SizeIn(prev, k) = Sum(trades, Within(trades, k, b))
      /\ Hot!SizeIn(older, k) = Sum(trades, Within(trades, k, a))
  <2>1. hot.at \in Int /\ b \in Int
    BY <1>0, <1>1
  <2>2. Hot!SizeIn(prev, k) = Sum(trades, Within(trades, k, b))
    BY <1>0, <2>1, SizeRead
  <2>3. Hot!SizeIn(older, k) = Sum(trades, Within(trades, k, a))
    BY <1>0, <2>1, SizeRead
  <2> QED
    BY <2>2, <2>3
<1>4. /\ Within(trades, k, b) = Within(trades, k, a) \cup W /\ Within(trades, k, a) \cap W = {}
      /\ Within(trades, k, a) \in SUBSET (DOMAIN trades) /\ W \in SUBSET (DOMAIN trades)
  BY <1>0, <1>1 DEF Within, Between
<1>5. Sum(trades, Within(trades, k, b)) = Sum(trades, Within(trades, k, a)) + Sum(trades, W)
  BY <1>0, <1>4, SumOfTwo
<1>6. W = In \cup Out /\ In \cap Out = {} /\ In \in SUBSET (DOMAIN trades) /\ Out \in SUBSET (DOMAIN trades)
  <2>1. \A i \in W : i \in ledger \cup missed
    <3>1. \A i \in DOMAIN trades : trades[i].ts < hotNow => i \in ledger \cup missed
      BY DEF HotInv, HotPast
    <3> QED
      BY <1>0, <1>1, <3>1 DEF Between
  <2> QED
    BY <1>0, <1>4, <2>1
<1>7. Sum(trades, W) = Sum(trades, In) + Sum(trades, Out)
  BY <1>0, <1>6, SumOfTwo
<1>8. covered = Sum(trades, In)
  <2>1. Hot!Within(a, b) \cap Hot!TradesOf(k) \cap ledger = In
    BY <1>0 DEF Hot!Within, Hot!TradesOf, Between
  <2> QED
    BY <2>1, HotSizes DEF Hot!Covered
<1>9. /\ Sum(trades, Within(trades, k, a)) \in Int /\ Sum(trades, In) \in Int /\ Sum(trades, Out) \in Int
  BY <1>0, <1>4, <1>6, SumIn
<1>10. Out = {i \in missed : trades[i].token = k /\ trades[i].ts \in (a + 1)..b}
  BY <1>0, <1>1 DEF Between
<1> HIDE DEF In, Out, W
<1>11. delta = Sum(trades, In) + Sum(trades, Out)
  BY <1>3, <1>5, <1>7, <1>9
<1>12. Hot!Residual(k, prev, older) = IF delta = 0 THEN 0 ELSE delta - covered
  BY <1>2 DEF Hot!Residual
<1>13. delta = 0 => covered = 0
  <2>1. Hot!SizeIn(prev, k) \in Int /\ Hot!SizeIn(older, k) \in Int
    BY <1>0, <1>3, <1>4, SumIn
  <2>2. delta = 0 => Hot!SizeIn(prev, k) = Hot!SizeIn(older, k)
    BY <2>1
  <2>3. Hot!SizeIn(prev, k) = Hot!SizeIn(older, k) => covered = 0
    BY <1>2 DEF Hot!Unmoved
  <2> QED
    BY <2>2, <2>3
<1> HIDE DEF delta, covered
<1>14. Hot!Residual(k, prev, older) = Sum(trades, Out)
  BY <1>8, <1>9, <1>11, <1>12, <1>13
<1> QED
  BY <1>10, <1>14

\* A window more: what it signals of a token is what was missed in it, and it meets no earlier one.
LEMMA HotReconciles == ASSUME HotInv, Hot!Reconcile PROVE HotInv'
<1> DEFINE St == Stamped(positions)
           T == Below(positions, hot.at)
           prev == Hot!Latest(hot.at)
           older == IF prev = {} THEN {} ELSE Hot!Latest(Hot!NewestOf(prev))
<1>0. /\ positions \subseteq Hot!Snapshots /\ hot \in Hot!Locals /\ hot.at \in Nat /\ hot.at \in Second
      /\ trades \in Seq(Hot!Trades) /\ missed \subseteq DOMAIN trades
      /\ residuals \in [Tokens -> Int] /\ compared \subseteq Second /\ disturbed \subseteq Tokens
      /\ hotFaults \in 0..HotFaults /\ \A s \in positions : s.at \in Second
  BY HotHere
<1>1. /\ hot.pc = "stored" /\ hot' = [Hot!Idle EXCEPT !.at = hot.at]
      /\ UNCHANGED <<hotNow, trades, ledger, missed, positions>>
  BY DEF Hot!Reconcile
<1>2. hot' \in Hot!Locals /\ hot'.pc = "idle" /\ hot'.at = hot.at
  BY <1>0, <1>1 DEF Hot!Idle, Hot!Locals, Hot!NoPositions
<1>3. /\ St \in SUBSET Second /\ T = {x \in St : x < hot.at} /\ \A x \in St : x <= hot.at
      /\ Second \subseteq Int
  BY <1>0, HotAssumption DEF HotInv, HotStamps, Stamped, Below, Second
<1>4. HotPast' /\ HotFetched'
  BY <1>1, <1>2 DEF HotInv, HotPast, HotFetched
<1>5. CASE older = {}
  <2>1. UNCHANGED <<residuals, compared, disturbed, hotFaults>>
    BY <1>5 DEF Hot!Reconcile
  <2>2. Hot!TypeOK' /\ HotStamps' /\ HotRows' /\ HotSums'
    BY <1>1, <1>2, <2>1 DEF HotInv, Hot!TypeOK, HotStamps, HotRows, HotSums
  <2>3. HotWindows'
    <3> SUFFICES ASSUME disturbed # Tokens PROVE compared = Covers(St)
      BY <1>1, <1>2, <2>1 DEF HotWindows
    <3>1. compared = Covers(T)
      BY <1>1 DEF HotInv, HotWindows
    <3>2. \/ T = {}
          \/ \E b \in St : b < hot.at /\ (\A x \in St : x < hot.at => x <= b) /\ {x \in St : x < b} = {}
      <4> SUFFICES ASSUME T # {}
                   PROVE  \E b \in St : b < hot.at /\ (\A x \in St : x < hot.at => x <= b) /\ {x \in St : x < b} = {}
        OBVIOUS
      <4>1. T \in SUBSET Second
        BY <1>3
      <4> HIDE DEF T
      <4>2. PICK b \in T : \A x \in T : x <= b
        BY <4>1, LastSecond
      <4>3. prev # {} /\ Hot!NewestOf(prev) = b
        BY <1>0, <4>2, LatestIs DEF T
      <4>4. Hot!Latest(b) = {}
        BY <1>5, <4>3
      <4>5. b \in Int
        BY <1>3, <4>1
      <4>6. Below(positions, b) = {}
        BY <1>0, <4>4, <4>5, LatestIs
      <4> QED
        BY <1>3, <4>2, <4>6 DEF Below
    <3>3. Covers(St) = {} /\ Covers({x \in St : x < hot.at}) = {}
      <4> HIDE DEF St, T
      <4> QED
        BY <1>0, <1>3, <3>2, NoWindow
    <3> QED
      BY <1>3, <3>1, <3>3
  <2> QED
    BY <1>4, <2>2, <2>3 DEF HotInv
<1>6. CASE older # {}
  <2>1. prev # {} /\ older = Hot!Latest(Hot!NewestOf(prev))
    BY <1>6
  <2>2. PICK lost \in SUBSET Tokens :
          /\ IF lost = {} THEN UNCHANGED hotFaults ELSE Hot!Fault
          /\ residuals' = [k \in Tokens |->
               IF k \in lost THEN residuals[k] ELSE residuals[k] + Hot!Residual(k, prev, older)]
          /\ compared'  = compared \cup (Hot!NewestOf(older) + 1) .. Hot!NewestOf(prev)
          /\ disturbed' = disturbed \cup lost \cup {k \in Tokens : Hot!Unmoved(k, prev, older)}
    BY <1>6 DEF Hot!Reconcile
  <2> HIDE DEF older, prev
  <2>3. T # {} /\ T \in SUBSET Second
    BY <1>0, <1>3, <2>1, LatestIs DEF prev
  <2>4. PICK b \in T : \A x \in T : x <= b
    BY <2>3, LastSecond
  <2>5. Hot!NewestOf(prev) = b /\ b \in Int /\ b \in Second
    BY <1>0, <1>3, <2>3, <2>4, LatestIs DEF prev
  <2> DEFINE U == Below(positions, b)
  <2>6. older = Hot!Latest(b)
    BY <2>1, <2>5
  <2>7. U # {} /\ U \in SUBSET Second /\ U = {x \in St : x < b}
    BY <1>0, <1>3, <1>6, <2>5, <2>6, LatestIs DEF Below
  <2>8. PICK a \in U : \A x \in U : x <= a
    <3> HIDE DEF U
    <3> QED
      BY <2>7, LastSecond
  <2>9. Hot!NewestOf(older) = a /\ a \in Second /\ a \in Int
    BY <1>0, <1>3, <2>5, <2>6, <2>7, <2>8, LatestIs
  <2>10. compared' = compared \cup (a + 1)..b
    BY <2>2, <2>5, <2>9
  <2>11. a < b /\ b < hot.at
    BY <1>3, <2>4, <2>7, <2>8
  <2>12. (a + 1)..b \subseteq Second
    BY <2>5, <2>9, HotAssumption DEF Second
  <2> HIDE DEF U
  <2>13. ASSUME NEW k \in Tokens, k \notin disturbed'
         PROVE  /\ residuals'[k] = residuals[k] + Hot!Residual(k, prev, older)
                /\ Hot!Residual(k, prev, older) = Sum(trades, SeenMissed(trades, k, missed, (a + 1)..b))
    <3>1. k \notin disturbed /\ k \notin lost /\ ~Hot!Unmoved(k, prev, older) /\ Rowed(positions, trades, k)
      BY <2>2, <2>13 DEF HotInv, HotRows
    <3>2. Hot!Residual(k, prev, older) = Sum(trades, {i \in missed : trades[i].token = k /\ trades[i].ts \in (a + 1)..b})
      BY <2>4, <2>6, <2>8, <3>1, WindowSum DEF prev, U
    <3> QED
      BY <2>2, <3>1, <3>2 DEF SeenMissed
  <2>14. residuals' \in [Tokens -> Int]
    <3> SUFFICES ASSUME NEW k \in Tokens PROVE Hot!Residual(k, prev, older) \in Int
      BY <1>0, <2>2
    <3>1. \A S : Hot!Covered(k, Hot!NewestOf(older), Hot!NewestOf(prev)) \in Int
      <4> DEFINE S == Hot!Within(Hot!NewestOf(older), Hot!NewestOf(prev)) \cap Hot!TradesOf(k) \cap ledger
      <4>1. S \in SUBSET (DOMAIN trades)
        BY DEF Hot!Within
      <4>2. Hot!Sizes(S) \in Int
        BY <1>0, <4>1, SumIn, HotSizes
      <4> QED
        BY <4>2 DEF Hot!Covered
    <3>2. ASSUME NEW S, S \subseteq positions PROVE Hot!SizeIn(S, k) \in Int
      <4>1. CASE \E s \in S : s.token = k
        <5> DEFINE c == CHOOSE s \in S : s.token = k
        <5>1. c \in S
          BY <4>1
        <5> HIDE DEF c
        <5>2. c.size \in Int
          BY <1>0, <3>2, <5>1 DEF Hot!Snapshots
        <5> QED
          BY <4>1, <5>2 DEF Hot!SizeIn, c
      <4>2. CASE ~\E s \in S : s.token = k
        BY <4>2 DEF Hot!SizeIn
      <4> QED
        BY <4>1, <4>2
    <3>3. prev \subseteq positions /\ older \subseteq positions
      BY <2>6 DEF prev, Hot!Latest, Hot!Before
    <3>4. Hot!SizeIn(prev, k) \in Int /\ Hot!SizeIn(older, k) \in Int
      BY <3>2, <3>3
    <3> QED
      BY <3>1, <3>4 DEF Hot!Residual
  <2>15. Hot!TypeOK'
    <3>1. hotFaults' \in 0..HotFaults
      BY <1>0, <2>2, HotAssumption DEF Hot!Fault
    <3>2. disturbed' \subseteq Tokens /\ compared' \subseteq Second
      BY <1>0, <2>2, <2>10, <2>12
    <3> QED
      BY <1>1, <1>2, <2>14, <3>1, <3>2 DEF HotInv, Hot!TypeOK, Hot!Rounds, Second
  <2>16. HotStamps'
    <3>1. \A x \in (a + 1)..b : x < hot.at
      BY <1>0, <2>5, <2>9, <2>11
    <3>2. \A x \in compared' : x < hot.at
      BY <2>10, <3>1 DEF HotInv, HotStamps
    <3> QED
      BY <1>1, <1>2, <3>2 DEF HotInv, HotStamps
  <2>17. HotRows'
    BY <1>1, <2>2 DEF HotInv, HotRows
  <2>18. ASSUME disturbed # Tokens PROVE compared = Covers(T) /\ hot.at \in St
    <3>1. compared = Covers(T) /\ (hot.at \in St \/ \A x, y \in St : x = y)
      BY <1>1, <2>18 DEF HotInv, HotWindows
    <3>2. a \in St /\ b \in St /\ a # b
      BY <1>3, <2>4, <2>5, <2>7, <2>8, <2>9, <2>11
    <3> QED
      BY <3>1, <3>2
  <2>19. ASSUME disturbed # Tokens
         PROVE  Covers(St) = compared' /\ compared \cap (a + 1)..b = {}
    <3>1. compared = Covers(T) /\ hot.at \in St
      BY <2>18, <2>19
    <3> DEFINE at == hot.at
    <3>t. /\ St \in SUBSET Second /\ at \in Second /\ at \in St /\ (\A x \in St : x <= at)
          /\ (\A x : x \in T <=> x \in St /\ x < at) /\ b \in T /\ (\A x \in T : x <= b)
          /\ (\A x : x \in U <=> x \in St /\ x < b) /\ a \in U /\ (\A x \in U : x <= a)
      BY <1>0, <1>3, <2>4, <2>7, <2>8, <3>1
    <3> HIDE DEF St, T, at
    <3>2. Covers(St) = Covers(T) \cup (a + 1)..b /\ Covers(T) \cap (a + 1)..b = {}
      BY ZenonT(60), <3>t, NextWindow
    <3> QED
      BY <2>10, <3>1, <3>2
  <2>20. HotWindows'
    <3> SUFFICES ASSUME disturbed' # Tokens PROVE compared' = Covers(St)
      BY <1>1, <1>2 DEF HotWindows
    <3>1. disturbed # Tokens
      BY <1>0, <2>2
    <3> QED
      BY <2>19, <3>1
  <2>21. HotSums'
    <3> SUFFICES ASSUME NEW k \in Tokens, k \notin disturbed'
                 PROVE  residuals'[k] = Sum(trades, SeenMissed(trades, k, missed, compared'))
      BY <1>1 DEF HotSums
    <3>1. k \notin disturbed /\ disturbed # Tokens
      BY <2>2
    <3> DEFINE A == SeenMissed(trades, k, missed, compared)
               B == SeenMissed(trades, k, missed, (a + 1)..b)
    <3>2. residuals[k] = Sum(trades, A)
      BY <3>1 DEF HotInv, HotSums
    <3>3. residuals'[k] = residuals[k] + Sum(trades, B)
      BY <2>13
    <3>4. A \cap B = {} /\ A \in SUBSET (DOMAIN trades) /\ B \in SUBSET (DOMAIN trades)
      BY <1>0, <2>19, <3>1 DEF SeenMissed
    <3>5. SeenMissed(trades, k, missed, compared') = A \cup B
      BY <2>10 DEF SeenMissed
    <3> HIDE DEF A, B
    <3>6. Sum(trades, A \cup B) = Sum(trades, A) + Sum(trades, B)
      BY <1>0, <3>4, SumOfTwo
    <3> QED
      BY <3>2, <3>3, <3>5, <3>6
  <2> QED
    BY <1>4, <2>15, <2>16, <2>17, <2>20, <2>21 DEF HotInv
<1> QED
  BY <1>5, <1>6

\* Every step keeps rows, windows and sums.
LEMMA HotSteps == ASSUME HotInv, Hot!Next \/ UNCHANGED hotVars PROVE HotInv'
<1>1. CASE UNCHANGED hotVars
  BY <1>1 DEF hotVars, HotInv, Hot!TypeOK, HotPast, HotFetched, HotStamps, HotRows, HotWindows, HotSums
<1>2. CASE Hot!Next
  BY <1>2, HotTrade, HotWatch, HotRound, HotStore, HotReconciles DEF Hot!Next
<1> QED
  BY <1>1, <1>2

\* What undisturbed rounds signal is what was missed.
LEMMA HotHolds == HotInv => Hot!TypeOK /\ Hot!ResidualIsTheMissed /\ Hot!WindowsAreAdjacent
<1> SUFFICES ASSUME HotInv PROVE Hot!ResidualIsTheMissed /\ Hot!WindowsAreAdjacent
  BY DEF HotInv
<1>0. missed \subseteq DOMAIN trades /\ compared \subseteq Second
  BY HotHere
<1>1. Hot!ResidualIsTheMissed
  <2> SUFFICES ASSUME NEW k \in Tokens, k \notin disturbed
               PROVE  residuals[k] = Hot!Sizes({i \in Hot!TradesOf(k) \cap missed : trades[i].ts \in compared})
    BY DEF Hot!ResidualIsTheMissed
  <2>1. {i \in Hot!TradesOf(k) \cap missed : trades[i].ts \in compared} = SeenMissed(trades, k, missed, compared)
    BY <1>0 DEF Hot!TradesOf, SeenMissed
  <2>2. residuals[k] = Sum(trades, SeenMissed(trades, k, missed, compared))
    BY DEF HotInv, HotSums
  <2> QED
    BY <2>1, <2>2, HotSizes
<1>2. \A x \in compared : x < hot.at
  BY DEF HotInv, HotStamps
<1>3. ASSUME disturbed # Tokens, compared # {} PROVE compared = Hot!Min(compared) .. Hot!Max(compared)
  <2> DEFINE St == IF hot.pc = "stored" THEN Below(positions, hot.at) ELSE Stamped(positions)
  <2>1. compared = Covers(St)
    BY <1>3 DEF HotInv, HotWindows
  <2>2. \A s \in positions : s.at \in Second
    BY HotHere
  <2>3. St \subseteq Second
    BY <2>2 DEF Stamped, Below
  <2> HIDE DEF St
  <2>4. PICK lo \in compared : \A x \in compared : lo <= x
    BY <1>0, <1>3, LastSecond
  <2>5. PICK hi \in compared : \A x \in compared : x <= hi
    BY <1>0, <1>3, LastSecond
  <2>6. compared \in SUBSET Int /\ \A x \in Second : x \in Int
    BY <1>0, HotAssumption DEF Second
  <2>7. Hot!Min(compared) = lo /\ Hot!Max(compared) = hi
    BY <2>4, <2>5, <2>6, HotMinOf, HotMaxOf
  <2>8. ASSUME NEW x \in lo..hi PROVE x \in compared
    <3>1. PICK p \in St : p < lo
      BY <2>1, <2>4 DEF Covers
    <3>2. PICK q \in St, r \in St : hi <= q /\ q < r
      BY <2>1, <2>5 DEF Covers
    <3>3. p \in Int /\ q \in Int /\ r \in Int /\ lo \in Int /\ hi \in Int /\ x \in Int /\ lo \in Second /\ hi \in Second
      BY <1>0, <2>3, <2>6, <2>8
    <3>4. lo <= x /\ x <= hi
      BY <2>8, <3>3
    <3>5. x \in Second
      BY <3>3, <3>4, HotAssumption DEF Second
    <3>6. p < x /\ x <= q
      BY <3>1, <3>2, <3>3, <3>4
    <3> QED
      BY <2>1, <3>2, <3>5, <3>6 DEF Covers
  <2>9. \A x \in compared : x \in lo..hi
    BY <2>4, <2>5, <2>6
  <2> QED
    BY <2>7, <2>8, <2>9
<1> QED
  BY <1>1, <1>2, <1>3 DEF Hot!WindowsAreAdjacent

----------------------------------------------------------------------------
(* Workers *)

WorkersInv == HotInv /\ LedInv /\ FillInv /\ PageInv /\ IdInv /\ MapInv /\ PriInv /\ PorInv

\* One part moves, the others stand still.
LEMMA WorkersStep ==
  WorkersInv /\ [Next]_<<part, hotVars, ledgerVars, fillVars, pageVars, identityVars, mappingVars,
                         pricingVars, portfolioVars>> => WorkersInv'
<1> SUFFICES ASSUME WorkersInv,
                    Next \/ UNCHANGED <<part, hotVars, ledgerVars, fillVars, pageVars, identityVars, mappingVars,
                                        pricingVars, portfolioVars>>
             PROVE  WorkersInv'
  OBVIOUS
<1>1. HotInv'
  <2>1. Hot!Next \/ UNCHANGED hotVars
    BY DEF Next
  <2> QED
    BY <2>1, HotSteps DEF WorkersInv
<1>2. LedInv'
  <2>1. Led!Next \/ UNCHANGED ledgerVars
    BY DEF Next
  <2> QED
    BY <2>1, LedSteps DEF WorkersInv
<1>3. FillInv'
  <2>1. Fill!Next \/ UNCHANGED fillVars
    BY DEF Next
  <2> QED
    BY <2>1, FillSteps DEF WorkersInv
<1>4. PageInv'
  <2>1. Rows!Next \/ UNCHANGED pageVars
    BY DEF Next
  <2> QED
    BY <2>1, PageSteps DEF WorkersInv
<1>5. IdInv'
  <2>1. Ids!Next \/ UNCHANGED identityVars
    BY DEF Next
  <2> QED
    BY <2>1, IdSteps DEF WorkersInv
<1>6. MapInv'
  <2>1. Map!Next \/ UNCHANGED mappingVars
    BY DEF Next
  <2> QED
    BY <2>1, MapSteps DEF WorkersInv
<1>7. PriInv'
  <2>1. Pri!Next \/ UNCHANGED pricingVars
    BY DEF Next
  <2> QED
    BY <2>1, PriSteps DEF WorkersInv
<1>8. PorInv'
  <2>1. Por!Next \/ UNCHANGED portfolioVars
    BY DEF Next
  <2> QED
    BY <2>1, PorSteps DEF WorkersInv
<1> QED
  BY <1>1, <1>2, <1>3, <1>4, <1>5, <1>6, <1>7, <1>8 DEF WorkersInv

\* The invariant of all eight parts holds in every reachable state.
THEOREM WorkersAreKept == Spec => []WorkersInv
<1>1. Init => WorkersInv
  BY HotStarts, LedStarts, FillStarts, PageStarts, IdStarts, MapStarts, PriStarts, PorStarts DEF Init, WorkersInv
<1>2. WorkersInv /\ [Next]_<<part, hotVars, ledgerVars, fillVars, pageVars, identityVars, mappingVars,
                             pricingVars, portfolioVars>> => WorkersInv'
  BY WorkersStep
<1> QED
  BY <1>1, <1>2, PTL DEF Spec

\* Rows, locals and histories have the types that their tables and workers give them, whatever the
\* venues send, the operators decide and the clock does.
THEOREM WorkerTypes == Spec => []TypeOK
<1>1. Init => part \in Parts
  BY DEF Init
<1>2. part \in Parts /\ [Next]_<<part, hotVars, ledgerVars, fillVars, pageVars, identityVars, mappingVars,
                                 pricingVars, portfolioVars>> => (part \in Parts)'
  BY DEF Next
<1>3. Spec => [](part \in Parts)
  BY <1>1, <1>2, PTL DEF Spec
<1>4. MapInv => Map!TypeOK
  BY DEF MapInv
<1>5. part \in Parts /\ WorkersInv => TypeOK
  BY <1>4, HotHolds, LedHolds, FillHolds, PageHolds, IdHolds, PriHolds, PorHolds DEF WorkersInv, Parts, TypeOK
<1> QED
  BY <1>3, <1>5, WorkersAreKept, PTL

\* For a token whose rounds were undisturbed, the residual signalled so far is exactly what
\* trade_watch had missed in the rounds compared, each trade once and with its sign; and the windows
\* leave no second between them out (hot.rs reconcile_positions, emit_signals).
THEOREM ResidualIsMissed == Spec => []ResidualIsTheMissed
<1>1. WorkersInv => ResidualIsTheMissed
  BY HotHolds DEF WorkersInv, ResidualIsTheMissed
<1> QED
  BY <1>1, WorkersAreKept, PTL

\* However a token is bought, sold short of its history, sold out and bought again: the open size is what
\* the trades leave, the segments held do not overlap, profit is the cash that came in and what is held,
\* the basis is what was paid, a curve ends at the whole worth, the greatest drawdown is the deepest of
\* the curve, and what the pages show of a curve goes forward and keeps its end; and the figures of a
\* portfolio page add up (timeline.rs, equity.rs, metrics.rs, perf.rs, routes.rs of the copier).
THEOREM LedgerKept == Spec => []LedgerAddsUp
<1>1. WorkersInv => LedgerAddsUp
  BY LedHolds, PorHolds DEF WorkersInv, LedgerAddsUp
<1> QED
  BY <1>1, WorkersAreKept, PTL

\* Of every fetch by which a trader was marked as visited, each trade of the newest page has its row,
\* or is one whose insert failed, whatever imports, other jobs and crashes come between (backfill.rs
\* backfill_trader).
THEOREM VisitsAreWhole == Spec => []BackfilledIsWhole
<1>1. WorkersInv => BackfilledIsWhole
  BY FillHolds DEF WorkersInv, BackfilledIsWhole
<1> QED
  BY <1>1, WorkersAreKept, PTL

\* When a pass has ended whole, every figure it owes is of the one set of trades that it read, and a
\* period that the boards have served keeps its official row, however passes, boards, deltas and imports
\* interleave (perf.rs, official_pnl.rs).
THEOREM RowsStayTrue == Spec => []RowsAreTrue
<1>1. WorkersInv => RowsAreTrue
  BY PageHolds DEF WorkersInv, RowsAreTrue
<1> QED
  BY <1>1, WorkersAreKept, PTL

\* Nobody is a member of a verified identity whom the operator did not see, and an order crosses venues
\* only as operators decided, however often the workers find the same candidates again
\* (identities.rs, mappings.rs).
THEOREM CuratedStands == Spec => []CuratedHolds
<1>1. WorkersInv => CuratedHolds
  BY IdHolds, MapHolds DEF WorkersInv, CuratedHolds
<1> QED
  BY <1>1, WorkersAreKept, PTL

\* Every order that is sent is within the signal's price and slippage and near a book that the venue
\* showed, is for something and costs something, and the venue takes one of them at most, however the
\* book moves and wherever the worker crashes (exec.rs, clob.rs).
THEOREM SentStaysSafe == Spec => []SentIsSafe
<1>1. WorkersInv => SentIsSafe
  BY PriHolds DEF WorkersInv, SentIsSafe
<1> QED
  BY <1>1, WorkersAreKept, PTL
=============================================================================
