--------------------------- MODULE AccountsProofs ---------------------------
(***************************************************************************)
(* What Accounts promises holds for any number of users, wallets, keys,    *)
(* follows, invoices and transfers, and for any interleaving of the        *)
(* handlers with the workers, the chain, the clock and crashes.            *)
(*                                                                         *)
(* Each part has an inductive invariant of its own; a step of one part     *)
(* leaves the others as they are.                                          *)
(***************************************************************************)
EXTENDS Accounts, FiniteSetTheorems, SequenceTheorems, TLAPS

----------------------------------------------------------------------------
(* Provisioning: the credential, its archives and the requests that replace it. *)

KeyRows == [key : Keys \cup {NoKey}, revoked : BOOLEAN]

CredentialTypes ==
  /\ row \in KeyRows
  /\ stage \in [Keys -> Prov!Stages]
  /\ confirm \in [Keys -> {"yes", "no", "operator"}]
  /\ seen \in [Keys -> [before : SUBSET shown, archived : Keys \cup {NoKey}]]
  /\ shown \subseteq Keys
  /\ \A a \in archives : a.key \in shown
  /\ replaced \subseteq [old : Keys \cup {NoKey}, new : Keys, revoked : BOOLEAN]

\* A key is shown once its request is done, and only then overwrites.
ShownAreDone ==
  /\ \A k \in shown : stage[k] = "done"
  /\ \A p \in replaced : stage[p.new] = "done"
  /\ row.key # NoKey => row.key \in shown

\* What a request has archived is in the archives; what it has found there to replace, without a
\* confirmation, stays revoked.
ArchivedStays ==
  \A k \in Keys :
    /\ stage[k] = "upsert" /\ seen[k].archived # NoKey => \E a \in archives : a.key = seen[k].archived
    /\ stage[k] \in {"network", "store", "upsert"} /\ confirm[k] = "no" /\ row.key \in seen[k].before
         => row.revoked

CredentialInv == CredentialTypes /\ ShownAreDone /\ ArchivedStays /\ Prov!CredentialsKept

\* No key has been made, shown or archived at first.
LEMMA CredentialInit == Prov!Init => CredentialInv
  BY ProvisionAssumption, SMTT(30) DEF Prov!Init, CredentialInv, CredentialTypes, ShownAreDone, ArchivedStays, Prov!CredentialsKept,
     Prov!KeysKept, Prov!ReplacedOnRequest, Prov!Raced, Prov!Kept, KeyRows, Prov!Stages


Waits(k) == Prov!Provision(k) \/ Prov!InternalUpsert(k) \/ Prov!Online(k) \/ Prov!Fail(k)

\* A request starts, is refused, resumes after the network or fails: the table stays as it is.
LEMMA CredentialWaits ==
  ASSUME CredentialInv, NEW k \in Keys, Waits(k)
  PROVE  CredentialInv'
<1> USE DEF CredentialInv, CredentialTypes
<1>0. /\ UNCHANGED <<row, archives, confirm, shown, replaced>>
      /\ stage[k] \in Prov!Stages \ {"done"}
      /\ \E f \in Prov!Stages \ {"done", "upsert"} : stage' = [stage EXCEPT ![k] = f]
      /\ \/ seen' = seen /\ stage[k] \in {"network", "store", "upsert"}
         \/ seen' = seen /\ confirm[k] = "operator"
         \/ seen' = [seen EXCEPT ![k].before = shown] /\ Prov!MayReplace(k)
  BY SMTT(30) DEF Waits, Prov!Provision, Prov!InternalUpsert, Prov!Online, Prov!Fail, Prov!Step, Prov!Stages
<1>0a. PICK f \in Prov!Stages \ {"done", "upsert"} : stage' = [stage EXCEPT ![k] = f]
  BY <1>0
<1>1. /\ seen' \in [Keys -> [before : SUBSET shown, archived : Keys \cup {NoKey}]]
      /\ \A j \in Keys : seen'[j].archived = seen[j].archived
      /\ \A j \in Keys \ {k} : seen'[j] = seen[j]
  BY <1>0, SMTT(30)
<1>2. CredentialTypes'
  BY <1>0, <1>0a, <1>1 DEF Prov!Stages
<1>3. ShownAreDone'
  BY <1>0, <1>0a, <1>1 DEF ShownAreDone, Prov!Stages
<1>4. ArchivedStays'
  <2> SUFFICES ASSUME NEW j \in Keys
               PROVE  /\ stage'[j] = "upsert" /\ seen'[j].archived # NoKey => \E a \in archives : a.key = seen'[j].archived
                      /\ stage'[j] \in {"network", "store", "upsert"} /\ confirm[j] = "no" /\ row.key \in seen'[j].before
                           => row.revoked
    BY <1>0 DEF ArchivedStays
  <2>1. CASE j # k
    BY <2>1, <1>0, <1>0a, <1>1 DEF ArchivedStays
  <2>2. CASE j = k /\ seen' = seen /\ stage[k] \in {"network", "store", "upsert"}
    BY <2>2, <1>0, <1>0a, <1>1 DEF ArchivedStays, Prov!Stages
  <2>3. CASE j = k /\ seen' = seen /\ confirm[k] = "operator"
    BY <2>3, <1>0, <1>0a, <1>1 DEF ArchivedStays
  <2>4. CASE j = k /\ seen' = [seen EXCEPT ![k].before = shown] /\ Prov!MayReplace(k)
    BY <2>4, <1>0, <1>0a, <1>1, ProvisionAssumption DEF ArchivedStays, Prov!MayReplace, KeyRows
  <2> QED BY <2>1, <2>2, <2>3, <2>4, <1>0
<1>5. Prov!KeysKept'
  <2>1. Prov!Raced' = Prov!Raced
    BY <1>0, <1>1 DEF Prov!Raced
  <2> QED BY <2>1, <1>0 DEF Prov!KeysKept, Prov!Kept, Prov!CredentialsKept
<1>6. Prov!ReplacedOnRequest'
  BY <1>0, <1>1 DEF Prov!ReplacedOnRequest, Prov!CredentialsKept, ShownAreDone
<1> QED BY <1>2, <1>3, <1>4, <1>5, <1>6 DEF Prov!CredentialsKept

\* The row that is archived is then in the archives; without a confirmation only a revoked row
\* gets past (deposit.rs, archive before the upsert).
LEMMA CredentialArchive ==
  ASSUME CredentialInv, NEW k \in Keys, Prov!Archive(k)
  PROVE  CredentialInv'
<1> USE DEF CredentialInv, CredentialTypes, Prov!Archive, Prov!Step
<1>1. /\ seen' \in [Keys -> [before : SUBSET shown, archived : Keys \cup {NoKey}]]
      /\ seen'[k].archived = row.key
      /\ \A j \in Keys : seen'[j].before = seen[j].before
      /\ \A j \in Keys \ {k} : seen'[j] = seen[j]
  BY SMTT(30) DEF KeyRows
<1>2. /\ archives \subseteq archives'
      /\ \A a \in archives' : a \in archives \/ (a.key = row.key /\ row.key # NoKey)
      /\ row.key # NoKey => \E a \in archives' : a.key = row.key
  <2>1. Prov!Copy.key = row.key
    BY DEF Prov!Copy
  <2> QED BY <2>1 DEF Prov!Archived
<1>3. CredentialTypes'
  BY <1>1, <1>2, SMTT(30) DEF Prov!Stages, ShownAreDone
<1>4. ShownAreDone'
  BY <1>1, <1>3 DEF ShownAreDone
<1>5. ArchivedStays'
  BY <1>1, <1>2, SMTT(30) DEF ArchivedStays
<1>6. Prov!KeysKept'
  <2>1. Prov!Raced' = Prov!Raced
    <3>1. \A q \in replaced : q.new # k
      BY DEF ShownAreDone
    <3> QED BY <1>1, <3>1 DEF Prov!Raced
  <2> QED BY <1>2, <2>1 DEF Prov!KeysKept, Prov!Kept, Prov!CredentialsKept
<1>7. Prov!ReplacedOnRequest'
  BY <1>1 DEF Prov!ReplacedOnRequest, Prov!CredentialsKept
<1> QED BY <1>3, <1>4, <1>5, <1>6, <1>7 DEF Prov!CredentialsKept

\* The upsert overwrites a row that its own request archived, or one that came in between.
LEMMA CredentialUpsert ==
  ASSUME CredentialInv, NEW k \in Keys, Prov!Upsert(k)
  PROVE  CredentialInv'
<1> USE DEF CredentialInv, CredentialTypes, Prov!Upsert, Prov!Step
<1>0. k \notin shown /\ k # NoKey /\ row.key # k /\ row.key \in Keys \cup {NoKey} /\ row.revoked \in BOOLEAN
  BY ProvisionAssumption DEF ShownAreDone, KeyRows
<1>1. CredentialTypes'
  <2>1. seen' \in [Keys -> [before : SUBSET shown', archived : Keys \cup {NoKey}]]
    OBVIOUS
  <2>2. row' \in KeyRows /\ stage' \in [Keys -> Prov!Stages]
    BY DEF KeyRows, Prov!Stages
  <2>3. replaced' \subseteq [old : Keys \cup {NoKey}, new : Keys, revoked : BOOLEAN]
    BY <1>0
  <2> QED BY <2>1, <2>2, <2>3
<1>2. ShownAreDone'
  BY <1>0 DEF ShownAreDone
<1>3. ArchivedStays'
  BY <1>0, SMTT(30) DEF ArchivedStays
<1>4. Prov!KeysKept'
  <2>1. Prov!Raced \subseteq Prov!Raced'
    BY DEF Prov!Raced
  <2>2. row.key = NoKey \/ (\E a \in archives : a.key = row.key) \/ row.key \in Prov!Raced'
    <3>1. CASE seen[k].archived = row.key
      BY <3>1 DEF ArchivedStays
    <3>2. CASE seen[k].archived # row.key
      <4>1. [old |-> row.key, new |-> k, revoked |-> row.revoked] \in {q \in replaced' : seen'[q.new].archived # q.old}
        BY <3>2
      <4> QED BY <4>1 DEF Prov!Raced
    <3> QED BY <3>1, <3>2
  <2>3. NoKey \notin shown /\ k \in Prov!Kept'
    BY ProvisionAssumption DEF Prov!Kept
  <2>4. ASSUME NEW x \in shown
        PROVE  x \in Prov!Kept' \cup Prov!Raced'
    <3>1. CASE x = row.key
      BY <3>1, <2>2, <2>3 DEF Prov!Kept
    <3>2. CASE x # row.key
      BY <3>2, <2>1 DEF Prov!Kept, Prov!KeysKept, Prov!CredentialsKept
    <3> QED BY <3>1, <3>2
  <2> QED BY <2>3, <2>4 DEF Prov!KeysKept
<1>5. Prov!ReplacedOnRequest'
  BY <1>0, SMTT(30) DEF Prov!ReplacedOnRequest, Prov!CredentialsKept, ArchivedStays
<1> QED BY <1>1, <1>2, <1>3, <1>4, <1>5 DEF Prov!CredentialsKept

\* A row is revoked.
LEMMA CredentialRevoke == ASSUME CredentialInv, Prov!Revoke PROVE CredentialInv'
<1> USE DEF CredentialInv, CredentialTypes, Prov!Revoke
<1>1. row' \in KeyRows /\ row'.key = row.key /\ row'.revoked = TRUE
  <2> row \in [key : Keys \cup {NoKey}, revoked : BOOLEAN] /\ row' = [row EXCEPT !.revoked = TRUE]
    BY DEF KeyRows
  <2>1. row'.key = row.key /\ row'.revoked = TRUE
    OBVIOUS
  <2>2. row' \in KeyRows
    BY DEF KeyRows
  <2> QED BY <2>1, <2>2
<1>2. CredentialTypes' /\ ShownAreDone' /\ ArchivedStays'
  BY <1>1, SMTT(30) DEF ShownAreDone, ArchivedStays
<1>3. Prov!KeysKept' /\ Prov!ReplacedOnRequest'
  BY <1>1 DEF Prov!KeysKept, Prov!ReplacedOnRequest, Prov!Kept, Prov!Raced, Prov!CredentialsKept
<1> QED BY <1>2, <1>3 DEF Prov!CredentialsKept

\* Every step of Provisioning keeps the invariant.
LEMMA CredentialStep == CredentialInv /\ Prov!Next => CredentialInv'
  BY CredentialWaits, CredentialArchive, CredentialUpsert, CredentialRevoke DEF Prov!Next, Waits

\* Nothing changes.
LEMMA CredentialStutter == CredentialInv /\ UNCHANGED provisionVars => CredentialInv'
  BY DEF provisionVars, CredentialInv, CredentialTypes, ShownAreDone, ArchivedStays, Prov!CredentialsKept,
     Prov!KeysKept, Prov!ReplacedOnRequest, Prov!Raced, Prov!Kept

----------------------------------------------------------------------------
(* Sessions: nonces, users, wallets and tokens. *)

NonceRows == [wallet : Wallets, age : 0..(MaxAge + 1), used : BOOLEAN, row : BOOLEAN]

\* What a request may be in, of users 1..n.
Calls(n) ==
  [op : {"none"}] \cup [op : {"lookup", "register"}, wallet : Wallets]
    \cup [op : {"link", "unlink"}, wallet : Wallets, user : 1..n]

Unlinks(calls, d, u) == calls[d].op = "unlink" /\ calls[d].user = u
WalletsOf(o, u) == {w \in Wallets : o[w] = u}

SessionTypes ==
  /\ Sess!TypeOK
  /\ login \in [Requests -> Calls(Len(users))]
  /\ accepted \in Seq(Nat) /\ Len(accepted) = Len(nonces)

\* A nonce that was never used was never accepted.
UsedOnce == \A n \in DOMAIN nonces : accepted[n] <= 1 /\ (~nonces[n].used => accepted[n] = 0)

\* A request to unlink, if it is the only one of its user, leaves her a wallet.
LeavesOne(o, calls, u) ==
  /\ WalletsOf(o, u) # {}
  /\ \A d \in Requests : Unlinks(calls, d, u) =>
       /\ Cardinality(WalletsOf(o, u)) > 1
       /\ \A e \in Requests : Unlinks(calls, e, u) => e = d
OneLeft(us, o, calls, twice) ==
  \A u \in 1..Len(us) : /\ IsFiniteSet(WalletsOf(o, u))
                        /\ us[u] = NoTg /\ u \notin twice => LeavesOne(o, calls, u)
OneIsLeft == OneLeft(users, owner, login, overlaps)

SessionInv == SessionTypes /\ UsedOnce /\ OneIsLeft

\* Nobody is registered at first.
LEMMA SessionInit == Sess!Init => SessionInv
<1> SUFFICES ASSUME Sess!Init PROVE SessionInv
  OBVIOUS
<1> USE DEF Sess!Init
<1>1. Len(users) = 0 /\ Len(nonces) = 0 /\ Len(accepted) = 0 /\ DOMAIN users = {} /\ DOMAIN nonces = {}
  OBVIOUS
<1>2. Sess!TypeOK
  BY <1>1, EmptySeq DEF Sess!TypeOK
<1>3. login \in [Requests -> Calls(Len(users))]
  BY DEF Sess!None, Calls
<1> QED BY <1>1, <1>2, <1>3 DEF SessionInv, SessionTypes, UsedOnce, OneIsLeft, OneLeft

\* The conjuncts that are typing, in the form the proofs need.
LEMMA SessionRows ==
  ASSUME SessionTypes
  PROVE  /\ users \in Seq(TgIds \cup {NoTg}) /\ Len(users) \in Nat /\ DOMAIN users = 1..Len(users)
         /\ owner \in [Wallets -> 0..Len(users)]
         /\ tokens \in Seq([user : 1..Len(users), state : {"valid", "revoked", "expired"}])
         /\ nonces \in Seq(NonceRows) /\ DOMAIN nonces = 1..Len(nonces) /\ DOMAIN accepted = 1..Len(nonces)
         /\ overlaps \subseteq 1..Len(users)
         /\ \A t \in DOMAIN tokens : tokens[t] \in [user : 1..Len(users), state : {"valid", "revoked", "expired"}]
         /\ \A n \in DOMAIN nonces : nonces[n] \in NonceRows /\ accepted[n] \in Nat
<1>1. /\ users \in Seq(TgIds \cup {NoTg}) /\ accepted \in Seq(Nat) /\ Len(accepted) = Len(nonces)
      /\ nonces \in Seq(NonceRows)
  BY DEF SessionTypes, Sess!TypeOK, NonceRows
<1>2. Len(users) \in Nat /\ DOMAIN users = 1..Len(users) /\ DOMAIN nonces = 1..Len(nonces) /\ DOMAIN accepted = 1..Len(nonces)
  BY <1>1
<1>3. tokens \in Seq([user : 1..Len(users), state : {"valid", "revoked", "expired"}])
  BY <1>2 DEF SessionTypes, Sess!TypeOK
<1>4. \A t \in DOMAIN tokens : tokens[t] \in [user : 1..Len(users), state : {"valid", "revoked", "expired"}]
  <2> DEFINE S == [user : 1..Len(users), state : {"valid", "revoked", "expired"}]
  <2>1. tokens \in Seq(S)
    BY <1>3
  <2> HIDE DEF S
  <2>2. \A t \in DOMAIN tokens : tokens[t] \in S
    BY <2>1
  <2> QED BY <2>2 DEF S
<1>5. \A n \in DOMAIN nonces : nonces[n] \in NonceRows /\ accepted[n] \in Nat
  BY <1>1, <1>2
<1> QED BY <1>1, <1>2, <1>3, <1>4, <1>5 DEF SessionTypes, Sess!TypeOK

\* A message is consumed.
LEMMA SessionConsume ==
  ASSUME SessionInv, NEW n \in DOMAIN nonces, Sess!Consume(n)
  PROVE  /\ nonces' \in Seq(NonceRows) /\ accepted' \in Seq(Nat) /\ Len(accepted') = Len(nonces')
         /\ UsedOnce' /\ nonces[n].wallet \in Wallets
<1> USE SessionRows DEF SessionInv
<1> DEFINE new == [nonces[n] EXCEPT !.used = TRUE]
<1>1. nonces[n] \in NonceRows /\ new \in NonceRows /\ new.used = TRUE /\ nonces[n].used = FALSE /\ nonces[n].wallet \in Wallets
  BY DEF NonceRows, Sess!Consume, Sess!Consumable
<1>2. nonces' = [nonces EXCEPT ![n] = new] /\ accepted' = [accepted EXCEPT ![n] = accepted[n] + 1]
  BY DEF Sess!Consume
<1> HIDE DEF new
<1>3. nonces' \in Seq(NonceRows) /\ Len(nonces') = Len(nonces) /\ DOMAIN nonces' = DOMAIN nonces
  BY <1>1, <1>2
<1>4. accepted' \in Seq(Nat) /\ Len(accepted') = Len(nonces)
  BY <1>2 DEF SessionTypes
<1>5. accepted[n] = 0
  BY <1>1 DEF UsedOnce
<1>6. UsedOnce'
  BY <1>1, <1>2, <1>3, <1>4, <1>5 DEF UsedOnce
<1> QED BY <1>1, <1>3, <1>4, <1>6

\* Tables of nonces and histories that only grow or age.
LEMMA SessionNonce == ASSUME SessionInv, NEW w \in Wallets, Sess!WalletNonce(w) PROVE SessionInv'
<1> USE SessionRows DEF SessionInv
<1> DEFINE old == [n \in DOMAIN nonces |-> [nonces[n] EXCEPT !.row = @ /\ nonces[n].age <= MaxAge]]
           new == [wallet |-> w, age |-> 0, used |-> FALSE, row |-> TRUE]
<1>1. \A n \in DOMAIN nonces : old[n] \in NonceRows /\ old[n].used = nonces[n].used
  BY DEF NonceRows
<1>2. old \in Seq(NonceRows) /\ Len(old) = Len(nonces) /\ new \in NonceRows
  BY SessionAssumption, <1>1 DEF NonceRows
<1>3. nonces' = Append(old, new) /\ accepted' = Append(accepted, 0) /\ UNCHANGED <<users, owner, tokens, login, overlaps>>
  BY DEF Sess!WalletNonce
<1>4. new.used = FALSE
  OBVIOUS
<1> HIDE DEF old, new
<1>5. nonces' \in Seq(NonceRows) /\ Len(nonces') = Len(nonces) + 1 /\ accepted' \in Seq(Nat) /\ Len(accepted') = Len(nonces')
  BY <1>2, <1>3 DEF SessionTypes
<1>6. SessionTypes'
  BY <1>3, <1>5 DEF SessionTypes, Sess!TypeOK, NonceRows
<1>7. UsedOnce'
  <2> SUFFICES ASSUME NEW n \in DOMAIN nonces'
               PROVE  accepted'[n] <= 1 /\ (~nonces'[n].used => accepted'[n] = 0)
    BY DEF UsedOnce
  <2>1. CASE n = Len(nonces) + 1
    BY <2>1, <1>2, <1>3 DEF SessionTypes
  <2>2. CASE n \in DOMAIN nonces
    BY <2>2, <1>1, <1>2, <1>3 DEF SessionTypes, UsedOnce
  <2> QED BY <2>1, <2>2, <1>5
<1>8. OneIsLeft'
  BY <1>3 DEF OneIsLeft
<1> QED BY <1>6, <1>7, <1>8

\* Nonces grow old, and the cleanup deletes those that are.
LEMMA SessionAge == ASSUME SessionInv, Sess!Age PROVE SessionInv'
<1> USE SessionRows DEF SessionInv
<1> DEFINE new == [n \in DOMAIN nonces |-> [nonces[n] EXCEPT !.age = IF @ <= MaxAge THEN @ + 1 ELSE @]]
<1>1. \A n \in DOMAIN nonces : new[n] \in NonceRows /\ new[n].used = nonces[n].used
  <2> SUFFICES ASSUME NEW n \in DOMAIN nonces PROVE new[n] \in NonceRows /\ new[n].used = nonces[n].used
    OBVIOUS
  <2>1. nonces[n].age \in 0..(MaxAge + 1) /\ nonces[n] \in NonceRows
    BY DEF NonceRows
  <2>2. CASE nonces[n].age <= MaxAge
    <3> DEFINE a == nonces[n].age
    <3>0. new[n] = [nonces[n] EXCEPT !.age = IF a <= MaxAge THEN a + 1 ELSE a]
      OBVIOUS
    <3>1. new[n] = [nonces[n] EXCEPT !.age = a + 1] /\ a + 1 \in 0..(MaxAge + 1)
      <4> HIDE DEF new
      <4>1. (IF a <= MaxAge THEN a + 1 ELSE a) = a + 1
        BY <2>2
      <4>2. a + 1 \in 0..(MaxAge + 1)
        BY SessionAssumption, <2>1, <2>2
      <4> HIDE DEF a
      <4> QED BY <3>0, <4>1, <4>2
    <3> HIDE DEF new
    <3> QED BY <2>1, <3>1 DEF NonceRows
  <2>3. CASE ~(nonces[n].age <= MaxAge)
    <3>1. new[n] = [nonces[n] EXCEPT !.age = nonces[n].age]
      BY <2>3
    <3> HIDE DEF new
    <3> QED BY <2>1, <3>1 DEF NonceRows
  <2> QED BY <2>2, <2>3
<1>2. new \in Seq(NonceRows) /\ Len(new) = Len(nonces) /\ DOMAIN new = DOMAIN nonces
  BY <1>1
<1>3. nonces' = new /\ UNCHANGED <<users, owner, tokens, login, accepted, overlaps>>
  BY DEF Sess!Age
<1> HIDE DEF new
<1>4. SessionTypes'
  BY <1>2, <1>3 DEF SessionTypes, Sess!TypeOK, NonceRows
<1>5. UsedOnce'
  BY <1>1, <1>2, <1>3 DEF UsedOnce
<1>6. OneIsLeft'
  BY <1>3 DEF OneIsLeft
<1> QED BY <1>4, <1>5, <1>6

\* With fewer requests to unlink, what holds of the wallets left holds all the more.
LEMMA FewerCalls ==
  ASSUME NEW us, NEW o, NEW calls, NEW twice, NEW now,
         OneLeft(us, o, calls, twice),
         \A d \in Requests, u \in 1..Len(us) : Unlinks(now, d, u) => Unlinks(calls, d, u)
  PROVE  OneLeft(us, o, now, twice)
  BY DEF OneLeft, LeavesOne

\* What a request may be in stays so when users are added.
LEMMA CallsGrow ==
  ASSUME NEW m \in Nat, NEW n \in Nat, m <= n
  PROVE  Calls(m) \subseteq Calls(n)
  BY DEF Calls

\* One wallet more.
LEMMA AddedWallet ==
  ASSUME NEW S, IsFiniteSet(S), NEW w, w \notin S
  PROVE  IsFiniteSet(S \cup {w}) /\ Cardinality(S \cup {w}) = Cardinality(S) + 1 /\ Cardinality(S) \in Nat
  BY FS_AddElement, FS_CardinalityType

\* A user gets a wallet that nobody had.
LEMMA WalletAdded ==
  ASSUME NEW us, Len(us) \in Nat, NEW o \in [Wallets -> 0..Len(us)], NEW calls, NEW twice,
         OneLeft(us, o, calls, twice), NEW w \in Wallets, o[w] = 0, NEW v \in 1..Len(us)
  PROVE  OneLeft(us, [o EXCEPT ![w] = v], calls, twice)
<1> DEFINE q == [o EXCEPT ![w] = v]
<1>1. \A x \in Wallets : q[x] = IF x = w THEN v ELSE o[x]
  OBVIOUS
<1> HIDE DEF q
<1>2. \A u \in 1..Len(us) : u # v => WalletsOf(q, u) = WalletsOf(o, u)
  BY <1>1 DEF WalletsOf
<1>3. WalletsOf(q, v) = WalletsOf(o, v) \cup {w} /\ w \notin WalletsOf(o, v)
  BY <1>1 DEF WalletsOf
<1>4. /\ IsFiniteSet(WalletsOf(q, v)) /\ Cardinality(WalletsOf(q, v)) = Cardinality(WalletsOf(o, v)) + 1
      /\ Cardinality(WalletsOf(o, v)) \in Nat
  <2>1. IsFiniteSet(WalletsOf(o, v))
    BY DEF OneLeft
  <2> DEFINE S == WalletsOf(o, v)
  <2>2. IsFiniteSet(S) /\ w \notin S /\ WalletsOf(q, v) = S \cup {w}
    BY <2>1, <1>3
  <2> HIDE DEF S
  <2>3. IsFiniteSet(S \cup {w}) /\ Cardinality(S \cup {w}) = Cardinality(S) + 1 /\ Cardinality(S) \in Nat
    BY <2>2, AddedWallet
  <2> QED BY <2>2, <2>3 DEF S
<1>5. \A u \in 1..Len(us) : LeavesOne(o, calls, u) => LeavesOne(q, calls, u)
  <2> TAKE u \in 1..Len(us)
  <2>1. CASE u # v
    BY <2>1, <1>2 DEF LeavesOne
  <2>2. CASE u = v
    BY <2>2, <1>3, <1>4 DEF LeavesOne
  <2> QED BY <2>1, <2>2
<1>6. OneLeft(us, q, calls, twice)
  <2> SUFFICES ASSUME NEW u \in 1..Len(us)
               PROVE  /\ IsFiniteSet(WalletsOf(q, u)) /\ (us[u] = NoTg /\ u \notin twice => LeavesOne(q, calls, u))
    BY DEF OneLeft
  <2>1. us[u] = NoTg /\ u \notin twice => LeavesOne(q, calls, u)
    BY <1>5 DEF OneLeft
  <2>2. IsFiniteSet(WalletsOf(q, u))
    BY <1>2, <1>4 DEF OneLeft
  <2> QED BY <2>1, <2>2
<1> QED BY <1>6 DEF q

\* A new user, with a tg id or with her first wallet.
LEMMA UserAdded ==
  ASSUME NEW us \in Seq(TgIds \cup {NoTg}), NEW id \in TgIds \cup {NoTg}, NEW o \in [Wallets -> 0..Len(us)],
         NEW calls \in [Requests -> Calls(Len(us))], NEW twice, OneLeft(us, o, calls, twice)
  PROVE  /\ id # NoTg => OneLeft(Append(us, id), o, calls, twice)
         /\ \A w \in Wallets : o[w] = 0 => OneLeft(Append(us, id), [o EXCEPT ![w] = Len(us) + 1], calls, twice)
<1> DEFINE n == Len(us) + 1
           vs == Append(us, id)
<1>1. Len(us) \in Nat /\ n \in Nat /\ Len(vs) = n /\ vs[n] = id /\ \A u \in 1..Len(us) : vs[u] = us[u]
  OBVIOUS
<1>2. \A d \in Requests : ~Unlinks(calls, d, n)
  BY DEF Unlinks, Calls
<1>3. WalletsOf(o, n) = {} /\ n = Len(us) + 1
  BY DEF WalletsOf
<1> HIDE DEF n, vs
<1>4. 1..n = (1..Len(us)) \cup {n} /\ n \in 1..n
  BY <1>1, <1>3
<1>5. ASSUME id # NoTg PROVE OneLeft(vs, o, calls, twice)
  <2>1. IsFiniteSet(WalletsOf(o, n))
    BY <1>3, FS_EmptySet
  <2> QED BY <2>1, <1>5, <1>1, <1>4 DEF OneLeft
<1>6. ASSUME NEW w \in Wallets, o[w] = 0 PROVE OneLeft(vs, [o EXCEPT ![w] = n], calls, twice)
  <2> DEFINE q == [o EXCEPT ![w] = n]
  <2>1. \A x \in Wallets : q[x] = IF x = w THEN n ELSE o[x]
    OBVIOUS
  <2> HIDE DEF q
  <2>2. \A u \in 1..Len(us) : WalletsOf(q, u) = WalletsOf(o, u)
    BY <2>1, <1>6, <1>1, <1>3 DEF WalletsOf
  <2>3. WalletsOf(q, n) = {w} /\ IsFiniteSet({w})
    <3>1. \A x \in Wallets : o[x] # n
      BY <1>3 DEF WalletsOf
    <3>2. WalletsOf(q, n) = {w}
      BY <2>1, <3>1 DEF WalletsOf
    <3> QED BY <3>2, FS_Singleton
  <2>4. \A u \in 1..Len(us) : LeavesOne(o, calls, u) => LeavesOne(q, calls, u)
    BY <2>2 DEF LeavesOne
  <2>5. LeavesOne(q, calls, n)
    BY <2>3, <1>2 DEF LeavesOne
  <2>6. OneLeft(vs, q, calls, twice)
    <3> SUFFICES ASSUME NEW u \in 1..n
                 PROVE  /\ IsFiniteSet(WalletsOf(q, u)) /\ (vs[u] = NoTg /\ u \notin twice => LeavesOne(q, calls, u))
      BY <1>1 DEF OneLeft
    <3>1. CASE u = n
      BY <3>1, <2>3, <2>5
    <3>2. CASE u \in 1..Len(us)
      BY <3>2, <2>2, <2>4, <1>1 DEF OneLeft
    <3> QED BY <3>1, <3>2, <1>4
  <2> QED BY <2>6 DEF q
<1> QED BY <1>5, <1>6 DEF n, vs

\* A user of two wallets has one left when one goes.
LEMMA MoreThanThis ==
  ASSUME NEW S, IsFiniteSet(S), NEW w, Cardinality(S) > 1
  PROVE  S \ {w} # {} /\ IsFiniteSet(S \ {w})
<1>1. CASE w \in S
  <2>1. IsFiniteSet(S \ {w}) /\ Cardinality(S \ {w}) = Cardinality(S) - 1 /\ Cardinality(S) \in Nat
    BY <1>1, FS_RemoveElement, FS_CardinalityType
  <2>2. Cardinality({}) = 0
    BY FS_EmptySet
  <2> QED BY <2>1, <2>2
<1>2. CASE w \notin S
  <2>1. S \ {w} = S
    BY <1>2
  <2> QED BY <2>1, FS_EmptySet
<1> QED BY <1>1, <1>2

\* Users, wallets and overlaps stay; requests to unlink are only given up.
LEMMA SessionSame ==
  ASSUME SessionInv, UNCHANGED <<users, owner, overlaps>>,
         nonces' \in Seq(NonceRows), accepted' \in Seq(Nat), Len(accepted') = Len(nonces'), UsedOnce',
         tokens' \in Seq([user : 1..Len(users), state : {"valid", "revoked", "expired"}]),
         login' \in [Requests -> Calls(Len(users))],
         \A d \in Requests, u \in 1..Len(users) : Unlinks(login', d, u) => Unlinks(login, d, u)
  PROVE  SessionInv'
<1> USE SessionRows DEF SessionInv
<1>1. SessionTypes'
  BY DEF SessionTypes, Sess!TypeOK, NonceRows
<1>2. OneIsLeft'
  <2>1. OneLeft(users, owner, login', overlaps)
    BY FewerCalls DEF OneIsLeft
  <2> QED BY <2>1 DEF OneIsLeft
<1> QED BY <1>1, <1>2

\* What one request does to the calls.
LEMMA OpenCall ==
  ASSUME SessionTypes, NEW c \in Requests, NEW q \in Calls(Len(users)), Sess!Open(c, q)
  PROVE  /\ login' \in [Requests -> Calls(Len(users))] /\ login'[c] = q
         /\ \A d \in Requests \ {c} : login'[d] = login[d]
         /\ \A u : ~Unlinks(login, c, u)
  BY DEF SessionTypes, Sess!Open, Sess!None, Unlinks

\* A request is over.
LEMMA CloseCall ==
  ASSUME SessionTypes, NEW c \in Requests, Sess!Close(c)
  PROVE  /\ login' \in [Requests -> Calls(Len(users))]
         /\ \A d \in Requests \ {c} : login'[d] = login[d]
         /\ \A u : ~Unlinks(login', c, u)
         /\ \A d \in Requests : \A u : Unlinks(login', d, u) => Unlinks(login, d, u)
<1>1. login' = [login EXCEPT ![c] = Sess!None] /\ Sess!None \in Calls(Len(users))
  BY DEF Sess!Close, Sess!None, Calls
<1>2. login'[c] = Sess!None /\ Sess!None.op = "none"
  BY <1>1 DEF SessionTypes, Sess!None
<1> QED BY <1>1, <1>2 DEF SessionTypes, Unlinks

\* A call is one of four kinds, and has what its kind has.
LEMMA CallRows ==
  ASSUME SessionTypes, NEW c \in Requests
  PROVE  /\ login[c].op \in {"lookup", "register", "link", "unlink"} => login[c].wallet \in Wallets
         /\ login[c].op \in {"link", "unlink"} => login[c].user \in 1..Len(users)
         /\ login[c].op = "lookup" => login[c] \in [op : {"lookup", "register"}, wallet : Wallets]
  BY DEF SessionTypes, Calls

\* A token is issued to one of n users.
LEMMA TokenIssued ==
  ASSUME SessionTypes, NEW n \in Nat, Len(users) <= n, NEW u \in 1..n, Sess!IssueJwt(u)
  PROVE  tokens' \in Seq([user : 1..n, state : {"valid", "revoked", "expired"}])
<1> DEFINE S == [user : 1..n, state : {"valid", "revoked", "expired"}]
           T == [user : 1..Len(users), state : {"valid", "revoked", "expired"}]
           t == [user |-> u, state |-> "valid"]
<1>1. tokens \in Seq(T) /\ T \subseteq S /\ t \in S
  BY SessionRows
<1>2. tokens' = Append(tokens, t)
  BY DEF Sess!IssueJwt
<1> HIDE DEF S, T, t
<1>3. tokens \in Seq(S)
  BY <1>1
<1>4. tokens' \in Seq(S)
  BY <1>1, <1>2, <1>3
<1> QED BY <1>4 DEF S

\* A signed message is consumed, for a login or to link a wallet.
LEMMA SessionLogin ==
  ASSUME SessionInv, NEW c \in Requests, Sess!WalletLogin(c) \/ Sess!LinkWallet(c) PROVE SessionInv'
<1> USE SessionRows DEF SessionInv
<1>1. PICK n \in DOMAIN nonces : /\ Sess!Consume(n)
                                 /\ \/ Sess!Open(c, [op |-> "lookup", wallet |-> nonces[n].wallet])
                                    \/ \E t \in DOMAIN tokens :
                                         Sess!Open(c, [op |-> "link", wallet |-> nonces[n].wallet, user |-> tokens[t].user])
                                 /\ UNCHANGED <<users, owner, tokens, overlaps>>
  BY DEF Sess!WalletLogin, Sess!LinkWallet
<1>2. /\ nonces' \in Seq(NonceRows) /\ accepted' \in Seq(Nat) /\ Len(accepted') = Len(nonces')
      /\ UsedOnce' /\ nonces[n].wallet \in Wallets
  BY <1>1, SessionConsume
<1>3. PICK q \in Calls(Len(users)) : Sess!Open(c, q) /\ q.op # "unlink"
  <2>1. CASE Sess!Open(c, [op |-> "lookup", wallet |-> nonces[n].wallet])
    <3> DEFINE q == [op |-> "lookup", wallet |-> nonces[n].wallet]
    <3>1. q \in Calls(Len(users)) /\ q.op # "unlink"
      BY <1>2 DEF Calls
    <3> QED BY <2>1, <3>1
  <2>2. CASE \E t \in DOMAIN tokens : Sess!Open(c, [op |-> "link", wallet |-> nonces[n].wallet, user |-> tokens[t].user])
    <3>1. PICK t \in DOMAIN tokens : Sess!Open(c, [op |-> "link", wallet |-> nonces[n].wallet, user |-> tokens[t].user])
      BY <2>2
    <3> DEFINE q == [op |-> "link", wallet |-> nonces[n].wallet, user |-> tokens[t].user]
    <3>2. tokens[t].user \in 1..Len(users)
      OBVIOUS
    <3>3. q \in Calls(Len(users)) /\ q.op # "unlink"
      BY <1>2, <3>2 DEF Calls
    <3> QED BY <3>1, <3>3
  <2> QED BY <1>1, <2>1, <2>2
<1>4. login' \in [Requests -> Calls(Len(users))] /\ \A d \in Requests : \A u : Unlinks(login', d, u) => Unlinks(login, d, u)
  BY <1>3, OpenCall DEF Unlinks
<1>5. tokens' \in Seq([user : 1..Len(users), state : {"valid", "revoked", "expired"}])
  BY <1>1
<1> QED BY <1>1, <1>2, <1>4, <1>5, SessionSame

\* The wallet's user is looked up, and gets a token if there is one.
LEMMA SessionLookup == ASSUME SessionInv, NEW c \in Requests, Sess!Lookup(c) PROVE SessionInv'
<1> USE SessionRows DEF SessionInv
<1> DEFINE w == login[c].wallet
<1>0. login[c].op = "lookup" /\ w \in Wallets /\ UNCHANGED <<nonces, users, owner, accepted, overlaps>>
  BY CallRows DEF Sess!Lookup
<1>1. UsedOnce'
  BY <1>0 DEF UsedOnce
<1>2. /\ tokens' \in Seq([user : 1..Len(users), state : {"valid", "revoked", "expired"}])
      /\ login' \in [Requests -> Calls(Len(users))]
      /\ \A d \in Requests : \A u : Unlinks(login', d, u) => Unlinks(login, d, u)
  <2>1. CASE owner[w] # 0
    <3>1. Sess!IssueJwt(owner[w]) /\ Sess!Close(c)
      BY <2>1 DEF Sess!Lookup
    <3>2. owner[w] \in 1..Len(users)
      BY <2>1, <1>0
    <3> QED BY <3>1, <3>2, TokenIssued, CloseCall
  <2>2. CASE owner[w] = 0
    <3> DEFINE q == [login[c] EXCEPT !.op = "register"]
    <3>1. login' = [login EXCEPT ![c] = q] /\ tokens' = tokens
      BY <2>2 DEF Sess!Lookup
    <3>2. q \in [op : {"lookup", "register"}, wallet : Wallets] /\ q.op = "register"
      BY <1>0, CallRows
    <3> HIDE DEF q
    <3>3. q \in Calls(Len(users))
      BY <3>2 DEF Calls
    <3>4. login' \in [Requests -> Calls(Len(users))] /\ login'[c] = q /\ \A d \in Requests \ {c} : login'[d] = login[d]
      BY <3>1, <3>3 DEF SessionTypes
    <3> QED BY <3>1, <3>2, <3>4 DEF Unlinks
  <2> QED BY <2>1, <2>2
<1>3. nonces' \in Seq(NonceRows) /\ accepted' \in Seq(Nat) /\ Len(accepted') = Len(nonces')
  BY <1>0 DEF SessionTypes
<1> QED BY <1>0, <1>1, <1>2, <1>3, SessionSame

\* Requests given up, tokens revoked or expired.
LEMMA SessionEnds ==
  ASSUME SessionInv,
         \/ \E c \in Requests : Sess!Abandon(c)
         \/ \E t \in DOMAIN tokens : Sess!Logout(t) \/ Sess!Expire(t)
  PROVE  SessionInv'
<1> USE SessionRows DEF SessionInv
<1>0. UNCHANGED <<nonces, users, owner, accepted, overlaps>>
  BY DEF Sess!Abandon, Sess!Logout, Sess!Expire
<1>1. UsedOnce' /\ nonces' \in Seq(NonceRows) /\ accepted' \in Seq(Nat) /\ Len(accepted') = Len(nonces')
  BY <1>0 DEF UsedOnce, SessionTypes
<1>2. /\ tokens' \in Seq([user : 1..Len(users), state : {"valid", "revoked", "expired"}])
      /\ login' \in [Requests -> Calls(Len(users))]
      /\ \A d \in Requests : \A u : Unlinks(login', d, u) => Unlinks(login, d, u)
  <2>1. CASE \E c \in Requests : Sess!Abandon(c)
    BY <2>1, CloseCall DEF Sess!Abandon
  <2>2. CASE \E t \in DOMAIN tokens : Sess!Logout(t) \/ Sess!Expire(t)
    <3>1. PICK t \in DOMAIN tokens, s \in {"revoked", "expired"} :
            tokens' = [tokens EXCEPT ![t].state = s] /\ login' = login
      BY <2>2 DEF Sess!Logout, Sess!Expire
    <3> DEFINE S == [user : 1..Len(users), state : {"valid", "revoked", "expired"}]
               new == [tokens[t] EXCEPT !.state = s]
    <3>2. new \in S /\ tokens \in Seq(S) /\ tokens' = [tokens EXCEPT ![t] = new]
      BY <3>1
    <3> HIDE DEF S, new
    <3>3. tokens' \in Seq(S)
      BY <3>2
    <3> QED BY <3>1, <3>3 DEF S, SessionTypes
  <2> QED BY <2>1, <2>2
<1> QED BY <1>0, <1>1, <1>2, SessionSame

\* The two copies of the library's operator, Accounts' and Sessions'.
LEMMA SessionCardinality == ASSUME NEW S PROVE Sess!Cardinality(S) = Cardinality(S)
  BY DEF Sess!Cardinality, Cardinality

\* Users, wallets, tokens and requests change; nonces do not.
LEMMA SessionUsers ==
  ASSUME SessionInv, UNCHANGED <<nonces, accepted>>,
         users' \in Seq(TgIds \cup {NoTg}), Len(users) <= Len(users'),
         owner' \in [Wallets -> 0..Len(users')],
         tokens' \in Seq([user : 1..Len(users'), state : {"valid", "revoked", "expired"}]),
         login' \in [Requests -> Calls(Len(users'))],
         overlaps' \subseteq 1..Len(users'),
         OneLeft(users', owner', login', overlaps')
  PROVE  SessionInv'
<1> USE SessionRows DEF SessionInv
<1>1. SessionTypes'
  <2>1. DOMAIN users' = 1..Len(users')
    OBVIOUS
  <2> QED BY <2>1 DEF SessionTypes, Sess!TypeOK, NonceRows
<1>2. UsedOnce'
  BY DEF UsedOnce
<1> QED BY <1>1, <1>2 DEF OneIsLeft

\* The tables fit in those of more users.
LEMMA UsersGrow ==
  ASSUME SessionTypes, NEW n \in Nat, Len(users) <= n
  PROVE  /\ login \in [Requests -> Calls(n)]
         /\ tokens \in Seq([user : 1..n, state : {"valid", "revoked", "expired"}])
         /\ overlaps \subseteq 1..n
         /\ owner \in [Wallets -> 0..n]
<1> USE SessionRows
<1>1. login \in [Requests -> Calls(n)]
  BY CallsGrow DEF SessionTypes
<1>2. tokens \in Seq([user : 1..n, state : {"valid", "revoked", "expired"}])
  <2> DEFINE S == [user : 1..n, state : {"valid", "revoked", "expired"}]
             T == [user : 1..Len(users), state : {"valid", "revoked", "expired"}]
  <2>1. tokens \in Seq(T) /\ T \subseteq S
    OBVIOUS
  <2> HIDE DEF S, T
  <2>2. tokens \in Seq(S)
    BY <2>1
  <2> QED BY <2>2 DEF S
<1> QED BY <1>1, <1>2

\* A user is made for a wallet, unless another request was faster.
LEMMA SessionRegister == ASSUME SessionInv, NEW c \in Requests, Sess!Register(c) PROVE SessionInv'
<1> USE SessionRows DEF SessionInv
<1> DEFINE w == login[c].wallet
           n == Len(users) + 1
<1>0. login[c].op = "register" /\ w \in Wallets /\ UNCHANGED <<nonces, accepted, overlaps>> /\ Sess!Close(c)
  BY CallRows DEF Sess!Register
<1>1. /\ login' \in [Requests -> Calls(Len(users))]
      /\ \A d \in Requests : \A u : Unlinks(login', d, u) => Unlinks(login, d, u)
  BY <1>0, CloseCall
<1>2. CASE owner[w] = 0
  <2>1. /\ users' = Append(users, NoTg) /\ owner' = [owner EXCEPT ![w] = n] /\ Sess!IssueJwt(n)
    BY <1>2 DEF Sess!Register
  <2>2. /\ users' \in Seq(TgIds \cup {NoTg}) /\ Len(users') = n /\ n \in Nat /\ Len(users) <= n /\ n \in 1..n
    BY <2>1
  <2>3. owner' \in [Wallets -> 0..n]
    <3>1. n \in 0..n /\ owner \in [Wallets -> 0..n]
      BY <2>2, UsersGrow
    <3> HIDE DEF n
    <3> QED BY <2>1, <3>1
  <2>4. tokens' \in Seq([user : 1..n, state : {"valid", "revoked", "expired"}])
    BY <2>1, <2>2, TokenIssued
  <2>5. login' \in [Requests -> Calls(n)] /\ overlaps' \subseteq 1..n
    BY <1>0, <1>1, <2>2, CallsGrow
  <2>6. OneLeft(users', owner', login, overlaps)
    <3> DEFINE id == NoTg
    <3>1. id \in TgIds \cup {NoTg} /\ login \in [Requests -> Calls(Len(users))] /\ OneLeft(users, owner, login, overlaps)
      BY DEF SessionTypes, OneIsLeft
    <3> HIDE DEF id
    <3>2. OneLeft(Append(users, id), [owner EXCEPT ![w] = Len(users) + 1], login, overlaps)
      BY <3>1, <1>0, <1>2, UserAdded
    <3> QED BY <3>2, <2>1 DEF id
  <2>7. OneLeft(users', owner', login', overlaps')
    <3>1. \A d \in Requests, u \in 1..Len(users') : Unlinks(login', d, u) => Unlinks(login, d, u)
      BY <1>1
    <3> QED BY <1>0, <2>6, <3>1, FewerCalls
  <2> QED BY <1>0, <2>2, <2>3, <2>4, <2>5, <2>7, SessionUsers
<1>3. CASE owner[w] # 0
  <2>1. UNCHANGED <<users, owner, tokens>>
    BY <1>3 DEF Sess!Register
  <2>2. UsedOnce' /\ nonces' \in Seq(NonceRows) /\ accepted' \in Seq(Nat) /\ Len(accepted') = Len(nonces')
    BY <1>0 DEF UsedOnce, SessionTypes
  <2> QED BY <1>0, <1>1, <2>1, <2>2, SessionSame
<1> QED BY <1>2, <1>3

\* A login by Telegram finds its user or makes one.
LEMMA SessionTgLogin == ASSUME SessionInv, NEW id \in TgIds, Sess!TgLogin(id) PROVE SessionInv'
<1> USE SessionRows DEF SessionInv
<1>0. UNCHANGED <<nonces, owner, login, accepted, overlaps>>
  BY DEF Sess!TgLogin
<1>1. CASE \E u \in DOMAIN users : users[u] = id
  <2>1. UNCHANGED users /\ \E u \in DOMAIN users : Sess!IssueJwt(u)
    BY <1>1 DEF Sess!TgLogin
  <2>2. tokens' \in Seq([user : 1..Len(users), state : {"valid", "revoked", "expired"}])
    BY SMTT(40), <2>1, TokenIssued
  <2>3. UsedOnce' /\ nonces' \in Seq(NonceRows) /\ accepted' \in Seq(Nat) /\ Len(accepted') = Len(nonces')
    BY <1>0 DEF UsedOnce, SessionTypes
  <2>4. /\ login' \in [Requests -> Calls(Len(users))]
        /\ \A d \in Requests : \A u : Unlinks(login', d, u) => Unlinks(login, d, u)
    BY <1>0 DEF SessionTypes
  <2> QED BY <1>0, <2>1, <2>2, <2>3, <2>4, SessionSame
<1>2. CASE ~\E u \in DOMAIN users : users[u] = id
  <2> DEFINE n == Len(users) + 1
  <2>1. users' = Append(users, id) /\ Sess!IssueJwt(n)
    BY <1>2 DEF Sess!TgLogin
  <2>2. /\ users' \in Seq(TgIds \cup {NoTg}) /\ Len(users') = n /\ n \in Nat /\ Len(users) <= n /\ n \in 1..n
    BY <2>1
  <2>3. tokens' \in Seq([user : 1..n, state : {"valid", "revoked", "expired"}])
    BY <2>1, <2>2, TokenIssued
  <2>4. login' \in [Requests -> Calls(n)] /\ overlaps' \subseteq 1..n /\ owner' \in [Wallets -> 0..n]
    BY <1>0, <2>2, UsersGrow
  <2>5. OneLeft(users', owner', login', overlaps')
    <3>1. id \in TgIds \cup {NoTg} /\ id # NoTg /\ login \in [Requests -> Calls(Len(users))]
          /\ OneLeft(users, owner, login, overlaps)
      BY SessionAssumption DEF SessionTypes, OneIsLeft
    <3>2. OneLeft(Append(users, id), owner, login, overlaps)
      BY <3>1, UserAdded
    <3> QED BY <3>2, <2>1, <1>0
  <2> QED BY <1>0, <2>2, <2>3, <2>4, <2>5, SessionUsers
<1> QED BY <1>1, <1>2

\* A wallet is linked to a user unless it is somebody's.
LEMMA SessionLink == ASSUME SessionInv, NEW c \in Requests, Sess!InsertWallet(c) PROVE SessionInv'
<1> USE SessionRows DEF SessionInv
<1> DEFINE w == login[c].wallet
           v == login[c].user
<1>0. /\ login[c].op = "link" /\ w \in Wallets /\ v \in 1..Len(users)
      /\ UNCHANGED <<nonces, users, tokens, accepted, overlaps>> /\ Sess!Close(c)
  BY CallRows DEF Sess!InsertWallet
<1>1. /\ login' \in [Requests -> Calls(Len(users))]
      /\ \A d \in Requests : \A u : Unlinks(login', d, u) => Unlinks(login, d, u)
  BY <1>0, CloseCall
<1>2. owner' \in [Wallets -> 0..Len(users)] /\ OneLeft(users, owner', login, overlaps)
  <2>1. CASE owner[w] = 0
    <3>1. owner' = [owner EXCEPT ![w] = v]
      BY <2>1 DEF Sess!InsertWallet
    <3>2. OneLeft(users, owner, login, overlaps)
      BY DEF OneIsLeft
    <3> HIDE DEF w, v
    <3>3. OneLeft(users, [owner EXCEPT ![w] = v], login, overlaps)
      BY <3>2, <2>1, <1>0, WalletAdded
    <3> QED BY <3>1, <3>3, <1>0
  <2>2. CASE owner[w] # 0
    BY <2>2 DEF Sess!InsertWallet, OneIsLeft
  <2> QED BY <2>1, <2>2
<1>3. OneLeft(users', owner', login', overlaps')
  <2>1. \A d \in Requests, u \in 1..Len(users) : Unlinks(login', d, u) => Unlinks(login, d, u)
    BY <1>1
  <2> QED BY <1>0, <1>2, <2>1, FewerCalls
<1>4. Len(users) <= Len(users') /\ Len(users') = Len(users) /\ users' = users /\ tokens' = tokens /\ overlaps' = overlaps
  BY <1>0
<1> QED BY <1>0, <1>1, <1>2, <1>3, <1>4, SessionUsers

\* The handler counts the wallets of its user before it deletes one of them.
LEMMA SessionUnlink == ASSUME SessionInv, NEW c \in Requests, Sess!UnlinkWallet(c) PROVE SessionInv'
<1> USE SessionRows DEF SessionInv
<1>1. PICK w \in Wallets, t \in DOMAIN tokens :
        /\ Sess!MoreThanOne(tokens[t].user)
        /\ Sess!Open(c, [op |-> "unlink", wallet |-> w, user |-> tokens[t].user])
        /\ overlaps' = overlaps \cup {v \in {tokens[t].user} :
                                        \E d \in Requests : login[d].op = "unlink" /\ login[d].user = v}
  BY DEF Sess!UnlinkWallet
<1> DEFINE v == tokens[t].user
           q == [op |-> "unlink", wallet |-> w, user |-> v]
<1>2. UNCHANGED <<nonces, users, owner, tokens, accepted>>
  BY DEF Sess!UnlinkWallet
<1>3. v \in 1..Len(users) /\ q \in Calls(Len(users)) /\ q.user = v
  BY DEF Calls
<1>4. Cardinality(WalletsOf(owner, v)) > 1
  BY <1>1, SessionCardinality DEF Sess!MoreThanOne, Sess!CountWallets, WalletsOf
<1>5. /\ overlaps \subseteq overlaps' /\ overlaps' \subseteq 1..Len(users)
      /\ (\E d \in Requests : Unlinks(login, d, v)) => v \in overlaps'
  BY <1>1, <1>3 DEF Unlinks
<1>6. Sess!Open(c, q)
  BY <1>1
<1> HIDE DEF v, q
<1>7. /\ login' \in [Requests -> Calls(Len(users))] /\ login'[c] = q
      /\ \A d \in Requests \ {c} : login'[d] = login[d]
      /\ \A u : ~Unlinks(login, c, u)
  BY <1>3, <1>6, OpenCall
<1>8. \A u : Unlinks(login', c, u) => u = v
  BY <1>3, <1>7 DEF Unlinks
<1>9. OneLeft(users, owner, login', overlaps')
  <2>1. OneLeft(users, owner, login, overlaps)
    BY DEF OneIsLeft
  <2>2. SUFFICES ASSUME NEW u \in 1..Len(users), users[u] = NoTg, u \notin overlaps'
                 PROVE  LeavesOne(owner, login', u)
    BY <2>1 DEF OneLeft
  <2>3. LeavesOne(owner, login, u)
    BY <2>1, <2>2, <1>5 DEF OneLeft
  <2>4. CASE u = v
    <3>1. \A d \in Requests : ~Unlinks(login, d, u)
      BY <2>2, <2>4, <1>5
    <3>2. \A d \in Requests : Unlinks(login', d, u) => d = c
      BY <3>1, <1>7 DEF Unlinks
    <3> QED BY <3>2, <2>3, <2>4, <1>4 DEF LeavesOne
  <2>5. CASE u # v
    <3>1. \A d \in Requests : Unlinks(login', d, u) => Unlinks(login, d, u)
      BY <2>5, <1>7, <1>8 DEF Unlinks
    <3> QED BY <3>1, <2>3 DEF LeavesOne
  <2> QED BY <2>4, <2>5
<1>10. Len(users) <= Len(users') /\ Len(users') = Len(users)
  BY <1>2
<1> QED BY <1>2, <1>5, <1>7, <1>9, <1>10, SessionUsers

\* The one request to unlink that its user has leaves her another wallet.
LEMMA UnlinkDone ==
  ASSUME SessionInv, NEW c \in Requests, NEW v \in 1..Len(users), NEW w \in Wallets, Unlinks(login, c, v),
         owner' = [owner EXCEPT ![w] = IF @ = v THEN 0 ELSE @],
         \A d \in Requests \ {c} : login'[d] = login[d], \A u : ~Unlinks(login', c, u)
  PROVE  OneLeft(users, owner', login', overlaps)
<1>0. OneLeft(users, owner, login, overlaps) /\ owner \in [Wallets -> 0..Len(users)] /\ Len(users) \in Nat
  BY SessionRows DEF SessionInv, OneIsLeft
<1>1. \A x \in Wallets : owner'[x] = IF x = w /\ owner[x] = v THEN 0 ELSE owner[x]
  BY <1>0
<1>2. \A u \in 1..Len(users) : u # v => WalletsOf(owner', u) = WalletsOf(owner, u)
  BY <1>0, <1>1 DEF WalletsOf
<1>3. WalletsOf(owner', v) = WalletsOf(owner, v) \ {w}
  BY <1>0, <1>1 DEF WalletsOf
<1>4. \A d \in Requests, u \in 1..Len(users) : Unlinks(login', d, u) => Unlinks(login, d, u) /\ d # c
  BY DEF Unlinks
<1>5. \A u \in 1..Len(users) : IsFiniteSet(WalletsOf(owner, u))
  BY <1>0 DEF OneLeft
<1>6. IsFiniteSet(WalletsOf(owner', v))
  BY <1>3, <1>5, FS_Subset
<1>7. ASSUME NEW u \in 1..Len(users), LeavesOne(owner, login, u)
      PROVE  LeavesOne(owner', login', u)
  <2>1. CASE u # v
    BY <2>1, <1>2, <1>4, <1>7 DEF LeavesOne
  <2>2. CASE u = v
    <3>1. Cardinality(WalletsOf(owner, v)) > 1 /\ \A e \in Requests : Unlinks(login, e, v) => e = c
      BY <2>2, <1>7 DEF LeavesOne
    <3>2. WalletsOf(owner', v) # {}
      <4> DEFINE S == WalletsOf(owner, v)
      <4>1. IsFiniteSet(S) /\ Cardinality(S) > 1 /\ WalletsOf(owner', v) = S \ {w}
        BY <1>3, <1>5, <3>1
      <4> HIDE DEF S
      <4> QED BY <4>1, MoreThanThis
    <3>3. \A d \in Requests : ~Unlinks(login', d, v)
      BY <1>4, <3>1
    <3> QED BY <2>2, <3>2, <3>3 DEF LeavesOne
  <2> QED BY <2>1, <2>2
<1>8. OneLeft(users, owner', login', overlaps)
  <2> SUFFICES ASSUME NEW u \in 1..Len(users)
               PROVE  /\ IsFiniteSet(WalletsOf(owner', u)) /\ (users[u] = NoTg /\ u \notin overlaps => LeavesOne(owner', login', u))
    BY DEF OneLeft
  <2>1. IsFiniteSet(WalletsOf(owner', u))
    BY <1>2, <1>5, <1>6
  <2>2. users[u] = NoTg /\ u \notin overlaps => LeavesOne(owner', login', u)
    BY <1>0, <1>7 DEF OneLeft
  <2> QED BY <2>1, <2>2
<1> QED BY <1>8

\* The wallet is deleted, whatever has been linked since it was counted.
LEMMA SessionDelete == ASSUME SessionInv, NEW c \in Requests, Sess!DeleteWallet(c) PROVE SessionInv'
<1> USE SessionRows DEF SessionInv
<1> DEFINE w == login[c].wallet
           v == login[c].user
           q == [owner EXCEPT ![w] = IF @ = v THEN 0 ELSE @]
<1>0. /\ login[c].op = "unlink" /\ w \in Wallets /\ v \in 1..Len(users)
      /\ UNCHANGED <<nonces, users, tokens, accepted, overlaps>> /\ Sess!Close(c)
  BY CallRows DEF Sess!DeleteWallet
<1>1. /\ login' \in [Requests -> Calls(Len(users))]
      /\ \A d \in Requests \ {c} : login'[d] = login[d]
      /\ \A u : ~Unlinks(login', c, u)
  BY <1>0, CloseCall
<1>2. owner' = q /\ q \in [Wallets -> 0..Len(users)]
  BY <1>0 DEF Sess!DeleteWallet
<1>3. OneLeft(users, owner, login, overlaps) /\ Unlinks(login, c, v)
  BY <1>0 DEF OneIsLeft, Unlinks
<1> HIDE DEF w, v
<1>4. OneLeft(users, owner', login', overlaps)
  BY <1>0, <1>1, <1>2, <1>3, UnlinkDone
<1>5. /\ Len(users) <= Len(users') /\ Len(users') = Len(users) /\ OneLeft(users', owner', login', overlaps')
      /\ owner' \in [Wallets -> 0..Len(users)]
  BY <1>0, <1>2, <1>4
<1> QED BY <1>0, <1>1, <1>5, SessionUsers

\* Every step of Sessions keeps the invariant.
LEMMA SessionStep == ASSUME SessionInv, Sess!Next PROVE SessionInv'
  BY SessionNonce, SessionLogin, SessionLookup, SessionRegister, SessionTgLogin, SessionLink, SessionUnlink, SessionDelete,
     SessionEnds, SessionAge DEF Sess!Next

\* Nothing changes.
LEMMA SessionStutter == SessionInv /\ UNCHANGED sessionVars => SessionInv'
  BY DEF sessionVars, SessionInv, SessionTypes, Sess!TypeOK, UsedOnce, OneIsLeft

\* What Accounts asks of Sessions follows from the invariant.
LEMMA SessionWaysIn == SessionInv => Sess!WaysIn /\ Sess!TypeOK
<1> SUFFICES ASSUME SessionInv PROVE Sess!WaysIn
  BY DEF SessionInv, SessionTypes
<1> USE SessionRows DEF SessionInv
<1>1. Sess!MessageOnce
  BY DEF Sess!MessageOnce, UsedOnce
<1>2. Sess!EntryKept
  <2> SUFFICES ASSUME NEW u \in 1..Len(users), users[u] = NoTg, u \notin overlaps
               PROVE  Sess!CountWallets(u) > 0
    BY DEF Sess!EntryKept
  <2> DEFINE S == WalletsOf(owner, u)
  <2>1. IsFiniteSet(S) /\ S # {}
    BY DEF OneIsLeft, OneLeft, LeavesOne
  <2>2. Sess!CountWallets(u) = Cardinality(S)
    BY SessionCardinality DEF Sess!CountWallets, WalletsOf
  <2> HIDE DEF S
  <2>3. Cardinality(S) \in Nat /\ Cardinality(S) # 0
    BY <2>1, FS_EmptySet, FS_CardinalityType
  <2> QED BY <2>2, <2>3
<1> QED BY <1>1, <1>2 DEF Sess!WaysIn

----------------------------------------------------------------------------
(* FollowBook: relations, watchlists and the delivery of signals. *)

AnyConfig == [venue : STRING, same : BOOLEAN, mode : {"fixed", "proportional"}, value : Int, max : Int]
FollowRows ==
  [user : Customers, target : Book!Targets, raw : BOOLEAN, active : BOOLEAN, deleted : BOOLEAN,
   config : AnyConfig, from : Nat]
WatchRows == [user : Customers, target : Book!Targets, raw : BOOLEAN, live : BOOLEAN]

\* What a request may hold, of n follows and m watched items; only an address of a trader is raw.
RawOK(q) == q.raw => q.target \in Traders
Asked(n, m) ==
  [op : {"none"}]
    \cup [op : {"create"}, user : Customers, target : Book!Targets, config : Configs]
    \cup [op : {"resume"}, rel : 1..n]
    \cup {q \in [op : {"watch"}, user : Customers, target : Book!Targets, raw : BOOLEAN] : RawOK(q)}
    \cup [op : {"upgrade"}, item : 1..m, config : Configs]

\* A configuration is one that may be asked for, except that same_venue_only is never patched.
ConfigOK(f) == \E cfg \in Configs : f.config \in {cfg, [cfg EXCEPT !.same = ~cfg.same]}
FollowOK(f, m) == f \in FollowRows /\ RawOK(f) /\ ConfigOK(f) /\ f.from \in 0..m

BookRows ==
  /\ follows \in Seq(FollowRows) /\ watch \in Seq(WatchRows)
  /\ \A r \in 1..Len(follows) : FollowOK(follows[r], Len(watch))
  /\ \A w \in 1..Len(watch) : RawOK(watch[w])
BookCalls == call \in [Requests -> Asked(Len(follows), Len(watch))]
BookOthers == bots \subseteq Traders /\ verified \subseteq Identities /\ outbox \subseteq Signals

\* A relation that a signal found stays a follow of the target as it is written, and active unless
\* the user stopped one of hers.
Lasting(f, st, r) == ~f[r].raw /\ (f[r].active \/ <<f[r].user, f[r].target>> \in st)
DeliveryOK(f, i, os, ow, st) ==
  /\ i = Book!None \/ i \in [sig : Signals, todo : SUBSET (1..Len(f)), pending : SUBSET (1..Len(f))]
  /\ \A o \in os : o.sig \in Signals /\ o.rel \in 1..Len(f) /\ o.status \in {"pending", "skipped"} /\ Lasting(f, st, o.rel)
  /\ \A o, p \in os : o.sig = p.sig /\ o.rel = p.rel => o = p
  /\ i # Book!None => /\ \A r \in i.todo : Lasting(f, st, r)
                      /\ \A r \in ow : r \in i.todo \/ \E o \in os : o.sig = i.sig /\ o.rel = r
Delivery == DeliveryOK(follows, ingest, orders, owing, stopped)

BookInv == BookRows /\ BookCalls /\ BookOthers /\ Delivery /\ Book!UpgradedOnce /\ Book!OneActiveEach

\* Nothing is followed, watched or delivered at first.
LEMMA BookInit == Book!Init => BookInv
<1> SUFFICES ASSUME Book!Init PROVE BookInv
  OBVIOUS
<1> USE DEF Book!Init
<1>1. /\ follows = <<>> /\ watch = <<>> /\ Len(follows) = 0 /\ Len(watch) = 0 /\ DOMAIN follows = {}
      /\ follows \in Seq(FollowRows) /\ watch \in Seq(WatchRows)
  OBVIOUS
<1>2. BookRows /\ BookOthers
  BY <1>1 DEF BookRows, BookOthers
<1>3. BookCalls
  BY DEF BookCalls, Book!None, Asked
<1>4. Delivery
  BY DEF Delivery, DeliveryOK
<1>5. Book!UpgradedOnce /\ Book!OneActiveEach
  BY <1>1 DEF Book!UpgradedOnce, Book!OneActiveEach, Book!Rels
<1> QED BY <1>2, <1>3, <1>4, <1>5 DEF BookInv

\* The conjuncts that are typing, in the form the proofs need.
LEMMA BookTypes ==
  ASSUME BookInv
  PROVE  /\ follows \in Seq(FollowRows) /\ Len(follows) \in Nat /\ DOMAIN follows = 1..Len(follows)
         /\ watch \in Seq(WatchRows) /\ Len(watch) \in Nat /\ DOMAIN watch = 1..Len(watch)
         /\ Book!Rels = 1..Len(follows)
         /\ \A r \in 1..Len(follows) : follows[r] \in FollowRows
         /\ \A w \in 1..Len(watch) : watch[w] \in WatchRows
  BY DEF BookInv, BookRows, Book!Rels

\* A request stays one when rows are added.
LEMMA AskedGrow ==
  ASSUME NEW n \in Nat, NEW m \in Nat, NEW j \in Nat, NEW k \in Nat, n <= j, m <= k
  PROVE  Asked(n, m) \subseteq Asked(j, k)
  BY DEF Asked

\* A delivery does not mind what happens to relations, unless one is stopped.
LEMMA DeliveryKept ==
  ASSUME Delivery, UNCHANGED <<ingest, orders>>, owing' \subseteq owing, stopped \subseteq stopped',
         Len(follows) \in Nat, Len(follows') \in Nat, Len(follows) <= Len(follows'),
         \A r \in 1..Len(follows) :
           /\ follows'[r].user = follows[r].user /\ follows'[r].target = follows[r].target
           /\ follows'[r].raw = follows[r].raw
           /\ follows[r].active => follows'[r].active \/ <<follows[r].user, follows[r].target>> \in stopped'
  PROVE  Delivery'
<1>1. \A r \in 1..Len(follows) : Lasting(follows, stopped, r) => Lasting(follows', stopped', r)
  BY DEF Lasting
<1>2. 1..Len(follows) \subseteq 1..Len(follows')
  OBVIOUS
<1>3. ingest = Book!None \/ ingest \in [sig : Signals, todo : SUBSET (1..Len(follows)), pending : SUBSET (1..Len(follows))]
  BY DEF Delivery, DeliveryOK
<1>4. ingest = Book!None \/ ingest \in [sig : Signals, todo : SUBSET (1..Len(follows')), pending : SUBSET (1..Len(follows'))]
  BY <1>2, <1>3
<1>5. \A o \in orders : o.sig \in Signals /\ o.rel \in 1..Len(follows') /\ o.status \in {"pending", "skipped"}
                          /\ Lasting(follows', stopped', o.rel)
  BY <1>1, <1>2 DEF Delivery, DeliveryOK
<1>6. /\ \A o, p \in orders : o.sig = p.sig /\ o.rel = p.rel => o = p
      /\ ingest # Book!None => /\ \A r \in ingest.todo : Lasting(follows', stopped', r)
                               /\ \A r \in owing' : r \in ingest.todo \/ \E o \in orders : o.sig = ingest.sig /\ o.rel = r
  <2>1. ASSUME ingest # Book!None, NEW r \in ingest.todo PROVE Lasting(follows', stopped', r)
    <3>1. r \in 1..Len(follows) /\ Lasting(follows, stopped, r)
      BY <2>1, <1>3 DEF Delivery, DeliveryOK
    <3> QED BY <3>1, <1>1
  <2>2. ASSUME ingest # Book!None, NEW r \in owing'
        PROVE  r \in ingest.todo \/ \E o \in orders : o.sig = ingest.sig /\ o.rel = r
    BY <2>2 DEF Delivery, DeliveryOK
  <2>3. \A o, p \in orders : o.sig = p.sig /\ o.rel = p.rel => o = p
    BY DEF Delivery, DeliveryOK
  <2> QED BY <2>1, <2>2, <2>3
<1>7. UNCHANGED <<ingest, orders>>
  OBVIOUS
<1> QED BY <1>4, <1>5, <1>6, <1>7 DEF Delivery, DeliveryOK

\* Requests are made.
LEMMA BookAsk ==
  ASSUME BookInv, NEW c \in Requests, NEW q \in Asked(Len(follows), Len(watch)), Book!Ask(c, q)
  PROVE  BookInv'
<1> USE DEF BookInv
<1>1. UNCHANGED <<follows, watch, bots, verified, outbox, ingest, orders, owing, stopped>> /\ call' = [call EXCEPT ![c] = q]
  BY DEF Book!Ask
<1>2. BookCalls'
  BY <1>1 DEF BookCalls
<1> QED BY <1>1, <1>2 DEF BookRows, BookOthers, Delivery, Book!UpgradedOnce, Book!OneActiveEach, Book!Rels

\* The four requests that read before they write.
LEMMA BookAsks ==
  ASSUME BookInv, NEW c \in Requests,
         Book!CreateFollow(c) \/ Book!ResumeFollow(c) \/ Book!CreateWatch(c) \/ Book!UpgradeWatch(c)
  PROVE  BookInv'
<1> USE BookTypes
<1>1. CASE Book!CreateFollow(c)
  <2>1. PICK u \in Customers, t \in Book!Targets, cfg \in Configs :
          Book!Ask(c, [op |-> "create", user |-> u, target |-> t, config |-> cfg])
    BY <1>1 DEF Book!CreateFollow
  <2> DEFINE q == [op |-> "create", user |-> u, target |-> t, config |-> cfg]
  <2>2. q \in Asked(Len(follows), Len(watch))
    BY DEF Asked
  <2> QED BY <2>1, <2>2, BookAsk
<1>2. CASE Book!ResumeFollow(c)
  <2>1. PICK r \in Book!Rels : Book!Ask(c, [op |-> "resume", rel |-> r])
    BY <1>2 DEF Book!ResumeFollow
  <2> DEFINE q == [op |-> "resume", rel |-> r]
  <2>2. q \in Asked(Len(follows), Len(watch))
    BY DEF Asked
  <2> QED BY <2>1, <2>2, BookAsk
<1>3. CASE Book!CreateWatch(c)
  <2>1. PICK u \in Customers, t \in Book!Targets, raw \in BOOLEAN :
          (raw => t \in Traders) /\ Book!Ask(c, [op |-> "watch", user |-> u, target |-> t, raw |-> raw])
    BY <1>3 DEF Book!CreateWatch
  <2> DEFINE q == [op |-> "watch", user |-> u, target |-> t, raw |-> raw]
  <2>2. q \in [op : {"watch"}, user : Customers, target : Book!Targets, raw : BOOLEAN] /\ RawOK(q)
    BY <2>1 DEF RawOK
  <2>3. q \in Asked(Len(follows), Len(watch))
    BY <2>2 DEF Asked
  <2> QED BY <2>1, <2>3, BookAsk
<1>4. CASE Book!UpgradeWatch(c)
  <2>1. PICK w \in DOMAIN watch, cfg \in Configs : Book!Ask(c, [op |-> "upgrade", item |-> w, config |-> cfg])
    BY <1>4 DEF Book!UpgradeWatch
  <2> DEFINE q == [op |-> "upgrade", item |-> w, config |-> cfg]
  <2>2. q \in Asked(Len(follows), Len(watch))
    BY DEF Asked
  <2> QED BY <2>1, <2>2, BookAsk
<1> QED BY <1>1, <1>2, <1>3, <1>4

\* A request is one of four kinds, and has what its kind has.
LEMMA AskedRows ==
  ASSUME BookInv, NEW c \in Requests
  PROVE  /\ call[c].op = "create" => call[c].user \in Customers /\ call[c].target \in Book!Targets /\ call[c].config \in Configs
         /\ call[c].op = "resume" => call[c].rel \in 1..Len(follows)
         /\ call[c].op = "watch" => /\ call[c].user \in Customers /\ call[c].target \in Book!Targets
                                    /\ call[c].raw \in BOOLEAN /\ RawOK(call[c])
         /\ call[c].op = "upgrade" => call[c].item \in 1..Len(watch) /\ call[c].config \in Configs
<1> DEFINE q == call[c]
<1>1. q \in Asked(Len(follows), Len(watch))
  BY DEF BookInv, BookCalls
<1> HIDE DEF q
<1>2. /\ q.op = "create" => q.user \in Customers /\ q.target \in Book!Targets /\ q.config \in Configs
      /\ q.op = "resume" => q.rel \in 1..Len(follows)
      /\ q.op = "watch" => q.user \in Customers /\ q.target \in Book!Targets /\ q.raw \in BOOLEAN /\ RawOK(q)
      /\ q.op = "upgrade" => q.item \in 1..Len(watch) /\ q.config \in Configs
  BY <1>1 DEF Asked
<1> QED BY <1>2 DEF q

\* A request is answered.
LEMMA Answered ==
  ASSUME BookInv, NEW c \in Requests, Book!Answer(c), NEW n \in Nat, NEW m \in Nat, Len(follows) <= n, Len(watch) <= m
  PROVE  call' \in [Requests -> Asked(n, m)]
<1>1. Asked(Len(follows), Len(watch)) \subseteq Asked(n, m) /\ Book!None \in Asked(n, m)
  BY BookTypes, AskedGrow DEF Asked, Book!None
<1> QED BY <1>1 DEF Book!Answer, BookInv, BookCalls

\* A follow is added of a target that has none active.
LEMMA NewFollow ==
  ASSUME BookInv, NEW u \in Customers, NEW t \in Book!Targets, NEW raw \in BOOLEAN, raw => t \in Traders,
         NEW cfg \in Configs, NEW from \in 0..Len(watch), Book!Duplicates(u, t, raw) = {}, Book!Follow(u, t, raw, cfg, from)
  PROVE  /\ follows' \in Seq(FollowRows) /\ Len(follows') = Len(follows) + 1
         /\ \A r \in 1..Len(follows) : follows'[r] = follows[r]
         /\ FollowOK(follows'[Len(follows) + 1], Len(watch)) /\ follows'[Len(follows) + 1].from = from
         /\ Book!OneActiveEach'
<1> USE BookTypes DEF BookInv
<1> DEFINE new == [user |-> u, target |-> t, raw |-> raw, active |-> TRUE, deleted |-> FALSE, config |-> cfg, from |-> from]
           n == Len(follows) + 1
<1>1. cfg \in AnyConfig
  BY FollowAssumption DEF AnyConfig
<1>2. FollowOK(new, Len(watch)) /\ new.from = from /\ new.user = u /\ new.target = t /\ new.raw = raw
  BY <1>1 DEF FollowOK, FollowRows, RawOK, ConfigOK
<1>3. follows' = Append(follows, new)
  BY DEF Book!Follow
<1> HIDE DEF new
<1>4. /\ follows' \in Seq(FollowRows) /\ Len(follows') = n /\ follows'[n] = new
      /\ \A r \in 1..Len(follows) : follows'[r] = follows[r]
  BY <1>2, <1>3 DEF FollowOK
<1>5. \A r \in 1..Len(follows) : ~(follows[r].user = u /\ follows[r].target = t /\ follows[r].raw = raw /\ follows[r].active)
  BY DEF Book!Duplicates
<1>6. Book!OneActiveEach'
  <2>0. Book!Rels' = 1..n
    BY <1>4 DEF Book!Rels
  <2> SUFFICES ASSUME NEW q \in 1..n, NEW r \in 1..n,
                      follows'[q].active /\ follows'[r].active /\ follows'[q].user = follows'[r].user,
                      follows'[q].target = follows'[r].target /\ follows'[q].raw = follows'[r].raw
               PROVE  q = r
    BY <2>0 DEF Book!OneActiveEach
  <2>1. CASE q \in 1..Len(follows) /\ r \in 1..Len(follows)
    BY <2>1, <1>4 DEF Book!OneActiveEach
  <2>2. CASE q = n /\ r \in 1..Len(follows)
    BY <2>2, <1>2, <1>4, <1>5
  <2>3. CASE q \in 1..Len(follows) /\ r = n
    BY <2>3, <1>2, <1>4, <1>5
  <2> QED BY <2>1, <2>2, <2>3
<1> QED BY <1>2, <1>4, <1>6

\* A follow is made, unless its target was followed in the meantime.
LEMMA BookInsertFollow == ASSUME BookInv, NEW c \in Requests, Book!InsertFollow(c) PROVE BookInv'
<1> USE BookTypes DEF BookInv
<1> DEFINE q == call[c]
           n == Len(follows)
<1>0. /\ q.op = "create" /\ Book!Answer(c) /\ UNCHANGED <<watch, bots, verified, outbox, ingest, orders, owing, stopped>>
      /\ q.user \in Customers /\ q.target \in Book!Targets /\ q.config \in Configs
  BY AskedRows DEF Book!InsertFollow
<1>1. CASE Book!Duplicates(q.user, q.target, FALSE) = {}
  <2>1. Book!Follow(q.user, q.target, FALSE, q.config, 0)
    BY <1>1 DEF Book!InsertFollow
  <2>2. /\ follows' \in Seq(FollowRows) /\ Len(follows') = n + 1
        /\ \A r \in 1..n : follows'[r] = follows[r]
        /\ FollowOK(follows'[n + 1], Len(watch)) /\ follows'[n + 1].from = 0
        /\ Book!OneActiveEach'
    <3> DEFINE u == q.user
               t == q.target
               cfg == q.config
               raw == FALSE
               from == 0
    <3>a. Book!Duplicates(u, t, raw) = {} /\ Book!Follow(u, t, raw, cfg, from)
      BY ONLY <1>1, <2>1
    <3>b. u \in Customers /\ t \in Book!Targets /\ cfg \in Configs /\ raw \in BOOLEAN /\ (raw => t \in Traders)
      BY <1>0
    <3>c. from \in 0..Len(watch)
      OBVIOUS
    <3> HIDE DEF u, t, cfg, raw, from
    <3>1. /\ u \in Customers /\ t \in Book!Targets /\ cfg \in Configs /\ raw \in BOOLEAN /\ (raw => t \in Traders)
          /\ from \in 0..Len(watch) /\ Book!Duplicates(u, t, raw) = {} /\ Book!Follow(u, t, raw, cfg, from)
      BY <3>a, <3>b, <3>c
    <3> HIDE DEF u, t, cfg, raw, from
    <3>2. /\ follows' \in Seq(FollowRows) /\ Len(follows') = n + 1
          /\ \A r \in 1..n : follows'[r] = follows[r]
          /\ FollowOK(follows'[n + 1], Len(watch)) /\ follows'[n + 1].from = from
          /\ Book!OneActiveEach'
      BY <3>1, NewFollow
    <3> QED BY <3>2 DEF from
  <2>3. BookRows'
    BY <1>0, <2>2 DEF BookRows
  <2>4. BookCalls'
    BY <1>0, <2>2, Answered DEF BookCalls
  <2>5. Delivery'
    BY <1>0, <2>2, DeliveryKept
  <2>6. Book!UpgradedOnce'
    BY <1>0, <2>2 DEF Book!UpgradedOnce, Book!Rels
  <2> QED BY <1>0, <2>2, <2>3, <2>4, <2>5, <2>6 DEF BookOthers
<1>2. CASE Book!Duplicates(q.user, q.target, FALSE) # {}
  <2>1. follows' = follows
    BY <1>2 DEF Book!InsertFollow
  <2>2. BookCalls'
    BY <1>0, <2>1, Answered DEF BookCalls
  <2> QED BY <1>0, <2>1, <2>2 DEF BookRows, BookOthers, Delivery, Book!UpgradedOnce, Book!OneActiveEach, Book!Rels
<1> QED BY <1>1, <1>2

\* A watched item becomes a follow and leaves the watchlist.
LEMMA BookUpgrade == ASSUME BookInv, NEW c \in Requests, Book!Upgrade(c) PROVE BookInv'
<1> USE BookTypes DEF BookInv
<1> DEFINE w == call[c].item
           n == Len(follows)
           m == Len(watch)
<1>0. /\ call[c].op = "upgrade" /\ Book!Answer(c) /\ UNCHANGED <<bots, verified, outbox, ingest, orders, owing, stopped>>
      /\ w \in 1..m /\ call[c].config \in Configs
  BY AskedRows DEF Book!Upgrade
<1>1. CASE Book!Duplicates(watch[w].user, watch[w].target, watch[w].raw) = {} /\ Book!StillThere(w)
  <2>1. /\ Book!Follow(watch[w].user, watch[w].target, watch[w].raw, call[c].config, w)
        /\ watch' = [watch EXCEPT ![w].live = FALSE] /\ watch[w].live
    BY <1>1 DEF Book!Upgrade, Book!StillThere
  <2>2. /\ follows' \in Seq(FollowRows) /\ Len(follows') = n + 1
        /\ \A r \in 1..n : follows'[r] = follows[r]
        /\ FollowOK(follows'[n + 1], m) /\ follows'[n + 1].from = w
        /\ Book!OneActiveEach'
    <3> DEFINE u == watch[w].user
               t == watch[w].target
               cfg == call[c].config
               raw == watch[w].raw
               from == w
    <3>1. /\ u \in Customers /\ t \in Book!Targets /\ cfg \in Configs /\ raw \in BOOLEAN /\ (raw => t \in Traders)
          /\ from \in 0..Len(watch) /\ Book!Duplicates(u, t, raw) = {} /\ Book!Follow(u, t, raw, cfg, from)
      BY <1>0, <1>1, <2>1 DEF WatchRows, BookRows, RawOK
    <3> HIDE DEF u, t, cfg, raw, from
    <3>2. /\ follows' \in Seq(FollowRows) /\ Len(follows') = n + 1
          /\ \A r \in 1..n : follows'[r] = follows[r]
          /\ FollowOK(follows'[n + 1], Len(watch)) /\ follows'[n + 1].from = from
          /\ Book!OneActiveEach'
      BY <3>1, NewFollow
    <3> QED BY <3>2 DEF from
  <2> DEFINE gone == [watch[w] EXCEPT !.live = FALSE]
  <2>3. gone \in WatchRows /\ gone.live = FALSE /\ (RawOK(watch[w]) => RawOK(gone)) /\ watch' = [watch EXCEPT ![w] = gone]
    BY <1>0, <2>1 DEF WatchRows, RawOK
  <2> HIDE DEF w, gone
  <2>4. /\ watch' \in Seq(WatchRows) /\ Len(watch') = m /\ watch'[w] = gone
        /\ \A x \in 1..m : x # w => watch'[x] = watch[x]
    BY <1>0, <2>3
  <2>5. BookRows'
    BY SMTT(40), <1>0, <2>2, <2>3, <2>4 DEF BookRows
  <2>6. BookCalls'
    BY <1>0, <2>2, <2>4, Answered DEF BookCalls
  <2>7. Delivery'
    BY <1>0, <2>2, DeliveryKept
  <2>8. Book!UpgradedOnce'
    <3>1. \A r \in 1..n : follows[r].from > 0 => follows[r].from # w
      BY <2>1 DEF Book!UpgradedOnce
    <3>2. \A r \in 1..n : follows[r].from \in 0..m
      BY DEF BookRows, FollowOK
    <3>3. Book!Rels' = 1..(n + 1)
      BY <2>2 DEF Book!Rels
    <3> SUFFICES ASSUME NEW r \in 1..(n + 1), follows'[r].from > 0
                 PROVE  /\ ~watch'[follows'[r].from].live
                        /\ \A q \in 1..(n + 1) : follows'[q].from = follows'[r].from => q = r
      BY <3>3 DEF Book!UpgradedOnce
    <3>4. CASE r = n + 1
      BY <3>4, <1>0, <2>2, <2>3, <2>4, <3>1
    <3>5. CASE r \in 1..n
      <4>1. ~watch[follows[r].from].live /\ \A q \in 1..n : follows[q].from = follows[r].from => q = r
        BY <3>5, <2>2 DEF Book!UpgradedOnce
      <4>2. ~watch'[follows'[r].from].live
        BY <3>5, <4>1, <2>2, <2>3, <2>4, <3>2
      <4> QED BY <3>5, <4>1, <4>2, <2>2, <3>1
    <3> QED BY <3>4, <3>5
  <2> QED BY <1>0, <2>2, <2>5, <2>6, <2>7, <2>8 DEF BookOthers
<1>2. CASE ~(Book!Duplicates(watch[w].user, watch[w].target, watch[w].raw) = {} /\ Book!StillThere(w))
  <2>1. follows' = follows /\ watch' = watch
    BY <1>2 DEF Book!Upgrade
  <2>2. BookCalls'
    BY <1>0, <2>1, Answered DEF BookCalls
  <2> QED BY <1>0, <2>1, <2>2 DEF BookRows, BookOthers, Delivery, Book!UpgradedOnce, Book!OneActiveEach, Book!Rels
<1> QED BY <1>1, <1>2

\* An item is watched, or watched again.
LEMMA BookInsertWatch == ASSUME BookInv, NEW c \in Requests, Book!InsertWatch(c) PROVE BookInv'
<1> USE BookTypes DEF BookInv
<1> DEFINE q == call[c]
           m == Len(watch)
<1>0. /\ q.op = "watch" /\ Book!Answer(c) /\ UNCHANGED <<follows, bots, verified, outbox, ingest, orders, owing, stopped>>
      /\ q.user \in Customers /\ q.target \in Book!Targets /\ q.raw \in BOOLEAN /\ RawOK(q)
  BY AskedRows DEF Book!InsertWatch
<1> DEFINE new == [user |-> q.user, target |-> q.target, raw |-> q.raw, live |-> TRUE]
<1>1. watch' = watch \/ watch' = Append(watch, new)
  BY DEF Book!InsertWatch
<1>2. new \in WatchRows /\ RawOK(new)
  BY <1>0 DEF WatchRows, RawOK
<1> HIDE DEF new
<1>3. /\ watch' \in Seq(WatchRows) /\ Len(watch') \in Nat /\ m <= Len(watch')
      /\ \A w \in 1..m : watch'[w] = watch[w]
      /\ \A w \in 1..Len(watch') : RawOK(watch'[w])
  <2>1. CASE watch' = watch
    BY <2>1 DEF BookRows
  <2>2. CASE watch' = Append(watch, new)
    BY <2>2, <1>2 DEF BookRows
  <2> QED BY <1>1, <2>1, <2>2
<1>4. BookRows'
  <2>1. \A r \in 1..Len(follows) : FollowOK(follows[r], Len(watch'))
    BY <1>3 DEF BookRows, FollowOK
  <2> QED BY <1>0, <1>3, <2>1 DEF BookRows
<1>5. BookCalls'
  BY <1>0, <1>3, Answered DEF BookCalls
<1>6. Book!UpgradedOnce'
  <2>1. \A r \in 1..Len(follows) : follows[r].from \in 0..m
    BY DEF BookRows, FollowOK
  <2> QED BY <1>0, <1>3, <2>1 DEF Book!UpgradedOnce, Book!Rels
<1> QED BY <1>0, <1>4, <1>5, <1>6 DEF BookOthers, Delivery, Book!OneActiveEach, Book!Rels

\* A relation changes its flags or its configuration; user, target and spelling stay.
LEMMA FollowChanged ==
  ASSUME BookInv, NEW r \in 1..Len(follows), NEW new,
         new \in FollowRows, ConfigOK(new), new.user = follows[r].user, new.target = follows[r].target,
         new.raw = follows[r].raw, new.from = follows[r].from, follows' = [follows EXCEPT ![r] = new],
         UNCHANGED <<watch, ingest, orders, bots, verified, outbox>>, owing' \subseteq owing, stopped \subseteq stopped',
         follows[r].active => new.active \/ <<follows[r].user, follows[r].target>> \in stopped',
         new.active => follows[r].active \/ Book!Duplicates(follows[r].user, follows[r].target, follows[r].raw) \subseteq {r},
         call' \in [Requests -> Asked(Len(follows), Len(watch))]
  PROVE  BookInv'
<1> USE BookTypes DEF BookInv
<1>1. /\ follows' \in Seq(FollowRows) /\ Len(follows') = Len(follows) /\ follows'[r] = new
      /\ \A q \in 1..Len(follows) : q # r => follows'[q] = follows[q]
  OBVIOUS
<1>2. BookRows'
  <2>1. FollowOK(new, Len(watch))
    BY DEF BookRows, FollowOK, RawOK
  <2> QED BY <1>1, <2>1 DEF BookRows
<1>3. BookCalls'
  BY <1>1 DEF BookCalls
<1>4. Delivery'
  <2>1. Len(follows) \in Nat /\ Len(follows') \in Nat /\ Len(follows) <= Len(follows')
    BY <1>1
  <2>2. \A q \in 1..Len(follows) :
           /\ follows'[q].user = follows[q].user /\ follows'[q].target = follows[q].target
           /\ follows'[q].raw = follows[q].raw
           /\ follows[q].active => follows'[q].active \/ <<follows[q].user, follows[q].target>> \in stopped'
    BY <1>1
  <2> QED BY <2>1, <2>2, DeliveryKept
<1>5. Book!UpgradedOnce'
  <2>1. \A q \in 1..Len(follows) : follows'[q].from = follows[q].from
    BY <1>1
  <2> QED BY <1>1, <2>1 DEF Book!UpgradedOnce, Book!Rels
<1>6. Book!OneActiveEach'
  <2> SUFFICES ASSUME NEW p \in 1..Len(follows), NEW q \in 1..Len(follows),
                      follows'[p].active /\ follows'[q].active /\ follows'[p].user = follows'[q].user,
                      follows'[p].target = follows'[q].target /\ follows'[p].raw = follows'[q].raw
               PROVE  p = q
    BY <1>1 DEF Book!OneActiveEach, Book!Rels
  <2>1. \A x \in 1..Len(follows) :
           /\ follows'[x].user = follows[x].user /\ follows'[x].target = follows[x].target
           /\ follows'[x].raw = follows[x].raw /\ (x # r /\ follows'[x].active => follows[x].active)
    BY <1>1
  <2>a. /\ follows[p].user = follows[q].user /\ follows[p].target = follows[q].target /\ follows[p].raw = follows[q].raw
        /\ (p # r => follows[p].active) /\ (q # r => follows[q].active)
    BY <2>1
  <2>2. CASE follows[r].active
    BY <2>a, <2>2 DEF Book!OneActiveEach
  <2>3. CASE ~new.active
    BY <2>1, <2>3, <1>1 DEF Book!OneActiveEach
  <2>4. CASE Book!Duplicates(follows[r].user, follows[r].target, follows[r].raw) \subseteq {r}
    <3>1. \A x \in 1..Len(follows) : follows[x].active /\ follows[x].user = follows[r].user
            /\ follows[x].target = follows[r].target /\ follows[x].raw = follows[r].raw => x = r
      BY <2>4 DEF Book!Duplicates
    <3>2. CASE p = r
      BY <3>1, <3>2, <2>a
    <3>3. CASE q = r
      BY <3>1, <3>3, <2>a
    <3>4. CASE p # r /\ q # r
      BY <3>4, <2>a DEF Book!OneActiveEach
    <3> QED BY <3>2, <3>3, <3>4
  <2> QED BY <2>2, <2>3, <2>4
<1> QED BY <1>2, <1>3, <1>4, <1>5, <1>6 DEF BookOthers

\* A follow is resumed, unless its target has another by now.
LEMMA BookSetActive == ASSUME BookInv, NEW c \in Requests, Book!SetActive(c) PROVE BookInv'
<1> USE BookTypes
<1> DEFINE r == call[c].rel
<1>0. /\ call[c].op = "resume" /\ r \in 1..Len(follows) /\ Book!Answer(c)
      /\ UNCHANGED <<watch, bots, verified, outbox, ingest, orders, owing, stopped>>
  BY AskedRows DEF Book!SetActive
<1>1. call' \in [Requests -> Asked(Len(follows), Len(watch))]
  BY <1>0, Answered
<1>2. CASE Book!Duplicates(follows[r].user, follows[r].target, follows[r].raw) \subseteq {r}
  <2> DEFINE new == [follows[r] EXCEPT !.active = TRUE, !.deleted = FALSE]
  <2>1. follows' = [follows EXCEPT ![r] = new]
    <3>1. follows' = [follows EXCEPT ![r].active = TRUE, ![r].deleted = FALSE]
      BY <1>2 DEF Book!SetActive
    <3> QED BY <3>1, <1>0
  <2>2. /\ new \in FollowRows /\ new.user = follows[r].user /\ new.target = follows[r].target /\ new.raw = follows[r].raw
        /\ new.from = follows[r].from /\ new.config = follows[r].config /\ new.active = TRUE
    BY <1>0 DEF FollowRows
  <2> HIDE DEF new
  <2>3. ConfigOK(new)
    BY <1>0, <2>2 DEF ConfigOK, BookInv, BookRows, FollowOK
  <2> HIDE DEF r
  <2> QED BY <1>0, <1>1, <1>2, <2>1, <2>2, <2>3, FollowChanged
<1>3. CASE ~(Book!Duplicates(follows[r].user, follows[r].target, follows[r].raw) \subseteq {r})
  <2>1. follows' = follows
    BY <1>3 DEF Book!SetActive
  <2> QED BY <1>0, <1>1, <2>1 DEF BookInv, BookRows, BookCalls, BookOthers, Delivery, Book!UpgradedOnce, Book!OneActiveEach, Book!Rels
<1> QED BY <1>2, <1>3

\* A follow is paused or deleted, which ends what it was owed.
LEMMA BookStop == ASSUME BookInv, Book!PauseFollow \/ Book!DeleteFollow PROVE BookInv'
<1> USE BookTypes
<1>1. PICK r \in 1..Len(follows) :
        /\ Book!Stop(r)
        /\ \/ follows' = [follows EXCEPT ![r].active = FALSE]
           \/ follows' = [follows EXCEPT ![r].active = FALSE, ![r].deleted = TRUE]
  BY DEF Book!PauseFollow, Book!DeleteFollow
<1>2. PICK b \in BOOLEAN : follows' = [follows EXCEPT ![r] = [follows[r] EXCEPT !.active = FALSE, !.deleted = b]]
  <2>1. CASE follows' = [follows EXCEPT ![r].active = FALSE]
    <3>1. [follows[r] EXCEPT !.active = FALSE] = [follows[r] EXCEPT !.active = FALSE, !.deleted = follows[r].deleted]
      BY DEF FollowRows
    <3>2. follows[r].deleted \in BOOLEAN
      BY DEF FollowRows
    <3> QED BY <2>1, <3>1, <3>2
  <2>2. CASE follows' = [follows EXCEPT ![r].active = FALSE, ![r].deleted = TRUE]
    BY <2>2
  <2> QED BY <1>1, <2>1, <2>2
<1> DEFINE new == [follows[r] EXCEPT !.active = FALSE, !.deleted = b]
<1>3. /\ new \in FollowRows /\ new.user = follows[r].user /\ new.target = follows[r].target /\ new.raw = follows[r].raw
      /\ new.from = follows[r].from /\ new.config = follows[r].config /\ new.active = FALSE
  BY DEF FollowRows
<1> HIDE DEF new
<1>4. ConfigOK(new)
  BY <1>3 DEF ConfigOK, BookInv, BookRows, FollowOK
<1>5. /\ UNCHANGED <<watch, bots, verified, call, outbox, ingest, orders>> /\ owing' \subseteq owing
      /\ stopped \subseteq stopped' /\ <<follows[r].user, follows[r].target>> \in stopped'
  BY <1>1 DEF Book!Stop
<1>6. follows' = [follows EXCEPT ![r] = new]
  BY <1>2 DEF new
<1>7. call' \in [Requests -> Asked(Len(follows), Len(watch))]
  BY <1>5 DEF BookInv, BookCalls
<1> QED BY <1>3, <1>4, <1>5, <1>6, <1>7, FollowChanged

\* A follow gets another configuration.
LEMMA BookConfigure == ASSUME BookInv, Book!Configure PROVE BookInv'
<1> USE BookTypes
<1>1. PICK r \in 1..Len(follows), cfg \in Configs :
        follows' = [follows EXCEPT ![r].config = [cfg EXCEPT !.same = follows[r].config.same]]
  BY DEF Book!Configure
<1>2. UNCHANGED <<watch, bots, verified, call, outbox, ingest, orders, owing, stopped>>
  BY DEF Book!Configure
<1> DEFINE b == follows[r].config.same
           set == [cfg EXCEPT !.same = b]
           new == [follows[r] EXCEPT !.config = set]
<1>3. cfg \in AnyConfig /\ b \in BOOLEAN /\ cfg.same \in BOOLEAN
  BY FollowAssumption DEF AnyConfig, FollowRows
<1> HIDE DEF b
<1>4. set \in AnyConfig /\ set \in {cfg, [cfg EXCEPT !.same = ~cfg.same]}
  <2>1. CASE b = cfg.same
    BY <2>1, <1>3 DEF AnyConfig
  <2>2. CASE b = ~cfg.same
    BY <2>2, <1>3 DEF AnyConfig
  <2> QED BY <1>3, <2>1, <2>2
<1>5. follows' = [follows EXCEPT ![r] = new]
  BY <1>1 DEF b
<1> HIDE DEF set
<1>6. /\ new \in FollowRows /\ new.user = follows[r].user /\ new.target = follows[r].target /\ new.raw = follows[r].raw
      /\ new.from = follows[r].from /\ new.config = set /\ new.active = follows[r].active
  BY <1>4 DEF FollowRows
<1> HIDE DEF new
<1>7. ConfigOK(new)
  BY <1>4, <1>6 DEF ConfigOK
<1>8. call' \in [Requests -> Asked(Len(follows), Len(watch))]
  BY <1>2 DEF BookInv, BookCalls
<1> QED BY <1>2, <1>5, <1>6, <1>7, <1>8, FollowChanged

\* An item is watched no more.
LEMMA BookDeleteWatch == ASSUME BookInv, Book!DeleteWatch PROVE BookInv'
<1> USE BookTypes DEF BookInv
<1>1. PICK w \in 1..Len(watch) : watch' = [watch EXCEPT ![w].live = FALSE]
  BY DEF Book!DeleteWatch
<1>2. UNCHANGED <<follows, bots, verified, call, outbox, ingest, orders, owing, stopped>>
  BY DEF Book!DeleteWatch
<1> DEFINE gone == [watch[w] EXCEPT !.live = FALSE]
<1>3. gone \in WatchRows /\ gone.live = FALSE /\ (RawOK(watch[w]) => RawOK(gone)) /\ watch' = [watch EXCEPT ![w] = gone]
  BY <1>1 DEF WatchRows, RawOK
<1> HIDE DEF gone
<1>4. /\ watch' \in Seq(WatchRows) /\ Len(watch') = Len(watch) /\ watch'[w] = gone
      /\ \A x \in 1..Len(watch) : x # w => watch'[x] = watch[x]
  BY <1>3
<1>5. BookRows'
  BY <1>2, <1>3, <1>4 DEF BookRows
<1>6. Book!UpgradedOnce'
  <2>1. \A r \in 1..Len(follows) : follows[r].from \in 0..Len(watch)
    BY DEF BookRows, FollowOK
  <2>2. \A x \in 1..Len(watch) : ~watch[x].live => ~watch'[x].live
    BY <1>3, <1>4
  <2> QED BY <1>2, <2>1, <2>2 DEF Book!UpgradedOnce, Book!Rels
<1> QED BY <1>2, <1>4, <1>5, <1>6 DEF BookCalls, BookOthers, Delivery, Book!OneActiveEach, Book!Rels

\* Only the delivery, and what is left to deliver, change.
LEMMA BookDelivers ==
  ASSUME BookInv, UNCHANGED <<follows, watch, bots, verified, call, stopped>>, outbox' \subseteq outbox, Delivery'
  PROVE  BookInv'
  BY DEF BookInv, BookRows, BookCalls, BookOthers, Book!UpgradedOnce, Book!OneActiveEach, Book!Rels

\* A signal is taken up: its follows are read, and have to be delivered.
LEMMA BookIngest == ASSUME BookInv, NEW s \in Signals, Book!Ingest(s) PROVE BookInv'
<1> USE BookTypes
<1> DEFINE rels == {r \in Book!Rels : Book!Matches(r, s)}
           some == {r \in rels : Book!Pending(r)}
           new == [sig |-> s, todo |-> rels, pending |-> some]
<1>0. UNCHANGED <<follows, watch, bots, verified, call, outbox, orders, stopped>> /\ ingest' = new /\ owing' = rels
  BY DEF Book!Ingest
<1>1. \A r \in rels : Lasting(follows, stopped, r)
  <2> SUFFICES ASSUME NEW r \in 1..Len(follows), Book!Matches(r, s)
               PROVE  ~follows[r].raw /\ follows[r].active
    BY DEF Lasting
  <2>1. follows[r].active
    BY DEF Book!Matches, Book!Active
  <2>2. CASE follows[r].target = SignalOf(s).identity
    <3>1. follows[r].target \notin Traders
      BY <2>2, FollowAssumption
    <3>2. RawOK(follows[r]) /\ follows[r].raw \in BOOLEAN
      BY DEF BookInv, BookRows, FollowOK, FollowRows
    <3> QED BY <2>1, <3>1, <3>2 DEF RawOK
  <2>3. CASE ~follows[r].raw
    BY <2>1, <2>3
  <2> QED BY <2>2, <2>3 DEF Book!Matches
<1>2. rels \in SUBSET (1..Len(follows)) /\ some \in SUBSET (1..Len(follows))
  OBVIOUS
<1> HIDE DEF rels, some
<1>3. new \in [sig : Signals, todo : SUBSET (1..Len(follows)), pending : SUBSET (1..Len(follows))] /\ new.todo = rels
  BY <1>2
<1> HIDE DEF new
<1>4. Delivery'
  BY <1>0, <1>1, <1>3 DEF BookInv, Delivery, DeliveryOK
<1> QED BY <1>0, <1>4, BookDelivers

\* One relation is delivered: an order is made, or none is due.
LEMMA BookEnqueue == ASSUME BookInv, Book!Enqueue PROVE BookInv'
<1> USE BookTypes
<1> DEFINE n == Len(follows)
           Ins == [sig : Signals, todo : SUBSET (1..n), pending : SUBSET (1..n)]
<1>1. PICK r \in ingest.todo :
        /\ IF \E o \in orders : o.sig = ingest.sig /\ o.rel = r
           THEN UNCHANGED orders
           ELSE orders' = orders \cup {[sig |-> ingest.sig, rel |-> r,
                                        status |-> IF r \in ingest.pending THEN "pending" ELSE "skipped"]}
        /\ ingest' = [ingest EXCEPT !.todo = @ \ {r}]
  BY DEF Book!Enqueue
<1>2. UNCHANGED <<follows, watch, bots, verified, call, outbox, owing, stopped>> /\ ingest # Book!None
  BY DEF Book!Enqueue
<1> DEFINE new == [sig |-> ingest.sig, rel |-> r, status |-> IF r \in ingest.pending THEN "pending" ELSE "skipped"]
<1>3. ingest \in Ins /\ (\A x \in ingest.todo : Lasting(follows, stopped, x))
  BY <1>2 DEF BookInv, Delivery, DeliveryOK
<1>4. /\ new.sig = ingest.sig /\ new.rel = r /\ new.sig \in Signals /\ new.rel \in 1..n
      /\ new.status \in {"pending", "skipped"} /\ Lasting(follows, stopped, r)
  BY <1>3
<1>5. ingest' \in Ins /\ ingest'.sig = ingest.sig /\ ingest'.todo = ingest.todo \ {r}
  BY <1>1, <1>3
<1>6. \/ orders' = orders /\ (\E o \in orders : o.sig = ingest.sig /\ o.rel = r)
      \/ orders' = orders \cup {new} /\ ~(\E o \in orders : o.sig = ingest.sig /\ o.rel = r)
  BY <1>1
<1> HIDE DEF new, Ins
<1>7. /\ \A o \in orders' : o.sig \in Signals /\ o.rel \in 1..n /\ o.status \in {"pending", "skipped"} /\ Lasting(follows, stopped, o.rel)
      /\ \A o, p \in orders' : o.sig = p.sig /\ o.rel = p.rel => o = p
      /\ orders \subseteq orders' /\ \E o \in orders' : o.sig = ingest.sig /\ o.rel = r
  <2>0. /\ \A o \in orders : o.sig \in Signals /\ o.rel \in 1..n /\ o.status \in {"pending", "skipped"} /\ Lasting(follows, stopped, o.rel)
        /\ \A o, p \in orders : o.sig = p.sig /\ o.rel = p.rel => o = p
    BY DEF BookInv, Delivery, DeliveryOK
  <2>1. CASE orders' = orders /\ (\E o \in orders : o.sig = ingest.sig /\ o.rel = r)
    BY <2>0, <2>1
  <2>2. CASE orders' = orders \cup {new} /\ ~(\E o \in orders : o.sig = ingest.sig /\ o.rel = r)
    BY <2>0, <2>2, <1>4
  <2> QED BY <1>6, <2>1, <2>2
<1>8. \A x \in owing : x \in ingest'.todo \/ \E o \in orders' : o.sig = ingest'.sig /\ o.rel = x
  <2>1. \A x \in owing : x \in ingest.todo \/ \E o \in orders : o.sig = ingest.sig /\ o.rel = x
    BY <1>2 DEF BookInv, Delivery, DeliveryOK
  <2> QED BY <2>1, <1>5, <1>7
<1>9. Delivery'
  BY <1>2, <1>3, <1>5, <1>7, <1>8 DEF Delivery, DeliveryOK, Ins
<1> QED BY <1>2, <1>9, BookDelivers

\* The signal is acknowledged, or comes again.
LEMMA BookAnswer == ASSUME BookInv, Book!Acknowledge \/ Book!DeliverAgain PROVE BookInv'
<1>1. /\ UNCHANGED <<follows, watch, bots, verified, call, orders, stopped>> /\ outbox' \subseteq outbox
      /\ ingest' = Book!None /\ owing' = {}
  BY DEF Book!Acknowledge, Book!DeliverAgain
<1>2. Delivery'
  BY <1>1 DEF BookInv, Delivery, DeliveryOK
<1> QED BY <1>1, <1>2, BookDelivers

\* A trader is tagged as a bot, an identity loses its verification.
LEMMA BookElsewhere ==
  ASSUME BookInv, (\E t \in Traders : Book!TagBot(t)) \/ (\E i \in Identities : Book!Doubt(i))
  PROVE  BookInv'
<1>1. /\ UNCHANGED <<follows, watch, call, outbox, ingest, orders, owing, stopped>>
      /\ bots' \subseteq bots \cup Traders /\ verified' \subseteq verified
  BY DEF Book!TagBot, Book!Doubt
<1> QED BY <1>1 DEF BookInv, BookRows, BookCalls, BookOthers, Delivery, Book!UpgradedOnce, Book!OneActiveEach, Book!Rels

\* Every step of FollowBook keeps the invariant.
LEMMA BookStep == ASSUME BookInv, Book!Next PROVE BookInv'
  BY BookAsks, BookInsertFollow, BookSetActive, BookInsertWatch, BookUpgrade, BookStop, BookConfigure, BookDeleteWatch,
     BookIngest, BookEnqueue, BookAnswer, BookElsewhere DEF Book!Next

\* Nothing changes.
LEMMA BookStutter == BookInv /\ UNCHANGED bookVars => BookInv'
  BY DEF bookVars, BookInv, BookRows, BookCalls, BookOthers, Delivery, Book!UpgradedOnce, Book!OneActiveEach, Book!Rels

\* What Accounts asks of FollowBook follows from the invariant.
LEMMA BookKept == BookInv => Book!FollowsKept /\ Book!TypeOK
<1> SUFFICES ASSUME BookInv PROVE Book!FollowsKept /\ Book!TypeOK
  OBVIOUS
<1> USE BookTypes DEF BookInv
<1>1. Book!FollowersServed
  BY DEF Book!FollowersServed, Delivery, DeliveryOK
<1>2. Book!OncePerTarget
  <2> SUFFICES ASSUME NEW o \in orders, NEW p \in orders, o # p, o.sig = p.sig,
                      follows[o.rel].user = follows[p.rel].user, follows[o.rel].target = follows[p.rel].target,
                      <<follows[o.rel].user, follows[o.rel].target>> \notin stopped
               PROVE  FALSE
    BY DEF Book!OncePerTarget
  <2>1. o.rel \in 1..Len(follows) /\ p.rel \in 1..Len(follows) /\ Lasting(follows, stopped, o.rel) /\ Lasting(follows, stopped, p.rel)
    BY DEF Delivery, DeliveryOK
  <2>2. /\ follows[o.rel].active /\ follows[p.rel].active
        /\ follows[o.rel].raw = FALSE /\ follows[p.rel].raw = FALSE
    BY <2>1 DEF Lasting, FollowRows
  <2>3. o.rel = p.rel
    BY <2>1, <2>2 DEF Book!OneActiveEach
  <2> QED BY <2>3 DEF Delivery, DeliveryOK
<1>3. Book!TypeOK
  <2>1. \A r \in 1..Len(follows) : /\ follows[r].user \in Customers /\ follows[r].target \in Book!Targets
                                   /\ \E cfg \in Configs : follows[r].config \in {cfg, [cfg EXCEPT !.same = ~cfg.same]}
                                   /\ follows[r].from \in 0..Len(watch)
    BY DEF BookRows, FollowOK, FollowRows, ConfigOK
  <2>2. \A w \in 1..Len(watch) : watch[w].user \in Customers /\ watch[w].target \in Book!Targets
    BY DEF WatchRows
  <2>3. \A o \in orders : o.sig \in Signals /\ o.rel \in 1..Len(follows) /\ o.status \in {"pending", "skipped"}
    BY DEF Delivery, DeliveryOK
  <2> QED BY <2>1, <2>2, <2>3 DEF Book!TypeOK, BookOthers
<1> QED BY <1>1, <1>2, <1>3 DEF Book!FollowsKept

----------------------------------------------------------------------------
(* Billing: invoices, payments and the chain. *)

InvoiceRows == [user : Users, days : Periods, status : {"pending", "paid", "expired"}, due : BOOLEAN]
PaymentRows == [inv : Nat, tx : Nat, status : {"submitted", "confirmed", "rejected"}]
TransferRows == [from : Users, amount : Periods \cup {0}, block : Nat]
SubRows == [tier : {"free", "pro_plus"}, left : Int]
Batches ==
  [phase : {"idle", "submitted", "claim"}, todo : SUBSET Nat, claims : SUBSET [inv : Nat, tx : Nat]]

BillRows ==
  /\ invoices \in Seq(InvoiceRows) /\ payments \in Seq(PaymentRows) /\ chain \in Seq(TransferRows) /\ head \in Nat
  /\ \A p \in 1..Len(payments) : payments[p].inv \in 1..Len(invoices) /\ payments[p].tx \in 1..Len(chain)
  /\ \A t \in 1..Len(chain) : chain[t].block <= head
  /\ worker \in Batches
OwedRows == [paid : Nat, free : Nat]
Paying == sub \in [Users -> SubRows] /\ owed \in [Users -> OwedRows] /\ Bill!PaidDaysServed

FinalTx(ch, h, t) == ch[t].block > 0 /\ h - ch[t].block + 1 >= Confirmations
OwnTx(lk, ch, is, t, i) == lk => ch[t].from = is[i].user

\* A confirmed payment is the one payment of its invoice, and its transfer pays nothing else.
Backed(ps, is, ch, h, lk) ==
  /\ \A p \in 1..Len(ps) : ps[p].status = "confirmed" =>
       /\ is[ps[p].inv].status = "paid" /\ FinalTx(ch, h, ps[p].tx)
       /\ ch[ps[p].tx].amount = is[ps[p].inv].days /\ OwnTx(lk, ch, is, ps[p].tx, ps[p].inv)
  /\ \A p, q \in 1..Len(ps) : ps[p].status = "confirmed" /\ ps[q].status = "confirmed"
                                 /\ (ps[p].inv = ps[q].inv \/ ps[p].tx = ps[q].tx) => p = q
  /\ \A i \in 1..Len(is) : is[i].status = "paid" => \E p \in 1..Len(ps) : ps[p].status = "confirmed" /\ ps[p].inv = i

\* What the task is about to credit is final; a submitted payment was seen to be the user's own.
Claimed(w, is, ch, h, lk) ==
  \A c \in w.claims : /\ c.inv \in 1..Len(is) /\ c.tx \in 1..Len(ch) /\ FinalTx(ch, h, c.tx)
                      /\ w.phase # "claim" => OwnTx(lk, ch, is, c.tx, c.inv)

Credits == Backed(payments, invoices, chain, head, linked)
Claims == Claimed(worker, invoices, chain, head, linked)

BillInv == BillRows /\ Paying /\ Credits /\ Claims

\* The conjuncts that are typing, in the form the proofs need.
LEMMA BillTypes ==
  ASSUME BillInv
  PROVE  /\ invoices \in Seq(InvoiceRows) /\ Len(invoices) \in Nat /\ DOMAIN invoices = 1..Len(invoices)
         /\ payments \in Seq(PaymentRows) /\ Len(payments) \in Nat /\ DOMAIN payments = 1..Len(payments)
         /\ chain \in Seq(TransferRows) /\ Len(chain) \in Nat /\ DOMAIN chain = 1..Len(chain)
         /\ \A i \in 1..Len(invoices) : invoices[i] \in InvoiceRows
         /\ \A p \in 1..Len(payments) : payments[p] \in PaymentRows
         /\ \A t \in 1..Len(chain) : chain[t] \in TransferRows
         /\ head \in Nat /\ Confirmations \in Nat
<1>1. invoices \in Seq(InvoiceRows) /\ payments \in Seq(PaymentRows) /\ chain \in Seq(TransferRows) /\ head \in Nat
  BY DEF BillInv, BillRows
<1> QED BY <1>1, BillingAssumption

\* Nothing is billed at first.
LEMMA BillInit == Bill!Init => BillInv
<1> SUFFICES ASSUME Bill!Init PROVE BillInv
  OBVIOUS
<1> USE DEF Bill!Init
<1>1. /\ Len(invoices) = 0 /\ Len(payments) = 0 /\ Len(chain) = 0
      /\ invoices \in Seq(InvoiceRows) /\ payments \in Seq(PaymentRows) /\ chain \in Seq(TransferRows)
  OBVIOUS
<1>2. worker \in Batches /\ worker.claims = {}
  BY DEF Bill!Idle, Batches
<1>3. BillRows /\ Credits /\ Claims
  BY <1>1, <1>2 DEF BillRows, Credits, Backed, Claims, Claimed
<1>4. Paying
  <2>1. Bill!NoUntil \in Int /\ Bill!Ahead(Bill!NoUntil) = 0
    BY BillingAssumption DEF Bill!NoUntil, Bill!Ahead
  <2>2. \A u \in Users : /\ sub[u] = [tier |-> "free", left |-> Bill!NoUntil]
                        /\ owed[u] = [paid |-> 0, free |-> 0]
    OBVIOUS
  <2>3. sub \in [Users -> SubRows] /\ owed \in [Users -> OwedRows]
    BY <2>1 DEF SubRows, OwedRows
  <2> HIDE DEF Bill!Init
  <2>4. ASSUME NEW u \in Users PROVE owed[u].paid = 0 /\ owed[u].free = 0 /\ sub[u].left = Bill!NoUntil
    BY <2>2
  <2> QED BY <2>1, <2>3, <2>4 DEF Paying, Bill!PaidDaysServed
<1> QED BY <1>3, <1>4 DEF BillInv

\* Rows of invoices and transfers may be added and may age; what is paid stays paid, what is final
\* stays final.
LEMMA BillKept ==
  ASSUME BillInv, UNCHANGED <<payments, linked>>,
         invoices' \in Seq(InvoiceRows), chain' \in Seq(TransferRows), head' \in Nat,
         Len(invoices) <= Len(invoices'), Len(chain) <= Len(chain'),
         \A i \in 1..Len(invoices) : /\ invoices'[i].user = invoices[i].user /\ invoices'[i].days = invoices[i].days
                                     /\ invoices[i].status = "paid" => invoices'[i].status = "paid",
         \A i \in 1..Len(invoices') : invoices'[i].status = "paid" => i \in 1..Len(invoices) /\ invoices[i].status = "paid",
         \A t \in 1..Len(chain) : /\ chain'[t].from = chain[t].from /\ chain'[t].amount = chain[t].amount
                                  /\ FinalTx(chain, head, t) => FinalTx(chain', head', t),
         \A t \in 1..Len(chain') : chain'[t].block <= head'
  PROVE  /\ Credits' /\ (worker' \in Batches => BillRows')
         /\ worker' = worker => Claims'
<1> USE BillTypes DEF BillInv
<1>1. 1..Len(invoices) \subseteq 1..Len(invoices') /\ 1..Len(chain) \subseteq 1..Len(chain')
  OBVIOUS
<1>2. \A p \in 1..Len(payments) : payments[p].inv \in 1..Len(invoices) /\ payments[p].tx \in 1..Len(chain)
  BY DEF BillRows
<1>3. \A t \in 1..Len(chain), i \in 1..Len(invoices) :
        OwnTx(linked, chain, invoices, t, i) => OwnTx(linked, chain', invoices', t, i)
  BY DEF OwnTx
<1>4. \A p \in 1..Len(payments) : payments[p].status = "confirmed" =>
        /\ invoices'[payments[p].inv].status = "paid" /\ FinalTx(chain', head', payments[p].tx)
        /\ chain'[payments[p].tx].amount = invoices'[payments[p].inv].days
        /\ OwnTx(linked, chain', invoices', payments[p].tx, payments[p].inv)
  <2> SUFFICES ASSUME NEW p \in 1..Len(payments), payments[p].status = "confirmed"
               PROVE  /\ invoices'[payments[p].inv].status = "paid" /\ FinalTx(chain', head', payments[p].tx)
                      /\ chain'[payments[p].tx].amount = invoices'[payments[p].inv].days
                      /\ OwnTx(linked, chain', invoices', payments[p].tx, payments[p].inv)
    OBVIOUS
  <2> DEFINE i == payments[p].inv
             t == payments[p].tx
  <2>1. i \in 1..Len(invoices) /\ t \in 1..Len(chain)
    BY <1>2
  <2>2. /\ invoices[i].status = "paid" /\ FinalTx(chain, head, t) /\ chain[t].amount = invoices[i].days
        /\ OwnTx(linked, chain, invoices, t, i)
    BY DEF Credits, Backed
  <2> HIDE DEF i, t
  <2>3. invoices'[i].status = "paid" /\ FinalTx(chain', head', t) /\ chain'[t].amount = invoices'[i].days
    BY <2>1, <2>2
  <2>4. OwnTx(linked, chain', invoices', t, i)
    BY <2>1, <2>2, <1>3
  <2> QED BY <2>3, <2>4 DEF i, t
<1>5. \A i \in 1..Len(invoices') : invoices'[i].status = "paid" =>
        \E p \in 1..Len(payments) : payments[p].status = "confirmed" /\ payments[p].inv = i
  BY DEF Credits, Backed
<1>6. Credits'
  BY <1>4, <1>5 DEF Credits, Backed
<1>7. worker' \in Batches => BillRows'
  BY <1>1, <1>2 DEF BillRows
<1>8. ASSUME worker' = worker PROVE Claims'
  <2> SUFFICES ASSUME NEW c \in worker.claims
               PROVE  /\ c.inv \in 1..Len(invoices') /\ c.tx \in 1..Len(chain') /\ FinalTx(chain', head', c.tx)
                      /\ worker.phase # "claim" => OwnTx(linked, chain', invoices', c.tx, c.inv)
    BY <1>8 DEF Claims, Claimed
  <2>1. /\ c.inv \in 1..Len(invoices) /\ c.tx \in 1..Len(chain) /\ FinalTx(chain, head, c.tx)
        /\ worker.phase # "claim" => OwnTx(linked, chain, invoices, c.tx, c.inv)
    BY DEF Claims, Claimed
  <2> DEFINE t == c.tx
             i == c.inv
  <2> HIDE DEF t, i
  <2>2. FinalTx(chain', head', t) /\ (worker.phase # "claim" => OwnTx(linked, chain', invoices', t, i))
    BY <2>1, <1>3 DEF t, i
  <2> QED BY <2>1, <2>2, <1>1 DEF t, i
<1> QED BY <1>6, <1>7, <1>8

\* An invoice is made.
LEMMA BillCreate == ASSUME BillInv, NEW u \in Users, Bill!CreateInvoice(u) PROVE BillInv'
<1> USE BillTypes DEF BillInv
<1>1. PICK d \in Periods : invoices' = Append(invoices, [user |-> u, days |-> d, status |-> "pending", due |-> FALSE])
  BY DEF Bill!CreateInvoice
<1>2. UNCHANGED <<payments, chain, head, sub, worker, linked, owed>>
  BY DEF Bill!CreateInvoice
<1> DEFINE new == [user |-> u, days |-> d, status |-> "pending", due |-> FALSE]
<1>3. new \in InvoiceRows /\ new.status # "paid"
  BY DEF InvoiceRows
<1> HIDE DEF new
<1>4. /\ invoices' \in Seq(InvoiceRows) /\ Len(invoices') = Len(invoices) + 1 /\ invoices'[Len(invoices) + 1] = new
      /\ \A i \in 1..Len(invoices) : invoices'[i] = invoices[i]
  BY <1>1, <1>3 DEF new
<1>5. \A i \in 1..Len(invoices') : invoices'[i].status = "paid" => i \in 1..Len(invoices) /\ invoices[i].status = "paid"
  BY <1>3, <1>4
<1>6. BillRows' /\ Credits' /\ Claims'
  BY <1>2, <1>4, <1>5, BillKept DEF BillRows
<1> QED BY <1>2, <1>6 DEF Paying, Bill!PaidDaysServed

\* Invoices fall due and expire.
LEMMA InvoicesAge ==
  ASSUME BillInv, UNCHANGED <<payments, chain, head, worker, linked>>,
         invoices' \in Seq(InvoiceRows), Len(invoices') = Len(invoices),
         \A i \in 1..Len(invoices) : /\ invoices'[i].user = invoices[i].user /\ invoices'[i].days = invoices[i].days
                                     /\ invoices[i].status = "paid" <=> invoices'[i].status = "paid"
  PROVE  BillRows' /\ Credits' /\ Claims'
<1> USE BillTypes
<1>1. worker' \in Batches /\ \A t \in 1..Len(chain') : chain'[t].block <= head'
  BY DEF BillInv, BillRows
<1>2. \A i \in 1..Len(invoices') : invoices'[i].status = "paid" => i \in 1..Len(invoices) /\ invoices[i].status = "paid"
  OBVIOUS
<1>3. \A t \in 1..Len(chain) : /\ chain'[t].from = chain[t].from /\ chain'[t].amount = chain[t].amount
                               /\ FinalTx(chain, head, t) => FinalTx(chain', head', t)
  OBVIOUS
<1>4. /\ chain' \in Seq(TransferRows) /\ head' \in Nat /\ Len(invoices) <= Len(invoices') /\ Len(chain) <= Len(chain')
      /\ UNCHANGED <<payments, linked>>
  OBVIOUS
<1> QED BY <1>1, <1>2, <1>3, <1>4, BillKept

\* An invoice falls due.
LEMMA BillDue == ASSUME BillInv, Bill!BecomeDue PROVE BillInv'
<1> USE BillTypes
<1>1. PICK i \in 1..Len(invoices) : invoices' = [invoices EXCEPT ![i].due = TRUE]
  BY DEF Bill!BecomeDue, Bill!Ids
<1>2. UNCHANGED <<payments, chain, head, sub, worker, linked, owed>>
  BY DEF Bill!BecomeDue
<1> DEFINE new == [invoices[i] EXCEPT !.due = TRUE]
<1>3. /\ new \in InvoiceRows /\ new.user = invoices[i].user /\ new.days = invoices[i].days /\ new.status = invoices[i].status
      /\ invoices' = [invoices EXCEPT ![i] = new]
  BY <1>1 DEF InvoiceRows
<1> HIDE DEF new
<1>4. /\ invoices' \in Seq(InvoiceRows) /\ Len(invoices') = Len(invoices) /\ invoices'[i] = new
      /\ \A j \in 1..Len(invoices) : j # i => invoices'[j] = invoices[j]
  BY <1>3
<1>5. \A j \in 1..Len(invoices) : /\ invoices'[j].user = invoices[j].user /\ invoices'[j].days = invoices[j].days
                                  /\ invoices[j].status = "paid" <=> invoices'[j].status = "paid"
  BY <1>3, <1>4
<1>6. BillRows' /\ Credits' /\ Claims'
  BY <1>2, <1>4, <1>5, InvoicesAge
<1> QED BY <1>2, <1>6 DEF BillInv, Paying, Bill!PaidDaysServed

\* What PaidDaysServed says of one user.
Served(has, due) ==
  /\ due.paid > 0 => has.tier = "pro_plus"
  /\ Bill!Ahead(has.left) = due.paid + due.free

LEMMA ServedAll == ASSUME Paying PROVE \A u \in Users : Served(sub[u], owed[u])
BY DEF Paying, Served, Bill!PaidDaysServed

\* Stale invoices expire; a subscription with days owed is not past its end, let alone its grace.
LEMMA BillExpiry == ASSUME BillInv, Bill!RunExpiry PROVE BillInv'
<1> USE BillTypes
<1>1. UNCHANGED <<payments, chain, head, worker, linked, owed>>
  BY DEF Bill!RunExpiry
<1> DEFINE gone(i) == [invoices[i] EXCEPT !.status = "expired"]
           stale(i) == invoices[i].status = "pending" /\ invoices[i].due
<1>2. invoices' = [i \in 1..Len(invoices) |-> IF stale(i) THEN gone(i) ELSE invoices[i]]
  BY DEF Bill!RunExpiry, Bill!Ids
<1>3. \A i \in 1..Len(invoices) : /\ gone(i) \in InvoiceRows /\ gone(i).user = invoices[i].user /\ gone(i).days = invoices[i].days
                                  /\ gone(i).status = "expired" /\ (stale(i) => invoices[i].status = "pending")
  BY DEF InvoiceRows
<1> HIDE DEF gone, stale
<1>4. invoices' \in Seq(InvoiceRows) /\ Len(invoices') = Len(invoices)
  BY <1>2, <1>3
<1>5. \A j \in 1..Len(invoices) : /\ invoices'[j].user = invoices[j].user /\ invoices'[j].days = invoices[j].days
                                  /\ invoices[j].status = "paid" <=> invoices'[j].status = "paid"
  BY <1>2, <1>3
<1>6. BillRows' /\ Credits' /\ Claims'
  BY <1>1, <1>4, <1>5, InvoicesAge
<1>7. Paying'
  <2>1. sub' = [u \in Users |-> IF Bill!Expired(u) THEN [tier |-> "free", left |-> Bill!NoUntil] ELSE sub[u]]
    BY DEF Bill!RunExpiry
  <2>2. sub \in [Users -> SubRows] /\ owed \in [Users -> OwedRows] /\ Grace \in Nat
    BY BillingAssumption DEF BillInv, Paying
  <2>3. Bill!NoUntil \in Int /\ Bill!Ahead(Bill!NoUntil) = 0
    BY BillingAssumption DEF Bill!NoUntil, Bill!Ahead
  <2>4. sub' \in [Users -> SubRows]
    BY <2>1, <2>2, <2>3 DEF SubRows
  <2>5. ASSUME NEW u \in Users PROVE Served(sub'[u], owed[u])
    <3>1. sub[u].left \in Int /\ owed[u].paid \in Nat /\ owed[u].free \in Nat
      BY <2>2 DEF SubRows, OwedRows
    <3>2. Served(sub[u], owed[u])
      BY <2>5, ServedAll DEF BillInv
    <3>3. CASE Bill!Expired(u)
      <4>1. sub[u].left < 0
        BY <2>2, <3>1, <3>3 DEF Bill!Expired
      <4>2. owed[u].paid = 0 /\ owed[u].free = 0
        BY <3>1, <3>2, <4>1 DEF Served, Bill!Ahead
      <4>3. sub'[u] = [tier |-> "free", left |-> Bill!NoUntil]
        BY <2>1, <2>5, <3>3
      <4> QED BY <2>3, <4>2, <4>3 DEF Served
    <3>4. CASE ~Bill!Expired(u)
      BY <2>1, <2>5, <3>2, <3>4
    <3> QED BY <3>3, <3>4
  <2> QED BY <1>1, <2>2, <2>4, <2>5 DEF Paying, Bill!PaidDaysServed, Served
<1> QED BY <1>6, <1>7 DEF BillInv

\* The chain: transfers are made, mined and, unless they are final, thrown back.
LEMMA BillChain ==
  ASSUME BillInv, UNCHANGED <<invoices, payments, sub, worker, linked, owed>>,
         chain' \in Seq(TransferRows), head' \in Nat, Len(chain) <= Len(chain'),
         \A t \in 1..Len(chain) : /\ chain'[t].from = chain[t].from /\ chain'[t].amount = chain[t].amount
                                  /\ FinalTx(chain, head, t) => FinalTx(chain', head', t),
         \A t \in 1..Len(chain') : chain'[t].block <= head'
  PROVE  BillInv'
<1> USE BillTypes
<1>1. worker' \in Batches
  BY DEF BillInv, BillRows
<1>2. BillRows' /\ Credits' /\ Claims'
  BY <1>1, BillKept
<1> QED BY <1>2 DEF BillInv, Paying, Bill!PaidDaysServed

\* A transaction is sent, not mined yet.
LEMMA BillPay == ASSUME BillInv, NEW u \in Users, Bill!Pay(u) PROVE BillInv'
<1> USE BillTypes
<1>1. PICK a \in Periods \cup {0} : chain' = Append(chain, [from |-> u, amount |-> a, block |-> 0])
  BY DEF Bill!Pay
<1>2. UNCHANGED <<invoices, payments, head, sub, worker, linked, owed>>
  BY DEF Bill!Pay
<1> DEFINE new == [from |-> u, amount |-> a, block |-> 0]
<1>3. new \in TransferRows /\ new.block = 0
  BY DEF TransferRows
<1> HIDE DEF new
<1>4. /\ chain' \in Seq(TransferRows) /\ Len(chain') = Len(chain) + 1 /\ chain'[Len(chain) + 1] = new
      /\ \A t \in 1..Len(chain) : chain'[t] = chain[t]
  BY <1>1, <1>3 DEF new
<1>5. \A t \in 1..Len(chain') : chain'[t].block <= head'
  <2> SUFFICES ASSUME NEW t \in 1..Len(chain') PROVE chain'[t].block <= head
    BY <1>2
  <2>1. CASE t \in 1..Len(chain)
    <3>1. chain[t].block <= head
      BY <2>1 DEF BillInv, BillRows
    <3> QED BY <2>1, <3>1, <1>4
  <2>2. CASE t = Len(chain) + 1
    BY <2>2, <1>3, <1>4
  <2> QED BY <2>1, <2>2, <1>4
<1>6. \A t \in 1..Len(chain) : FinalTx(chain, head, t) => FinalTx(chain', head', t)
  BY <1>2, <1>4 DEF FinalTx
<1> QED BY <1>2, <1>4, <1>5, <1>6, BillChain

\* A block is mined; every earlier one is a block deeper.
LEMMA BillMine == ASSUME BillInv, Bill!Mine PROVE BillInv'
<1> USE BillTypes
<1>1. PICK S \in SUBSET {t \in 1..Len(chain) : ~Bill!Mined(t)} :
        chain' = [t \in 1..Len(chain) |-> IF t \in S THEN [chain[t] EXCEPT !.block = head + 1] ELSE chain[t]]
  BY DEF Bill!Mine, Bill!Ids
<1>2. UNCHANGED <<invoices, payments, sub, worker, linked, owed>> /\ head' = head + 1
  BY DEF Bill!Mine
<1> DEFINE mined(t) == [chain[t] EXCEPT !.block = head + 1]
<1>3. \A t \in 1..Len(chain) : /\ mined(t) \in TransferRows /\ mined(t).from = chain[t].from
                               /\ mined(t).amount = chain[t].amount /\ mined(t).block = head + 1
  <2> DEFINE h == head + 1
  <2>1. h \in Nat
    OBVIOUS
  <2> HIDE DEF h
  <2>2. \A t \in 1..Len(chain) : mined(t) = [chain[t] EXCEPT !.block = h]
    BY DEF h
  <2> HIDE DEF mined
  <2> QED BY <2>1, <2>2 DEF TransferRows, h
<1> HIDE DEF mined
<1>4. chain' = [t \in 1..Len(chain) |-> IF t \in S THEN mined(t) ELSE chain[t]]
  BY <1>1 DEF mined
<1>5. chain' \in Seq(TransferRows) /\ Len(chain') = Len(chain)
  BY <1>3, <1>4
<1>6. \A t \in 1..Len(chain) : chain[t].block <= head /\ chain[t].block \in Nat
  BY DEF BillInv, BillRows, TransferRows
<1>7. \A t \in 1..Len(chain) : chain'[t].block <= head'
  BY <1>2, <1>3, <1>4, <1>6
<1>8. \A t \in 1..Len(chain) : FinalTx(chain, head, t) => FinalTx(chain', head', t)
  <2> SUFFICES ASSUME NEW t \in 1..Len(chain), FinalTx(chain, head, t) PROVE FinalTx(chain', head', t)
    OBVIOUS
  <2>1. t \notin S
    BY DEF FinalTx, Bill!Mined
  <2> QED BY <2>1, <1>2, <1>4, <1>6 DEF FinalTx
<1>9. \A t \in 1..Len(chain) : chain'[t].from = chain[t].from /\ chain'[t].amount = chain[t].amount
  BY <1>3, <1>4
<1> QED BY <1>2, <1>5, <1>7, <1>8, <1>9, BillChain

\* Blocks are thrown back, none of them final.
LEMMA BillReorg == ASSUME BillInv, Bill!Reorg PROVE BillInv'
<1> USE BillTypes
<1>1. PICK b \in (head - Confirmations + 2)..head :
        chain' = [t \in 1..Len(chain) |-> IF chain[t].block >= b THEN [chain[t] EXCEPT !.block = 0] ELSE chain[t]]
  BY DEF Bill!Reorg, Bill!Ids
<1>2. UNCHANGED <<invoices, payments, sub, worker, linked, owed>> /\ head' = head
  BY DEF Bill!Reorg
<1> DEFINE back(t) == [chain[t] EXCEPT !.block = 0]
<1>3. \A t \in 1..Len(chain) : /\ back(t) \in TransferRows /\ back(t).from = chain[t].from
                               /\ back(t).amount = chain[t].amount /\ back(t).block = 0
  BY DEF TransferRows
<1> HIDE DEF back
<1>4. chain' = [t \in 1..Len(chain) |-> IF chain[t].block >= b THEN back(t) ELSE chain[t]]
  BY <1>1 DEF back
<1>5. chain' \in Seq(TransferRows) /\ Len(chain') = Len(chain)
  BY <1>3, <1>4
<1>6. \A t \in 1..Len(chain) : chain[t].block <= head /\ chain[t].block \in Nat
  BY DEF BillInv, BillRows, TransferRows
<1>7. \A t \in 1..Len(chain) : chain'[t].block <= head'
  BY <1>2, <1>3, <1>4, <1>6
<1>8. \A t \in 1..Len(chain) : FinalTx(chain, head, t) => FinalTx(chain', head', t)
  <2> SUFFICES ASSUME NEW t \in 1..Len(chain), FinalTx(chain, head, t) PROVE FinalTx(chain', head', t)
    OBVIOUS
  <2>1. ~(chain[t].block >= b)
    BY <1>6 DEF FinalTx
  <2> QED BY <2>1, <1>2, <1>4, <1>6 DEF FinalTx
<1>9. \A t \in 1..Len(chain) : chain'[t].from = chain[t].from /\ chain'[t].amount = chain[t].amount
  BY <1>3, <1>4
<1> QED BY <1>2, <1>5, <1>7, <1>8, <1>9, BillChain

\* Payments come and go; as long as none of them is confirmed, no credit changes.
LEMMA PaymentsMove ==
  ASSUME BillInv, UNCHANGED <<invoices, chain, head, sub, linked, owed>>,
         payments' \in Seq(PaymentRows), Len(payments) <= Len(payments'), worker' \in Batches, Claims',
         \A p \in 1..Len(payments) :
           /\ payments'[p].inv = payments[p].inv /\ payments'[p].tx = payments[p].tx
           /\ payments'[p].status = "confirmed" <=> payments[p].status = "confirmed",
         \A p \in 1..Len(payments') : p \in 1..Len(payments)
           \/ (/\ payments'[p].status # "confirmed" /\ payments'[p].inv \in 1..Len(invoices)
               /\ payments'[p].tx \in 1..Len(chain))
  PROVE  BillInv'
<1> USE BillTypes
<1>1. /\ \A p \in 1..Len(payments) : payments[p].inv \in 1..Len(invoices) /\ payments[p].tx \in 1..Len(chain)
      /\ \A t \in 1..Len(chain) : chain[t].block <= head
  BY DEF BillInv, BillRows
<1>2. BillRows'
  <2>1. \A p \in 1..Len(payments') : payments'[p].inv \in 1..Len(invoices) /\ payments'[p].tx \in 1..Len(chain)
    BY <1>1
  <2> QED BY <1>1, <2>1 DEF BillRows
<1>3. \A p \in 1..Len(payments') : payments'[p].status = "confirmed" =>
        p \in 1..Len(payments) /\ payments[p].status = "confirmed"
  OBVIOUS
<1>4. 1..Len(payments) \subseteq 1..Len(payments')
  OBVIOUS
<1>5. Credits'
  <2>1. \A p \in 1..Len(payments') : payments'[p].status = "confirmed" =>
          /\ invoices[payments'[p].inv].status = "paid" /\ FinalTx(chain, head, payments'[p].tx)
          /\ chain[payments'[p].tx].amount = invoices[payments'[p].inv].days
          /\ OwnTx(linked, chain, invoices, payments'[p].tx, payments'[p].inv)
    BY SMTT(40), <1>3 DEF BillInv, Credits, Backed
  <2>2. \A p, q \in 1..Len(payments') : payments'[p].status = "confirmed" /\ payments'[q].status = "confirmed"
          /\ (payments'[p].inv = payments'[q].inv \/ payments'[p].tx = payments'[q].tx) => p = q
    BY <1>3 DEF BillInv, Credits, Backed
  <2>3. \A i \in 1..Len(invoices) : invoices[i].status = "paid" =>
          \E p \in 1..Len(payments') : payments'[p].status = "confirmed" /\ payments'[p].inv = i
    <3> SUFFICES ASSUME NEW i \in 1..Len(invoices), invoices[i].status = "paid"
                 PROVE  \E p \in 1..Len(payments') : payments'[p].status = "confirmed" /\ payments'[p].inv = i
      OBVIOUS
    <3>1. PICK p \in 1..Len(payments) : payments[p].status = "confirmed" /\ payments[p].inv = i
      BY DEF BillInv, Credits, Backed
    <3>2. p \in 1..Len(payments') /\ payments'[p].status = "confirmed" /\ payments'[p].inv = i
      BY <1>4, <3>1
    <3> QED BY <3>2
  <2> QED BY <2>1, <2>2, <2>3 DEF Credits, Backed
<1> QED BY <1>2, <1>5 DEF BillInv, Paying, Bill!PaidDaysServed

\* What the worker claims when nothing else changes.
LEMMA WorkerMoves ==
  ASSUME BillInv, UNCHANGED <<invoices, payments, chain, head, sub, linked, owed>>, worker' \in Batches,
         Claimed(worker', invoices, chain, head, linked)
  PROVE  BillInv'
<1>1. Claims'
  BY DEF Claims
<1> QED BY <1>1, BillTypes, PaymentsMove

\* A user submits a transaction for her invoice.
LEMMA BillSubmit == ASSUME BillInv, NEW u \in Users, Bill!SubmitTx(u) PROVE BillInv'
<1> USE BillTypes
<1>1. PICK i \in 1..Len(invoices), t \in 1..Len(chain) :
        payments' = Append(payments, [inv |-> i, tx |-> t, status |-> "submitted"])
  BY DEF Bill!SubmitTx, Bill!Ids
<1>2. UNCHANGED <<invoices, chain, head, sub, worker, linked, owed>>
  BY DEF Bill!SubmitTx
<1> DEFINE new == [inv |-> i, tx |-> t, status |-> "submitted"]
<1>3. new \in PaymentRows /\ new.inv = i /\ new.tx = t /\ new.status # "confirmed"
  BY DEF PaymentRows
<1> HIDE DEF new
<1>4. /\ payments' \in Seq(PaymentRows) /\ Len(payments') = Len(payments) + 1 /\ payments'[Len(payments) + 1] = new
      /\ \A p \in 1..Len(payments) : payments'[p] = payments[p]
  BY <1>1, <1>3 DEF new
<1>5. worker' \in Batches /\ Claims'
  BY <1>2 DEF BillInv, BillRows, Claims
<1>6. \A p \in 1..Len(payments') : p \in 1..Len(payments)
        \/ (/\ payments'[p].status # "confirmed" /\ payments'[p].inv \in 1..Len(invoices)
            /\ payments'[p].tx \in 1..Len(chain))
  BY <1>3, <1>4
<1> QED BY <1>2, <1>4, <1>5, <1>6, PaymentsMove

\* A batch begins.
LEMMA BillStart == ASSUME BillInv, Bill!StartBatch PROVE BillInv'
<1>1. UNCHANGED <<invoices, payments, chain, head, sub, linked, owed>>
  BY DEF Bill!StartBatch
<1>2. Bill!ListSubmitted \in SUBSET Nat
  BY BillTypes DEF Bill!ListSubmitted, Bill!Ids
<1>3. worker' = [phase |-> "submitted", todo |-> Bill!ListSubmitted, claims |-> {}]
  BY DEF Bill!StartBatch
<1>4. worker' \in Batches /\ worker'.claims = {}
  BY <1>2, <1>3 DEF Batches
<1> QED BY <1>1, <1>4, WorkerMoves DEF Claimed

\* A batch is forgotten.
LEMMA BillCrash == ASSUME BillInv, Bill!Crash PROVE BillInv'
<1>1. UNCHANGED <<invoices, payments, chain, head, sub, linked, owed>> /\ worker' = Bill!Idle
  BY DEF Bill!Crash
<1>2. worker' \in Batches /\ worker'.claims = {}
  BY <1>1 DEF Batches, Bill!Idle
<1> QED BY <1>1, <1>2, WorkerMoves DEF Claimed

\* A payment is left for the next batch.
LEMMA BillSkip == ASSUME BillInv, Bill!SkipSubmitted PROVE BillInv'
<1>1. PICK p \in DOMAIN payments : Bill!FirstSubmitted(p) /\ worker' = [worker EXCEPT !.todo = @ \ {p}]
  BY DEF Bill!SkipSubmitted, Bill!Ids
<1>2. UNCHANGED <<invoices, payments, chain, head, sub, linked, owed>>
  BY DEF Bill!SkipSubmitted
<1>3. worker \in Batches /\ worker.claims = {}
  BY <1>1 DEF BillInv, BillRows, Bill!FirstSubmitted
<1>4. worker' \in Batches /\ worker'.claims = {}
  BY <1>1, <1>3 DEF Batches
<1> QED BY <1>2, <1>4, WorkerMoves DEF Claimed

\* The batch after its last payment, or with the claims of a scan.
LEMMA ClaimingTypes ==
  ASSUME BillInv, NEW cs, cs \subseteq [inv : 1..Len(invoices), tx : 1..Len(chain)],
         \A c \in cs : FinalTx(chain, head, c.tx)
  PROVE  Bill!Claiming(cs) \in Batches /\ Claimed(Bill!Claiming(cs), invoices, chain, head, linked)
<1> USE BillTypes
<1>1. CASE cs = {}
  BY <1>1 DEF Bill!Claiming, Bill!Idle, Batches, Claimed
<1>2. CASE cs # {}
  <2> DEFINE w == [phase |-> "claim", todo |-> {}, claims |-> cs]
  <2>1. Bill!Claiming(cs) = w
    BY <1>2 DEF Bill!Claiming
  <2>2. cs \subseteq [inv : Nat, tx : Nat]
    OBVIOUS
  <2>3. w \in Batches
    BY <2>2 DEF Batches
  <2>4. w.phase = "claim" /\ w.claims = cs
    OBVIOUS
  <2> HIDE DEF w
  <2> QED BY <2>1, <2>3, <2>4 DEF Claimed
<1> QED BY <1>1, <1>2

\* The scan claims only logs that are final: the window ends Confirmations - 1 below the head.
LEMMA BillScan == ASSUME BillInv, Bill!ScanLogs PROVE BillInv'
<1> USE BillTypes
<1> DEFINE cs == Bill!ClaimsFor(Bill!ListPending, Bill!Logs)
<1>1. UNCHANGED <<invoices, payments, chain, head, sub, linked, owed>> /\ worker' = Bill!Claiming(cs)
  BY DEF Bill!ScanLogs
<1>2. cs \subseteq [inv : Bill!ListPending, tx : Bill!Logs]
  BY DEF Bill!ClaimsFor
<1>3. Bill!ListPending \subseteq 1..Len(invoices) /\ Bill!Logs \subseteq 1..Len(chain)
  BY DEF Bill!ListPending, Bill!Logs, Bill!Ids
<1>4. \A t \in Bill!Logs : FinalTx(chain, head, t)
  <2> SUFFICES ASSUME NEW t \in Bill!Logs PROVE FinalTx(chain, head, t)
    OBVIOUS
  <2>1. t \in 1..Len(chain) /\ chain[t].block > 0 /\ chain[t].block \in Nat
    BY <1>3 DEF Bill!Logs, Bill!Mined, TransferRows
  <2>2. chain[t].block \in (head - (Confirmations - 1) - Lookback + 1)..(head - (Confirmations - 1))
    BY DEF Bill!Logs
  <2> QED BY <2>1, <2>2, BillingAssumption DEF FinalTx
<1> HIDE DEF cs
<1>5. cs \subseteq [inv : 1..Len(invoices), tx : 1..Len(chain)] /\ \A c \in cs : FinalTx(chain, head, c.tx)
  BY <1>2, <1>3, <1>4
<1> QED BY <1>1, <1>5, ClaimingTypes, WorkerMoves

\* A submitted payment is rejected; a confirmed one stays.
LEMMA BillReject ==
  ASSUME BillInv, NEW p \in 1..Len(payments), Bill!Reject(p), UNCHANGED <<invoices, chain, head, sub, linked, owed>>,
         worker' \in Batches, Claims'
  PROVE  BillInv'
<1> USE BillTypes
<1> DEFINE st == IF payments[p].status = "submitted" THEN "rejected" ELSE payments[p].status
           new == [payments[p] EXCEPT !.status = st]
<1>1. payments' = [payments EXCEPT ![p] = new]
  BY DEF Bill!Reject
<1>2. st \in {"submitted", "confirmed", "rejected"} /\ (st = "confirmed" <=> payments[p].status = "confirmed")
  BY DEF PaymentRows
<1> HIDE DEF st
<1>3. new \in PaymentRows /\ new.inv = payments[p].inv /\ new.tx = payments[p].tx /\ new.status = st
  BY <1>2 DEF PaymentRows
<1> HIDE DEF new
<1>4. /\ payments' \in Seq(PaymentRows) /\ Len(payments') = Len(payments) /\ payments'[p] = new
      /\ \A q \in 1..Len(payments) : q # p => payments'[q] = payments[q]
  BY <1>1, <1>3
<1>5. \A q \in 1..Len(payments) :
           /\ payments'[q].inv = payments[q].inv /\ payments'[q].tx = payments[q].tx
           /\ payments'[q].status = "confirmed" <=> payments[q].status = "confirmed"
  BY <1>2, <1>3, <1>4
<1> QED BY <1>4, <1>5, PaymentsMove

\* A submitted payment is claimed only after its transfer was seen to be final, in full and the
\* user's own.
LEMMA BillTry == ASSUME BillInv, Bill!TrySubmitted PROVE BillInv'
<1> USE BillTypes
<1>1. PICK p \in 1..Len(payments) :
        /\ Bill!FirstSubmitted(p)
        /\ LET i == payments[p].inv
               t == payments[p].tx
               next == [worker EXCEPT !.todo = @ \ {p}]
           IN IF invoices[i].status # "pending"
              THEN Bill!Reject(p) /\ worker' = next
              ELSE IF ~Bill!Final(t)
              THEN /\ worker' = next
                   /\ UNCHANGED payments \/ (Bill!Mined(t) /\ chain[t].amount = 0 /\ Bill!Reject(p))
              ELSE IF ~Bill!MatchingTransfer(t, i) \/ ~Bill!WalletLinked(t, i)
              THEN Bill!Reject(p) /\ worker' = next
              ELSE worker' = [next EXCEPT !.claims = {[inv |-> i, tx |-> t]}] /\ UNCHANGED payments
  BY DEF Bill!TrySubmitted, Bill!Ids
<1>2. UNCHANGED <<invoices, chain, head, sub, linked, owed>>
  BY DEF Bill!TrySubmitted
<1> DEFINE i == payments[p].inv
           t == payments[p].tx
           next == [worker EXCEPT !.todo = @ \ {p}]
           found == [next EXCEPT !.claims = {[inv |-> i, tx |-> t]}]
<1>3. worker \in Batches /\ worker.claims = {} /\ worker.phase = "submitted" /\ i \in 1..Len(invoices) /\ t \in 1..Len(chain)
  BY <1>1 DEF BillInv, BillRows, Bill!FirstSubmitted
<1>4. next \in Batches /\ next.claims = {} /\ next.phase = "submitted"
  BY <1>3 DEF Batches
<1>5. \/ worker' = next /\ (Bill!Reject(p) \/ UNCHANGED payments)
      \/ worker' = found /\ UNCHANGED payments /\ Bill!Final(t) /\ Bill!WalletLinked(t, i)
  BY <1>1
<1> HIDE DEF next
<1>6. CASE worker' = next /\ (Bill!Reject(p) \/ UNCHANGED payments)
  <2>1. worker' \in Batches /\ Claims' /\ Claimed(worker', invoices, chain, head, linked)
    BY <1>2, <1>4, <1>6 DEF Claims, Claimed
  <2>2. CASE Bill!Reject(p)
    BY <1>2, <2>1, <2>2, BillReject
  <2>3. CASE UNCHANGED payments
    BY <1>2, <2>1, <2>3, WorkerMoves
  <2> QED BY <1>6, <2>2, <2>3
<1>7. CASE worker' = found /\ UNCHANGED payments /\ Bill!Final(t) /\ Bill!WalletLinked(t, i)
  <2> HIDE DEF i, t
  <2> DEFINE cs == {[inv |-> i, tx |-> t]}
  <2>1. cs \subseteq [inv : Nat, tx : Nat] /\ \A c \in cs : c.inv = i /\ c.tx = t
    BY <1>3
  <2>2. found = [next EXCEPT !.claims = cs]
    OBVIOUS
  <2> HIDE DEF cs, found
  <2>3. found \in Batches /\ found.claims = cs /\ found.phase = "submitted"
    BY <1>4, <2>1, <2>2 DEF Batches
  <2>4. FinalTx(chain, head, t) /\ OwnTx(linked, chain, invoices, t, i)
    BY <1>7 DEF FinalTx, OwnTx, Bill!Final, Bill!Mined, Bill!Confs, Bill!WalletLinked
  <2>5. Claimed(found, invoices, chain, head, linked)
    BY <1>3, <2>1, <2>3, <2>4 DEF Claimed
  <2> QED BY <1>2, <1>7, <2>3, <2>5, WorkerMoves
<1> QED BY SMTT(40), <1>5, <1>6, <1>7

\* Payment p settles invoice i with transfer t; nobody else's payment changes.
SettledBy(p, i, t) ==
  /\ payments' \in Seq(PaymentRows) /\ p \in 1..Len(payments') /\ Len(payments) <= Len(payments')
  /\ payments'[p].status = "confirmed" /\ payments'[p].inv = i /\ payments'[p].tx = t
  /\ \A q \in 1..Len(payments') : q # p => q \in 1..Len(payments) /\ payments'[q] = payments[q]
  /\ p \in 1..Len(payments) => payments[p].status # "confirmed"

\* confirm_payment confirms the submitted payment of this invoice and transfer, or adds one.
LEMMA PaymentSettles ==
  ASSUME BillInv, NEW i \in 1..Len(invoices), NEW t \in 1..Len(chain), Bill!MayConfirm(i, t), Bill!ConfirmPayment(i, t)
  PROVE  \E p \in 1..Len(payments') : SettledBy(p, i, t)
<1> USE BillTypes
<1>1. \/ \E p \in Bill!SubmittedFor(i, t) : payments' = [payments EXCEPT ![p].status = "confirmed"]
      \/ payments' = Append(payments, [inv |-> i, tx |-> t, status |-> "confirmed"])
  BY DEF Bill!ConfirmPayment
<1>2. CASE \E p \in Bill!SubmittedFor(i, t) : payments' = [payments EXCEPT ![p].status = "confirmed"]
  <2>1. PICK p \in Bill!SubmittedFor(i, t) : payments' = [payments EXCEPT ![p].status = "confirmed"]
    BY <1>2
  <2>2. p \in 1..Len(payments) /\ payments[p].inv = i /\ payments[p].tx = t /\ payments[p].status = "submitted"
    BY DEF Bill!SubmittedFor, Bill!Ids
  <2> DEFINE new == [payments[p] EXCEPT !.status = "confirmed"]
  <2>3. new \in PaymentRows /\ new.inv = i /\ new.tx = t /\ new.status = "confirmed" /\ payments' = [payments EXCEPT ![p] = new]
    BY <2>1, <2>2 DEF PaymentRows
  <2> HIDE DEF new
  <2>4. /\ payments' \in Seq(PaymentRows) /\ Len(payments') = Len(payments) /\ payments'[p] = new
        /\ \A q \in 1..Len(payments) : q # p => payments'[q] = payments[q]
    BY <2>2, <2>3
  <2>5. SettledBy(p, i, t)
    BY <2>2, <2>3, <2>4 DEF SettledBy
  <2> QED BY <2>5 DEF SettledBy
<1>3. CASE payments' = Append(payments, [inv |-> i, tx |-> t, status |-> "confirmed"])
  <2> DEFINE new == [inv |-> i, tx |-> t, status |-> "confirmed"]
             p == Len(payments) + 1
  <2>1. new \in PaymentRows /\ new.inv = i /\ new.tx = t /\ new.status = "confirmed"
    BY DEF PaymentRows
  <2> HIDE DEF new
  <2>2. /\ payments' \in Seq(PaymentRows) /\ Len(payments') = p /\ payments'[p] = new
        /\ \A q \in 1..Len(payments) : payments'[q] = payments[q]
    BY <1>3, <2>1 DEF new
  <2>3. SettledBy(p, i, t)
    BY <2>1, <2>2 DEF SettledBy
  <2> QED BY <2>3 DEF SettledBy
<1> QED BY <1>1, <1>2, <1>3

\* One user's subscription is written, and her days with it.
LEMMA RowServed ==
  ASSUME Paying, NEW u \in Users, NEW new \in SubRows, NEW due \in OwedRows, Served(new, due),
         sub' = [sub EXCEPT ![u] = new], owed' = [owed EXCEPT ![u] = due]
  PROVE  Paying'
<1>1. sub \in [Users -> SubRows] /\ owed \in [Users -> OwedRows]
  BY DEF Paying
<1>2. sub' \in [Users -> SubRows] /\ owed' \in [Users -> OwedRows]
  BY <1>1
<1>3. \A v \in Users : Served(sub'[v], owed'[v])
  BY <1>1, ServedAll
<1> QED BY <1>2, <1>3 DEF Paying, Bill!PaidDaysServed, Served

\* The credit itself: the invoice is paid by a payment of its own, and its days are owed.
LEMMA GrantServes ==
  ASSUME Paying, NEW i \in 1..Len(invoices), invoices[i] \in InvoiceRows, Bill!Grant(i)
  PROVE  Paying'
<1> DEFINE u == invoices[i].user
           d == invoices[i].days
<1>1. u \in Users /\ d \in Nat
  BY BillingAssumption DEF InvoiceRows
<1>2. /\ sub' = [sub EXCEPT ![u] = [tier |-> "pro_plus", left |-> Bill!Extend(@.left, d)]]
      /\ owed' = [owed EXCEPT ![u].paid = @ + d]
  BY DEF Bill!Grant
<1> HIDE DEF u, d
<1>3. sub \in [Users -> SubRows] /\ owed \in [Users -> OwedRows]
  BY DEF Paying
<1> DEFINE l == Bill!Extend(sub[u].left, d)
           new == [tier |-> "pro_plus", left |-> l]
           due == [owed[u] EXCEPT !.paid = @ + d]
<1>4. /\ sub[u].left \in Int /\ owed[u].paid \in Nat /\ owed[u].free \in Nat
      /\ Bill!Ahead(sub[u].left) = owed[u].paid + owed[u].free
  BY <1>1, <1>3, ServedAll DEF SubRows, OwedRows, Served
<1>5. l = owed[u].paid + owed[u].free + d /\ l \in Int /\ Bill!Ahead(l) = l
  BY <1>1, <1>4 DEF Bill!Extend, Bill!Ahead
<1>6. due \in OwedRows /\ due.paid = owed[u].paid + d /\ due.free = owed[u].free
  BY <1>1, <1>3 DEF OwedRows
<1>7. sub' = [sub EXCEPT ![u] = new] /\ owed' = [owed EXCEPT ![u] = due]
  BY <1>1, <1>2, <1>3
<1> HIDE DEF l, due
<1>8. new \in SubRows /\ new.tier = "pro_plus" /\ new.left = l
  BY <1>5 DEF SubRows
<1> HIDE DEF new
<1>9. Served(new, due)
  BY <1>1, <1>4, <1>5, <1>6, <1>8 DEF Served
<1> QED BY <1>1, <1>3, <1>6, <1>7, <1>8, <1>9, RowServed

\* One invoice is paid, the others are as they were.
LEMMA InvoicePaid ==
  ASSUME BillInv, NEW i \in 1..Len(invoices),
         invoices' = [invoices EXCEPT ![i] = [@ EXCEPT !.status = "paid", !.due = FALSE]]
  PROVE  /\ invoices' \in Seq(InvoiceRows) /\ Len(invoices') = Len(invoices) /\ invoices'[i].status = "paid"
         /\ \A j \in 1..Len(invoices) : /\ invoices'[j].user = invoices[j].user /\ invoices'[j].days = invoices[j].days
                                        /\ j # i => invoices'[j].status = invoices[j].status
<1> USE BillTypes
<1> DEFINE new == [invoices[i] EXCEPT !.status = "paid", !.due = FALSE]
           rows == [invoices EXCEPT ![i] = new]
<1>1. /\ new \in InvoiceRows /\ new.user = invoices[i].user /\ new.days = invoices[i].days /\ new.status = "paid"
      /\ invoices' = rows
  BY DEF InvoiceRows
<1> HIDE DEF new
<1>2. rows \in Seq(InvoiceRows) /\ Len(rows) = Len(invoices)
  BY <1>1
<1>3. rows[i] = new /\ \A j \in 1..Len(invoices) : j # i => rows[j] = invoices[j]
  OBVIOUS
<1> HIDE DEF rows
<1> QED BY <1>1, <1>2, <1>3

\* confirm_payment keeps the books, given a final transfer that the user may pay with.
LEMMA BillConfirm ==
  ASSUME BillInv, NEW i \in 1..Len(invoices), NEW t \in 1..Len(chain), FinalTx(chain, head, t),
         OwnTx(linked, chain, invoices, t, i), Bill!ConfirmPayment(i, t), UNCHANGED <<chain, head, linked>>,
         worker' \in Batches, Claimed(worker', invoices, chain, head, linked)
  PROVE  BillInv'
<1> USE BillTypes
<1>1. CASE ~Bill!MayConfirm(i, t)
  <2>1. UNCHANGED <<payments, invoices, sub, owed>>
    BY <1>1 DEF Bill!ConfirmPayment
  <2> QED BY <2>1, WorkerMoves
<1>2. CASE Bill!MayConfirm(i, t)
  <2>1. PICK p \in 1..Len(payments') : SettledBy(p, i, t)
    BY <1>2, PaymentSettles
  <2>2. /\ invoices' = [invoices EXCEPT ![i] = [@ EXCEPT !.status = "paid", !.due = FALSE]]
        /\ Bill!Grant(i)
    BY <1>2 DEF Bill!ConfirmPayment
  <2>3. /\ invoices[i].status = "pending" /\ chain[t].amount = invoices[i].days
        /\ \A q \in 1..Len(payments) : payments[q].status = "confirmed" => payments[q].tx # t
    BY <1>2 DEF Bill!MayConfirm, Bill!LogConfirmed, Bill!MatchingTransfer, Bill!Ids
  <2>4. /\ invoices' \in Seq(InvoiceRows) /\ Len(invoices') = Len(invoices) /\ invoices'[i].status = "paid"
        /\ \A j \in 1..Len(invoices) : /\ invoices'[j].user = invoices[j].user /\ invoices'[j].days = invoices[j].days
                                       /\ j # i => invoices'[j].status = invoices[j].status
    BY <2>2, InvoicePaid
  <2>5. \A q \in 1..Len(payments') : q # p => q \in 1..Len(payments) /\ payments'[q] = payments[q]
    BY <2>1 DEF SettledBy
  <2>6. /\ payments' \in Seq(PaymentRows) /\ Len(payments') \in Nat /\ Len(payments) <= Len(payments')
        /\ payments'[p].status = "confirmed" /\ payments'[p].inv = i /\ payments'[p].tx = t
        /\ p \in 1..Len(payments) => payments[p].status # "confirmed"
    BY <2>1 DEF SettledBy
  <2>7. /\ \A q \in 1..Len(payments) : payments[q].inv \in 1..Len(invoices) /\ payments[q].tx \in 1..Len(chain)
        /\ \A s \in 1..Len(chain) : chain[s].block <= head
    BY DEF BillInv, BillRows
  <2>8. BillRows'
    <3>1. \A q \in 1..Len(payments') : payments'[q].inv \in 1..Len(invoices') /\ payments'[q].tx \in 1..Len(chain')
      BY <2>4, <2>5, <2>6, <2>7
    <3> QED BY <3>1, <2>4, <2>6, <2>7 DEF BillRows
  <2>9. \A q \in 1..Len(payments) : payments[q].status = "confirmed" =>
          /\ invoices[payments[q].inv].status = "paid" /\ FinalTx(chain, head, payments[q].tx)
          /\ chain[payments[q].tx].amount = invoices[payments[q].inv].days
          /\ OwnTx(linked, chain, invoices, payments[q].tx, payments[q].inv)
    BY DEF BillInv, Credits, Backed
  <2>10. \A q \in 1..Len(payments) : payments[q].status = "confirmed" => payments[q].inv # i /\ payments[q].tx # t
    BY <2>3, <2>9
  <2>11. \A s \in 1..Len(chain), j \in 1..Len(invoices) :
           OwnTx(linked, chain, invoices, s, j) => OwnTx(linked', chain', invoices', s, j)
    BY <2>4 DEF OwnTx
  <2>12. \A s \in 1..Len(chain) : FinalTx(chain, head, s) => FinalTx(chain', head', s)
    OBVIOUS
  <2>13. Credits'
    <3>1. ASSUME NEW q \in 1..Len(payments'), payments'[q].status = "confirmed"
          PROVE  /\ invoices'[payments'[q].inv].status = "paid" /\ FinalTx(chain', head', payments'[q].tx)
                 /\ chain'[payments'[q].tx].amount = invoices'[payments'[q].inv].days
                 /\ OwnTx(linked', chain', invoices', payments'[q].tx, payments'[q].inv)
      <4>1. CASE q = p
        <5>1. FinalTx(chain', head', t) /\ OwnTx(linked', chain', invoices', t, i)
          BY <2>11, <2>12
        <5>2. chain'[t].amount = invoices'[i].days
          BY <2>3, <2>4
        <5> QED BY <4>1, <5>1, <5>2, <2>4, <2>6
      <4>2. CASE q # p
        <5> DEFINE j == payments[q].inv
                   s == payments[q].tx
        <5>1. q \in 1..Len(payments) /\ payments'[q] = payments[q]
          BY <4>2, <2>5
        <5>2. /\ invoices[j].status = "paid" /\ FinalTx(chain, head, s) /\ chain[s].amount = invoices[j].days
              /\ OwnTx(linked, chain, invoices, s, j) /\ j \in 1..Len(invoices) /\ s \in 1..Len(chain) /\ j # i
          BY <5>1, <3>1, <2>7, <2>9, <2>10
        <5>3. payments'[q].inv = j /\ payments'[q].tx = s
          BY <5>1
        <5> HIDE DEF j, s
        <5>4. FinalTx(chain', head', s) /\ OwnTx(linked', chain', invoices', s, j)
          BY <5>2, <2>11, <2>12
        <5>5. invoices'[j].status = "paid" /\ chain'[s].amount = invoices'[j].days
          BY <5>2, <2>4
        <5> QED BY <5>3, <5>4, <5>5
      <4> QED BY <4>1, <4>2
    <3>2. ASSUME NEW q \in 1..Len(payments'), NEW r \in 1..Len(payments'), payments'[q].status = "confirmed",
                 payments'[r].status = "confirmed", payments'[q].inv = payments'[r].inv \/ payments'[q].tx = payments'[r].tx
          PROVE  q = r
      <4>1. CASE q # p /\ r # p
        BY <4>1, <3>2, <2>5 DEF BillInv, Credits, Backed
      <4>2. CASE q = p
        BY <4>2, <3>2, <2>5, <2>6, <2>10
      <4>3. CASE r = p
        BY <4>3, <3>2, <2>5, <2>6, <2>10
      <4> QED BY <4>1, <4>2, <4>3
    <3>3. ASSUME NEW j \in 1..Len(invoices'), invoices'[j].status = "paid"
          PROVE  \E q \in 1..Len(payments') : payments'[q].status = "confirmed" /\ payments'[q].inv = j
      <4>1. CASE j = i
        BY <4>1, <2>6
      <4>2. CASE j # i
        <5>1. j \in 1..Len(invoices) /\ invoices[j].status = "paid"
          BY <4>2, <3>3, <2>4
        <5>2. PICK q \in 1..Len(payments) : payments[q].status = "confirmed" /\ payments[q].inv = j
          BY <5>1 DEF BillInv, Credits, Backed
        <5>3. q # p /\ q \in 1..Len(payments')
          BY <5>2, <2>6
        <5>4. payments'[q] = payments[q]
          BY <5>3, <2>5
        <5> QED BY <5>2, <5>3, <5>4
      <4> QED BY <4>1, <4>2
    <3> QED BY <3>1, <3>2, <3>3 DEF Credits, Backed
  <2>14. Claims'
    <3> SUFFICES ASSUME NEW c \in worker'.claims
                 PROVE  /\ c.inv \in 1..Len(invoices') /\ c.tx \in 1..Len(chain') /\ FinalTx(chain', head', c.tx)
                        /\ worker'.phase # "claim" => OwnTx(linked', chain', invoices', c.tx, c.inv)
      BY DEF Claims, Claimed
    <3> DEFINE j == c.inv
               s == c.tx
    <3>1. /\ j \in 1..Len(invoices) /\ s \in 1..Len(chain) /\ FinalTx(chain, head, s)
          /\ worker'.phase # "claim" => OwnTx(linked, chain, invoices, s, j)
      BY DEF Claimed
    <3> HIDE DEF j, s
    <3>2. FinalTx(chain', head', s) /\ (worker'.phase # "claim" => OwnTx(linked', chain', invoices', s, j))
      BY <3>1, <2>11, <2>12
    <3> QED BY <3>1, <3>2, <2>4 DEF j, s
  <2>15. Paying'
    BY <2>2, GrantServes DEF BillInv
  <2> QED BY <2>8, <2>13, <2>14, <2>15 DEF BillInv
<1> QED BY <1>1, <1>2

\* The operator's confirmation.
LEMMA BillInternal == ASSUME BillInv, Bill!InternalConfirm PROVE BillInv'
<1> USE BillTypes
<1>1. PICK i \in 1..Len(invoices), t \in 1..Len(chain) :
        Bill!Final(t) /\ Bill!WalletLinked(t, i) /\ Bill!ConfirmPayment(i, t)
  BY DEF Bill!InternalConfirm, Bill!Ids
<1>2. UNCHANGED <<chain, head, worker, linked>>
  BY DEF Bill!InternalConfirm
<1>3. FinalTx(chain, head, t) /\ OwnTx(linked, chain, invoices, t, i)
  BY <1>1 DEF FinalTx, OwnTx, Bill!Final, Bill!Mined, Bill!Confs, Bill!WalletLinked
<1>4. worker' \in Batches /\ Claimed(worker', invoices, chain, head, linked)
  BY <1>2 DEF BillInv, BillRows, Claims
<1> QED BY <1>1, <1>2, <1>3, <1>4, BillConfirm

\* A claim is credited or dropped; a log's wallet is checked here, a receipt's was before.
LEMMA BillFinalize == ASSUME BillInv, Bill!Finalize PROVE BillInv'
<1> USE BillTypes
<1>1. PICK c \in worker.claims :
        /\ IF worker.phase = "claim" /\ ~Bill!WalletLinked(c.tx, c.inv)
           THEN UNCHANGED <<payments, invoices, sub, owed>>
           ELSE Bill!ConfirmPayment(c.inv, c.tx)
        /\ worker' = IF worker.phase = "claim" THEN Bill!Claiming(worker.claims \ {c})
                     ELSE [worker EXCEPT !.claims = {}]
  BY DEF Bill!Finalize
<1>2. UNCHANGED <<chain, head, linked>>
  BY DEF Bill!Finalize
<1>3. /\ worker \in Batches
      /\ \A d \in worker.claims : /\ d.inv \in 1..Len(invoices) /\ d.tx \in 1..Len(chain) /\ FinalTx(chain, head, d.tx)
                                  /\ worker.phase # "claim" => OwnTx(linked, chain, invoices, d.tx, d.inv)
  BY DEF BillInv, BillRows, Claims, Claimed
<1> DEFINE rest == worker.claims \ {c}
<1>4. worker' \in Batches /\ Claimed(worker', invoices, chain, head, linked)
  <2>1. CASE worker.phase = "claim"
    <3>1. rest \subseteq [inv : 1..Len(invoices), tx : 1..Len(chain)]
      BY <1>3 DEF Batches
    <3>2. \A d \in rest : FinalTx(chain, head, d.tx)
      BY <1>3
    <3>3. worker' = Bill!Claiming(rest)
      BY <1>1, <2>1
    <3> HIDE DEF rest
    <3> QED BY <3>1, <3>2, <3>3, ClaimingTypes
  <2>2. CASE worker.phase # "claim"
    <3>1. worker' = [worker EXCEPT !.claims = {}]
      BY <1>1, <2>2
    <3>2. worker' \in Batches /\ worker'.claims = {}
      BY <3>1, <1>3 DEF Batches
    <3> QED BY <3>2 DEF Claimed
  <2> QED BY <2>1, <2>2
<1>5. CASE worker.phase = "claim" /\ ~Bill!WalletLinked(c.tx, c.inv)
  BY <1>1, <1>2, <1>4, <1>5, WorkerMoves
<1>6. CASE ~(worker.phase = "claim" /\ ~Bill!WalletLinked(c.tx, c.inv))
  <2> DEFINE i == c.inv
             t == c.tx
  <2>1. i \in 1..Len(invoices) /\ t \in 1..Len(chain) /\ FinalTx(chain, head, t) /\ Bill!ConfirmPayment(i, t)
    BY <1>1, <1>3, <1>6
  <2>2. OwnTx(linked, chain, invoices, t, i)
    BY <1>3, <1>6 DEF OwnTx, Bill!WalletLinked
  <2> HIDE DEF i, t
  <2> QED BY <1>2, <1>4, <2>1, <2>2, BillConfirm
<1> QED BY <1>5, <1>6

\* Only subscriptions change.
LEMMA BillMoney ==
  ASSUME BillInv, UNCHANGED <<invoices, payments, chain, head, worker, linked>>, Paying'
  PROVE  BillInv'
<1>1. BillRows' /\ Credits' /\ Claims'
  BY DEF BillInv, BillRows, Credits, Claims, Backed, Claimed, FinalTx, OwnTx
<1> QED BY <1>1 DEF BillInv

\* A user gives up her subscription, and what she is owed with it; she may write an until instead.
LEMMA BillUnsubscribe == ASSUME BillInv, NEW u \in Users, Bill!Unsubscribe(u) PROVE BillInv'
<1>1. PICK days \in {Bill!NoUntil} \cup Untils :
        /\ sub' = [sub EXCEPT ![u] = [tier |-> "free", left |-> days]]
        /\ owed' = [owed EXCEPT ![u] = [paid |-> 0, free |-> Bill!Ahead(days)]]
  BY DEF Bill!Unsubscribe
<1>2. UNCHANGED <<invoices, payments, chain, head, worker, linked>>
  BY DEF Bill!Unsubscribe
<1>3. days \in Int /\ Bill!Ahead(days) \in Nat
  BY BillingAssumption DEF Bill!NoUntil, Bill!Ahead
<1> DEFINE new == [tier |-> "free", left |-> days]
           due == [paid |-> 0, free |-> Bill!Ahead(days)]
<1>4. new \in SubRows /\ due \in OwedRows /\ Served(new, due)
  BY <1>3 DEF SubRows, OwedRows, Served
<1>5. Paying
  BY DEF BillInv
<1>6. Paying'
  BY <1>1, <1>4, <1>5, RowServed
<1> QED BY <1>2, <1>6, BillMoney

\* Days pass for whoever has some left, and each of them is one of those owed.
LEMMA BillDay == ASSUME BillInv, Bill!DayPasses PROVE BillInv'
<1> DEFINE less(u) == IF owed[u].paid > 0 THEN [owed[u] EXCEPT !.paid = @ - 1]
                      ELSE [owed[u] EXCEPT !.free = Bill!Ahead(@ - 1)]
<1>1. /\ sub' = [u \in Users |-> Bill!Aged(sub[u])]
      /\ owed' = [u \in Users |-> less(u)]
      /\ UNCHANGED <<invoices, payments, chain, head, worker, linked>>
  BY DEF Bill!DayPasses
<1>2. sub \in [Users -> SubRows] /\ owed \in [Users -> OwedRows] /\ Grace \in Nat
  BY BillingAssumption DEF BillInv, Paying
<1>3. ASSUME NEW u \in Users
      PROVE  /\ less(u) \in OwedRows
             /\ less(u).paid = Bill!Ahead(owed[u].paid - 1)
             /\ less(u).free = IF owed[u].paid > 0 THEN owed[u].free ELSE Bill!Ahead(owed[u].free - 1)
  <2>1. owed[u] \in OwedRows
    BY <1>2
  <2>2. CASE owed[u].paid > 0
    BY <2>1, <2>2 DEF OwedRows, Bill!Ahead
  <2>3. CASE ~(owed[u].paid > 0)
    BY <2>1, <2>3 DEF OwedRows, Bill!Ahead
  <2> QED BY <2>2, <2>3
<1> HIDE DEF less
<1>4. ASSUME NEW u \in Users PROVE Bill!Aged(sub[u]) \in SubRows /\ Served(Bill!Aged(sub[u]), less(u))
  <2>1. sub[u] \in SubRows /\ owed[u] \in OwedRows /\ Served(sub[u], owed[u])
    BY <1>2, ServedAll DEF BillInv
  <2>2. /\ sub[u].left \in Int /\ owed[u].paid \in Nat /\ owed[u].free \in Nat
        /\ Bill!NoUntil \in Int /\ Bill!NoUntil <= 0
    BY <1>2, <2>1 DEF SubRows, OwedRows, Bill!NoUntil
  <2>3. CASE sub[u].tier = "free" /\ sub[u].left <= 1
    <3> DEFINE none == [sub[u] EXCEPT !.left = Bill!NoUntil]
    <3>1. Bill!Aged(sub[u]) = none
      BY <2>3 DEF Bill!Aged
    <3>2. none \in SubRows /\ none.tier = "free" /\ none.left = Bill!NoUntil
      BY <2>1, <2>2, <2>3 DEF SubRows
    <3>3. owed[u].paid = 0 /\ owed[u].free <= 1
      BY <2>1, <2>2, <2>3 DEF Served, Bill!Ahead
    <3>4. less(u).paid = 0 /\ less(u).free = 0
      BY <1>3, <2>2, <3>3 DEF Bill!Ahead
    <3> HIDE DEF none
    <3> QED BY <2>2, <3>1, <3>2, <3>4 DEF Served, Bill!Ahead
  <2>4. CASE ~(sub[u].tier = "free" /\ sub[u].left <= 1) /\ sub[u].left > -(Grace + 1)
    <3> DEFINE one == [sub[u] EXCEPT !.left = @ - 1]
    <3>1. Bill!Aged(sub[u]) = one
      BY <2>4 DEF Bill!Aged
    <3>2. one \in SubRows /\ one.tier = sub[u].tier /\ one.left = sub[u].left - 1
      BY <2>1, <2>2 DEF SubRows
    <3>3. less(u).paid + less(u).free = Bill!Ahead(owed[u].paid + owed[u].free - 1)
      BY <1>3, <2>2 DEF Bill!Ahead
    <3>4. Bill!Ahead(sub[u].left - 1) = Bill!Ahead(Bill!Ahead(sub[u].left) - 1)
      BY <2>2 DEF Bill!Ahead
    <3>5. less(u).paid > 0 => owed[u].paid > 0
      BY <1>3, <2>2 DEF Bill!Ahead
    <3>6. /\ owed[u].paid > 0 => sub[u].tier = "pro_plus"
          /\ Bill!Ahead(sub[u].left) = owed[u].paid + owed[u].free
      BY <2>1 DEF Served
    <3>7. Bill!Ahead(sub[u].left - 1) = less(u).paid + less(u).free
      BY <2>2, <3>3, <3>4, <3>6 DEF Bill!Ahead
    <3> HIDE DEF one
    <3>8. Served(one, less(u))
      BY <3>2, <3>5, <3>6, <3>7 DEF Served
    <3> QED BY <3>1, <3>2, <3>8
  <2>5. CASE ~(sub[u].tier = "free" /\ sub[u].left <= 1) /\ ~(sub[u].left > -(Grace + 1))
    <3>1. Bill!Aged(sub[u]) = sub[u]
      BY <2>5 DEF Bill!Aged
    <3>2. sub[u].left <= 0
      BY <1>2, <2>2, <2>5
    <3>3. owed[u].paid = 0 /\ owed[u].free = 0
      BY <2>1, <2>2, <3>2 DEF Served, Bill!Ahead
    <3>4. less(u).paid = 0 /\ less(u).free = 0
      BY <1>3, <3>3 DEF Bill!Ahead
    <3> QED BY <2>1, <2>2, <3>1, <3>2, <3>4 DEF Served, Bill!Ahead
  <2> QED BY <2>3, <2>4, <2>5
<1>5. sub' \in [Users -> SubRows] /\ owed' \in [Users -> OwedRows]
  BY <1>1, <1>3, <1>4
<1>6. \A u \in Users : Served(sub'[u], owed'[u])
  BY <1>1, <1>4
<1>7. Paying'
  BY <1>5, <1>6 DEF Paying, Bill!PaidDaysServed, Served
<1> QED BY <1>1, <1>7, BillMoney

\* Every step of Billing keeps the invariant.
LEMMA BillStep == ASSUME BillInv, Bill!Next PROVE BillInv'
<1>1. ASSUME NEW u \in Users, Bill!CreateInvoice(u) PROVE BillInv'
  BY <1>1, BillCreate
<1>2. ASSUME NEW u \in Users, Bill!SubmitTx(u) PROVE BillInv'
  BY <1>2, BillSubmit
<1>3. ASSUME NEW u \in Users, Bill!Unsubscribe(u) PROVE BillInv'
  BY <1>3, BillUnsubscribe
<1>4. ASSUME NEW u \in Users, Bill!Pay(u) PROVE BillInv'
  BY <1>4, BillPay
<1>5. CASE Bill!InternalConfirm
  BY <1>5, BillInternal
<1>6. CASE Bill!StartBatch
  BY <1>6, BillStart
<1>7. CASE Bill!TrySubmitted
  BY <1>7, BillTry
<1>8. CASE Bill!SkipSubmitted
  BY <1>8, BillSkip
<1>9. CASE Bill!ScanLogs
  BY <1>9, BillScan
<1>10. CASE Bill!Finalize
  BY <1>10, BillFinalize
<1>11. CASE Bill!RunExpiry
  BY <1>11, BillExpiry
<1>12. CASE Bill!Crash
  BY <1>12, BillCrash
<1>13. CASE Bill!Mine
  BY <1>13, BillMine
<1>14. CASE Bill!Reorg
  BY <1>14, BillReorg
<1>15. CASE Bill!BecomeDue
  BY <1>15, BillDue
<1>16. CASE Bill!DayPasses
  BY <1>16, BillDay
<1> QED BY <1>1, <1>2, <1>3, <1>4, <1>5, <1>6, <1>7, <1>8, <1>9, <1>10, <1>11, <1>12, <1>13, <1>14, <1>15, <1>16
  DEF Bill!Next

\* Nothing changes.
LEMMA BillStutter == ASSUME BillInv, UNCHANGED billingVars PROVE BillInv'
BY BillMoney DEF BillInv, billingVars, Paying, Bill!PaidDaysServed

\* An invoice has the one confirmed payment that paid it, or none.
LEMMA OneEach ==
  ASSUME BillInv, NEW i \in 1..Len(invoices)
  PROVE  LET s == {p \in Bill!Credited : payments[p].inv = i}
         IN Bill!Cardinality(s) = (IF invoices[i].status = "paid" THEN 1 ELSE 0)
<1> USE BillTypes
<1> DEFINE s == {p \in Bill!Credited : payments[p].inv = i}
<1>1. Bill!Credited = {p \in 1..Len(payments) : payments[p].status = "confirmed"}
  BY DEF Bill!Credited, Bill!Ids
<1>2. Bill!Cardinality(s) = Cardinality(s)
  BY DEF Bill!Cardinality, Cardinality
<1>3. CASE invoices[i].status = "paid"
  <2>1. PICK p \in 1..Len(payments) : payments[p].status = "confirmed" /\ payments[p].inv = i
    BY <1>3 DEF BillInv, Credits, Backed
  <2>2. s = {p}
    <3>1. \A q \in s : q = p
      BY <1>1, <2>1 DEF BillInv, Credits, Backed
    <3> QED BY <1>1, <2>1, <3>1
  <2> QED BY <1>2, <1>3, <2>2, FS_Singleton
<1>4. CASE invoices[i].status # "paid"
  <2>1. s = {}
    BY <1>1, <1>4 DEF BillInv, Credits, Backed
  <2> QED BY <1>2, <1>4, <2>1, FS_EmptySet
<1> QED BY <1>3, <1>4

\* What Accounts asks of Billing follows from the invariant.
LEMMA BillServed == BillInv => Bill!PaidIsServed
<1> SUFFICES ASSUME BillInv PROVE Bill!PaidIsServed
  OBVIOUS
<1> USE BillTypes
<1>1. Bill!Credited = {p \in 1..Len(payments) : payments[p].status = "confirmed"}
  BY DEF Bill!Credited, Bill!Ids
<1>2. Bill!OneTransferPerCredit
  <2>1. \A i \in Bill!Ids(invoices) :
       Bill!Cardinality({p \in Bill!Credited : payments[p].inv = i}) = (IF invoices[i].status = "paid" THEN 1 ELSE 0)
    BY OneEach DEF Bill!Ids
  <2>2. \A p, q \in Bill!Credited : payments[p].tx = payments[q].tx => p = q
    BY <1>1 DEF BillInv, Credits, Backed
  <2> QED BY <2>1, <2>2 DEF Bill!OneTransferPerCredit
<1>3. Bill!CreditIsFinal
  BY <1>1 DEF BillInv, Credits, Backed, FinalTx, Bill!CreditIsFinal, Bill!Final, Bill!Mined, Bill!Confs, Bill!MatchingTransfer
<1>4. Bill!OwnTransferOnly
  BY <1>1 DEF BillInv, Credits, Backed, OwnTx, Bill!OwnTransferOnly
<1> QED BY <1>2, <1>3, <1>4 DEF BillInv, Paying, Bill!PaidIsServed, Bill!CreditsAreBacked

\* The types of Billing follow from the invariant.
LEMMA BillTypeOK == BillInv => Bill!TypeOK
<1> SUFFICES ASSUME BillInv PROVE Bill!TypeOK
  OBVIOUS
<1> USE BillTypes
<1>1. invoices \in Seq([user : Users, days : Periods, status : Bill!Statuses, due : BOOLEAN])
  BY DEF InvoiceRows, Bill!Statuses
<1>2. payments \in Seq([inv : Bill!Ids(invoices), tx : Bill!Ids(chain), status : {"submitted", "confirmed", "rejected"}])
  <2> DEFINE R == [inv : Bill!Ids(invoices), tx : Bill!Ids(chain), status : {"submitted", "confirmed", "rejected"}]
  <2>1. \A p \in 1..Len(payments) : payments[p] \in R
    BY DEF BillInv, BillRows, PaymentRows, Bill!Ids
  <2> HIDE DEF R
  <2>2. payments = [p \in 1..Len(payments) |-> payments[p]]
    OBVIOUS
  <2>3. payments \in [1..Len(payments) -> R]
    BY <2>1, <2>2
  <2>4. payments \in Seq(R)
    BY <2>3
  <2> QED BY <2>4 DEF R
<1>3. chain \in Seq([from : Users, amount : Periods \cup {0}, block : 0..head])
  <2> DEFINE R == [from : Users, amount : Periods \cup {0}, block : 0..head]
  <2>1. \A t \in 1..Len(chain) : chain[t] \in R
    BY DEF BillInv, BillRows, TransferRows
  <2> HIDE DEF R
  <2>2. chain = [t \in 1..Len(chain) |-> chain[t]]
    OBVIOUS
  <2>3. chain \in [1..Len(chain) -> R]
    BY <2>1, <2>2
  <2>4. chain \in Seq(R)
    BY <2>3
  <2> QED BY <2>4 DEF R
<1>4. sub \in [Users -> [tier : {"free", "pro_plus"}, left : Int]] /\ owed \in [Users -> [paid : Nat, free : Nat]]
  BY DEF BillInv, Paying, SubRows, OwedRows
<1>5. worker.phase \in {"idle", "submitted", "claim"}
  BY DEF BillInv, BillRows, Batches
<1> QED BY <1>1, <1>2, <1>3, <1>4, <1>5 DEF Bill!TypeOK

----------------------------------------------------------------------------
(* The four together. *)

AccountsInv == CredentialInv /\ SessionInv /\ BookInv /\ BillInv

\* One part moves at a time.
LEMMA AccountsStep ==
  ASSUME AccountsInv, [Next]_<<part, billingVars, bookVars, sessionVars, provisionVars>>
  PROVE  AccountsInv'
<1>1. CASE Bill!Next /\ UNCHANGED <<bookVars, sessionVars, provisionVars>>
  BY <1>1, BillStep, BookStutter, SessionStutter, CredentialStutter DEF AccountsInv
<1>2. CASE Book!Next /\ UNCHANGED <<billingVars, sessionVars, provisionVars>>
  BY <1>2, BillStutter, BookStep, SessionStutter, CredentialStutter DEF AccountsInv
<1>3. CASE Sess!Next /\ UNCHANGED <<billingVars, bookVars, provisionVars>>
  BY <1>3, BillStutter, BookStutter, SessionStep, CredentialStutter DEF AccountsInv
<1>4. CASE Prov!Next /\ UNCHANGED <<billingVars, bookVars, sessionVars>>
  BY <1>4, BillStutter, BookStutter, SessionStutter, CredentialStep DEF AccountsInv
<1>5. CASE UNCHANGED <<part, billingVars, bookVars, sessionVars, provisionVars>>
  BY <1>5, BillStutter, BookStutter, SessionStutter, CredentialStutter DEF AccountsInv
<1> QED BY <1>1, <1>2, <1>3, <1>4, <1>5 DEF Next

\* The invariant of all four parts holds in every reachable state.
THEOREM AccountsAreKept == Spec => []AccountsInv
<1>1. Init => AccountsInv
  BY BillInit, BookInit, SessionInit, CredentialInit DEF Init, AccountsInv
<1>2. AccountsInv /\ [Next]_<<part, billingVars, bookVars, sessionVars, provisionVars>> => AccountsInv'
  BY AccountsStep
<1> QED BY <1>1, <1>2, PTL DEF Spec

\* Rows, requests and histories have the types that the tables and the handlers give them,
\* whatever is created, paid, mined, linked, provisioned or delivered.
THEOREM AccountTypes == Spec => []TypeOK
<1>1. CredentialInv => Prov!TypeOK
  BY DEF CredentialInv, CredentialTypes, Prov!TypeOK, KeyRows
<1>2. AccountsInv => TypeOK
  BY <1>1, BillTypeOK, BookKept, SessionWaysIn DEF AccountsInv, TypeOK
<1> QED BY <1>2, AccountsAreKept, PTL

\* Every paid invoice is backed by one final transfer of its own, in full and the user's own where
\* wallets must be linked, however receipts, log scans, the operator, reorganisations and crashes
\* interleave, and whoever hands in whose hash; and what a subscription has left are the days
\* that were paid for, with those of an until that the user wrote while free, neither more nor
\* less (billing.rs confirm_payment, run_expiry).
THEOREM CreditsServed == Spec => []PaidIsServed
<1>1. AccountsInv => PaidIsServed
  BY BillServed DEF AccountsInv, PaidIsServed
<1> QED BY <1>1, AccountsAreKept, PTL

\* A watched item becomes at most one follow, a target has at most one active follow of a user,
\* a follow kept through a delivery has its one order, and a second order for the target only exists
\* for a user who stopped a relation of hers, however requests overlap each other and a delivery
\* that is made again (watchlist.rs upgrade, follow routes.rs ingest).
THEOREM FollowsAreKept == Spec => []FollowsKept
<1>1. AccountsInv => FollowsKept
  BY BookKept DEF AccountsInv, FollowsKept
<1> QED BY <1>1, AccountsAreKept, PTL

\* A signed message is accepted once, and a user keeps a way in unless two of her own requests to
\* unlink overlapped (account.rs consume_nonce, routes.rs unlink_wallet).
THEOREM AlwaysAWayIn == Spec => []WaysIn
<1>1. AccountsInv => WaysIn
  BY SessionWaysIn DEF AccountsInv, WaysIn
<1> QED BY <1>1, AccountsAreKept, PTL

\* A key whose wallet a user has seen stays in the row or the archives unless the request that
\* overwrote it overlapped the one that wrote it; and a request without confirm_replace never
\* overwrites an active credential that was there when it came (deposit.rs provision,
\* store_credential; routes.rs provision_deposit_wallet).
THEOREM KeysAreKept == Spec => []CredentialsKept
<1>1. AccountsInv => CredentialsKept
  BY DEF AccountsInv, CredentialInv, CredentialsKept
<1> QED BY <1>1, AccountsAreKept, PTL
=============================================================================
