------------------------------ MODULE Sessions ------------------------------
(***************************************************************************)
(* Login, sessions and wallets of the account service                      *)
(* (services/account/src/routes.rs, auth.rs) over users, user_wallets,     *)
(* auth_nonces and jwt_denylist (crates/db/src/queries/account.rs).        *)
(*                                                                         *)
(* A signed message names a wallet and a nonce; its own age is at most     *)
(* that of the nonce it quotes.  Each statement on the database is one     *)
(* step, and a client that goes away leaves its handler where it is.       *)
(***************************************************************************)
EXTENDS Naturals, Sequences, FiniteSets

CONSTANTS
  Wallets, TgIds, \* wallet addresses; users of the Telegram bot
  NoTg,           \* tg_id of a user who came with a wallet
  Requests,       \* slots for requests in flight
  MaxAge,         \* age at which a nonce is of no use any more
  MaxNonces, MaxTokens, MaxUsers \* bounds: rows ever made

VARIABLES
  nonces,   \* sequence of [wallet, age, used, row]; row: not yet cleaned up
  users,    \* sequence of tg ids, NoTg for a user who came with a wallet
  owner,    \* wallet -> user, 0 for a wallet linked to nobody
  tokens,   \* sequence of [user, state]; a token's jti is its index
  call,     \* request -> None or what its handler has read
  accepted, \* history: nonce -> how often a message with it was accepted
  overlaps  \* history: users of whom two unlinks were under way at once

None == [op |-> "none"]

Init ==
  /\ nonces = <<>> /\ users = <<>> /\ tokens = <<>> /\ accepted = <<>>
  /\ owner = [w \in Wallets |-> 0]
  /\ call = [c \in Requests |-> None]
  /\ overlaps = {}

----------------------------------------------------------------------------

CountWallets(u) == Cardinality({w \in Wallets : owner[w] = u})

\* The AuthUser extractor: signature, expiry, then the denylist.
Serves(t) == tokens[t].state = "valid"

IssueJwt(u) == Len(tokens) < MaxTokens /\ tokens' = Append(tokens, [user |-> u, state |-> "valid"])

Open(c, request) == call[c] = None /\ call' = [call EXCEPT ![c] = request]
Close(c) == call' = [call EXCEPT ![c] = None]

\* Rows past the age are cleaned up on the way.
WalletNonce(w) ==
  /\ Len(nonces) < MaxNonces
  /\ nonces' = Append([n \in DOMAIN nonces |-> [nonces[n] EXCEPT !.row = @ /\ nonces[n].age <= MaxAge]],
                      [wallet |-> w, age |-> 0, used |-> FALSE, row |-> TRUE])
  /\ accepted' = Append(accepted, 0)
  /\ UNCHANGED <<users, owner, tokens, call, overlaps>>

\* One UPDATE: unused, of that wallet, and young enough.
ConsumableTwice(n) == nonces[n].row /\ nonces[n].age < MaxAge
Consumable(n) == nonces[n].row /\ ~nonces[n].used /\ nonces[n].age < MaxAge
Consume(n) ==
  /\ Consumable(n)
  /\ nonces' = [nonces EXCEPT ![n].used = TRUE]
  /\ accepted' = [accepted EXCEPT ![n] = @ + 1]

----------------------------------------------------------------------------
(* Login with a wallet: consume, look up, and register who is new. *)

WalletLogin(c) == \E n \in DOMAIN nonces :
  /\ Consume(n)
  /\ Open(c, [op |-> "lookup", wallet |-> nonces[n].wallet])
  /\ UNCHANGED <<users, owner, tokens, overlaps>>

Lookup(c) ==
  /\ call[c].op = "lookup"
  /\ LET w == call[c].wallet IN
       IF owner[w] # 0
       THEN IssueJwt(owner[w]) /\ Close(c)
       ELSE call' = [call EXCEPT ![c].op = "register"] /\ UNCHANGED tokens
  /\ UNCHANGED <<nonces, users, owner, accepted, overlaps>>

\* One transaction: a wallet somebody linked meanwhile undoes the new user as well.
Register(c) ==
  /\ call[c].op = "register"
  /\ LET w == call[c].wallet
         u == Len(users) + 1
     IN IF owner[w] = 0
        THEN /\ u <= MaxUsers
             /\ users' = Append(users, NoTg)
             /\ owner' = [owner EXCEPT ![w] = u]
             /\ IssueJwt(u)
        ELSE UNCHANGED <<users, owner, tokens>>
  /\ Close(c)
  /\ UNCHANGED <<nonces, accepted, overlaps>>

\* The bot logs its user in; one upsert.
TgLogin(id) ==
  /\ IF \E u \in DOMAIN users : users[u] = id
     THEN UNCHANGED users /\ \E u \in DOMAIN users : users[u] = id /\ IssueJwt(u)
     ELSE /\ Len(users) < MaxUsers
          /\ users' = Append(users, id) /\ IssueJwt(Len(users) + 1)
  /\ UNCHANGED <<nonces, owner, call, accepted, overlaps>>

\* POST /auth/logout puts the token on the denylist.
Logout(t) ==
  /\ tokens[t].state = "valid"
  /\ tokens' = [tokens EXCEPT ![t].state = "revoked"]
  /\ UNCHANGED <<nonces, users, owner, call, accepted, overlaps>>

----------------------------------------------------------------------------
(* Further wallets of a user. *)

LinkWallet(c) == \E n \in DOMAIN nonces, t \in DOMAIN tokens :
  /\ Serves(t)
  /\ Consume(n)
  /\ Open(c, [op |-> "link", wallet |-> nonces[n].wallet, user |-> tokens[t].user])
  /\ UNCHANGED <<users, owner, tokens, overlaps>>

InsertWallet(c) ==
  /\ call[c].op = "link"
  /\ LET w == call[c].wallet IN
       IF owner[w] = 0 THEN owner' = [owner EXCEPT ![w] = call[c].user] ELSE UNCHANGED owner
  /\ Close(c)
  /\ UNCHANGED <<nonces, users, tokens, accepted, overlaps>>

\* DELETE /me/wallets/:address: the count is asked for first, ...
AtLeastOne(u) == CountWallets(u) >= 1
MoreThanOne(u) == CountWallets(u) > 1
UnlinkWallet(c) == \E w \in Wallets, t \in DOMAIN tokens :
  /\ Serves(t)
  /\ LET u == tokens[t].user IN
       /\ MoreThanOne(u)
       /\ Open(c, [op |-> "unlink", wallet |-> w, user |-> u])
       /\ overlaps' = overlaps \cup {v \in {u} : \E d \in Requests : call[d].op = "unlink" /\ call[d].user = v}
  /\ UNCHANGED <<nonces, users, owner, tokens, accepted>>

\* ... then the row is deleted.
DeleteWallet(c) ==
  /\ call[c].op = "unlink"
  /\ LET w == call[c].wallet IN
       owner' = [owner EXCEPT ![w] = IF @ = call[c].user THEN 0 ELSE @]
  /\ Close(c)
  /\ UNCHANGED <<nonces, users, tokens, accepted, overlaps>>

----------------------------------------------------------------------------
(* Clients that give up, and time. *)

Abandon(c) ==
  /\ call[c] # None
  /\ Close(c)
  /\ UNCHANGED <<nonces, users, owner, tokens, accepted, overlaps>>

Expire(t) ==
  /\ tokens[t].state = "valid"
  /\ tokens' = [tokens EXCEPT ![t].state = "expired"]
  /\ UNCHANGED <<nonces, users, owner, call, accepted, overlaps>>

Age ==
  /\ \E n \in DOMAIN nonces : nonces[n].age <= MaxAge
  /\ nonces' = [n \in DOMAIN nonces |-> [nonces[n] EXCEPT !.age = IF @ <= MaxAge THEN @ + 1 ELSE @]]
  /\ UNCHANGED <<users, owner, tokens, call, accepted, overlaps>>

Next ==
  \/ \E w \in Wallets : WalletNonce(w)
  \/ \E c \in Requests : \/ WalletLogin(c) \/ Lookup(c) \/ Register(c) \/ LinkWallet(c)
                         \/ InsertWallet(c) \/ UnlinkWallet(c) \/ DeleteWallet(c) \/ Abandon(c)
  \/ \E id \in TgIds : TgLogin(id)
  \/ \E t \in DOMAIN tokens : Logout(t) \/ Expire(t)
  \/ Age

----------------------------------------------------------------------------
TypeOK ==
  /\ users \in Seq(TgIds \cup {NoTg})
  /\ owner \in [Wallets -> 0..Len(users)]
  /\ tokens \in Seq([user : DOMAIN users, state : {"valid", "revoked", "expired"}])
  /\ nonces \in Seq([wallet : Wallets, age : 0..(MaxAge + 1), used : BOOLEAN, row : BOOLEAN])
  /\ overlaps \subseteq DOMAIN users

\* A signed message is accepted once, by a login or by a link, whatever races or is replayed
\* after a cleanup (account.rs:1466).
MessageOnce == \A n \in DOMAIN accepted : accepted[n] <= 1

\* Nobody is locked out: a user has a wallet or a tg id, also after a registration that lost its
\* wallet to another one or an unlink that raced a link; the handler counts before it deletes
\* (routes.rs:520), so two unlinks at once are the exception.
EntryKept ==
  \A u \in DOMAIN users : users[u] # NoTg \/ CountWallets(u) > 0 \/ u \in overlaps

WaysIn == MessageOnce /\ EntryKept
=============================================================================
