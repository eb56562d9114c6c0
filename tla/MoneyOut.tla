------------------------------- MODULE MoneyOut -------------------------------
(***************************************************************************)
(* Money that leaves the positions of one user: withdraw and redeem (with  *)
(* an audit row each), merge (without), and the worker that redeems        *)
(* resolved markets by itself.                                             *)
(*                                                                         *)
(* All of them have the owner sign a WALLET batch with the wallet's        *)
(* present nonce, hand it to Polymarket's relayer, and poll for at most 90 *)
(* seconds.  The chain executes a batch whose nonce is the next one.       *)
(* Markets are numbered in the order in which they get a resolved_at.  One *)
(* that is closed when it is first stored gets none, until it is stored    *)
(* once more.                                                              *)
(* There is one user, YES wins every market, and a token is worth 1 pUSD.  *)
(***************************************************************************)
EXTENDS Naturals, Sequences, FiniteSets, Functions

CONSTANTS
  Api,           \* requests the copier serves at a time
  Tellers,       \* bound: those of them that are withdrawals and nothing else
  MaxConds,      \* markets
  Wallets,       \* deposit wallets, the first one and those after a migration
  FirstWallet,
  Cash, Shares,  \* what the first wallet holds: pUSD, and YES and NO of every market
  Amounts,       \* amounts of a withdrawal or a merge
  DailyMax,      \* WITHDRAW_DAILY_MAX
  MaxAttempts,   \* attempts of a redemption (3 in the code)
  MaxEvents,     \* bound: requests, midnights, migrations, errors, lost answers, crashes,
                 \* early hashes, unclear outcomes, markets stored closed and dropped
                 \* batches, all together
  Worker, None

ASSUME MoneyAssumption ==
  /\ IsFiniteSet(Api) /\ Tellers \subseteq Api /\ FirstWallet \in Wallets /\ Amounts \subseteq Nat \ {0}
  /\ Cash \in Nat /\ Shares \in Nat
  /\ DailyMax \in Nat /\ MaxAttempts \in Nat \ {0}
  /\ MaxEvents \in Nat /\ MaxConds \in Nat \ {0}
  /\ Worker \notin Api /\ None \notin Api \cup Wallets \cup 1 .. MaxConds

VARIABLES
  withdrawals,   \* account.withdrawals
  redemptions,   \* account.redemptions
  closed,        \* raw_markets: so many closed markets have a resolved_at
  untimed,       \* ... and those that are closed without one
  clear,         \* ... and those closed whose outcome is known
  wallet,        \* the deposit wallet of the user's credential
  chain,         \* cash, tokens and nonce of each wallet
  relay,         \* every batch the relayer has accepted
  task,          \* the locals of each request and of the worker
  scan,          \* the worker's tick: cursor and what is left to do
  missed,        \* history: markets the worker's cursor passed after an error
  slips,         \* history: what the daily limit does not see
  events

vars == <<withdrawals, redemptions, closed, untimed, clear, wallet, chain, relay, task, scan,
          missed, slips, events>>

Tasks == Api \cup {Worker}
Conds == 1 .. MaxConds

Withdrawals == [amount : Amounts, status : {"pending", "mined", "failed"}, today : BOOLEAN]
Redemptions == [cond : Conds, wallet : Wallets, status : {"pending", "mined", "failed"},
                attempts : 0 .. MaxAttempts, retry : BOOLEAN]
Calls       == [kind : {"transfer", "redeem", "merge", "move"}, row : Nat, cond : Conds \cup {None},
                amount : Nat]
Batches     == [call : Calls, wallet : Wallets, nonce : Nat,
                state : {"sent", "mined", "failed"}, hash : BOOLEAN]
Locals      == [pc : {"idle", "checked", "ready", "signed", "polling", "ok", "hash", "err"},
                call : Calls \cup {None}, wallet : Wallets \cup {None}, nonce : Nat, tx : Nat]
Holdings    == [cash : Nat, nonce : Nat, win : [Conds -> Nat], lose : [Conds -> Nat]]
Scans       == [cursor : Nat, upto : Nat, markets : Seq(Conds), late : SUBSET Conds,
                retries : SUBSET Nat, on : BOOLEAN]
\* Requests that another has overtaken between their check and their row; the
\* rows of such; and rows whose batch the relayer took though it answered an error.
Slips       == [overtaken : SUBSET Api, raced : SUBSET Nat, unsure : SUBSET Nat]

Idle    == [pc |-> "idle", call |-> None, wallet |-> None, nonce |-> 0, tx |-> 0]
NoScan  == [cursor |-> 0, upto |-> 0, markets |-> <<>>, late |-> {}, retries |-> {}, on |-> FALSE]
NoSlips == [overtaken |-> {}, raced |-> {}, unsure |-> {}]
Event   == events < MaxEvents /\ events' = events + 1

tables  == <<withdrawals, redemptions>>
outside == <<closed, untimed, clear, wallet, chain, relay>>

Goto(t, pc) == task' = [task EXCEPT ![t].pc = pc, ![t].nonce = 0, ![t].tx = 0]

Transfer(n)      == [kind |-> "transfer", row |-> 0, cond |-> None, amount |-> n]
Redeem(c, n)     == [kind |-> "redeem", row |-> 0, cond |-> c, amount |-> n]
Merge(c, n)      == [kind |-> "merge", row |-> 0, cond |-> c, amount |-> n]
Move(n)          == [kind |-> "move", row |-> 0, cond |-> None, amount |-> n]
CallOn(w, t, pc, c) == task' = [task EXCEPT ![t] = [Idle EXCEPT !.pc = pc, !.call = c, !.wallet = w]]
Call(t, pc, c)   == CallOn(wallet, t, pc, c)

-----------------------------------------------------------------------------
\* The tables

Active(i) == redemptions[i].status \in {"pending", "mined"}

\* uq_redemptions_user_market_outcome_dw; redemption_exists_active asks the same.
Exists(c, w) == \E i \in DOMAIN redemptions :
  Active(i) /\ redemptions[i].cond = c /\ redemptions[i].wallet = w

Withdrawn == [i \in DOMAIN withdrawals |-> withdrawals[i].amount]

\* Mutant: only confirmed withdrawals count.
MinedTotal == SumFunctionOnSet(Withdrawn,
  {i \in DOMAIN withdrawals : withdrawals[i].today /\ withdrawals[i].status = "mined"})

\* daily_withdrawal_total: failed rows do not count.
DailyTotal == SumFunctionOnSet(Withdrawn,
  {i \in DOMAIN withdrawals : withdrawals[i].today /\ withdrawals[i].status # "failed"})

-----------------------------------------------------------------------------
\* What the pages list as redeemable and not redeemed already; the handlers ask for it once more.
\* A market whose balance cannot be read is left out.

Redeemable(w) == {c \in clear : chain[w].win[c] > 0 /\ ~Exists(c, w)}
ListRedeemable == Redeemable(wallet)
ListArchiveRedeemable == IF wallet = FirstWallet THEN {} ELSE Redeemable(FirstWallet)

-----------------------------------------------------------------------------
\* POST /me/wallet/withdraw, /redeem, /merge

Ask(t) ==
  /\ task[t].pc = "idle" /\ Event
  /\ slips' = [slips EXCEPT !.overtaken = @ \ {t}]
  /\ UNCHANGED <<tables, outside, scan, missed>>

\* Balance and daily limit are read before the row is there.
Withdraw(t) == Ask(t) /\ \E n \in Amounts :
  /\ n <= chain[wallet].cash
  /\ DailyTotal + n <= DailyMax
  /\ Call(t, "checked", Transfer(n))

RedeemByHand(t) == Ask(t) /\ \E c \in ListRedeemable :
  Call(t, "checked", Redeem(c, chain[wallet].win[c]))

\* Nothing is written down for a merge.
MergeByHand(t) == Ask(t) /\ \E c \in Conds, n \in Amounts :
  /\ c > closed /\ c \notin untimed
  /\ n <= chain[wallet].win[c] /\ n <= chain[wallet].lose[c]
  /\ Call(t, "ready", Merge(c, n))

\* The account service redeems on the archived wallet, ...
RedeemArchive(t) == Ask(t) /\ \E c \in ListArchiveRedeemable :
  CallOn(FirstWallet, t, "checked", Redeem(c, chain[FirstWallet].win[c]))

\* ... and moves its cash to the present one, without a row.
MigrateArchive(t) ==
  /\ Ask(t)
  /\ wallet # FirstWallet /\ chain[FirstWallet].cash > 0
  /\ CallOn(FirstWallet, t, "ready", Move(chain[FirstWallet].cash))

Checked(t) == task[t].pc = "checked" /\ task[t].call.kind = "transfer"

\* insert_withdrawal
InsertWithdrawal(t) ==
  /\ Checked(t)
  /\ withdrawals' = Append(withdrawals,
       [amount |-> task[t].call.amount, status |-> "pending", today |-> TRUE])
  /\ task' = [task EXCEPT ![t].pc = "ready", ![t].call.row = Len(withdrawals) + 1]
  /\ slips' = [slips EXCEPT
       !.overtaken = {u \in Api \ {t} : Checked(u)},
       !.raced     = @ \cup {i \in {Len(withdrawals) + 1} : t \in slips.overtaken}]
  /\ UNCHANGED <<redemptions, outside, scan, missed, events>>

\* insert_redemption, of a request or of the worker: a conflict ends it.
InsertRedemption(t) ==
  /\ task[t].pc = "checked" /\ task[t].call.kind = "redeem"
  /\ LET c == task[t].call.cond  w == task[t].wallet IN
     IF Exists(c, w)
     THEN task' = [task EXCEPT ![t] = Idle] /\ UNCHANGED redemptions
     ELSE /\ redemptions' = Append(redemptions, [cond |-> c, wallet |-> w,
               status |-> "pending", attempts |-> 0, retry |-> FALSE])
          /\ task' = [task EXCEPT ![t].pc = "ready", ![t].call.row = Len(redemptions) + 1]
  /\ UNCHANGED <<withdrawals, outside, scan, missed, slips, events>>

-----------------------------------------------------------------------------
\* The venue adapter: withdraw, redeem, merge

\* GET /nonce, and the signature.
Sign(t) ==
  /\ task[t].pc = "ready"
  /\ task' = [task EXCEPT ![t].pc = "signed", ![t].nonce = chain[task[t].wallet].nonce]
  /\ UNCHANGED <<tables, outside, scan, missed, slips, events>>

\* The key cannot be decrypted, or no nonce is to be had.
SignErr(t) ==
  /\ task[t].pc = "ready" /\ Event
  /\ Goto(t, "err")
  /\ UNCHANGED <<tables, outside, scan, missed, slips>>

Batch(t, hash) == [call |-> task[t].call, wallet |-> task[t].wallet, nonce |-> task[t].nonce,
                   state |-> "sent", hash |-> hash]

\* POST /submit; the answer may already carry a transaction hash.
Submit(t) ==
  /\ task[t].pc = "signed"
  /\ \/ relay' = Append(relay, Batch(t, FALSE)) /\ UNCHANGED events
     \/ relay' = Append(relay, Batch(t, TRUE)) /\ Event
  /\ task' = [task EXCEPT ![t].pc = "polling", ![t].tx = Len(relay) + 1]
  /\ UNCHANGED <<tables, closed, untimed, clear, wallet, chain, scan, missed, slips>>

\* An error, although the relayer may have the batch.
SubmitErr(t) ==
  /\ task[t].pc = "signed" /\ Event
  /\ \/ UNCHANGED <<relay, slips>>
     \/ /\ relay' = Append(relay, Batch(t, FALSE))
        /\ slips' = [slips EXCEPT !.unsure =
             @ \cup {i \in {task[t].call.row} : task[t].call.kind = "transfer"}]
  /\ Goto(t, "err")
  /\ UNCHANGED <<tables, closed, untimed, clear, wallet, chain, scan, missed>>

\* Mutant: a submitted batch counts as mined.
PollSubmitted(t) ==
  /\ task[t].pc = "polling"
  /\ Goto(t, "hash")
  /\ UNCHANGED <<tables, outside, scan, missed, slips, events>>

\* poll_confirmed: whatever it says, the call is a success; with a hash if the
\* batch was mined, or if the first answer had one.
Poll(t) ==
  /\ task[t].pc = "polling"
  /\ LET b == relay[task[t].tx] IN
     \/ b.state = "mined" /\ Goto(t, "hash")
     \/ b.hash /\ Goto(t, "hash")
     \/ ~b.hash /\ Goto(t, "ok")
  /\ UNCHANGED <<tables, outside, scan, missed, slips, events>>

-----------------------------------------------------------------------------
\* What comes of it

\* Mutant: a batch that is not confirmed in time has timed out.
StatusTimeout(pc) == CASE pc = "hash" -> "mined" [] pc = "ok" -> "timeout" [] pc = "err" -> "failed"

Status(pc) == CASE pc = "hash" -> "mined" [] pc = "ok" -> "pending" [] pc = "err" -> "failed"

\* Mutant: the attempt is not counted.
TriedForEver(row) == [row EXCEPT !.status = "failed", !.retry = row.attempts + 1 < MaxAttempts]

\* mark_redemption_retry_failed
Tried(row) == [row EXCEPT !.status = "failed", !.attempts = @ + 1,
                          !.retry = row.attempts + 1 < MaxAttempts]

\* update_withdrawal_status, update_redemption_status; the worker counts a
\* failure with mark_redemption_retry_failed.
Write(t) ==
  /\ task[t].pc \in {"ok", "hash", "err"}
  /\ LET call == task[t].call  status == Status(task[t].pc) IN
     /\ withdrawals' = IF call.kind = "transfer"
          THEN [withdrawals EXCEPT ![call.row].status = status] ELSE withdrawals
     /\ redemptions' = IF call.kind = "redeem"
          THEN [redemptions EXCEPT ![call.row] =
                  IF t = Worker /\ status = "failed" THEN Tried(@) ELSE [@ EXCEPT !.status = status]]
          ELSE redemptions
  /\ task' = [task EXCEPT ![t] = Idle]
  /\ UNCHANGED <<outside, scan, missed, slips, events>>

Missed(t) == IF t = Worker /\ task[t].pc = "checked" THEN missed \cup {task[t].call.cond}
             ELSE missed

\* A row that cannot be inserted, or cannot be updated: the request ends.
WriteErr(t) ==
  /\ task[t].pc \in {"checked", "ok", "hash", "err"} /\ Event
  /\ task'   = [task EXCEPT ![t] = Idle]
  /\ missed' = Missed(t)
  /\ UNCHANGED <<tables, outside, scan, slips>>

-----------------------------------------------------------------------------
\* The redeem worker

Retryable == {i \in DOMAIN redemptions : redemptions[i].status = "failed" /\ redemptions[i].retry}

\* list_resolved_markets: newer than the cursor, or everything if there is none
\* yet; what has no resolved_at comes last.
Late        == IF scan.cursor = 0 THEN untimed ELSE {}
Due         == (scan.cursor + 1 .. closed) \cup Late
Scan        == [cursor |-> scan.cursor, upto |-> closed, on |-> TRUE, retries |-> Retryable,
                late |-> Late, markets |-> [i \in 1 .. closed - scan.cursor |-> scan.cursor + i]]

\* Mutant: without new markets there is nothing to do.
TickNewOnly ==
  /\ ~scan.on /\ Due # {}
  /\ scan' = Scan
  /\ UNCHANGED <<tables, outside, task, missed, slips, events>>

\* list_resolved_markets, list_retryable_failed_redemptions
Tick ==
  /\ ~scan.on /\ (Retryable # {} \/ Due # {})
  /\ scan' = Scan
  /\ UNCHANGED <<tables, outside, task, missed, slips, events>>

Other(i) == \E j \in DOMAIN redemptions \ {i} :
  Active(j) /\ redemptions[j].cond = redemptions[i].cond /\ redemptions[j].wallet = redemptions[i].wallet

SetStatus(i, status) == redemptions' = [redemptions EXCEPT ![i].status = status]

\* retry_one_redemption, with the present credential: the balance decides
\* whether the row is mined or tried again; either is refused when another row
\* is active.
Retry(i) ==
  /\ scan.on /\ task[Worker].pc = "idle" /\ i \in scan.retries
  /\ scan' = [scan EXCEPT !.retries = @ \ {i}]
  /\ LET c == redemptions[i].cond IN
     \/ Event /\ UNCHANGED <<redemptions, task>>
     \/ Other(i) /\ UNCHANGED <<redemptions, task, events>>
     \/ /\ ~Other(i) /\ chain[wallet].win[c] = 0
        /\ SetStatus(i, "mined")
        /\ UNCHANGED <<task, events>>
     \/ /\ ~Other(i) /\ chain[wallet].win[c] > 0
        /\ SetStatus(i, "pending")
        /\ Call(Worker, "ready", [Redeem(c, chain[wallet].win[c]) EXCEPT !.row = i])
        /\ UNCHANGED events
  /\ UNCHANGED <<withdrawals, outside, missed, slips>>

\* The next market of the scan.
Takes(c) ==
  \/ /\ scan.markets # <<>> /\ c = Head(scan.markets)
     /\ scan' = [scan EXCEPT !.markets = Tail(@)]
  \/ /\ scan.markets = <<>> /\ c \in scan.late
     /\ scan' = [scan EXCEPT !.late = @ \ {c}]

\* One market of the scan, up to insert_redemption.  An unclear outcome and an
\* error leave it behind.
Market == \E c \in Conds :
  /\ scan.on /\ task[Worker].pc = "idle" /\ scan.retries = {}
  /\ Takes(c)
  /\ LET n == chain[wallet].win[c] IN
     \/ c \notin clear /\ missed' = missed \cup {c} /\ UNCHANGED <<task, events>>
     \/ c \in clear /\ Event /\ missed' = missed \cup {c} /\ UNCHANGED task
     \/ /\ c \in clear /\ (Exists(c, wallet) \/ n = 0)
        /\ UNCHANGED <<task, missed, events>>
     \/ /\ c \in clear /\ ~Exists(c, wallet) /\ n > 0
        /\ Call(Worker, "checked", Redeem(c, n))
        /\ UNCHANGED <<missed, events>>
  /\ UNCHANGED <<tables, outside, slips>>

Scanned == /\ scan.on /\ task[Worker].pc = "idle"
           /\ scan.retries = {} /\ scan.markets = <<>> /\ scan.late = {}

\* Mutant: the cursor is set to the newest market there is by now.
TickEndNow ==
  /\ Scanned
  /\ scan' = [NoScan EXCEPT !.cursor = closed]
  /\ UNCHANGED <<tables, outside, task, missed, slips, events>>

\* The cursor moves to the newest market of the scan; there is still none if
\* no market had a resolved_at.
TickEnd ==
  /\ Scanned
  /\ scan' = [NoScan EXCEPT !.cursor = scan.upto]
  /\ UNCHANGED <<tables, outside, task, missed, slips, events>>

\* The copier dies; the cursor was in memory.
Crash ==
  /\ Event
  /\ task'   = [t \in Tasks |-> Idle]
  /\ scan'   = NoScan
  /\ missed' = {}
  /\ UNCHANGED <<tables, outside, slips>>

-----------------------------------------------------------------------------
\* The chain, the relayer, the markets and the user

Executes(b) ==
  /\ b.nonce = chain[b.wallet].nonce
  /\ b.call.kind \in {"transfer", "move"} => b.call.amount <= chain[b.wallet].cash
  /\ b.call.kind = "merge" => /\ b.call.amount <= chain[b.wallet].win[b.call.cond]
                              /\ b.call.amount <= chain[b.wallet].lose[b.call.cond]

After(w, call) ==
  LET a == [w EXCEPT !.nonce = @ + 1] IN
  CASE call.kind \in {"transfer", "move"} -> [a EXCEPT !.cash = @ - call.amount]
    [] call.kind = "redeem"   -> [a EXCEPT !.cash = @ + w.win[call.cond],
                                           !.win[call.cond] = 0, !.lose[call.cond] = 0]
    [] call.kind = "merge"    -> [a EXCEPT !.cash = @ + call.amount,
                                           !.win[call.cond] = @ - call.amount,
                                           !.lose[call.cond] = @ - call.amount]

Mine(i) ==
  /\ relay[i].state = "sent" /\ Executes(relay[i])
  /\ relay' = [relay EXCEPT ![i].state = "mined"]
  /\ chain' = [w \in Wallets |->
       IF w = relay[i].wallet THEN After(chain[w], relay[i].call)
       ELSE IF w = wallet /\ relay[i].call.kind = "move"
            THEN [chain[w] EXCEPT !.cash = @ + relay[i].call.amount] ELSE chain[w]]
  /\ UNCHANGED <<tables, closed, untimed, clear, wallet, task, scan, missed, slips, events>>

\* Reverted, or past its deadline.  A batch whose nonce has been used fails too,
\* and is as dead without it.
Drop(i) ==
  /\ relay[i].state = "sent" /\ relay[i].nonce >= chain[relay[i].wallet].nonce
  /\ relay' = [relay EXCEPT ![i].state = "failed"]
  /\ IF Executes(relay[i]) THEN Event ELSE UNCHANGED events
  /\ UNCHANGED <<tables, closed, untimed, clear, wallet, chain, task, scan, missed, slips>>

\* upsert_raw_market: a market that is stored is closed for good, now.  The
\* outcome may follow later.
Close ==
  /\ closed < MaxConds
  /\ closed' = closed + 1 /\ untimed' = untimed \ {closed'}
  /\ \/ clear' = clear \cup {closed'} /\ UNCHANGED events
     \/ Event /\ UNCHANGED clear
  /\ UNCHANGED <<tables, wallet, chain, relay, task, scan, missed, slips>>

\* A market that is new to the table is closed already: only an update writes
\* resolved_at.
InsertClosed(c) ==
  /\ c > closed /\ c \notin untimed /\ Event
  /\ untimed' = untimed \cup {c}
  /\ clear' \in {clear, clear \cup {c}}
  /\ UNCHANGED <<tables, closed, wallet, chain, relay, task, scan, missed, slips>>

Clarify(c) ==
  /\ c \in (1 .. closed \cup untimed) \ clear
  /\ clear' = clear \cup {c}
  /\ UNCHANGED <<tables, closed, untimed, wallet, chain, relay, task, scan, missed, slips, events>>

DayPasses ==
  /\ \E i \in DOMAIN withdrawals : withdrawals[i].today
  /\ withdrawals' = [i \in DOMAIN withdrawals |-> [withdrawals[i] EXCEPT !.today = FALSE]]
  /\ Event
  /\ UNCHANGED <<redemptions, outside, task, scan, missed, slips>>

\* The account service replaces the credential by one with a fresh wallet.
Migrate(w) ==
  /\ wallet = FirstWallet /\ w # FirstWallet
  /\ wallet' = w /\ Event
  /\ UNCHANGED <<tables, closed, untimed, clear, chain, relay, task, scan, missed, slips>>

Init ==
  /\ withdrawals = <<>> /\ redemptions = <<>>
  /\ closed = 0 /\ untimed = {} /\ clear = {}
  /\ wallet = FirstWallet
  /\ chain = [w \in Wallets |->
       LET n == IF w = FirstWallet THEN Shares ELSE 0 IN
       [cash |-> IF w = FirstWallet THEN Cash ELSE 0, nonce |-> 0,
        win |-> [c \in Conds |-> n], lose |-> [c \in Conds |-> n]]]
  /\ relay = <<>>
  /\ task = [t \in Tasks |-> Idle]
  /\ scan = NoScan
  /\ missed = {} /\ slips = NoSlips
  /\ events = 0

\* What a request or the worker does next, errors aside.
Proceed(t) == InsertWithdrawal(t) \/ InsertRedemption(t) \/ Sign(t) \/ Submit(t) \/ Poll(t) \/ Write(t)

WorkerStep == Proceed(Worker) \/ Tick \/ Market \/ TickEnd \/ \E i \in scan.retries : Retry(i)

Next ==
  \/ WorkerStep
  \/ \E t \in Api : Withdraw(t) \/ Proceed(t)
  \/ \E t \in Api \ Tellers : \/ RedeemByHand(t) \/ MergeByHand(t)
                             \/ RedeemArchive(t) \/ MigrateArchive(t)
  \/ \E t \in Tasks : SignErr(t) \/ SubmitErr(t) \/ WriteErr(t)
  \/ Crash
  \/ \E i \in DOMAIN relay : Mine(i) \/ Drop(i)
  \/ Close \/ \E c \in Conds : InsertClosed(c) \/ Clarify(c)
  \/ DayPasses
  \/ \E w \in Wallets : Migrate(w)

Fairness == WF_vars(WorkerStep)

Spec     == Init /\ [][Next]_vars
FairSpec == Spec /\ Fairness

-----------------------------------------------------------------------------
\* Properties

TypeOK ==
  /\ withdrawals \in Seq(Withdrawals) /\ redemptions \in Seq(Redemptions)
  /\ closed \in 0 .. MaxConds /\ untimed \subseteq closed + 1 .. MaxConds
  /\ clear \subseteq 1 .. closed \cup untimed /\ missed \subseteq Conds /\ slips \in Slips
  /\ wallet \in Wallets /\ relay \in Seq(Batches)
  /\ chain \in [Wallets -> Holdings]
  /\ task \in [Tasks -> Locals] /\ scan \in Scans
  /\ events \in 0 .. MaxEvents

BatchesOf(kind, i) == {b \in DOMAIN relay : relay[b].call.kind = kind /\ relay[b].call.row = i}

\* What the chain pays out for the withdrawals of one day stays within the
\* daily limit, however many requests there are and however late batches are
\* mined, but for two kinds of rows: one that was inserted after another was,
\* since its own check; and one that says failed because an error was the
\* relayer's answer to a batch it took.  No other row is paid unseen.
DailyLimitHolds ==
  SumFunctionOnSet(Withdrawn,
    {i \in DOMAIN withdrawals : /\ withdrawals[i].today
       /\ i \notin slips.raced \cup slips.unsure
       /\ \E b \in BatchesOf("transfer", i) : relay[b].state = "mined"}) <= DailyMax

Happened(kind, i) == \E b \in BatchesOf(kind, i) : relay[b].state = "mined" \/ relay[b].hash

\* A row that says "mined" is true: the chain has executed its batch, or there
\* is nothing left to redeem.  A hash in the relayer's first answer is taken
\* for confirmation, and a retry after a migration looks at the wrong wallet.
MinedIsTrue ==
  /\ \A i \in DOMAIN withdrawals :
       withdrawals[i].status = "mined" => Happened("transfer", i)
  /\ \A i \in DOMAIN redemptions : redemptions[i].status = "mined" =>
       \/ Happened("redeem", i)
       \/ chain[redemptions[i].wallet].win[redemptions[i].cond] = 0
       \/ redemptions[i].wallet # wallet

\* A redemption is handed to the relayer a bounded number of times, whatever
\* crashes and errors come in between.
RetriesAreBounded == \A i \in DOMAIN redemptions :
  Cardinality(BatchesOf("redeem", i)) <= MaxAttempts

\* A closed market that is left unredeemed and is not listed any more has a row
\* that says why, or was left behind by an error or an unclear outcome, or has
\* no resolved_at, which no cursor finds.  Nothing else slips.
NothingElseIsLeft == \A c \in (1 .. closed \cup untimed) \ Due :
  wallet = FirstWallet /\ chain[wallet].win[c] > 0 =>
    \/ c \in missed \/ c \in untimed
    \/ \E r \in DOMAIN redemptions : redemptions[r].cond = c

\* Neither too often nor never: a batch is bounded, and what is left is left for a known reason.
RedemptionsAreKept == RetriesAreBounded /\ NothingElseIsLeft

\* A resolved position is redeemed in the end, or waits for somebody: in a row
\* that is not tried again (pending, mined by hearsay, or out of attempts),
\* behind the cursor, or without a resolved_at once there is a cursor.
RedeemedInTheEnd == \A c \in Conds :
  (c \in clear) ~>
    \/ chain[wallet].win[c] = 0 \/ c \in missed
    \/ c \in untimed /\ scan.cursor > 0
    \/ \E i \in DOMAIN redemptions : redemptions[i].cond = c /\ i \notin Retryable
=============================================================================
