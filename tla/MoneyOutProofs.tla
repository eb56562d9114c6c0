---------------------------- MODULE MoneyOutProofs ----------------------------
(***************************************************************************)
(* The rows of the money that leaves: a row that says mined is true, a     *)
(* redemption is handed to the relayer at most MaxAttempts times, and the  *)
(* worker's cursor leaves nothing behind without a known reason: for any   *)
(* number of requests, wallets, markets, attempts and faults.  What the    *)
(* chain pays out in a day keeps the limit, but for rows that overtake one *)
(* another and rows the relayer took with an error.                        *)
(***************************************************************************)
EXTENDS MoneyOut, SumLemmas, FiniteSetTheorems, SequenceTheorems, TLAPS

\* A task that works on the redemption i.
Steps      == {"ready", "signed", "polling", "ok", "hash", "err"}
Holds(t, i) == task[t].pc \in Steps /\ task[t].call.kind = "redeem" /\ task[t].call.row = i

\* The market of a redeem or merge is one, and so is the row of a withdrawal.
CallOK(c) ==
  /\ c \in Calls
  /\ c.kind \in {"redeem", "merge"} => c.cond \in Conds
  /\ c.kind = "transfer" => c.amount \in Amounts

\* What a task has in hand follows from where it is.
TaskOK(t) ==
  /\ task[t].pc # "idle" => CallOK(task[t].call) /\ task[t].wallet \in {FirstWallet, wallet}
  /\ task[t].pc = "checked" => task[t].call.kind \in {"transfer", "redeem"}
  /\ task[t].pc \in Steps /\ task[t].call.kind = "transfer" =>
       task[t].call.row \in 1 .. Len(withdrawals)
  /\ task[t].pc = "polling" =>
       task[t].tx \in 1 .. Len(relay) /\ relay[task[t].tx].call = task[t].call
  /\ task[t].pc = "hash" /\ task[t].call.kind \in {"transfer", "redeem"} =>
       Happened(task[t].call.kind, task[t].call.row)
TasksOK == \A t \in Tasks : TaskOK(t)

\* A batch is of a row that is there.
RelayOK == \A b \in 1 .. Len(relay) :
  /\ CallOK(relay[b].call)
  /\ relay[b].call.kind = "redeem" => relay[b].call.row \in 1 .. Len(redemptions)

\* A row is of the present wallet or of the first one.
RowsOK == \A i \in 1 .. Len(redemptions) : redemptions[i].wallet \in {FirstWallet, wallet}

\* One task at most works on a redemption; what has been sent of it is
\* counted, or is the attempt under way.
HoldersOK == \A t \in Tasks, i \in Nat : Holds(t, i) =>
  /\ i \in 1 .. Len(redemptions) /\ redemptions[i].status = "pending"
  /\ t \in Api => ~redemptions[i].retry
  /\ redemptions[i].attempts < MaxAttempts
  /\ Cardinality(BatchesOf("redeem", i)) <=
       redemptions[i].attempts + (IF task[t].pc \in {"ready", "signed"} THEN 0 ELSE 1)
  /\ \A u \in Tasks \ {t} : ~Holds(u, i)
AttemptsOK == \A i \in 1 .. Len(redemptions) :
  /\ redemptions[i].retry => redemptions[i].attempts < MaxAttempts
  /\ Cardinality(BatchesOf("redeem", i)) <= MaxAttempts
  /\ redemptions[i].retry /\ redemptions[i].status = "failed" =>
       Cardinality(BatchesOf("redeem", i)) <= redemptions[i].attempts

\* The scan: what is left of it is the newest part of the interval, and what
\* has no resolved_at, if there is no cursor yet.
Reached == IF scan.on THEN scan.upto - Len(scan.markets) ELSE scan.cursor
ScanOK ==
  /\ scan.retries \subseteq Retryable
  /\ ~scan.on => scan.retries = {} /\ task[Worker].pc = "idle"
  /\ scan.on => /\ scan.upto <= closed /\ scan.cursor <= Reached
                /\ \A j \in 1 .. Len(scan.markets) : scan.markets[j] = Reached + j
  /\ scan.cursor <= closed /\ Reached \in Nat
  /\ scan.late # {} => scan.on /\ scan.cursor = 0
  /\ task[Worker].pc = "checked" => /\ task[Worker].call.kind = "redeem"
                                    /\ task[Worker].call.cond > scan.cursor

\* What the scan has reached is done, or left for a reason.
ReachedOK == wallet = FirstWallet => \A c \in 1 .. Reached : chain[wallet].win[c] > 0 =>
  \/ c \in missed
  \/ \E r \in 1 .. Len(redemptions) : redemptions[r].cond = c
  \/ task[Worker].pc = "checked" /\ task[Worker].call.cond = c

TrueInv == TypeOK /\ TasksOK /\ RelayOK /\ RowsOK /\ MinedIsTrue
KeptInv == HoldersOK /\ AttemptsOK /\ ScanOK /\ ReachedOK

-----------------------------------------------------------------------------
\* Lemmas

\* The rows, the batches and the tasks, one by one.
LEMMA TablesAre ==
  ASSUME TypeOK
  PROVE  /\ Len(withdrawals) \in Nat /\ DOMAIN withdrawals = 1 .. Len(withdrawals)
         /\ \A i \in 1 .. Len(withdrawals) : withdrawals[i] \in Withdrawals
         /\ Len(redemptions) \in Nat /\ DOMAIN redemptions = 1 .. Len(redemptions)
         /\ \A i \in 1 .. Len(redemptions) : redemptions[i] \in Redemptions
         /\ Len(relay) \in Nat /\ DOMAIN relay = 1 .. Len(relay)
         /\ \A b \in 1 .. Len(relay) : relay[b] \in Batches
<1>1. withdrawals \in Seq(Withdrawals) /\ redemptions \in Seq(Redemptions) /\ relay \in Seq(Batches)
  BY DEF TypeOK
<1> QED
  BY <1>1, LenProperties, ElementOfSeq

\* Markets that are closed are markets.
LEMMA ClearIs ==
  ASSUME TypeOK
  PROVE  /\ closed \in Nat /\ closed <= MaxConds /\ MaxConds \in Nat
         /\ untimed \subseteq Conds /\ clear \subseteq Conds
BY MoneyAssumption DEF TypeOK, Conds

LEMMA TaskIs ==
  ASSUME TypeOK, NEW t \in Tasks
  PROVE  /\ task[t] \in Locals /\ task \in [Tasks -> Locals]
         /\ task[t].pc \in {"idle", "checked", "ready", "signed", "polling", "ok", "hash", "err"}
         /\ task[t].call \in Calls \cup {None} /\ task[t].wallet \in Wallets \cup {None}
         /\ task[t].nonce \in Nat /\ task[t].tx \in Nat
BY DEF TypeOK, Locals

LEMMA IdleIs == Idle \in Locals /\ Idle.pc = "idle"
BY DEF Idle, Locals

\* One fault less to come, or none.
LEMMA EventStep ==
  ASSUME TypeOK, UNCHANGED events \/ Event
  PROVE  events' \in 0 .. MaxEvents
BY MoneyAssumption DEF TypeOK, Event

LEMMA GotoStep ==
  ASSUME TypeOK, NEW t \in Tasks, NEW pc \in {"ok", "hash", "err"}, Goto(t, pc)
  PROVE  /\ task' \in [Tasks -> Locals] /\ \A u \in Tasks \ {t} : task'[u] = task[u]
         /\ task'[t].pc = pc /\ task'[t].call = task[t].call /\ task'[t].wallet = task[t].wallet
<1> DEFINE new == [[[task[t] EXCEPT !.pc = pc] EXCEPT !.nonce = 0] EXCEPT !.tx = 0]
<1>1. /\ new \in Locals /\ new.pc = pc /\ new.call = task[t].call /\ new.wallet = task[t].wallet
  BY TaskIs DEF Locals
<1>2. task' = [task EXCEPT ![t] = new]
  BY TaskIs DEF Goto
<1> HIDE DEF new
<1> QED
  BY <1>1, <1>2, TaskIs

LEMMA CallStep ==
  ASSUME TypeOK, NEW w \in Wallets, NEW t \in Tasks, NEW pc \in {"checked", "ready"}, NEW c \in Calls,
         CallOn(w, t, pc, c)
  PROVE  /\ task' \in [Tasks -> Locals] /\ \A u \in Tasks \ {t} : task'[u] = task[u]
         /\ task'[t].pc = pc /\ task'[t].call = c /\ task'[t].wallet = w
<1> DEFINE new == [Idle EXCEPT !.pc = pc, !.call = c, !.wallet = w]
<1>1. new \in Locals /\ new.pc = pc /\ new.call = c /\ new.wallet = w
  BY DEF Idle, Locals
<1>2. task' = [task EXCEPT ![t] = new]
  BY DEF CallOn
<1> HIDE DEF new
<1> QED
  BY <1>1, <1>2, TaskIs

LEMMA IdleStep ==
  ASSUME TypeOK, NEW t \in Tasks, task' = [task EXCEPT ![t] = Idle]
  PROVE  /\ task' \in [Tasks -> Locals] /\ \A u \in Tasks \ {t} : task'[u] = task[u]
         /\ task'[t].pc = "idle"
BY IdleIs, TaskIs

\* The calls that are made.
LEMMA CallsAre ==
  ASSUME TypeOK
  PROVE  /\ \A n \in Amounts : CallOK(Transfer(n)) /\ Transfer(n).kind = "transfer" /\ Transfer(n).amount = n
         /\ \A n \in Nat : CallOK(Move(n)) /\ Move(n).kind = "move"
         /\ \A c \in Conds, n \in Nat : /\ CallOK(Merge(c, n)) /\ Merge(c, n).kind = "merge"
                                        /\ CallOK(Redeem(c, n)) /\ Redeem(c, n).kind = "redeem"
                                        /\ Redeem(c, n).cond = c
BY MoneyAssumption DEF CallOK, Calls, Transfer, Move, Merge, Redeem

\* A new batch is the last one.
LEMMA AppendBatch ==
  ASSUME TypeOK, NEW b \in Batches, relay' = Append(relay, b)
  PROVE  /\ relay' \in Seq(Batches) /\ Len(relay') = Len(relay) + 1
         /\ \A j \in 1 .. Len(relay) : relay'[j] = relay[j]
         /\ relay'[Len(relay) + 1] = b
BY AppendProperties DEF TypeOK

\* What has happened stays so, while batches are added and change their state
\* for good.
RelayGrows ==
  /\ Len(relay) <= Len(relay')
  /\ \A b \in 1 .. Len(relay) :
       /\ relay'[b].call = relay[b].call /\ relay'[b].hash = relay[b].hash
       /\ relay[b].state = "mined" => relay'[b].state = "mined"

LEMMA HappenedStays ==
  ASSUME TypeOK, TypeOK', RelayGrows, NEW kind, NEW i, Happened(kind, i)
  PROVE  Happened(kind, i)'
<1>1. DOMAIN relay = 1 .. Len(relay) /\ DOMAIN relay' = 1 .. Len(relay') /\ Len(relay) \in Nat /\ Len(relay') \in Nat
  BY TablesAre DEF TypeOK
<1>2. PICK b \in 1 .. Len(relay) : /\ relay[b].call.kind = kind /\ relay[b].call.row = i
                                   /\ relay[b].state = "mined" \/ relay[b].hash
  BY <1>1 DEF Happened, BatchesOf
<1>3. b \in DOMAIN relay' /\ relay'[b].call.kind = kind /\ relay'[b].call.row = i
      /\ (relay'[b].state = "mined" \/ relay'[b].hash)
  BY <1>1, <1>2 DEF RelayGrows
<1> QED
  BY <1>3 DEF Happened, BatchesOf

LEMMA RelaySame == ASSUME TypeOK, UNCHANGED relay PROVE RelayGrows
BY TablesAre DEF RelayGrows

\* A task that does not move.
LEMMA TaskStays ==
  ASSUME TypeOK, TypeOK', RelayGrows, NEW t \in Tasks, TaskOK(t), task'[t] = task[t],
         wallet' = wallet \/ wallet = FirstWallet, Len(withdrawals) <= Len(withdrawals')
  PROVE  TaskOK(t)'
<1>1. Len(withdrawals) \in Nat /\ Len(withdrawals') \in Nat /\ Len(relay) \in Nat /\ Len(relay') \in Nat
  BY TablesAre, LenProperties DEF TypeOK
<1>2. \A i \in 1 .. Len(withdrawals) : i \in 1 .. Len(withdrawals')
  BY <1>1
<1>3. \A b \in 1 .. Len(relay) : b \in 1 .. Len(relay') /\ relay'[b].call = relay[b].call
  BY <1>1 DEF RelayGrows
<1>4. ASSUME task[t].pc = "hash", task[t].call.kind \in {"transfer", "redeem"}
      PROVE  Happened(task[t].call.kind, task[t].call.row)'
  <2> DEFINE kind == task[t].call.kind
             row  == task[t].call.row
  <2>1. Happened(kind, row)
    BY <1>4 DEF TaskOK
  <2>2. kind' = kind /\ row' = row
    OBVIOUS
  <2> HIDE DEF kind, row
  <2>3. \E b \in DOMAIN relay' : /\ relay'[b].call.kind = kind /\ relay'[b].call.row = row
                                 /\ relay'[b].state = "mined" \/ relay'[b].hash
    <3>1. PICK b \in 1 .. Len(relay) : /\ relay[b].call.kind = kind /\ relay[b].call.row = row
                                       /\ relay[b].state = "mined" \/ relay[b].hash
      BY <2>1, TablesAre DEF Happened, BatchesOf
    <3>2. b \in DOMAIN relay'
      BY <1>3, LenProperties DEF TypeOK
    <3> QED
      BY <3>1, <3>2 DEF RelayGrows
  <2> QED
    BY <2>2, <2>3 DEF Happened, BatchesOf, kind, row
<1> QED
  BY <1>2, <1>3, <1>4 DEF TaskOK, CallOK

-----------------------------------------------------------------------------
\* Mined is true

\* A step of one task that leaves the rest alone, or only counts.
LEMMA TrueTask ==
  ASSUME TrueInv, NEW t \in Tasks, UNCHANGED <<tables, outside>>,
         task' \in [Tasks -> Locals], \A u \in Tasks \ {t} : task'[u] = task[u],
         scan' \in Scans, missed' \subseteq Conds, events' \in 0 .. MaxEvents, slips' \in Slips, TaskOK(t)'
  PROVE  TrueInv'
<1> USE DEF TrueInv
<1>1. TypeOK'
  BY DEF TypeOK, tables, outside
<1>2. ASSUME NEW u \in Tasks PROVE TaskOK(u)'
  <2>1. CASE u = t
    BY <2>1
  <2>2. CASE u # t
    <3>1. UNCHANGED <<relay, withdrawals, wallet>> /\ task'[u] = task[u] /\ TaskOK(u)
      BY <2>2 DEF tables, outside, TasksOK
    <3>2. Len(withdrawals) <= Len(withdrawals')
      BY <3>1, TablesAre
    <3> QED
      BY <1>1, <3>1, <3>2, RelaySame, TaskStays
  <2> QED
    BY <2>1, <2>2
<1>3. RelayOK' /\ RowsOK' /\ MinedIsTrue'
  BY DEF RelayOK, CallOK, RowsOK, MinedIsTrue, Happened, BatchesOf, tables, outside
<1> QED
  BY <1>1, <1>2, <1>3 DEF TasksOK

\* Requests that only read.
LEMMA AskingIs ==
  ASSUME TrueInv, NEW t \in Api,
         \/ Withdraw(t) \/ RedeemByHand(t) \/ MergeByHand(t) \/ RedeemArchive(t) \/ MigrateArchive(t)
  PROVE  /\ t \in Tasks /\ UNCHANGED <<tables, outside, scan, missed>> /\ events' \in 0 .. MaxEvents
         /\ task' \in [Tasks -> Locals] /\ \A u \in Tasks \ {t} : task'[u] = task[u]
         /\ CallOK(task'[t].call) /\ task'[t].wallet \in {FirstWallet, wallet}
         /\ \/ task'[t].pc = "checked" /\ task'[t].call.kind \in {"transfer", "redeem"}
            \/ task'[t].pc = "ready" /\ task'[t].call.kind \in {"merge", "move"}
<1> USE DEF TrueInv
<1>1. t \in Tasks /\ UNCHANGED <<tables, outside, scan, missed>> /\ events' \in 0 .. MaxEvents
  BY EventStep DEF Withdraw, RedeemByHand, MergeByHand, RedeemArchive, MigrateArchive, Ask, Tasks
<1>2. \A w \in Wallets, c \in clear : c \in Conds /\ chain[w] \in Holdings /\ chain[w].win[c] \in Nat
  <2> QED
    BY ClearIs DEF TypeOK, Holdings
<1>3. \E c \in Calls, pc \in {"checked", "ready"}, w \in {FirstWallet, wallet} :
        /\ CallOn(w, t, pc, c) /\ CallOK(c)
        /\ \/ pc = "checked" /\ c.kind \in {"transfer", "redeem"}
           \/ pc = "ready" /\ c.kind \in {"merge", "move"}
  <2>1. CASE Withdraw(t)
    <3>1. PICK n \in Amounts : CallOn(wallet, t, "checked", Transfer(n))
      BY <2>1 DEF Withdraw, Call
    <3> QED
      BY <3>1, CallsAre DEF CallOK
  <2>2. CASE RedeemByHand(t)
    <3>1. PICK c \in ListRedeemable : CallOn(wallet, t, "checked", Redeem(c, chain[wallet].win[c]))
      BY <2>2 DEF RedeemByHand, Call
    <3>2. c \in Conds /\ chain[wallet].win[c] \in Nat
      BY <1>2 DEF ListRedeemable, Redeemable, TypeOK
    <3> QED
      BY <3>1, <3>2, CallsAre DEF CallOK
  <2>3. CASE MergeByHand(t)
    <3>1. PICK c \in Conds, n \in Amounts : CallOn(wallet, t, "ready", Merge(c, n))
      BY <2>3 DEF MergeByHand, Call
    <3> QED
      BY <3>1, CallsAre, MoneyAssumption DEF CallOK
  <2>4. CASE RedeemArchive(t)
    <3>1. PICK c \in ListArchiveRedeemable :
            CallOn(FirstWallet, t, "checked", Redeem(c, chain[FirstWallet].win[c]))
      BY <2>4 DEF RedeemArchive
    <3>2. c \in Conds /\ chain[FirstWallet].win[c] \in Nat
      BY <1>2, MoneyAssumption DEF ListArchiveRedeemable, Redeemable
    <3> QED
      BY <3>1, <3>2, CallsAre DEF CallOK
  <2>5. CASE MigrateArchive(t)
    <3>1. CallOn(FirstWallet, t, "ready", Move(chain[FirstWallet].cash))
      BY <2>5 DEF MigrateArchive
    <3>2. chain[FirstWallet].cash \in Nat
      BY MoneyAssumption DEF TypeOK, Holdings
    <3> QED
      BY <3>1, <3>2, CallsAre DEF CallOK
  <2> QED
    BY <2>1, <2>2, <2>3, <2>4, <2>5
<1>4. PICK c \in Calls, pc \in {"checked", "ready"}, w \in {FirstWallet, wallet} :
        /\ CallOn(w, t, pc, c) /\ CallOK(c)
        /\ \/ pc = "checked" /\ c.kind \in {"transfer", "redeem"}
           \/ pc = "ready" /\ c.kind \in {"merge", "move"}
  BY <1>3
<1>5. /\ task' \in [Tasks -> Locals] /\ \A u \in Tasks \ {t} : task'[u] = task[u]
      /\ task'[t].pc = pc /\ task'[t].call = c /\ task'[t].wallet = w
  BY <1>1, <1>4, CallStep, MoneyAssumption DEF TypeOK
<1> QED
  BY <1>1, <1>4, <1>5

LEMMA TrueAsking ==
  ASSUME TrueInv, slips' \in Slips, NEW t \in Api,
         \/ Withdraw(t) \/ RedeemByHand(t) \/ MergeByHand(t) \/ RedeemArchive(t) \/ MigrateArchive(t)
  PROVE  TrueInv'
<1>1. /\ t \in Tasks /\ UNCHANGED <<tables, outside, scan, missed>> /\ events' \in 0 .. MaxEvents
      /\ task' \in [Tasks -> Locals] /\ \A u \in Tasks \ {t} : task'[u] = task[u]
      /\ CallOK(task'[t].call) /\ task'[t].wallet \in {FirstWallet, wallet}
      /\ \/ task'[t].pc = "checked" /\ task'[t].call.kind \in {"transfer", "redeem"}
         \/ task'[t].pc = "ready" /\ task'[t].call.kind \in {"merge", "move"}
  BY AskingIs
<1>2. UNCHANGED wallet
  BY <1>1 DEF outside
<1>3. TaskOK(t)'
  BY <1>1, <1>2 DEF TaskOK, CallOK, Steps
<1> QED
  BY <1>1, <1>3, TrueTask DEF TrueInv, TypeOK

\* A task gets the row it has inserted.
LEMMA RowStep ==
  ASSUME TypeOK, NEW t \in Tasks, task[t].call \in Calls, NEW n \in Nat,
         task' = [task EXCEPT ![t].pc = "ready", ![t].call.row = n]
  PROVE  /\ task' \in [Tasks -> Locals] /\ \A u \in Tasks \ {t} : task'[u] = task[u]
         /\ task'[t].pc = "ready" /\ task'[t].wallet = task[t].wallet
         /\ task'[t].call \in Calls /\ task'[t].call.row = n
         /\ task'[t].call.kind = task[t].call.kind /\ task'[t].call.cond = task[t].call.cond
         /\ task'[t].call.amount = task[t].call.amount
<1> DEFINE call == [task[t].call EXCEPT !.row = n]
           new  == [[task[t] EXCEPT !.pc = "ready"] EXCEPT !.call = call]
<1>1. /\ call \in Calls /\ call.row = n /\ call.kind = task[t].call.kind
      /\ call.cond = task[t].call.cond /\ call.amount = task[t].call.amount
  BY DEF Calls
<1> HIDE DEF call
<1>2. new \in Locals /\ new.pc = "ready" /\ new.call = call /\ new.wallet = task[t].wallet
  BY <1>1, TaskIs DEF Locals
<1>3. task' = [task EXCEPT ![t] = new]
  BY TaskIs DEF Locals, call
<1> HIDE DEF new
<1> QED
  BY <1>1, <1>2, <1>3, TaskIs

LEMMA TrueInserting ==
  ASSUME TrueInv, slips' \in Slips, NEW t \in Tasks, InsertWithdrawal(t) \/ InsertRedemption(t)
  PROVE  TrueInv'
<1> USE DEF TrueInv
<1>1. /\ task[t].pc = "checked" /\ UNCHANGED <<outside, scan, missed, events>>
      /\ UNCHANGED <<closed, untimed, clear, wallet, chain, relay>>
  BY DEF InsertWithdrawal, Checked, InsertRedemption, outside
<1>2. CallOK(task[t].call) /\ task[t].wallet \in {FirstWallet, wallet} /\ task[t].call \in Calls
  BY <1>1 DEF TasksOK, TaskOK, CallOK
<1>3. RelayGrows
  BY <1>1, RelaySame
<1>4. CASE InsertWithdrawal(t)
  <2> DEFINE row == [amount |-> task[t].call.amount, status |-> "pending", today |-> TRUE]
  <2>1. /\ withdrawals' = Append(withdrawals, row) /\ UNCHANGED redemptions
        /\ task[t].call.kind = "transfer"
        /\ task' = [task EXCEPT ![t].pc = "ready", ![t].call.row = Len(withdrawals) + 1]
    BY <1>4 DEF InsertWithdrawal, Checked
  <2>2. row \in Withdrawals /\ row.status = "pending"
    BY <1>2, <2>1 DEF CallOK, Withdrawals
  <2> HIDE DEF row
  <2>3. /\ withdrawals' \in Seq(Withdrawals) /\ Len(withdrawals') = Len(withdrawals) + 1
        /\ \A i \in 1 .. Len(withdrawals) : withdrawals'[i] = withdrawals[i]
        /\ withdrawals'[Len(withdrawals) + 1] = row
    BY <2>1, <2>2, AppendProperties DEF TypeOK
  <2>4. Len(withdrawals) \in Nat
    BY TablesAre
  <2>5. /\ task' \in [Tasks -> Locals] /\ \A u \in Tasks \ {t} : task'[u] = task[u]
        /\ task'[t].pc = "ready" /\ task'[t].wallet = task[t].wallet
        /\ task'[t].call.row = Len(withdrawals) + 1 /\ CallOK(task'[t].call)
    <3>1. Len(withdrawals) + 1 \in Nat
      BY <2>4
    <3>2. /\ task' \in [Tasks -> Locals] /\ \A u \in Tasks \ {t} : task'[u] = task[u]
          /\ task'[t].pc = "ready" /\ task'[t].wallet = task[t].wallet
          /\ task'[t].call \in Calls /\ task'[t].call.row = Len(withdrawals) + 1
          /\ task'[t].call.kind = task[t].call.kind /\ task'[t].call.cond = task[t].call.cond
          /\ task'[t].call.amount = task[t].call.amount
      BY <1>2, <2>1, <3>1, RowStep
    <3> QED
      BY <1>2, <2>1, <3>2 DEF CallOK
  <2>6. TypeOK'
    BY <1>1, <2>1, <2>3, <2>5 DEF TypeOK
  <2>7. TaskOK(t)'
    BY <1>1, <1>2, <2>3, <2>4, <2>5 DEF TaskOK, CallOK
  <2>8. \A u \in Tasks \ {t} : TaskOK(u)'
    BY <1>1, <1>3, <2>3, <2>4, <2>5, <2>6, TaskStays DEF TasksOK
  <2>9. MinedIsTrue'
    <3>1. DOMAIN withdrawals = 1 .. Len(withdrawals) /\ DOMAIN withdrawals' = 1 .. Len(withdrawals) + 1
      BY <2>3, <2>6, TablesAre, LenProperties DEF TypeOK
    <3>2. ASSUME NEW i \in DOMAIN withdrawals', withdrawals'[i].status = "mined"
          PROVE  Happened("transfer", i)
      <4>1. i \in 1 .. Len(withdrawals)
        BY <2>2, <2>3, <2>4, <3>1, <3>2
      <4> QED
        BY <2>3, <3>1, <3>2, <4>1 DEF MinedIsTrue
    <3> QED
      BY <1>1, <2>1, <3>2 DEF MinedIsTrue, Happened, BatchesOf
  <2>10. RelayOK' /\ RowsOK'
    BY <1>1, <2>1 DEF RelayOK, CallOK, RowsOK
  <2> QED
    BY <2>6, <2>7, <2>8, <2>9, <2>10 DEF TasksOK
<1>5. CASE InsertRedemption(t) /\ task' = [task EXCEPT ![t] = Idle] /\ UNCHANGED redemptions
  <2>1. /\ task' \in [Tasks -> Locals] /\ \A u \in Tasks \ {t} : task'[u] = task[u]
        /\ task'[t].pc = "idle"
    BY <1>5, IdleStep
  <2>2. TaskOK(t)'
    BY <2>1 DEF TaskOK, Steps
  <2> QED
    BY <1>1, <1>5, <2>1, <2>2, TrueTask DEF InsertRedemption, tables, TypeOK
<1>6. CASE InsertRedemption(t) /\ ~(task' = [task EXCEPT ![t] = Idle] /\ UNCHANGED redemptions)
  <2> DEFINE row == [cond |-> task[t].call.cond, wallet |-> task[t].wallet,
                     status |-> "pending", attempts |-> 0, retry |-> FALSE]
  <2>1. /\ redemptions' = Append(redemptions, row) /\ UNCHANGED withdrawals
        /\ task[t].call.kind = "redeem"
        /\ task' = [task EXCEPT ![t].pc = "ready", ![t].call.row = Len(redemptions) + 1]
    BY <1>6 DEF InsertRedemption
  <2>2. row \in Redemptions /\ row.status = "pending" /\ row.wallet \in {FirstWallet, wallet}
    BY <1>2, <2>1, MoneyAssumption DEF CallOK, Redemptions, TypeOK
  <2> HIDE DEF row
  <2>3. /\ redemptions' \in Seq(Redemptions) /\ Len(redemptions') = Len(redemptions) + 1
        /\ \A i \in 1 .. Len(redemptions) : redemptions'[i] = redemptions[i]
        /\ redemptions'[Len(redemptions) + 1] = row
    BY <2>1, <2>2, AppendProperties DEF TypeOK
  <2>4. Len(redemptions) \in Nat
    BY TablesAre
  <2>5. /\ task' \in [Tasks -> Locals] /\ \A u \in Tasks \ {t} : task'[u] = task[u]
        /\ task'[t].pc = "ready" /\ task'[t].wallet = task[t].wallet
        /\ task'[t].call.kind = "redeem" /\ CallOK(task'[t].call)
    <3>1. Len(redemptions) + 1 \in Nat
      BY <2>4
    <3>2. /\ task' \in [Tasks -> Locals] /\ \A u \in Tasks \ {t} : task'[u] = task[u]
          /\ task'[t].pc = "ready" /\ task'[t].wallet = task[t].wallet
          /\ task'[t].call \in Calls /\ task'[t].call.row = Len(redemptions) + 1
          /\ task'[t].call.kind = task[t].call.kind /\ task'[t].call.cond = task[t].call.cond
          /\ task'[t].call.amount = task[t].call.amount
      BY <1>2, <2>1, <3>1, RowStep
    <3> QED
      BY <1>2, <2>1, <3>2 DEF CallOK
  <2>6. TypeOK'
    BY <1>1, <2>1, <2>3, <2>5 DEF TypeOK
  <2>7. TaskOK(t)'
    BY <1>1, <1>2, <2>5 DEF TaskOK
  <2>8. \A u \in Tasks \ {t} : TaskOK(u)'
    BY <1>1, <1>3, <2>1, <2>5, <2>6, TablesAre, TaskStays DEF TasksOK
  <2>9. DOMAIN redemptions = 1 .. Len(redemptions) /\ DOMAIN redemptions' = 1 .. Len(redemptions) + 1
    BY <2>3, <2>6, TablesAre, LenProperties DEF TypeOK
  <2>10. MinedIsTrue'
    <3>1. ASSUME NEW i \in DOMAIN redemptions', redemptions'[i].status = "mined"
          PROVE  i \in DOMAIN redemptions /\ redemptions'[i] = redemptions[i]
      BY <2>2, <2>3, <2>4, <2>9, <3>1
    <3> QED
      BY <1>1, <2>1, <3>1 DEF MinedIsTrue, Happened, BatchesOf
  <2>11. RelayOK'
    BY <1>1, <2>3, <2>4 DEF RelayOK, CallOK
  <2>12. RowsOK'
    BY <1>1, <2>2, <2>3, <2>4 DEF RowsOK
  <2> QED
    BY <2>6, <2>7, <2>8, <2>10, <2>11, <2>12 DEF TasksOK
<1> QED
  BY <1>4, <1>5, <1>6

\* A task on its way to the relayer and back.
LEMMA TrueSigning ==
  ASSUME TrueInv, slips' \in Slips, NEW t \in Tasks, Sign(t) \/ SignErr(t) \/ Poll(t)
  PROVE  TrueInv'
<1> USE DEF TrueInv
<1>1. UNCHANGED <<tables, outside, scan, missed>> /\ events' \in 0 .. MaxEvents
  BY EventStep DEF Sign, SignErr, Poll
<1>2. UNCHANGED <<wallet, withdrawals, relay>>
  BY <1>1 DEF tables, outside
<1>3. task[t].pc \in Steps /\ CallOK(task[t].call) /\ task[t].wallet \in {FirstWallet, wallet}
  BY DEF Sign, SignErr, Poll, Steps, TasksOK, TaskOK
<1>4. /\ task' \in [Tasks -> Locals] /\ \A u \in Tasks \ {t} : task'[u] = task[u]
      /\ task'[t].call = task[t].call /\ task'[t].wallet = task[t].wallet
      /\ task'[t].pc \in {"signed", "err", "ok", "hash"}
      /\ task'[t].pc = "hash" => Poll(t) /\ (relay[task[t].tx].state = "mined" \/ relay[task[t].tx].hash)
  <2>1. CASE Sign(t)
    <3> DEFINE n   == chain[task[t].wallet].nonce
               new == [[task[t] EXCEPT !.pc = "signed"] EXCEPT !.nonce = n]
    <3>1. n \in Nat
      BY <1>3, MoneyAssumption DEF TypeOK, Holdings
    <3>2. task' = [task EXCEPT ![t] = new]
      BY <2>1, TaskIs DEF Sign, Locals
    <3> HIDE DEF n
    <3>3. new \in Locals /\ new.pc = "signed" /\ new.call = task[t].call /\ new.wallet = task[t].wallet
      BY <3>1, TaskIs DEF Locals
    <3> HIDE DEF new
    <3> QED
      BY <3>2, <3>3, TaskIs
  <2>2. CASE SignErr(t)
    BY <2>2, GotoStep DEF SignErr
  <2>3. CASE Poll(t)
    <3>1. \/ Goto(t, "ok")
          \/ Goto(t, "hash") /\ (relay[task[t].tx].state = "mined" \/ relay[task[t].tx].hash)
      BY <2>3 DEF Poll
    <3> QED
      BY <2>3, <3>1, GotoStep
  <2> QED
    BY <2>1, <2>2, <2>3
<1>5. ASSUME task'[t].pc = "hash" PROVE Happened(task[t].call.kind, task[t].call.row)
  <2>1. task[t].tx \in 1 .. Len(relay) /\ relay[task[t].tx].call = task[t].call
    BY <1>4, <1>5 DEF Poll, TasksOK, TaskOK
  <2> QED
    BY <1>4, <1>5, <2>1, TablesAre DEF Happened, BatchesOf
<1>6. TaskOK(t)'
  <2>1. (task[t].pc = "hash" => Happened(task[t].call.kind, task[t].call.row))'
    BY <1>2, <1>4, <1>5 DEF Happened, BatchesOf
  <2>2. TaskOK(t)
    BY DEF TasksOK
  <2>3. task'[t].pc \in Steps /\ task'[t].pc \notin {"idle", "checked", "polling"}
    BY <1>4 DEF Steps
  <2> QED
    BY <1>2, <1>3, <1>4, <2>1, <2>2, <2>3 DEF TaskOK, CallOK
<1> QED
  BY <1>1, <1>4, <1>6, TrueTask DEF TypeOK

LEMMA TrueSubmitting ==
  ASSUME TrueInv, KeptInv, slips' \in Slips, NEW t \in Tasks, Submit(t) \/ SubmitErr(t)
  PROVE  TrueInv'
<1> USE DEF TrueInv
<1>1. /\ UNCHANGED <<tables, closed, untimed, clear, wallet, chain, scan, missed>> /\ task[t].pc = "signed"
      /\ UNCHANGED <<withdrawals, redemptions>> /\ events' \in 0 .. MaxEvents
  <2>1. /\ UNCHANGED <<tables, closed, untimed, clear, wallet, chain, scan, missed>> /\ task[t].pc = "signed"
        /\ (UNCHANGED events \/ Event)
    BY DEF Submit, SubmitErr
  <2> QED
    BY <2>1, EventStep DEF tables
<1>2. /\ CallOK(task[t].call) /\ task[t].call \in Calls /\ task[t].wallet \in {FirstWallet, wallet}
      /\ task[t].call.kind = "redeem" => task[t].call.row \in 1 .. Len(redemptions)
  <2>1. CallOK(task[t].call) /\ task[t].call \in Calls /\ task[t].wallet \in {FirstWallet, wallet}
    BY <1>1 DEF TasksOK, TaskOK, CallOK
  <2>2. ASSUME task[t].call.kind = "redeem" PROVE task[t].call.row \in 1 .. Len(redemptions)
    <3>1. task[t].call.row \in Nat /\ Holds(t, task[t].call.row)
      BY <1>1, <2>1, <2>2 DEF Holds, Steps, Calls
    <3> QED
      BY <3>1 DEF KeptInv, HoldersOK
  <2> QED
    BY <2>1, <2>2
<1>3. Len(relay) \in Nat /\ DOMAIN relay = 1 .. Len(relay)
  BY TablesAre
<1>4. \/ relay' = relay
      \/ \E b \in Batches : relay' = Append(relay, b) /\ b.call = task[t].call /\ b.state = "sent"
  <2>1. \A h \in BOOLEAN : /\ Batch(t, h) \in Batches /\ Batch(t, h).call = task[t].call
                           /\ Batch(t, h).state = "sent"
    BY <1>2, TaskIs, MoneyAssumption DEF Batch, Batches, TypeOK
  <2> QED
    BY <2>1 DEF Submit, SubmitErr
<1>5. /\ relay' \in Seq(Batches) /\ RelayGrows /\ Len(relay') \in Nat /\ DOMAIN relay' = 1 .. Len(relay')
      /\ \A b \in 1 .. Len(relay') : relay'[b].call = IF b \in 1 .. Len(relay) THEN relay[b].call ELSE task[t].call
      /\ Submit(t) => Len(relay) + 1 = Len(relay')
  <2>1. CASE relay' = relay /\ ~Submit(t)
    BY <2>1, <1>3, RelaySame DEF TypeOK
  <2>2. CASE \E b \in Batches : relay' = Append(relay, b) /\ b.call = task[t].call /\ b.state = "sent"
    <3>1. PICK b \in Batches : relay' = Append(relay, b) /\ b.call = task[t].call /\ b.state = "sent"
      BY <2>2
    <3>2. /\ relay' \in Seq(Batches) /\ Len(relay') = Len(relay) + 1
          /\ \A j \in 1 .. Len(relay) : relay'[j] = relay[j]
          /\ relay'[Len(relay) + 1] = b
      BY <3>1, AppendBatch
    <3>3. DOMAIN relay' = 1 .. Len(relay')
      BY <3>2, LenProperties
    <3> QED
      BY <1>3, <3>1, <3>2, <3>3 DEF RelayGrows
  <2>3. CASE Submit(t) /\ relay' = relay
    <3>1. \A h \in BOOLEAN : Batch(t, h) \in Batches
      BY <1>2, TaskIs, MoneyAssumption DEF Batch, Batches, TypeOK
    <3>2. Len(relay') = Len(relay) + 1
      BY <2>3, <3>1, AppendBatch DEF Submit
    <3> QED
      BY <1>3, <2>3, <3>2
  <2> QED
    BY <1>4, <2>1, <2>2, <2>3
<1>6. /\ task' \in [Tasks -> Locals] /\ \A u \in Tasks \ {t} : task'[u] = task[u]
      /\ task'[t].call = task[t].call /\ task'[t].wallet = task[t].wallet
      /\ task'[t].pc = "err" \/ (Submit(t) /\ task'[t].pc = "polling" /\ task'[t].tx = Len(relay) + 1)
  <2>1. CASE Submit(t)
    <3> DEFINE n   == Len(relay) + 1
               new == [[task[t] EXCEPT !.pc = "polling"] EXCEPT !.tx = n]
    <3>1. n \in Nat
      BY <1>3
    <3>2. task' = [task EXCEPT ![t] = new]
      BY <2>1, TaskIs DEF Submit, Locals
    <3> HIDE DEF n
    <3>3. /\ new \in Locals /\ new.pc = "polling" /\ new.call = task[t].call /\ new.wallet = task[t].wallet
          /\ new.tx = n
      BY <3>1, TaskIs DEF Locals
    <3> HIDE DEF new
    <3> QED
      BY <2>1, <3>2, <3>3, TaskIs DEF n
  <2>2. CASE SubmitErr(t)
    BY <2>2, GotoStep DEF SubmitErr
  <2> QED
    BY <2>1, <2>2
<1>7. TypeOK'
  BY <1>1, <1>5, <1>6 DEF TypeOK
<1>8. TaskOK(t)'
  <2>1. ASSUME task'[t].pc = "polling"
        PROVE  task'[t].tx \in 1 .. Len(relay') /\ relay'[task'[t].tx].call = task'[t].call
    BY <1>3, <1>5, <1>6, <2>1
  <2>2. TaskOK(t)
    BY SMTT(40) DEF TasksOK
  <2> QED
    BY <1>1, <1>2, <1>6, <2>1, <2>2 DEF TaskOK, CallOK, Steps
<1>9. \A u \in Tasks \ {t} : TaskOK(u)'
  <2>1. Len(withdrawals) <= Len(withdrawals') /\ UNCHANGED wallet
    BY SMTT(40), <1>1, TablesAre
  <2> QED
    BY <1>5, <1>6, <1>7, <2>1, TaskStays DEF TasksOK
<1>10. RelayOK'
  BY ZenonT(60), <1>1, <1>2, <1>5 DEF RelayOK, CallOK
<1>11. MinedIsTrue' /\ RowsOK'
  <2>1. \A kind, i : Happened(kind, i) => Happened(kind, i)'
    BY <1>5, <1>7, HappenedStays
  <2> QED
    BY SMTT(40), <1>1, <2>1 DEF MinedIsTrue, RowsOK
<1> QED
  BY <1>7, <1>8, <1>9, <1>10, <1>11 DEF TasksOK

\* A row gets a new status.
LEMMA SetRow ==
  ASSUME TypeOK, NEW i \in 1 .. Len(redemptions), NEW row \in Redemptions,
         redemptions' = [redemptions EXCEPT ![i] = row]
  PROVE  /\ redemptions' \in Seq(Redemptions) /\ Len(redemptions') = Len(redemptions)
         /\ DOMAIN redemptions' = 1 .. Len(redemptions)
         /\ \A j \in 1 .. Len(redemptions) :
              redemptions'[j] = IF j = i THEN row ELSE redemptions[j]
<1>1. redemptions \in Seq(Redemptions)
  BY DEF TypeOK
<1>2. redemptions' \in Seq(Redemptions) /\ Len(redemptions') = Len(redemptions)
      /\ \A j \in 1 .. Len(redemptions) : redemptions'[j] = IF j = i THEN row ELSE redemptions[j]
  BY <1>1, ExceptSeq
<1> QED
  BY <1>2, LenProperties

\* The worker's row has attempts left, and its checked call is a redemption.
LEMMA WorkerHolds ==
  ASSUME TrueInv, KeptInv, NEW t \in Tasks, task[t].pc \in Steps, task[t].call.kind = "redeem"
  PROVE  /\ task[t].call.row \in 1 .. Len(redemptions) /\ Holds(t, task[t].call.row)
         /\ redemptions[task[t].call.row].attempts < MaxAttempts
         /\ redemptions[task[t].call.row].status = "pending"
<1>1. task[t].call.row \in Nat /\ Holds(t, task[t].call.row)
  BY DEF Holds, Steps, Calls, TrueInv, TasksOK, TaskOK, CallOK
<1> QED
  BY <1>1 DEF KeptInv, HoldersOK

LEMMA TrueWriting ==
  ASSUME TrueInv, KeptInv, slips' \in Slips, NEW t \in Tasks, Write(t) \/ WriteErr(t)
  PROVE  TrueInv'
<1> USE DEF TrueInv
<1>1. /\ UNCHANGED <<outside, scan>> /\ task' = [task EXCEPT ![t] = Idle]
      /\ task[t].pc \in {"checked", "ok", "hash", "err"}
      /\ UNCHANGED <<closed, untimed, clear, wallet, chain, relay>>
  BY DEF Write, WriteErr, outside
<1>2. /\ task' \in [Tasks -> Locals] /\ \A u \in Tasks \ {t} : task'[u] = task[u]
      /\ task'[t].pc = "idle"
  BY <1>1, IdleStep
<1>3. TaskOK(t)'
  BY <1>2 DEF TaskOK, Steps
<1>4. CallOK(task[t].call)
  BY <1>1 DEF TasksOK, TaskOK
<1>5. CASE WriteErr(t)
  <2>1. UNCHANGED tables /\ events' \in 0 .. MaxEvents
    BY <1>5, EventStep DEF WriteErr
  <2>2. missed' \subseteq Conds
    <3>1. missed' = IF t = Worker /\ task[t].pc = "checked" THEN missed \cup {task[t].call.cond} ELSE missed
      BY <1>5 DEF WriteErr, Missed
    <3>2. t = Worker /\ task[t].pc = "checked" => task[t].call.cond \in Conds
      BY <1>4 DEF KeptInv, ScanOK, CallOK
    <3> QED
      BY <3>1, <3>2 DEF TypeOK
  <2> QED
    BY <1>1, <1>2, <1>3, <2>1, <2>2, TrueTask DEF TypeOK
<1>6. CASE Write(t)
  <2> DEFINE call   == task[t].call
             row    == task[t].call.row
             status == Status(task[t].pc)
  <2>1. /\ task[t].pc \in {"ok", "hash", "err"} /\ UNCHANGED <<missed, events, scan>>
        /\ task[t].pc \in Steps
    BY <1>6 DEF Write, Steps
  <2>2. /\ status \in {"pending", "mined", "failed"} /\ (status = "mined" <=> task[t].pc = "hash")
        /\ (status = "failed" <=> task[t].pc = "err")
    BY <2>1 DEF Status
  <2>3. /\ withdrawals' = IF call.kind = "transfer"
             THEN [withdrawals EXCEPT ![row].status = status] ELSE withdrawals
        /\ redemptions' = IF call.kind = "redeem"
             THEN [redemptions EXCEPT ![row] = IF t = Worker /\ status = "failed"
                     THEN Tried(redemptions[row]) ELSE [redemptions[row] EXCEPT !.status = status]]
             ELSE redemptions
    BY <1>6 DEF Write
  <2>4. task[t].pc = "hash" /\ call.kind \in {"transfer", "redeem"} => Happened(call.kind, row)
    BY DEF TasksOK, TaskOK
  <2> HIDE DEF status
  <2>5. /\ withdrawals' \in Seq(Withdrawals) /\ Len(withdrawals') = Len(withdrawals)
        /\ DOMAIN withdrawals' = 1 .. Len(withdrawals)
        /\ \A i \in 1 .. Len(withdrawals) : withdrawals'[i].status = "mined" =>
             withdrawals[i].status = "mined" \/ Happened("transfer", i)
    <3>1. CASE call.kind # "transfer"
      BY <2>3, <3>1, TablesAre DEF TypeOK
    <3>2. CASE call.kind = "transfer"
      <4> DEFINE new == [withdrawals[row] EXCEPT !.status = status]
      <4>1. row \in 1 .. Len(withdrawals)
        BY <2>1, <3>2 DEF TasksOK, TaskOK
      <4>2. new \in Withdrawals /\ new.status = status
        BY <2>2, <4>1, TablesAre DEF Withdrawals
      <4>3. withdrawals' = [withdrawals EXCEPT ![row] = new]
        BY <2>3, <3>2
      <4> HIDE DEF new
      <4>4. /\ withdrawals' \in Seq(Withdrawals) /\ Len(withdrawals') = Len(withdrawals)
            /\ \A i \in 1 .. Len(withdrawals) : withdrawals'[i] = IF i = row THEN new ELSE withdrawals[i]
        BY <4>1, <4>2, <4>3, ExceptSeq DEF TypeOK
      <4>5. DOMAIN withdrawals' = 1 .. Len(withdrawals)
        BY <4>4, LenProperties
      <4> QED
        BY <2>2, <2>4, <3>2, <4>2, <4>4, <4>5
    <3> QED
      BY <3>1, <3>2
  <2>6. /\ redemptions' \in Seq(Redemptions) /\ Len(redemptions') = Len(redemptions)
        /\ DOMAIN redemptions' = 1 .. Len(redemptions)
        /\ \A i \in 1 .. Len(redemptions) :
             /\ redemptions'[i].wallet = redemptions[i].wallet
             /\ redemptions'[i].cond = redemptions[i].cond
             /\ redemptions'[i].status = "mined" =>
                  redemptions[i].status = "mined" \/ Happened("redeem", i)
    <3>1. CASE call.kind # "redeem"
      BY <2>3, <3>1, TablesAre DEF TypeOK
    <3>2. CASE call.kind = "redeem"
      <4> DEFINE old == redemptions[row]
                 new == IF t = Worker /\ status = "failed" THEN Tried(old) ELSE [old EXCEPT !.status = status]
      <4>1. row \in 1 .. Len(redemptions) /\ old.attempts < MaxAttempts /\ old \in Redemptions
        BY <2>1, <3>2, WorkerHolds, TablesAre
      <4>2. new \in Redemptions /\ new.status = status /\ new.wallet = old.wallet /\ new.cond = old.cond
        <5>1. CASE t = Worker /\ status = "failed"
          <6> DEFINE n == old.attempts + 1
                     r == n < MaxAttempts
          <6>1. n \in 0 .. MaxAttempts /\ r \in BOOLEAN
            BY SMTT(40), <4>1, MoneyAssumption DEF Redemptions
          <6>2. new = [[[old EXCEPT !.status = "failed"] EXCEPT !.attempts = n] EXCEPT !.retry = r]
            BY <4>1, <5>1 DEF Tried, Redemptions
          <6> HIDE DEF n, r, old
          <6> QED
            BY <4>1, <5>1, <6>1, <6>2 DEF Redemptions
        <5>2. CASE ~(t = Worker /\ status = "failed")
          BY <2>2, <4>1, <5>2 DEF Redemptions
        <5> QED
          BY <5>1, <5>2
      <4>3. redemptions' = [redemptions EXCEPT ![row] = new]
        BY <2>3, <3>2
      <4> HIDE DEF new, old
      <4>4. /\ redemptions' \in Seq(Redemptions) /\ Len(redemptions') = Len(redemptions)
            /\ DOMAIN redemptions' = 1 .. Len(redemptions)
            /\ \A j \in 1 .. Len(redemptions) : redemptions'[j] = IF j = row THEN new ELSE redemptions[j]
        BY <4>1, <4>2, <4>3, SetRow
      <4> QED
        BY <2>2, <2>4, <3>2, <4>1, <4>2, <4>4 DEF old
    <3> QED
      BY <3>1, <3>2
  <2>7. TypeOK'
    BY <1>1, <1>2, <2>1, <2>5, <2>6 DEF TypeOK
  <2>8. \A u \in Tasks \ {t} : TaskOK(u)'
    <3>1. Len(withdrawals) <= Len(withdrawals') /\ RelayGrows
      BY <1>1, <2>5, TablesAre, RelaySame
    <3> QED
      BY <1>1, <1>2, <2>7, <3>1, TaskStays DEF TasksOK
  <2>9. RelayOK' /\ RowsOK'
    BY <1>1, <2>6 DEF RelayOK, CallOK, RowsOK
  <2>10. MinedIsTrue'
    <3>1. DOMAIN redemptions = 1 .. Len(redemptions) /\ DOMAIN withdrawals = 1 .. Len(withdrawals)
      BY TablesAre
    <3>2. \A kind, i : Happened(kind, i) => Happened(kind, i)'
      BY <1>1 DEF Happened, BatchesOf
    <3> QED
      BY <1>1, <2>5, <2>6, <3>1, <3>2 DEF MinedIsTrue
  <2> QED
    BY <1>3, <2>7, <2>8, <2>9, <2>10 DEF TasksOK
<1> QED
  BY <1>5, <1>6

\* A step of the scan that leaves the worker's task alone, or a crash.
LEMMA TrueScan ==
  ASSUME TrueInv, KeptInv, slips' \in Slips, Tick \/ TickEnd \/ Crash
  PROVE  TrueInv'
<1> USE DEF TrueInv
<1>1. UNCHANGED <<tables, outside>> /\ UNCHANGED <<withdrawals, redemptions, closed, untimed, clear, wallet, chain, relay>>
  BY DEF Tick, TickEnd, Crash, tables, outside
<1>2. events' \in 0 .. MaxEvents /\ missed' \subseteq Conds
  BY EventStep DEF Tick, TickEnd, Crash, TypeOK
<1>3. scan.cursor \in Nat /\ scan.upto \in Nat /\ scan.markets \in Seq(Conds) /\ scan.on \in BOOLEAN
      /\ closed \in Nat
  BY MoneyAssumption DEF TypeOK, Scans
<1>4. scan' \in Scans
  <2>1. CASE Tick
    <3> DEFINE n == closed - scan.cursor
               M == [i \in 1 .. n |-> scan.cursor + i]
    <3>1. scan' = [cursor |-> scan.cursor, upto |-> closed, on |-> TRUE, retries |-> Retryable,
                   late |-> Late, markets |-> M]
      BY <2>1 DEF Tick, Scan
    <3>2. n \in Nat /\ scan.cursor <= closed /\ closed <= MaxConds
      BY <1>3, MoneyAssumption DEF KeptInv, ScanOK, TypeOK
    <3>3. \A i \in 1 .. n : scan.cursor + i \in Conds
      BY <1>3, <3>2, MoneyAssumption DEF Conds
    <3>4. M \in Seq(Conds)
      BY <3>2, <3>3, IsASeq
    <3>5. Retryable \subseteq Nat
      BY TablesAre DEF Retryable
    <3>6. Late \subseteq Conds
      BY ClearIs DEF Late
    <3> HIDE DEF M
    <3> QED
      BY <1>3, <3>1, <3>4, <3>5, <3>6 DEF Scans
  <2>2. CASE TickEnd
    <3> DEFINE n == scan.upto
    <3>1. scan' = [NoScan EXCEPT !.cursor = n] /\ n \in Nat
      BY <1>3, <2>2 DEF TickEnd, Scanned
    <3> HIDE DEF n
    <3> QED
      BY <3>1, EmptySeq DEF NoScan, Scans
  <2>3. CASE Crash
    BY <2>3, EmptySeq DEF Crash, NoScan, Scans
  <2> QED
    BY <2>1, <2>2, <2>3
<1>5. /\ task' \in [Tasks -> Locals]
      /\ \A u \in Tasks : task'[u] = task[u] \/ task'[u].pc = "idle"
  BY IdleIs DEF Tick, TickEnd, Crash, TypeOK
<1>6. TypeOK'
  BY <1>1, <1>2, <1>4, <1>5 DEF TypeOK
<1>7. ASSUME NEW u \in Tasks PROVE TaskOK(u)'
  <2>1. CASE task'[u].pc = "idle"
    BY <2>1 DEF TaskOK, Steps
  <2>2. CASE task'[u] = task[u]
    <3>1. Len(withdrawals) <= Len(withdrawals') /\ RelayGrows
      BY <1>1, TablesAre, RelaySame
    <3> QED
      BY <1>1, <1>6, <2>2, <3>1, TaskStays DEF TasksOK
  <2> QED
    BY <1>5, <2>1, <2>2
<1>8. RelayOK' /\ RowsOK' /\ MinedIsTrue'
  BY <1>1 DEF RelayOK, CallOK, RowsOK, MinedIsTrue, Happened, BatchesOf
<1> QED
  BY <1>6, <1>7, <1>8 DEF TasksOK

\* What the worker may do with one market.
MarketIs(c) ==
  /\ scan.on /\ task[Worker].pc = "idle" /\ scan.retries = {} /\ Takes(c)
  /\ \/ missed' = missed \cup {c} /\ UNCHANGED task
     \/ (Exists(c, wallet) \/ chain[wallet].win[c] = 0) /\ UNCHANGED <<task, missed>>
     \/ Call(Worker, "checked", Redeem(c, chain[wallet].win[c])) /\ UNCHANGED missed
  /\ UNCHANGED events \/ Event
  /\ UNCHANGED <<tables, outside, slips>>

LEMMA MarketPicks == Market => \E c \in Conds : MarketIs(c)
BY DEF Market, MarketIs

\* Either the first of the markets in order is taken, or one without a time.
LEMMA TakesStep ==
  ASSUME scan \in Scans, NEW c \in Conds, Takes(c)
  PROVE  /\ scan' \in Scans /\ scan'.on = scan.on /\ scan'.cursor = scan.cursor
         /\ scan'.upto = scan.upto /\ scan'.retries = scan.retries
         /\ \/ /\ scan.markets # <<>> /\ c = Head(scan.markets)
               /\ scan'.markets = Tail(scan.markets) /\ scan'.late = scan.late
            \/ /\ scan.markets = <<>> /\ c \in scan.late
               /\ scan'.markets = <<>> /\ scan'.late = scan.late \ {c}
<1>1. CASE scan.markets # <<>> /\ c = Head(scan.markets) /\ scan' = [scan EXCEPT !.markets = Tail(@)]
  <2> DEFINE m == Tail(scan.markets)
  <2>1. m \in Seq(Conds) /\ scan' = [scan EXCEPT !.markets = m]
    BY <1>1, HeadTailProperties DEF Scans
  <2> HIDE DEF m
  <2>2. scan' \in Scans /\ scan'.on = scan.on /\ scan'.cursor = scan.cursor /\ scan'.markets = m
        /\ scan'.upto = scan.upto /\ scan'.retries = scan.retries /\ scan'.late = scan.late
    BY <2>1 DEF Scans
  <2> QED
    BY <1>1, <2>2 DEF m
<1>2. CASE scan.markets = <<>> /\ c \in scan.late /\ scan' = [scan EXCEPT !.late = @ \ {c}]
  BY <1>2 DEF Scans
<1> QED
  BY <1>1, <1>2 DEF Takes

\* One market of the scan.
LEMMA TrueMarket ==
  ASSUME TrueInv, KeptInv, slips' \in Slips, Market
  PROVE  TrueInv'
<1> USE DEF TrueInv
<1>1. Worker \in Tasks /\ UNCHANGED <<tables, outside>> /\ task[Worker].pc = "idle"
      /\ UNCHANGED wallet /\ scan \in Scans
  BY DEF Market, Tasks, outside, TypeOK
<1>2. PICK c \in Conds : MarketIs(c)
  BY MarketPicks
<1>3. scan' \in Scans
  BY <1>1, <1>2, TakesStep DEF MarketIs
<1>4. missed' \subseteq Conds /\ events' \in 0 .. MaxEvents
  BY <1>2, EventStep DEF MarketIs, TypeOK
<1>5. /\ task' \in [Tasks -> Locals] /\ \A u \in Tasks \ {Worker} : task'[u] = task[u]
      /\ TaskOK(Worker)'
  <2>1. CASE UNCHANGED task
    BY <1>1, <2>1, TaskIs DEF TaskOK, Steps
  <2>2. CASE Call(Worker, "checked", Redeem(c, chain[wallet].win[c]))
    <3> DEFINE n == chain[wallet].win[c]
    <3>1. n \in Nat
      BY DEF TypeOK, Holdings
    <3> HIDE DEF n
    <3>2. CallOK(Redeem(c, n)) /\ Redeem(c, n).kind = "redeem" /\ Redeem(c, n) \in Calls
      BY <3>1, CallsAre DEF CallOK
    <3> DEFINE r == Redeem(c, n)
    <3>3. CallOn(wallet, Worker, "checked", r)
      BY <2>2 DEF Call, n
    <3>4. CallOK(r) /\ r.kind = "redeem" /\ r \in Calls
      BY <3>2
    <3> HIDE DEF r
    <3>5. /\ task' \in [Tasks -> Locals] /\ \A u \in Tasks \ {Worker} : task'[u] = task[u]
          /\ task'[Worker].pc = "checked" /\ task'[Worker].call = r /\ task'[Worker].wallet = wallet
      BY <1>1, <3>3, <3>4, CallStep DEF TypeOK
    <3> QED
      BY <1>1, <3>4, <3>5 DEF TaskOK, CallOK, Steps
  <2>3. UNCHANGED task \/ Call(Worker, "checked", Redeem(c, chain[wallet].win[c]))
    BY <1>2 DEF MarketIs
  <2> QED
    BY <2>1, <2>2, <2>3
<1> QED
  BY <1>1, <1>3, <1>4, <1>5, TrueTask

\* A failed row is tried again, or settled by the balance.
LEMMA TrueRetry ==
  ASSUME TrueInv, KeptInv, slips' \in Slips, NEW i \in scan.retries, Retry(i)
  PROVE  TrueInv'
<1> USE DEF TrueInv
<1>1. /\ Worker \in Tasks /\ UNCHANGED <<withdrawals, outside, missed>> /\ task[Worker].pc = "idle"
      /\ UNCHANGED <<wallet, closed, untimed, clear, chain, relay>> /\ events' \in 0 .. MaxEvents
  BY EventStep DEF Retry, Tasks, outside
<1>2. i \in 1 .. Len(redemptions) /\ redemptions[i] \in Redemptions /\ i \in Nat
  BY TablesAre DEF KeptInv, ScanOK, Retryable
<1>3. scan' \in Scans
  <2> DEFINE R == scan.retries \ {i}
  <2>1. scan' = [scan EXCEPT !.retries = R] /\ scan \in Scans
    BY DEF Retry, TypeOK
  <2>2. R \subseteq Nat
    BY DEF TypeOK, Scans
  <2> HIDE DEF R
  <2> QED
    BY <2>1, <2>2 DEF Scans
<1> DEFINE c == redemptions[i].cond
           n == chain[wallet].win[c]
<1>4. c \in Conds /\ n \in Nat
  BY <1>2 DEF Redemptions, TypeOK, Holdings
<1>5. CASE UNCHANGED <<redemptions, task>>
  <2>1. TaskOK(Worker)'
    BY <1>1, <1>5 DEF TaskOK, Steps
  <2> QED
    BY <1>1, <1>3, <1>5, <2>1, TrueTask DEF tables, TypeOK
<1>6. ASSUME NEW s \in {"mined", "pending"}, SetStatus(i, s),
             s = "mined" => n = 0 /\ UNCHANGED task,
             s = "pending" => Call(Worker, "ready", [Redeem(c, n) EXCEPT !.row = i])
      PROVE  TrueInv'
  <2> DEFINE row == [redemptions[i] EXCEPT !.status = s]
  <2>1. row \in Redemptions /\ row.status = s /\ row.wallet = redemptions[i].wallet /\ row.cond = c
    BY <1>2 DEF Redemptions
  <2>2. redemptions' = [redemptions EXCEPT ![i] = row]
    BY <1>6 DEF SetStatus
  <2> HIDE DEF row
  <2>3. /\ redemptions' \in Seq(Redemptions) /\ Len(redemptions') = Len(redemptions)
        /\ DOMAIN redemptions' = 1 .. Len(redemptions)
        /\ \A j \in 1 .. Len(redemptions) :
             redemptions'[j] = IF j = i THEN row ELSE redemptions[j]
    BY <1>2, <2>1, <2>2, SetRow
  <2>4. /\ task' \in [Tasks -> Locals] /\ \A u \in Tasks \ {Worker} : task'[u] = task[u]
        /\ TaskOK(Worker)'
    <3>1. CASE s = "mined"
      BY <1>1, <1>6, <3>1, TaskIs DEF TaskOK, Steps
    <3>2. CASE s = "pending"
      <4> DEFINE q == Redeem(c, n)
                 r == [q EXCEPT !.row = i]
      <4>1. q \in Calls /\ q.kind = "redeem" /\ q.cond = c
        BY <1>4, CallsAre DEF CallOK
      <4>2. CallOn(wallet, Worker, "ready", r)
        BY <1>6, <3>2 DEF Call
      <4> HIDE DEF q
      <4>3. r \in Calls /\ r.kind = "redeem" /\ r.cond = c
        BY <1>2, <4>1 DEF Calls
      <4> HIDE DEF r
      <4>4. /\ task' \in [Tasks -> Locals] /\ \A u \in Tasks \ {Worker} : task'[u] = task[u]
            /\ task'[Worker].pc = "ready" /\ task'[Worker].call = r /\ task'[Worker].wallet = wallet
        BY <1>1, <4>2, <4>3, CallStep DEF TypeOK
      <4> QED
        BY <1>1, <1>4, <4>3, <4>4 DEF TaskOK, CallOK
    <3> QED
      BY <3>1, <3>2
  <2>5. TypeOK'
    BY <1>1, <1>3, <2>3, <2>4 DEF TypeOK
  <2>6. \A u \in Tasks \ {Worker} : TaskOK(u)'
    BY <1>1, <2>4, <2>5, RelaySame, TablesAre, TaskStays DEF TasksOK
  <2>7. RelayOK' /\ RowsOK'
    BY <1>1, <1>2, <2>1, <2>3 DEF RelayOK, CallOK, RowsOK
  <2>8. MinedIsTrue'
    <3>1. \A kind, j : Happened(kind, j)' <=> Happened(kind, j)
      BY <1>1 DEF Happened, BatchesOf
    <3>2. DOMAIN redemptions = 1 .. Len(redemptions)
      BY TablesAre
    <3>3. ASSUME NEW j \in DOMAIN redemptions', redemptions'[j].status = "mined"
          PROVE  \/ Happened("redeem", j)
                 \/ chain[redemptions'[j].wallet].win[redemptions'[j].cond] = 0
                 \/ redemptions'[j].wallet # wallet
      <4>1. CASE j = i
        BY <1>2, <1>6, <2>1, <2>3, <3>3, <4>1
      <4>2. CASE j # i
        BY <2>3, <3>2, <3>3, <4>2 DEF MinedIsTrue
      <4> QED
        BY <4>1, <4>2
    <3> QED
      BY <1>1, <3>1, <3>3 DEF MinedIsTrue
  <2> QED
    BY <2>4, <2>5, <2>6, <2>7, <2>8 DEF TasksOK
<1>7. \/ UNCHANGED <<redemptions, task>>
      \/ SetStatus(i, "mined") /\ n = 0 /\ UNCHANGED task
      \/ SetStatus(i, "pending") /\ Call(Worker, "ready", [Redeem(c, n) EXCEPT !.row = i])
  BY DEF Retry
<1> QED
  BY <1>5, <1>6, <1>7

\* The chain takes no more than there is, and what is redeemed stays redeemed.
LEMMA PaidIs ==
  ASSUME NEW a \in Holdings, NEW n \in Nat
  PROVE  [a EXCEPT !.cash = n] \in Holdings /\ [a EXCEPT !.cash = n].win = a.win
BY DEF Holdings

LEMMA AfterIs ==
  ASSUME NEW w \in Holdings, NEW call, CallOK(call),
         call.kind \in {"transfer", "move"} => call.amount <= w.cash,
         call.kind = "merge" => call.amount <= w.win[call.cond] /\ call.amount <= w.lose[call.cond]
  PROVE  /\ After(w, call) \in Holdings
         /\ \A c \in Conds : w.win[c] = 0 => After(w, call).win[c] = 0
<1> DEFINE a == [w EXCEPT !.nonce = @ + 1]
           m == call.amount
           d == call.cond
<1>1. a \in Holdings /\ a.cash = w.cash /\ a.win = w.win /\ a.lose = w.lose
  BY DEF Holdings
<1>2. w.cash \in Nat /\ w.win \in [Conds -> Nat] /\ w.lose \in [Conds -> Nat] /\ m \in Nat
      /\ call.kind \in {"transfer", "redeem", "merge", "move"}
      /\ (call.kind \in {"redeem", "merge"} => d \in Conds)
  BY DEF Holdings, CallOK, Calls
<1>3. call.kind \in {"transfer", "move"} => m <= w.cash
  OBVIOUS
<1>4. call.kind = "merge" => m <= w.win[d] /\ m <= w.lose[d]
  OBVIOUS
<1>5. call.kind \in {"transfer", "move"} => After(w, call) = [a EXCEPT !.cash = @ - m]
  BY Zenon DEF After
<1>6. call.kind = "redeem" =>
        After(w, call) = [a EXCEPT !.cash = @ + w.win[d], !.win[d] = 0, !.lose[d] = 0]
  BY Zenon DEF After
<1>7. call.kind = "merge" =>
        After(w, call) = [a EXCEPT !.cash = @ + m, !.win[d] = @ - m, !.lose[d] = @ - m]
  BY Zenon DEF After
<1> HIDE DEF a, m, d
<1>8. CASE call.kind \in {"transfer", "move"}
  <2>1. a.cash - m \in Nat /\ After(w, call) = [a EXCEPT !.cash = a.cash - m]
    BY <1>1, <1>2, <1>3, <1>5, <1>8
  <2> QED
    BY <1>1, <1>2, <2>1, PaidIs
<1>9. CASE call.kind = "redeem"
  <2> DEFINE n == a.cash + w.win[d]
             f == [a.win EXCEPT ![d] = 0]
             g == [a.lose EXCEPT ![d] = 0]
  <2>1. n \in Nat /\ f \in [Conds -> Nat] /\ g \in [Conds -> Nat]
        /\ \A c \in Conds : w.win[c] = 0 => f[c] = 0
    BY <1>1, <1>2, <1>9
  <2>2. After(w, call) = [a EXCEPT !.cash = n, !.win = f, !.lose = g]
    BY <1>1, <1>2, <1>6, <1>9 DEF Holdings
  <2> DEFINE h == [a EXCEPT !.cash = n, !.win = f, !.lose = g]
  <2>3. After(w, call) = h
    BY <2>2
  <2> HIDE DEF n, f, g
  <2>4. h \in Holdings /\ h.win = f
    BY <1>1, <2>1 DEF Holdings
  <2> HIDE DEF h
  <2> QED
    BY <1>1, <2>1, <2>3, <2>4
<1>10. CASE call.kind = "merge"
  <2> DEFINE n == a.cash + m
             f == [a.win EXCEPT ![d] = a.win[d] - m]
             g == [a.lose EXCEPT ![d] = a.lose[d] - m]
  <2>1. n \in Nat /\ f \in [Conds -> Nat] /\ g \in [Conds -> Nat]
        /\ \A c \in Conds : w.win[c] = 0 => f[c] = 0
    <3>1. d \in Conds /\ a.win[d] \in Nat /\ a.lose[d] \in Nat
      BY <1>1, <1>2, <1>10
    <3>2. n \in Nat /\ a.win[d] - m \in Nat /\ a.lose[d] - m \in Nat
          /\ (a.win[d] = 0 => a.win[d] - m = 0)
      BY <1>1, <1>2, <1>4, <1>10, <3>1
    <3> QED
      BY <1>1, <1>2, <3>1, <3>2
  <2>2. After(w, call) = [a EXCEPT !.cash = n, !.win = f, !.lose = g]
    BY <1>1, <1>2, <1>7, <1>10 DEF Holdings
  <2> DEFINE h == [a EXCEPT !.cash = n, !.win = f, !.lose = g]
  <2>3. After(w, call) = h
    BY <2>2
  <2> HIDE DEF n, f, g
  <2>4. h \in Holdings /\ h.win = f
    BY <1>1, <2>1 DEF Holdings
  <2> HIDE DEF h
  <2> QED
    BY <1>1, <2>1, <2>3, <2>4
<1> QED
  BY <1>2, <1>8, <1>9, <1>10

\* The tasks do not move.
LEMMA TasksStay ==
  ASSUME TrueInv, TypeOK', RelayGrows, UNCHANGED task, wallet' = wallet \/ wallet = FirstWallet,
         Len(withdrawals) <= Len(withdrawals')
  PROVE  TasksOK'
<1>1. \A t \in Tasks : task'[t] = task[t] /\ TaskOK(t)
  BY DEF TrueInv, TasksOK
<1> QED
  BY <1>1, TaskStays DEF TasksOK, TrueInv

\* A batch is mined or dropped.
LEMMA BatchStep ==
  ASSUME TypeOK, NEW i \in 1 .. Len(relay), NEW st \in {"mined", "failed"}, relay[i].state = "sent",
         relay' = [relay EXCEPT ![i].state = st]
  PROVE  relay' \in Seq(Batches) /\ Len(relay') = Len(relay) /\ RelayGrows
<1> DEFINE b == [relay[i] EXCEPT !.state = st]
<1>1. relay[i] \in Batches
  BY TablesAre
<1>2. b \in Batches /\ b.call = relay[i].call /\ b.hash = relay[i].hash
  BY <1>1 DEF Batches
<1>3. relay' = [relay EXCEPT ![i] = b] /\ relay \in Seq(Batches)
  BY <1>1 DEF Batches, TypeOK
<1> HIDE DEF b
<1>4. relay' \in Seq(Batches) /\ Len(relay') = Len(relay)
      /\ \A j \in 1 .. Len(relay) : relay'[j] = IF j = i THEN b ELSE relay[j]
  BY <1>2, <1>3, ExceptSeq
<1>5. Len(relay) \in Nat
  BY TablesAre
<1> QED
  BY <1>2, <1>4, <1>5 DEF RelayGrows

\* The chain keeps its types, and a market without a winning token stays so.
LEMMA MineStep ==
  ASSUME TrueInv, NEW i \in 1 .. Len(relay), Mine(i)
  PROVE  /\ chain' \in [Wallets -> Holdings]
         /\ \A w \in Wallets, c \in Conds : chain[w].win[c] = 0 => chain'[w].win[c] = 0
<1> DEFINE b == relay[i]
           call == b.call
           v == b.wallet
<1>1. b \in Batches /\ CallOK(call) /\ v \in Wallets
  BY TablesAre DEF TrueInv, RelayOK, Batches
<1>2. chain \in [Wallets -> Holdings] /\ chain[v] \in Holdings
  BY <1>1 DEF TrueInv, TypeOK
<1>3. /\ call.kind \in {"transfer", "move"} => call.amount <= chain[v].cash
      /\ call.kind = "merge" => call.amount <= chain[v].win[call.cond]
                                /\ call.amount <= chain[v].lose[call.cond]
  BY DEF Mine, Executes
<1>4. chain' = [w \in Wallets |->
        IF w = v THEN After(chain[w], call)
        ELSE IF w = wallet /\ call.kind = "move"
             THEN [chain[w] EXCEPT !.cash = @ + call.amount] ELSE chain[w]]
  BY DEF Mine
<1>5. call.amount \in Nat
  BY <1>1 DEF CallOK, Calls
<1> HIDE DEF b, call, v
<1>6. After(chain[v], call) \in Holdings
      /\ \A c \in Conds : chain[v].win[c] = 0 => After(chain[v], call).win[c] = 0
  BY <1>1, <1>2, <1>3, AfterIs
<1>7. ASSUME NEW w \in Wallets
      PROVE  chain'[w] \in Holdings /\ \A c \in Conds : chain[w].win[c] = 0 => chain'[w].win[c] = 0
  <2>1. CASE w = v
    BY <1>4, <1>6, <2>1
  <2>2. CASE w # v /\ w = wallet /\ call.kind = "move"
    <3> DEFINE n == chain[w].cash + call.amount
    <3>1. n \in Nat /\ chain[w] \in Holdings
      BY <1>2, <1>5 DEF Holdings
    <3>2. chain'[w] = [chain[w] EXCEPT !.cash = n]
      BY <1>2, <1>4, <2>2 DEF Holdings
    <3> HIDE DEF n
    <3> QED
      BY <3>1, <3>2, PaidIs
  <2>3. CASE w # v /\ ~(w = wallet /\ call.kind = "move")
    BY <1>2, <1>4, <2>3
  <2> QED
    BY <2>1, <2>2, <2>3
<1>8. chain' = [w \in Wallets |-> chain'[w]]
  BY <1>4
<1> QED
  BY <1>7, <1>8

LEMMA TrueRelay ==
  ASSUME TrueInv, slips' \in Slips, NEW i \in DOMAIN relay, Mine(i) \/ Drop(i)
  PROVE  TrueInv'
<1>1. /\ UNCHANGED <<tables, closed, untimed, clear, wallet, task, scan, missed>> /\ events' \in 0 .. MaxEvents
      /\ UNCHANGED <<withdrawals, redemptions>>
  BY EventStep DEF Mine, Drop, tables, TrueInv
<1>2. i \in 1 .. Len(relay) /\ TypeOK
  BY TablesAre DEF TrueInv
<1>3. relay' \in Seq(Batches) /\ Len(relay') = Len(relay) /\ RelayGrows
  BY <1>2, BatchStep DEF Mine, Drop
<1>4. /\ chain' \in [Wallets -> Holdings]
      /\ \A w \in Wallets, c \in Conds : chain[w].win[c] = 0 => chain'[w].win[c] = 0
  BY <1>2, MineStep DEF Drop, TypeOK
<1>5. TypeOK'
  BY <1>1, <1>2, <1>3, <1>4 DEF TypeOK
<1>6. TasksOK'
  BY <1>1, <1>2, <1>3, <1>5, TasksStay, TablesAre
<1>7. RelayOK' /\ RowsOK'
  BY <1>1, <1>3 DEF TrueInv, RelayOK, RowsOK, RelayGrows, CallOK
<1>8. MinedIsTrue'
  <2>1. ASSUME NEW j \in DOMAIN withdrawals', withdrawals'[j].status = "mined"
        PROVE  Happened("transfer", j)'
    <3>1. Happened("transfer", j)
      BY <1>1, <2>1 DEF TrueInv, MinedIsTrue
    <3> QED
      BY <1>2, <1>3, <1>5, <3>1, HappenedStays
  <2>2. ASSUME NEW j \in DOMAIN redemptions', redemptions'[j].status = "mined"
        PROVE  \/ Happened("redeem", j)'
               \/ chain'[redemptions'[j].wallet].win[redemptions'[j].cond] = 0
               \/ redemptions'[j].wallet # wallet'
    <3>1. \/ Happened("redeem", j)
          \/ chain[redemptions[j].wallet].win[redemptions[j].cond] = 0
          \/ redemptions[j].wallet # wallet
      BY <1>1, <2>2 DEF TrueInv, MinedIsTrue
    <3>2. redemptions[j].wallet \in Wallets /\ redemptions[j].cond \in Conds
      BY <1>1, <1>2, TablesAre DEF Redemptions
    <3> QED
      BY <1>1, <1>2, <1>3, <1>4, <1>5, <3>1, <3>2, HappenedStays
  <2> QED
    BY <2>1, <2>2 DEF MinedIsTrue
<1> QED
  BY <1>5, <1>6, <1>7, <1>8 DEF TrueInv

\* A market closes, its outcome is known, a day or the wallet changes.
LEMMA TrueOutside ==
  ASSUME TrueInv, slips' \in Slips,
         \/ Close \/ (\E c \in Conds : InsertClosed(c) \/ Clarify(c))
         \/ DayPasses \/ (\E w \in Wallets : Migrate(w))
  PROVE  TrueInv'
<1>1. /\ UNCHANGED <<redemptions, chain, relay, task, scan, missed>> /\ events' \in 0 .. MaxEvents
      /\ wallet' \in Wallets /\ (wallet' = wallet \/ wallet = FirstWallet)
  BY EventStep DEF Close, InsertClosed, Clarify, DayPasses, Migrate, tables, outside, TrueInv, TypeOK
<1>2. /\ closed' \in 0 .. MaxConds /\ untimed' \subseteq closed' + 1 .. MaxConds
      /\ clear' \subseteq 1 .. closed' \cup untimed'
  <2>1. /\ closed \in 0 .. MaxConds /\ untimed \subseteq closed + 1 .. MaxConds
        /\ clear \subseteq 1 .. closed \cup untimed /\ MaxConds \in Nat
    BY MoneyAssumption DEF TrueInv, TypeOK
  <2>2. CASE Close
    <3>1. closed \in Nat /\ closed' = closed + 1 /\ closed' \in 0 .. MaxConds /\ untimed' = untimed \ {closed'}
      BY <2>1, <2>2 DEF Close
    <3>2. clear' \subseteq clear \cup {closed'}
      BY <2>2 DEF Close
    <3>3. 1 .. closed \subseteq 1 .. closed' /\ closed' \in 1 .. closed'
      BY <3>1
    <3>4. untimed' \subseteq closed' + 1 .. MaxConds
      BY <2>1, <3>1
    <3> QED
      BY <2>1, <3>1, <3>2, <3>3, <3>4
  <2>3. ASSUME NEW c \in Conds, InsertClosed(c)
        PROVE  /\ closed' = closed /\ untimed' \subseteq closed + 1 .. MaxConds
               /\ clear' \subseteq 1 .. closed \cup untimed'
    <3>1. c \in closed + 1 .. MaxConds /\ closed' = closed /\ untimed' = untimed \cup {c}
      BY <2>1, <2>3 DEF InsertClosed, Conds
    <3>2. clear' \subseteq clear \cup {c}
      BY <2>3 DEF InsertClosed
    <3> QED
      BY <2>1, <3>1, <3>2
  <2>4. CASE \E c \in Conds : Clarify(c)
    BY <2>1, <2>4 DEF Clarify
  <2>5. CASE DayPasses \/ \E w \in Wallets : Migrate(w)
    BY <2>1, <2>5 DEF DayPasses, Migrate, outside
  <2> QED
    BY <2>1, <2>2, <2>3, <2>4, <2>5
<1>3. /\ withdrawals' \in Seq(Withdrawals) /\ Len(withdrawals') = Len(withdrawals)
      /\ \A j \in 1 .. Len(withdrawals) : withdrawals'[j].status = withdrawals[j].status
  <2>1. CASE UNCHANGED withdrawals
    BY <2>1 DEF TrueInv, TypeOK
  <2>2. CASE DayPasses
    <3> DEFINE n == Len(withdrawals)
               f(j) == [withdrawals[j] EXCEPT !.today = FALSE]
    <3>1. n \in Nat /\ DOMAIN withdrawals = 1 .. n /\ \A j \in 1 .. n : withdrawals[j] \in Withdrawals
      BY TablesAre DEF TrueInv
    <3>2. \A j \in 1 .. n : f(j) \in Withdrawals /\ f(j).status = withdrawals[j].status
      BY <3>1 DEF Withdrawals
    <3>3. withdrawals' = [j \in 1 .. n |-> f(j)]
      BY <2>2, <3>1 DEF DayPasses
    <3> HIDE DEF n, f
    <3>4. withdrawals' \in Seq(Withdrawals) /\ Len(withdrawals') = n
      BY <3>1, <3>2, <3>3, IsASeq
    <3> QED
      BY <3>1, <3>2, <3>3, <3>4 DEF n
  <2> QED
    BY <2>1, <2>2 DEF Close, InsertClosed, Clarify, Migrate, tables
<1>4. TypeOK'
  BY <1>1, <1>2, <1>3 DEF TrueInv, TypeOK
<1>5. TypeOK /\ RelayGrows
  BY <1>1, RelaySame DEF TrueInv
<1>6. TasksOK'
  BY <1>1, <1>3, <1>4, <1>5, TasksStay, TablesAre
<1>7. RelayOK' /\ RowsOK'
  BY <1>1 DEF TrueInv, RelayOK, RowsOK, CallOK
<1>8. MinedIsTrue'
  <2>1. DOMAIN withdrawals' = DOMAIN withdrawals /\ DOMAIN withdrawals = 1 .. Len(withdrawals)
    BY <1>3, <1>4, <1>5, TablesAre, LenProperties DEF TypeOK
  <2>2. \A j : (Happened("transfer", j)' <=> Happened("transfer", j))
               /\ (Happened("redeem", j)' <=> Happened("redeem", j))
    BY <1>1 DEF Happened, BatchesOf
  <2>3. \A j \in DOMAIN withdrawals' : withdrawals'[j].status = "mined" => Happened("transfer", j)'
    BY <1>3, <2>1, <2>2 DEF TrueInv, MinedIsTrue
  <2>4. ASSUME NEW j \in DOMAIN redemptions', redemptions'[j].status = "mined"
        PROVE  \/ Happened("redeem", j)'
               \/ chain'[redemptions'[j].wallet].win[redemptions'[j].cond] = 0
               \/ redemptions'[j].wallet # wallet'
    <3>1. \/ Happened("redeem", j)
          \/ chain[redemptions[j].wallet].win[redemptions[j].cond] = 0
          \/ redemptions[j].wallet # wallet
      BY <1>1, <2>4 DEF TrueInv, MinedIsTrue
    <3>2. redemptions[j].wallet \in {FirstWallet, wallet}
      BY <1>1, <1>5, <2>4, TablesAre DEF TrueInv, RowsOK
    <3> QED
      BY <1>1, <2>2, <3>1, <3>2
  <2> QED
    BY <2>3, <2>4 DEF MinedIsTrue
<1> QED
  BY <1>4, <1>6, <1>7, <1>8 DEF TrueInv

-----------------------------------------------------------------------------
\* A redemption is handed over a bounded number of times

\* Only the batches of the redemptions count.
Sent(i) == BatchesOf("redeem", i)

\* The batches of a redemption are some of the relayer's, so they can be counted.
LEMMA SentIsFinite ==
  ASSUME TypeOK, NEW i
  PROVE  IsFiniteSet(Sent(i)) /\ Cardinality(Sent(i)) \in Nat
<1>1. Len(relay) \in Nat /\ Sent(i) \subseteq 1 .. Len(relay)
  BY TablesAre DEF Sent, BatchesOf
<1>2. IsFiniteSet(1 .. Len(relay))
  BY <1>1, FS_Interval
<1> QED
  BY <1>1, <1>2, FS_Subset, FS_CardinalityType

\* A new batch is of one redemption at most.
LEMMA SentGrows ==
  ASSUME TypeOK, NEW b \in Batches, relay' = Append(relay, b), NEW i
  PROVE  /\ Cardinality(Sent(i))' \in Nat
         /\ b.call.kind = "redeem" /\ b.call.row = i =>
              Cardinality(Sent(i))' <= Cardinality(Sent(i)) + 1
         /\ ~(b.call.kind = "redeem" /\ b.call.row = i) =>
              Cardinality(Sent(i))' = Cardinality(Sent(i))
<1> DEFINE n == Len(relay) + 1
<1>1. /\ relay' \in Seq(Batches) /\ Len(relay') = n
      /\ \A j \in 1 .. Len(relay) : relay'[j] = relay[j]
      /\ relay'[n] = b /\ Len(relay) \in Nat
  BY AppendBatch, TablesAre
<1>2. DOMAIN relay = 1 .. Len(relay) /\ DOMAIN relay' = 1 .. n
  BY <1>1, TablesAre, LenProperties
<1>3. 1 .. n = (1 .. Len(relay)) \cup {n} /\ n \notin 1 .. Len(relay)
  BY <1>1
<1> HIDE DEF n
<1>4. CASE b.call.kind = "redeem" /\ b.call.row = i
  <2>1. Sent(i)' = Sent(i) \cup {n}
    BY <1>1, <1>2, <1>3, <1>4 DEF Sent, BatchesOf
  <2>2. IsFiniteSet(Sent(i)) /\ Cardinality(Sent(i)) \in Nat
    BY SentIsFinite
  <2>3. n \notin Sent(i)
    BY <1>2, <1>3 DEF Sent, BatchesOf
  <2>4. Cardinality(Sent(i) \cup {n}) = Cardinality(Sent(i)) + 1
    BY <2>2, <2>3, FS_AddElement
  <2> QED
    BY <1>4, <2>1, <2>2, <2>4
<1>5. CASE ~(b.call.kind = "redeem" /\ b.call.row = i)
  <2>1. Sent(i)' = Sent(i)
    BY <1>1, <1>2, <1>3, <1>5 DEF Sent, BatchesOf
  <2> QED
    BY <1>5, <2>1, SentIsFinite
<1> QED
  BY <1>4, <1>5

\* A redemption that is not there yet has no batches.
LEMMA NoneSent ==
  ASSUME TypeOK, RelayOK, NEW i, i \notin 1 .. Len(redemptions)
  PROVE  Cardinality(Sent(i)) = 0
<1>1. Sent(i) = {}
  BY TablesAre DEF RelayOK, Sent, BatchesOf
<1> QED
  BY <1>1, FS_EmptySet

\* Tasks that move on, let go of their rows, or leave them alone.
Early(t)   == task[t].pc \in {"ready", "signed"}
HoldsOn(t) == \A i \in Nat : Holds(t, i)' => Holds(t, i) /\ (Early(t)' => Early(t))

LEMMA HoldersStay ==
  ASSUME TypeOK, HoldersOK, AttemptsOK, UNCHANGED redemptions,
         DOMAIN relay' = DOMAIN relay, \A b \in DOMAIN relay : relay'[b].call = relay[b].call,
         \A t \in Tasks : HoldsOn(t)
  PROVE  HoldersOK' /\ AttemptsOK'
<1>1. \A i : BatchesOf("redeem", i)' = BatchesOf("redeem", i)
  BY DEF BatchesOf
<1>2. AttemptsOK'
  BY <1>1 DEF AttemptsOK
<1>3. ASSUME NEW t \in Tasks, NEW i \in Nat, Holds(t, i)'
      PROVE  /\ i \in 1 .. Len(redemptions') /\ redemptions'[i].status = "pending"
             /\ t \in Api => ~redemptions'[i].retry
             /\ redemptions'[i].attempts < MaxAttempts
             /\ Cardinality(BatchesOf("redeem", i)') <=
                  redemptions'[i].attempts + (IF Early(t)' THEN 0 ELSE 1)
             /\ \A u \in Tasks \ {t} : ~Holds(u, i)'
  <2>1. Holds(t, i) /\ (Early(t)' => Early(t))
    BY <1>3 DEF HoldsOn
  <2>2. /\ i \in 1 .. Len(redemptions) /\ redemptions[i].status = "pending"
        /\ t \in Api => ~redemptions[i].retry
        /\ redemptions[i].attempts < MaxAttempts
        /\ Cardinality(BatchesOf("redeem", i)) <= redemptions[i].attempts + (IF Early(t) THEN 0 ELSE 1)
        /\ \A u \in Tasks \ {t} : ~Holds(u, i)
    BY <2>1 DEF HoldersOK, Early
  <2>3. redemptions[i].attempts \in Nat /\ Cardinality(BatchesOf("redeem", i)) \in Nat
    BY <2>2, TablesAre, SentIsFinite DEF Redemptions, Sent
  <2>4. \A u \in Tasks \ {t} : ~Holds(u, i)'
    BY <2>2 DEF HoldsOn
  <2>5. redemptions[i].attempts + (IF Early(t) THEN 0 ELSE 1)
          <= redemptions[i].attempts + (IF Early(t)' THEN 0 ELSE 1)
    BY <2>1, <2>3
  <2>6. Cardinality(BatchesOf("redeem", i)) <= redemptions[i].attempts + (IF Early(t)' THEN 0 ELSE 1)
    BY <2>2, <2>3, <2>5
  <2> QED
    BY <1>1, <2>2, <2>4, <2>6
<1> QED
  BY <1>2, <1>3 DEF HoldersOK, Early

\* Rows are added, and those the scan will retry wait.
RowsGrow ==
  /\ Len(redemptions) <= Len(redemptions')
  /\ \A r \in 1 .. Len(redemptions) : redemptions'[r].cond = redemptions[r].cond
  /\ \A r \in scan.retries : redemptions'[r] = redemptions[r]

\* The worker stands still, or has done with the market that it had checked.
WorkerMoves ==
  \/ task'[Worker] = task[Worker]
  \/ /\ task'[Worker].pc # "checked"
     /\ scan.on \/ task'[Worker].pc = "idle"
     /\ task[Worker].pc = "checked" =>
          \/ task[Worker].call.cond \in missed'
          \/ \E r \in 1 .. Len(redemptions') : redemptions'[r].cond = task[Worker].call.cond

LEMMA ScanStays ==
  ASSUME TypeOK, TypeOK', ScanOK, ReachedOK, UNCHANGED scan, closed <= closed', missed \subseteq missed',
         RowsGrow, WorkerMoves, wallet' = wallet \/ wallet' # FirstWallet,
         \A c \in Conds : chain[FirstWallet].win[c] = 0 => chain'[FirstWallet].win[c] = 0
  PROVE  ScanOK' /\ ReachedOK'
<1>1. /\ Len(redemptions) \in Nat /\ Len(redemptions') \in Nat
      /\ DOMAIN redemptions = 1 .. Len(redemptions) /\ DOMAIN redemptions' = 1 .. Len(redemptions')
  BY TablesAre, LenProperties DEF TypeOK
<1>2. scan.retries \subseteq Retryable'
  BY <1>1 DEF ScanOK, Retryable, RowsGrow
<1>3. Reached' = Reached /\ Reached \in Nat
  BY DEF Reached, ScanOK
<1>4. closed \in Nat /\ closed' \in Nat /\ scan.upto \in Nat /\ scan.cursor \in Nat
  BY MoneyAssumption DEF TypeOK, Scans
<1>5. ScanOK'
  <2>1. scan.retries' \subseteq Retryable' /\ (~scan.on => scan.retries' = {} /\ task'[Worker].pc = "idle")
    BY <1>2 DEF ScanOK, WorkerMoves
  <2>2. scan.on => /\ scan.upto <= closed' /\ scan.cursor <= Reached
                   /\ \A j \in 1 .. Len(scan.markets) : scan.markets[j] = Reached + j
    BY <1>4 DEF ScanOK
  <2>3. scan.cursor <= closed'
    BY <1>4 DEF ScanOK
  <2>4. task'[Worker].pc = "checked" => /\ task'[Worker].call.kind = "redeem"
                                        /\ task'[Worker].call.cond > scan.cursor
    BY DEF ScanOK, WorkerMoves
  <2>5. scan.late # {} => scan.on /\ scan.cursor = 0
    BY DEF ScanOK
  <2> QED
    BY <1>3, <2>1, <2>2, <2>3, <2>4, <2>5 DEF ScanOK
<1>6. ASSUME wallet' = FirstWallet, NEW c \in 1 .. Reached, chain'[FirstWallet].win[c] > 0
      PROVE  \/ c \in missed'
             \/ \E r \in 1 .. Len(redemptions') : redemptions'[r].cond = c
             \/ task'[Worker].pc = "checked" /\ task'[Worker].call.cond = c
  <2>1. c \in Conds
    <3>1. Reached <= closed
      <4>1. CASE scan.on
        <5>1. Len(scan.markets) \in Nat
          BY LenProperties DEF TypeOK, Scans
        <5> QED
          BY <1>3, <1>4, <4>1, <5>1 DEF ScanOK, Reached
      <4>2. CASE ~scan.on
        BY <4>2 DEF ScanOK, Reached
      <4> QED
        BY <4>1, <4>2
    <3> QED
      BY <1>3, <1>4, <3>1, MoneyAssumption DEF Conds, TypeOK
  <2>2. chain[FirstWallet].win[c] > 0
    <3>1. chain[FirstWallet].win[c] \in Nat
      BY <2>1, MoneyAssumption DEF TypeOK, Holdings
    <3>2. chain[FirstWallet].win[c] # 0
      BY <1>6, <2>1
    <3> QED
      BY <3>1, <3>2
  <2>3. wallet = FirstWallet
    BY <1>6
  <2>4. \/ c \in missed
        \/ \E r \in 1 .. Len(redemptions) : redemptions[r].cond = c
        \/ task[Worker].pc = "checked" /\ task[Worker].call.cond = c
    BY <2>2, <2>3 DEF ReachedOK
  <2>5. (\E r \in 1 .. Len(redemptions) : redemptions[r].cond = c) =>
          \E r \in 1 .. Len(redemptions') : redemptions'[r].cond = c
    BY <1>1 DEF RowsGrow
  <2> QED
    BY <2>4, <2>5 DEF WorkerMoves
<1>7. ReachedOK'
  BY <1>3, <1>6 DEF ReachedOK
<1> QED
  BY <1>5, <1>7

\* A step that leaves rows, calls and scan alone.
LEMMA KeptStays ==
  ASSUME TrueInv, KeptInv, TypeOK', UNCHANGED <<redemptions, scan>>,
         DOMAIN relay' = DOMAIN relay, \A b \in DOMAIN relay : relay'[b].call = relay[b].call,
         \A t \in Tasks : HoldsOn(t), WorkerMoves,
         closed <= closed', missed \subseteq missed', wallet' = wallet \/ wallet' # FirstWallet,
         \A c \in Conds : chain[FirstWallet].win[c] = 0 => chain'[FirstWallet].win[c] = 0
  PROVE  KeptInv'
<1>1. TypeOK /\ HoldersOK /\ AttemptsOK /\ ScanOK /\ ReachedOK
  BY DEF TrueInv, KeptInv
<1>2. HoldersOK' /\ AttemptsOK'
  BY <1>1, HoldersStay
<1>3. RowsGrow
  BY <1>1, TablesAre DEF RowsGrow
<1>4. ScanOK' /\ ReachedOK'
  BY <1>1, <1>3, ScanStays
<1> QED
  BY <1>2, <1>4 DEF KeptInv

\* A step of one task that leaves rows, batches and scan alone.
LEMMA KeptTask ==
  ASSUME TrueInv, KeptInv, TypeOK', UNCHANGED <<redemptions, scan, relay, closed, wallet, chain>>,
         missed \subseteq missed', NEW t \in Tasks, \A u \in Tasks \ {t} : task'[u] = task[u],
         HoldsOn(t), t = Worker => WorkerMoves
  PROVE  KeptInv'
<1>1. \A u \in Tasks : HoldsOn(u)
  BY DEF HoldsOn, Holds, Early
<1>2. WorkerMoves
  BY DEF WorkerMoves, Tasks
<1>3. closed <= closed'
  BY MoneyAssumption DEF TrueInv, TypeOK
<1> QED
  BY <1>1, <1>2, <1>3, KeptStays

LEMMA KeptAsking ==
  ASSUME TrueInv, KeptInv, TypeOK', NEW t \in Api,
         \/ Withdraw(t) \/ RedeemByHand(t) \/ MergeByHand(t) \/ RedeemArchive(t) \/ MigrateArchive(t)
  PROVE  KeptInv'
<1>1. /\ t \in Tasks /\ UNCHANGED <<tables, outside, scan, missed>>
      /\ \A u \in Tasks \ {t} : task'[u] = task[u]
      /\ \/ task'[t].pc = "checked" /\ task'[t].call.kind \in {"transfer", "redeem"}
         \/ task'[t].pc = "ready" /\ task'[t].call.kind \in {"merge", "move"}
  BY AskingIs
<1>2. UNCHANGED <<redemptions, relay, closed, wallet, chain>>
  BY <1>1 DEF tables, outside
<1>3. HoldsOn(t) /\ t # Worker
  BY <1>1, MoneyAssumption DEF HoldsOn, Holds, Steps
<1> QED
  BY <1>1, <1>2, <1>3, KeptTask

LEMMA KeptSigning ==
  ASSUME TrueInv, KeptInv, TypeOK', NEW t \in Tasks, Sign(t) \/ SignErr(t) \/ Poll(t)
  PROVE  KeptInv'
<1>1. UNCHANGED <<tables, outside, scan, missed>> /\ task[t].pc \in {"ready", "polling"}
  BY DEF Sign, SignErr, Poll
<1>2. UNCHANGED <<redemptions, relay, closed, wallet, chain>>
  BY <1>1 DEF tables, outside
<1>3. /\ \A u \in Tasks \ {t} : task'[u] = task[u]
      /\ task'[t].call = task[t].call /\ task'[t].pc \in {"signed", "ok", "hash", "err"}
      /\ task'[t].pc = "signed" => task[t].pc = "ready"
  <2>1. CASE Sign(t)
    BY <2>1, TaskIs DEF Sign, TrueInv, Locals
  <2>2. CASE SignErr(t) \/ Poll(t)
    <3>1. PICK pc \in {"ok", "hash", "err"} : Goto(t, pc)
      BY <2>2 DEF SignErr, Poll
    <3> QED
      BY <3>1, GotoStep DEF TrueInv
  <2> QED
    BY <2>1, <2>2
<1>4. HoldsOn(t)
  BY <1>1, <1>3 DEF HoldsOn, Holds, Early, Steps
<1>5. t = Worker => WorkerMoves
  BY <1>1, <1>3 DEF WorkerMoves, KeptInv, ScanOK
<1> QED
  BY <1>1, <1>2, <1>3, <1>4, <1>5, KeptTask

LEMMA KeptWriteErr ==
  ASSUME TrueInv, KeptInv, TypeOK', NEW t \in Tasks, WriteErr(t)
  PROVE  KeptInv'
<1>1. UNCHANGED <<tables, outside, scan>> /\ task' = [task EXCEPT ![t] = Idle] /\ missed' = Missed(t)
  BY DEF WriteErr
<1>2. UNCHANGED <<redemptions, relay, closed, wallet, chain>> /\ missed \subseteq missed'
  BY <1>1 DEF tables, outside, Missed
<1>3. \A u \in Tasks \ {t} : task'[u] = task[u] /\ task'[t].pc = "idle"
  BY <1>1, IdleStep DEF TrueInv
<1>4. task'[t].pc = "idle"
  BY <1>1, IdleStep DEF TrueInv
<1>5. HoldsOn(t)
  BY <1>4 DEF HoldsOn, Holds, Steps
<1>6. t = Worker => WorkerMoves
  BY <1>1, <1>4 DEF WorkerMoves, Missed
<1> QED
  BY <1>1, <1>2, <1>3, <1>5, <1>6, KeptTask

\* The chain, the markets and the user.
LEMMA KeptOutside ==
  ASSUME TrueInv, KeptInv, TypeOK',
         \/ \E i \in DOMAIN relay : Mine(i) \/ Drop(i)
         \/ Close \/ (\E c \in Conds : InsertClosed(c) \/ Clarify(c)) \/ DayPasses \/ (\E w \in Wallets : Migrate(w))
  PROVE  KeptInv'
<1>1. UNCHANGED <<redemptions, scan, task, missed>>
  BY DEF Mine, Drop, Close, InsertClosed, Clarify, DayPasses, Migrate, tables
<1>2. DOMAIN relay' = DOMAIN relay /\ \A b \in DOMAIN relay : relay'[b].call = relay[b].call
  <2>1. CASE UNCHANGED relay
    BY <2>1
  <2>2. ASSUME NEW i \in DOMAIN relay, Mine(i) \/ Drop(i)
        PROVE  DOMAIN relay' = DOMAIN relay /\ \A b \in DOMAIN relay : relay'[b].call = relay[b].call
    <3>1. i \in 1 .. Len(relay) /\ TypeOK /\ DOMAIN relay = 1 .. Len(relay)
      BY TablesAre DEF TrueInv
    <3>2. relay' \in Seq(Batches) /\ Len(relay') = Len(relay) /\ RelayGrows
      BY <2>2, <3>1, BatchStep DEF Mine, Drop
    <3>3. DOMAIN relay' = 1 .. Len(relay)
      BY <3>2, LenProperties
    <3> QED
      BY <3>1, <3>2, <3>3 DEF RelayGrows
  <2> QED
    BY <2>1, <2>2 DEF Close, InsertClosed, Clarify, DayPasses, Migrate, outside
<1>3. \A c \in Conds : chain[FirstWallet].win[c] = 0 => chain'[FirstWallet].win[c] = 0
  <2>1. CASE UNCHANGED chain
    BY <2>1
  <2>2. ASSUME NEW i \in DOMAIN relay, Mine(i)
        PROVE  \A c \in Conds : chain[FirstWallet].win[c] = 0 => chain'[FirstWallet].win[c] = 0
    <3>1. i \in 1 .. Len(relay)
      BY TablesAre DEF TrueInv
    <3> QED
      BY <2>2, <3>1, MineStep, MoneyAssumption
  <2> QED
    BY <2>1, <2>2 DEF Drop, Close, InsertClosed, Clarify, DayPasses, Migrate, outside
<1>4. closed <= closed' /\ (wallet' = wallet \/ wallet' # FirstWallet)
  <2>1. closed \in Nat
    BY MoneyAssumption DEF TrueInv, TypeOK
  <2>2. closed' = closed \/ closed' = closed + 1
    BY DEF Mine, Drop, Close, InsertClosed, Clarify, DayPasses, Migrate, outside
  <2>3. wallet' = wallet \/ wallet' # FirstWallet
    BY DEF Mine, Drop, Close, InsertClosed, Clarify, DayPasses, Migrate, outside
  <2> QED
    BY <2>1, <2>2, <2>3
<1>5. (\A t \in Tasks : HoldsOn(t)) /\ WorkerMoves /\ missed \subseteq missed'
  BY <1>1 DEF HoldsOn, Holds, Early, WorkerMoves
<1> QED
  BY <1>1, <1>2, <1>3, <1>4, <1>5, KeptStays

\* The worker's tick, and the end of a scan or of the copier.
LEMMA KeptScan ==
  ASSUME TrueInv, KeptInv, TypeOK', Tick \/ TickEnd \/ Crash
  PROVE  KeptInv'
<1>1. UNCHANGED <<tables, outside>> /\ UNCHANGED <<redemptions, relay, closed, wallet, chain>>
  BY DEF Tick, TickEnd, Crash, tables, outside
<1>2. \A t \in Tasks : task'[t] = task[t] \/ task'[t].pc = "idle"
  BY IdleIs DEF Tick, TickEnd, Crash
<1>3. HoldersOK' /\ AttemptsOK'
  <2>1. \A t \in Tasks : HoldsOn(t)
    BY <1>2 DEF HoldsOn, Holds, Steps, Early
  <2> QED
    BY <1>1, <2>1, HoldersStay DEF TrueInv, KeptInv
<1>4. Worker \in Tasks /\ closed \in Nat /\ scan.cursor \in Nat /\ scan.upto \in Nat /\ Len(scan.markets) \in Nat
  BY LenProperties, MoneyAssumption DEF Tasks, TrueInv, TypeOK, Scans
<1>5. CASE Tick
  <2> DEFINE n == closed - scan.cursor
             M == [i \in 1 .. n |-> scan.cursor + i]
  <2>1. /\ scan'.cursor = scan.cursor /\ scan'.upto = closed /\ scan'.on /\ scan'.retries = Retryable
        /\ scan'.markets = M /\ UNCHANGED <<task, missed>> /\ ~scan.on
        /\ scan'.late # {} => scan'.cursor = 0
    BY <1>5 DEF Tick, Scan, Late
  <2>2. n \in Nat
    BY <1>4 DEF KeptInv, ScanOK
  <2>3. Len(M) = n /\ \A j \in 1 .. n : M[j] = scan.cursor + j
    BY <2>2, IsASeq
  <2> HIDE DEF M
  <2>4. Reached = scan.cursor /\ Reached' = scan.cursor
    BY <1>4, <2>1, <2>3 DEF Reached
  <2>5. Retryable' = Retryable
    BY <1>1 DEF Retryable
  <2>6. ScanOK'
    BY <1>1, <1>4, <2>1, <2>2, <2>3, <2>4, <2>5 DEF KeptInv, ScanOK
  <2>7. ReachedOK'
    BY <1>1, <2>1, <2>4 DEF KeptInv, ReachedOK
  <2> QED
    BY <1>3, <2>6, <2>7 DEF KeptInv
<1>6. CASE TickEnd
  <2>1. /\ scan'.cursor = scan.upto /\ ~scan'.on /\ scan'.retries = {} /\ scan'.late = {}
        /\ UNCHANGED <<task, missed>> /\ task[Worker].pc = "idle" /\ scan.on /\ scan.markets = <<>>
    BY <1>6 DEF TickEnd, Scanned, NoScan
  <2>2. Reached = scan.upto /\ Reached' = scan.upto
    BY <1>4, <2>1, EmptySeq DEF Reached
  <2>3. ScanOK'
    BY <1>1, <1>4, <2>1, <2>2 DEF KeptInv, ScanOK
  <2>4. ReachedOK'
    BY <1>1, <2>1, <2>2 DEF KeptInv, ReachedOK
  <2> QED
    BY <1>3, <2>3, <2>4 DEF KeptInv
<1>7. CASE Crash
  <2>1. scan'.cursor = 0 /\ ~scan'.on /\ scan'.retries = {} /\ scan'.late = {} /\ task'[Worker].pc = "idle"
    BY <1>4, <1>7, IdleIs DEF Crash, NoScan
  <2>2. Reached' = 0
    BY <2>1 DEF Reached
  <2>3. ScanOK'
    BY <1>1, <1>4, <2>1, <2>2 DEF ScanOK
  <2>4. ReachedOK'
    BY <2>2 DEF ReachedOK
  <2> QED
    BY <1>3, <2>3, <2>4 DEF KeptInv
<1> QED
  BY <1>5, <1>6, <1>7

LEMMA KeptMarket ==
  ASSUME TrueInv, KeptInv, TypeOK', Market
  PROVE  KeptInv'
<1>1. /\ UNCHANGED <<tables, outside>> /\ UNCHANGED <<redemptions, relay, closed, wallet, chain>>
      /\ task[Worker].pc = "idle" /\ scan.on /\ Worker \in Tasks /\ scan.retries = {}
  BY DEF Market, tables, outside, Tasks
<1>2. scan \in Scans /\ scan.markets \in Seq(Conds)
  BY DEF TrueInv, TypeOK, Scans
<1>3. PICK c \in Conds : MarketIs(c)
  BY MarketPicks
<1> DEFINE n == chain[wallet].win[c]
<1>4. /\ scan'.on /\ scan'.cursor = scan.cursor /\ scan'.upto = scan.upto /\ scan'.retries = {}
      /\ \/ /\ scan.markets # <<>> /\ c = Head(scan.markets)
            /\ scan'.markets = Tail(scan.markets) /\ scan'.late = scan.late
         \/ /\ scan.markets = <<>> /\ c \in scan.late
            /\ scan'.markets = <<>> /\ scan'.late = scan.late \ {c}
  BY <1>1, <1>2, <1>3, TakesStep DEF MarketIs
<1>5. \/ missed' = missed \cup {c} /\ UNCHANGED task
      \/ (Exists(c, wallet) \/ n = 0) /\ UNCHANGED <<task, missed>>
      \/ Call(Worker, "checked", Redeem(c, n)) /\ UNCHANGED missed
  BY <1>3 DEF MarketIs
<1>6. n \in Nat
  BY DEF TrueInv, TypeOK, Holdings
<1> HIDE DEF n
<1>7. /\ \A u \in Tasks \ {Worker} : task'[u] = task[u]
      /\ \/ UNCHANGED task
         \/ task'[Worker].pc = "checked" /\ task'[Worker].call.kind = "redeem" /\ task'[Worker].call.cond = c
  <2>1. CASE UNCHANGED task
    BY <2>1
  <2>2. CASE Call(Worker, "checked", Redeem(c, n))
    <3> DEFINE r == Redeem(c, n)
    <3>1. r \in Calls /\ r.kind = "redeem" /\ r.cond = c
      BY <1>6, CallsAre DEF CallOK, TrueInv
    <3>2. CallOn(wallet, Worker, "checked", r)
      BY <2>2 DEF Call
    <3> HIDE DEF r
    <3>3. /\ \A u \in Tasks \ {Worker} : task'[u] = task[u]
          /\ task'[Worker].pc = "checked" /\ task'[Worker].call = r
      BY <1>1, <3>1, <3>2, CallStep DEF TrueInv, TypeOK
    <3> QED
      BY <3>1, <3>3
  <2> QED
    BY <1>5, <2>1, <2>2
<1>8. HoldersOK' /\ AttemptsOK'
  <2>1. \A t \in Tasks : HoldsOn(t)
    BY <1>7 DEF HoldsOn, Holds, Steps, Early
  <2> QED
    BY <1>1, <2>1, HoldersStay DEF TrueInv, KeptInv
<1>9. /\ scan.upto \in Nat /\ scan.cursor \in Nat /\ scan.upto <= closed /\ scan.cursor <= Reached
      /\ Reached = scan.upto - Len(scan.markets) /\ Reached \in Nat
      /\ \A j \in 1 .. Len(scan.markets) : scan.markets[j] = Reached + j
      /\ scan.cursor <= closed
  BY <1>1, <1>2 DEF KeptInv, ScanOK, Scans, Reached
<1>10. /\ \/ Reached' = Reached + 1 /\ c = Reached + 1
          \/ Reached' = Reached /\ scan.cursor = 0
       /\ \A j \in 1 .. Len(scan'.markets) : scan'.markets[j] = Reached' + j
  <2>1. CASE scan.markets # <<>> /\ c = Head(scan.markets) /\ scan'.markets = Tail(scan.markets)
    <3> DEFINE m == Tail(scan.markets)
    <3>1. /\ c = scan.markets[1] /\ Len(m) = Len(scan.markets) - 1 /\ Len(m) \in Nat
          /\ Len(scan.markets) \in Nat \ {0}
          /\ \A j \in 1 .. Len(m) : m[j] = scan.markets[j + 1]
      BY <1>2, <2>1, HeadTailProperties, LenProperties
    <3> HIDE DEF m
    <3>2. c = Reached + 1
      BY <1>9, <3>1
    <3>3. Reached' = Reached + 1
      BY <1>4, <1>9, <2>1, <3>1 DEF Reached, m
    <3>4. ASSUME NEW j \in 1 .. Len(m) PROVE m[j] = Reached' + j
      <4>1. j + 1 \in 1 .. Len(scan.markets)
        BY <3>1
      <4>2. m[j] = scan.markets[j + 1] /\ scan.markets[j + 1] = Reached + (j + 1)
        BY <1>9, <3>1, <4>1
      <4>3. Reached \in Nat /\ j \in Nat
        BY <1>9
      <4> QED
        BY <3>3, <4>2, <4>3
    <3> QED
      BY <2>1, <3>2, <3>3, <3>4 DEF m
  <2>2. CASE scan.markets = <<>> /\ c \in scan.late /\ scan'.markets = <<>>
    <3>1. scan.cursor = 0
      BY <2>2 DEF KeptInv, ScanOK
    <3>2. Reached' = Reached /\ Len(scan'.markets) = 0
      BY <1>1, <1>4, <2>2 DEF Reached
    <3> QED
      BY <3>1, <3>2
  <2> QED
    BY <1>4, <2>1, <2>2
<1>11. ScanOK'
  <2>1. task'[Worker].pc = "checked" =>
          task'[Worker].call.kind = "redeem" /\ task'[Worker].call.cond > scan.cursor
    <3>1. c > scan.cursor
      BY <1>9, <1>10 DEF Conds
    <3> QED
      BY <1>1, <1>7, <3>1
  <2>2. scan'.cursor <= Reached' /\ Reached' \in Nat
    BY <1>4, <1>9, <1>10
  <2>3. scan'.late # {} => scan'.cursor = 0
    BY <1>4 DEF KeptInv, ScanOK
  <2> QED
    BY <1>1, <1>4, <1>9, <1>10, <2>1, <2>2, <2>3 DEF ScanOK
<1>12. ReachedOK'
  <2> SUFFICES ASSUME wallet = FirstWallet, NEW d \in 1 .. Reached', chain[wallet].win[d] > 0
               PROVE  \/ d \in missed'
                      \/ \E r \in 1 .. Len(redemptions) : redemptions[r].cond = d
                      \/ task'[Worker].pc = "checked" /\ task'[Worker].call.cond = d
    BY <1>1 DEF ReachedOK
  <2>1. missed \subseteq missed'
    BY <1>5
  <2>2. CASE d # c
    <3>1. d \in 1 .. Reached
      BY <1>9, <1>10, <2>2
    <3> QED
      BY <1>1, <2>1, <3>1 DEF KeptInv, ReachedOK
  <2>3. CASE d = c
    <3>1. n # 0
      BY <1>6, <2>3 DEF n
    <3>2. Exists(c, wallet) => \E r \in 1 .. Len(redemptions) : redemptions[r].cond = c
      BY TablesAre DEF Exists, TrueInv
    <3>3. CASE Call(Worker, "checked", Redeem(c, n))
      <4>1. task'[Worker].pc = "checked"
        BY <1>1, <3>3, TaskIs DEF Call, CallOn, Idle, TrueInv
      <4> QED
        BY <1>1, <1>7, <2>3, <4>1
    <3>4. CASE missed' = missed \cup {c}
      BY <2>3, <3>4
    <3>5. CASE Exists(c, wallet)
      BY <2>3, <3>2, <3>5
    <3> QED
      BY <1>5, <3>1, <3>3, <3>4, <3>5
  <2> QED
    BY <2>2, <2>3
<1> QED
  BY <1>8, <1>11, <1>12 DEF KeptInv

\* A batch more is an attempt under way.
LEMMA KeptSubmitting ==
  ASSUME TrueInv, KeptInv, TypeOK', NEW t \in Tasks, Submit(t) \/ SubmitErr(t)
  PROVE  KeptInv'
<1>1. /\ UNCHANGED <<tables, closed, untimed, clear, wallet, chain, scan, missed>> /\ UNCHANGED redemptions
      /\ task[t].pc = "signed" /\ task[t].call \in Calls /\ task[t].wallet \in Wallets
  BY MoneyAssumption DEF Submit, SubmitErr, tables, TrueInv, TasksOK, TaskOK, CallOK, TypeOK
<1>2. /\ \A u \in Tasks \ {t} : task'[u] = task[u]
      /\ task'[t].call = task[t].call /\ task'[t].pc \in {"polling", "err"}
  <2>1. CASE Submit(t)
    <3> DEFINE n   == Len(relay) + 1
               new == [[task[t] EXCEPT !.pc = "polling"] EXCEPT !.tx = n]
    <3>1. new.pc = "polling" /\ new.call = task[t].call
      BY TaskIs DEF Locals, TrueInv
    <3>2. task' = [task EXCEPT ![t] = new]
      BY <2>1, TaskIs DEF Submit, TrueInv
    <3> HIDE DEF new
    <3> QED
      BY <3>1, <3>2, TaskIs DEF TrueInv
  <2>2. CASE SubmitErr(t)
    BY <2>2, GotoStep DEF SubmitErr, TrueInv
  <2> QED
    BY <2>1, <2>2
<1>3. \A i \in Nat : /\ Cardinality(Sent(i)) \in Nat /\ Cardinality(Sent(i))' \in Nat
                     /\ Cardinality(Sent(i))' <= Cardinality(Sent(i)) + 1
                     /\ ~(task[t].call.kind = "redeem" /\ task[t].call.row = i) =>
                          Cardinality(Sent(i))' = Cardinality(Sent(i))
  <2> SUFFICES ASSUME NEW i \in Nat
               PROVE  /\ Cardinality(Sent(i)) \in Nat /\ Cardinality(Sent(i))' \in Nat
                      /\ Cardinality(Sent(i))' <= Cardinality(Sent(i)) + 1
                      /\ ~(task[t].call.kind = "redeem" /\ task[t].call.row = i) =>
                           Cardinality(Sent(i))' = Cardinality(Sent(i))
    OBVIOUS
  <2>1. Cardinality(Sent(i)) \in Nat
    BY SentIsFinite DEF TrueInv
  <2>2. CASE relay' = relay
    <3>1. Sent(i)' = Sent(i)
      BY <2>2 DEF Sent, BatchesOf
    <3> QED
      BY <2>1, <3>1
  <2>3. CASE relay' # relay
    <3>1. \A h \in BOOLEAN : Batch(t, h) \in Batches /\ Batch(t, h).call = task[t].call
      BY <1>1, TaskIs DEF Batch, Batches, TrueInv
    <3>2. PICK b \in Batches : relay' = Append(relay, b) /\ b.call = task[t].call
      BY <2>3, <3>1 DEF Submit, SubmitErr
    <3>3. /\ b.call.kind = "redeem" /\ b.call.row = i =>
               Cardinality(Sent(i))' <= Cardinality(Sent(i)) + 1
          /\ ~(b.call.kind = "redeem" /\ b.call.row = i) =>
               Cardinality(Sent(i))' = Cardinality(Sent(i))
      BY <3>2, SentGrows DEF TrueInv
    <3>4. Cardinality(Sent(i))' \in Nat
      BY <3>2, SentGrows DEF TrueInv
    <3> QED
      BY <2>1, <3>2, <3>3, <3>4
  <2> QED
    BY <2>2, <2>3
<1>4. \A u \in Tasks, i \in Nat : Holds(u, i)' => Holds(u, i) /\ (u # t => (Early(u)' <=> Early(u)))
  BY <1>1, <1>2 DEF Holds, Steps, Early
<1>5. Early(t) /\ ~Early(t)'
  BY <1>1, <1>2 DEF Early
<1>6. ASSUME NEW u \in Tasks, NEW i \in Nat, Holds(u, i)'
      PROVE  /\ i \in 1 .. Len(redemptions) /\ redemptions[i].status = "pending"
             /\ u \in Api => ~redemptions[i].retry
             /\ redemptions[i].attempts < MaxAttempts
             /\ Cardinality(Sent(i))' <= redemptions[i].attempts + (IF Early(u)' THEN 0 ELSE 1)
             /\ \A v \in Tasks \ {u} : ~Holds(v, i)'
  <2>1. /\ i \in 1 .. Len(redemptions) /\ redemptions[i].status = "pending" /\ Holds(u, i)
        /\ u \in Api => ~redemptions[i].retry
        /\ redemptions[i].attempts < MaxAttempts
        /\ Cardinality(Sent(i)) <= redemptions[i].attempts + (IF Early(u) THEN 0 ELSE 1)
        /\ \A v \in Tasks \ {u} : ~Holds(v, i)
    BY <1>4, <1>6 DEF KeptInv, HoldersOK, Sent, Early
  <2>2. redemptions[i].attempts \in Nat
    BY <2>1, TablesAre DEF Redemptions, TrueInv
  <2>3. Cardinality(Sent(i))' <= redemptions[i].attempts + (IF Early(u)' THEN 0 ELSE 1)
    <3>1. CASE u = t
      <4>1. Early(u) /\ ~Early(u)'
        BY <1>5, <3>1
      <4>2. Cardinality(Sent(i)) <= redemptions[i].attempts
        BY <2>1, <2>2, <4>1
      <4>3. /\ Cardinality(Sent(i)) \in Nat /\ Cardinality(Sent(i))' \in Nat
            /\ Cardinality(Sent(i))' <= Cardinality(Sent(i)) + 1
        BY <1>3
      <4>4. Cardinality(Sent(i))' <= redemptions[i].attempts + 1
        BY <2>2, <4>2, <4>3
      <4> QED
        BY <4>1, <4>4
    <3>2. CASE u # t
      <4>1. ~Holds(t, i)
        BY <2>1, <3>2
      <4>2. ~(task[t].call.kind = "redeem" /\ task[t].call.row = i)
        BY <1>1, <4>1 DEF Holds, Steps
      <4> QED
        BY <1>3, <1>4, <1>6, <2>1, <3>2, <4>2
    <3> QED
      BY <3>1, <3>2
  <2>4. \A v \in Tasks \ {u} : ~Holds(v, i)'
    BY <1>4, <2>1
  <2> QED
    BY <2>1, <2>3, <2>4
<1>7. HoldersOK'
  BY <1>1, <1>6 DEF HoldersOK, Sent, Early
<1>8. ASSUME NEW i \in 1 .. Len(redemptions)
      PROVE  /\ Cardinality(Sent(i))' <= MaxAttempts
             /\ redemptions[i].retry /\ redemptions[i].status = "failed" =>
                  Cardinality(Sent(i))' <= redemptions[i].attempts
  <2>1. i \in Nat
    BY TablesAre DEF TrueInv
  <2>2. /\ Cardinality(Sent(i)) <= MaxAttempts
        /\ redemptions[i].retry /\ redemptions[i].status = "failed" =>
             Cardinality(Sent(i)) <= redemptions[i].attempts
    BY DEF KeptInv, AttemptsOK, Sent
  <2>3. CASE task[t].call.kind = "redeem" /\ task[t].call.row = i
    <3>1. Holds(t, i)
      BY <1>1, <2>3 DEF Holds, Steps
    <3>2. /\ redemptions[i].status = "pending" /\ redemptions[i].attempts < MaxAttempts
          /\ Cardinality(Sent(i)) <= redemptions[i].attempts
      BY <1>5, <2>1, <3>1, TablesAre DEF KeptInv, HoldersOK, Sent, Early, Redemptions, TrueInv
    <3>3. redemptions[i].attempts \in Nat /\ MaxAttempts \in Nat
      BY TablesAre, MoneyAssumption DEF Redemptions, TrueInv
    <3>4. /\ Cardinality(Sent(i)) \in Nat /\ Cardinality(Sent(i))' \in Nat
          /\ Cardinality(Sent(i))' <= Cardinality(Sent(i)) + 1
      BY <1>3, <2>1
    <3> QED
      BY <3>2, <3>3, <3>4
  <2>4. CASE ~(task[t].call.kind = "redeem" /\ task[t].call.row = i)
    BY <1>3, <2>1, <2>2, <2>4
  <2> QED
    BY <2>3, <2>4
<1>9. AttemptsOK'
  BY <1>1, <1>8 DEF KeptInv, AttemptsOK, Sent
<1>10. ScanOK' /\ ReachedOK'
  <2>1. RowsGrow
    BY <1>1, TablesAre DEF RowsGrow, TrueInv
  <2>2. WorkerMoves
    BY <1>1, <1>2 DEF WorkerMoves, KeptInv, ScanOK, Tasks
  <2>3. closed <= closed'
    BY <1>1, MoneyAssumption DEF TrueInv, TypeOK
  <2> QED
    BY <1>1, <2>1, <2>2, <2>3, ScanStays DEF TrueInv, KeptInv
<1> QED
  BY <1>7, <1>9, <1>10 DEF KeptInv
\* The attempt is counted with what the row says.
LEMMA KeptWriting ==
  ASSUME TrueInv, KeptInv, TypeOK', NEW t \in Tasks, Write(t)
  PROVE  KeptInv'
<1>1. /\ UNCHANGED <<outside, scan, missed>> /\ UNCHANGED <<closed, untimed, clear, wallet, chain, relay>>
      /\ task' = [task EXCEPT ![t] = Idle] /\ task[t].pc \in {"ok", "hash", "err"}
      /\ task[t].pc \in Steps
  BY DEF Write, outside, Steps
<1>2. task'[t].pc = "idle" /\ \A u \in Tasks \ {t} : task'[u] = task[u]
  BY <1>1, IdleStep DEF TrueInv
<1>3. HoldsOn(t) /\ (t = Worker => WorkerMoves)
  BY <1>1, <1>2 DEF HoldsOn, Holds, Steps, WorkerMoves
<1>4. CASE task[t].call.kind # "redeem"
  <2>1. UNCHANGED redemptions
    BY <1>4 DEF Write
  <2> QED
    BY <1>1, <1>2, <1>3, <2>1, KeptTask
<1>5. CASE task[t].call.kind = "redeem"
  <2> DEFINE i      == task[t].call.row
             old    == redemptions[i]
             status == Status(task[t].pc)
             new    == IF t = Worker /\ status = "failed" THEN Tried(old) ELSE [old EXCEPT !.status = status]
  <2>1. /\ i \in 1 .. Len(redemptions) /\ Holds(t, i) /\ old.attempts < MaxAttempts
        /\ old.status = "pending" /\ old \in Redemptions
    BY <1>1, <1>5, WorkerHolds, TablesAre DEF TrueInv
  <2>2. i \in Nat /\ old.attempts \in Nat /\ MaxAttempts \in Nat /\ Cardinality(Sent(i)) \in Nat
    BY <2>1, TablesAre, SentIsFinite, MoneyAssumption DEF Redemptions, TrueInv
  <2>3. /\ t \in Api => ~old.retry
        /\ Cardinality(Sent(i)) <= old.attempts + 1
        /\ \A u \in Tasks \ {t} : ~Holds(u, i)
    <3>1. /\ t \in Api => ~old.retry
          /\ Cardinality(Sent(i)) <= old.attempts + (IF Early(t) THEN 0 ELSE 1)
          /\ \A u \in Tasks \ {t} : ~Holds(u, i)
      BY SMTT(40), <2>1, <2>2 DEF KeptInv, HoldersOK, Sent, Early
    <3>2. ~Early(t)
      BY <1>1 DEF Early
    <3> QED
      BY <3>1, <3>2
  <2>4. redemptions' = [redemptions EXCEPT ![i] = new]
    BY <1>5 DEF Write
  <2>5. /\ new \in Redemptions /\ new.cond = old.cond
        /\ new.retry => new.attempts < MaxAttempts
        /\ new.retry /\ new.status = "failed" => Cardinality(Sent(i)) <= new.attempts
    <3>0. old.retry => old.attempts < MaxAttempts
      BY <2>1
    <3>1. CASE t = Worker /\ status = "failed"
      <4> DEFINE n == old.attempts + 1
                 r == n < MaxAttempts
      <4>1. n \in 0 .. MaxAttempts /\ Cardinality(Sent(i)) <= n
        <5>1. old.attempts < MaxAttempts /\ old.attempts \in Nat /\ MaxAttempts \in Nat
          BY <2>1, <2>2
        <5>2. Cardinality(Sent(i)) <= old.attempts + 1
          BY <2>3
        <5> QED
          BY <5>1, <5>2
      <4>4. r \in BOOLEAN
        OBVIOUS
      <4>2. new = [[[old EXCEPT !.status = "failed"] EXCEPT !.attempts = n] EXCEPT !.retry = r]
        BY <2>1, <3>1 DEF Tried, Redemptions
      <4>3. r => n < MaxAttempts
        OBVIOUS
      <4> HIDE DEF n, r, old
      <4> QED
        BY <2>1, <3>1, <4>1, <4>2, <4>3, <4>4 DEF Redemptions
    <3>2. CASE ~(t = Worker /\ status = "failed")
      <4>1. status \in {"pending", "mined", "failed"}
        BY <1>1 DEF Status
      <4>2. new = [old EXCEPT !.status = status]
        BY <3>2
      <4>3. status = "failed" => ~old.retry
        BY <2>3, <3>2 DEF Tasks
      <4> HIDE DEF status, old
      <4>4. /\ [old EXCEPT !.status = status] \in Redemptions
            /\ [old EXCEPT !.status = status].cond = old.cond
            /\ [old EXCEPT !.status = status].retry = old.retry
            /\ [old EXCEPT !.status = status].attempts = old.attempts
            /\ [old EXCEPT !.status = status].status = status
        BY <2>1, <4>1 DEF Redemptions
      <4> QED
        BY <3>0, <4>2, <4>3, <4>4
    <3> QED
      BY <3>1, <3>2
  <2> HIDE DEF new, old, status
  <2>6. /\ Len(redemptions') = Len(redemptions) /\ Len(redemptions) \in Nat
        /\ \A j \in 1 .. Len(redemptions) : redemptions'[j] = IF j = i THEN new ELSE redemptions[j]
    BY <2>1, <2>4, <2>5, SetRow, TablesAre DEF TrueInv
  <2> HIDE DEF i
  <2>7. \A j : Sent(j)' = Sent(j)
    BY <1>1 DEF Sent, BatchesOf
  <2>8. AttemptsOK'
    <3> SUFFICES ASSUME NEW j \in 1 .. Len(redemptions)
                 PROVE  /\ redemptions'[j].retry => redemptions'[j].attempts < MaxAttempts
                        /\ Cardinality(Sent(j)) <= MaxAttempts
                        /\ redemptions'[j].retry /\ redemptions'[j].status = "failed" =>
                             Cardinality(Sent(j)) <= redemptions'[j].attempts
      BY <2>6, <2>7 DEF AttemptsOK, Sent
    <3>1. CASE j = i
      BY <2>1, <2>2, <2>3, <2>5, <2>6, <3>1
    <3>2. CASE j # i
      BY <2>6, <3>2 DEF KeptInv, AttemptsOK, Sent
    <3> QED
      BY <3>1, <3>2
  <2>9. HoldersOK'
    <3>1. ASSUME NEW u \in Tasks, NEW j \in Nat, Holds(u, j)'
          PROVE  u # t /\ Holds(u, j) /\ (Early(u)' <=> Early(u)) /\ j # i
      BY <1>2, <2>3, <3>1 DEF Holds, Steps, Early
    <3>2. ASSUME NEW u \in Tasks, NEW j \in Nat, Holds(u, j)'
          PROVE  /\ j \in 1 .. Len(redemptions') /\ redemptions'[j].status = "pending"
                 /\ u \in Api => ~redemptions'[j].retry
                 /\ redemptions'[j].attempts < MaxAttempts
                 /\ Cardinality(Sent(j))' <= redemptions'[j].attempts + (IF Early(u)' THEN 0 ELSE 1)
                 /\ \A v \in Tasks \ {u} : ~Holds(v, j)'
      <4>1. /\ j \in 1 .. Len(redemptions) /\ redemptions[j].status = "pending"
            /\ u \in Api => ~redemptions[j].retry
            /\ redemptions[j].attempts < MaxAttempts
            /\ Cardinality(Sent(j)) <= redemptions[j].attempts + (IF Early(u) THEN 0 ELSE 1)
            /\ \A v \in Tasks \ {u} : ~Holds(v, j)
        BY <3>1, <3>2 DEF KeptInv, HoldersOK, Sent, Early
      <4>2. redemptions'[j] = redemptions[j]
        BY <2>6, <3>1, <3>2, <4>1
      <4>3. \A v \in Tasks \ {u} : ~Holds(v, j)'
        BY <3>1, <4>1
      <4>4. Early(u)' <=> Early(u)
        BY <3>1, <3>2
      <4>5. Cardinality(Sent(j))' = Cardinality(Sent(j))
        BY <2>7
      <4> QED
        BY <2>6, <4>1, <4>2, <4>3, <4>4, <4>5
    <3> QED
      BY <3>2 DEF HoldersOK, Sent, Early
  <2>10. RowsGrow
    <3>1. i \notin scan.retries
      BY <2>1 DEF KeptInv, ScanOK, Retryable, old
    <3>2. scan.retries \subseteq 1 .. Len(redemptions)
      BY TablesAre DEF KeptInv, ScanOK, Retryable, TrueInv
    <3>3. new.cond = redemptions[i].cond
      BY <2>5 DEF old
    <3> QED
      BY <2>6, <3>1, <3>2, <3>3 DEF RowsGrow
  <2>11. WorkerMoves
    BY <1>2, <1>3 DEF WorkerMoves, Tasks
  <2>12. closed <= closed'
    BY <1>1, MoneyAssumption DEF TrueInv, TypeOK
  <2> QED
    BY <1>1, <2>8, <2>9, <2>10, <2>11, <2>12, ScanStays DEF TrueInv, KeptInv
<1> QED
  BY <1>4, <1>5

\* Nobody works on a redemption that is not there yet.
LEMMA KeptInserting ==
  ASSUME TrueInv, KeptInv, TypeOK', NEW t \in Tasks, InsertWithdrawal(t) \/ InsertRedemption(t)
  PROVE  KeptInv'
<1>1. /\ UNCHANGED <<outside, scan, missed>> /\ UNCHANGED <<closed, wallet, chain, relay>>
      /\ task[t].pc = "checked" /\ task[t].call \in Calls
  BY DEF InsertWithdrawal, Checked, InsertRedemption, outside, TrueInv, TasksOK, TaskOK, CallOK
<1>2. CASE InsertWithdrawal(t)
  <2> DEFINE n   == Len(withdrawals) + 1
             new == [[task[t] EXCEPT !.pc = "ready"] EXCEPT !.call.row = n]
  <2>1. /\ UNCHANGED redemptions /\ task[t].call.kind = "transfer" /\ n \in Nat
    BY <1>2, TablesAre DEF InsertWithdrawal, Checked, TrueInv
  <2>2. new.pc = "ready" /\ new.call.kind = task[t].call.kind
    BY <1>1, <2>1, TaskIs DEF Locals, Calls, TrueInv
  <2>3. task' = [task EXCEPT ![t] = new]
    BY <1>2, TaskIs DEF InsertWithdrawal, Checked, TrueInv
  <2> HIDE DEF new
  <2>4. task'[t] = new /\ \A u \in Tasks \ {t} : task'[u] = task[u]
    BY <2>3, TaskIs DEF TrueInv
  <2>5. HoldsOn(t)
    BY <2>1, <2>2, <2>4 DEF HoldsOn, Holds
  <2>6. t # Worker
    BY <1>1, <2>1 DEF KeptInv, ScanOK
  <2> QED
    BY <1>1, <2>1, <2>4, <2>5, <2>6, KeptTask
<1>3. CASE InsertRedemption(t)
  <2> DEFINE c == task[t].call.cond
             w == task[t].wallet
             n == Len(redemptions) + 1
  <2>1. task[t].call.kind = "redeem" /\ n \in Nat /\ Len(redemptions) \in Nat /\ n \notin 1 .. Len(redemptions)
    BY <1>3, TablesAre DEF InsertRedemption, TrueInv
  <2>2. CASE Exists(c, w)
    <3>1. UNCHANGED redemptions /\ task' = [task EXCEPT ![t] = Idle]
      BY <1>3, <2>2 DEF InsertRedemption
    <3>2. task'[t].pc = "idle" /\ \A u \in Tasks \ {t} : task'[u] = task[u]
      BY <3>1, IdleStep DEF TrueInv
    <3>3. HoldsOn(t)
      BY <3>2 DEF HoldsOn, Holds, Steps
    <3>4. \E r \in 1 .. Len(redemptions') : redemptions'[r].cond = c
      BY <2>2, <3>1, TablesAre DEF Exists, TrueInv
    <3>5. t = Worker => WorkerMoves
      BY <3>2, <3>4 DEF WorkerMoves
    <3> QED
      BY <1>1, <3>1, <3>2, <3>3, <3>5, KeptTask
  <2>3. CASE ~Exists(c, w)
    <3> DEFINE row == [cond |-> c, wallet |-> w, status |-> "pending", attempts |-> 0, retry |-> FALSE]
               new == [[task[t] EXCEPT !.pc = "ready"] EXCEPT !.call.row = n]
    <3>1. redemptions' = Append(redemptions, row) /\ task' = [task EXCEPT ![t] = new]
      BY <1>3, <2>3, TaskIs DEF InsertRedemption, TrueInv
    <3>2. /\ row.cond = c /\ row.status = "pending" /\ row.attempts = 0 /\ ~row.retry
          /\ row \in Redemptions
      <4>1. c \in Conds /\ w \in Wallets
        BY <1>1, <2>1, MoneyAssumption DEF TrueInv, TasksOK, TaskOK, CallOK, TypeOK
      <4>2. 0 \in 0 .. MaxAttempts
        BY MoneyAssumption
      <4> QED
        BY <4>1, <4>2 DEF Redemptions
    <3>3. new.pc = "ready" /\ new.call.kind = "redeem" /\ new.call.row = n
      BY <1>1, <2>1, TaskIs DEF Locals, Calls, TrueInv
    <3> HIDE DEF new, row
    <3>4. task'[t] = new /\ \A u \in Tasks \ {t} : task'[u] = task[u]
      BY <3>1, TaskIs DEF TrueInv
    <3>5. /\ Len(redemptions') = n /\ redemptions'[n] = row
          /\ \A j \in 1 .. Len(redemptions) : redemptions'[j] = redemptions[j]
      <4>1. redemptions \in Seq(Redemptions)
        BY DEF TrueInv, TypeOK
      <4> QED
        BY <3>1, <3>2, <4>1, AppendProperties
    <3>6. \A j : Sent(j)' = Sent(j)
      BY <1>1 DEF Sent, BatchesOf
    <3>7. Cardinality(Sent(n)) = 0 /\ \A u \in Tasks : ~Holds(u, n)
      BY <2>1, NoneSent DEF TrueInv, KeptInv, HoldersOK
    <3>8. MaxAttempts \in Nat \ {0}
      BY MoneyAssumption
    <3> HIDE DEF n
    <3>9. \A j \in 1 .. n : j = n \/ j \in 1 .. Len(redemptions)
      BY <2>1 DEF n
    <3>10. AttemptsOK'
      <4> SUFFICES ASSUME NEW j \in 1 .. n
                   PROVE  /\ redemptions'[j].retry => redemptions'[j].attempts < MaxAttempts
                          /\ Cardinality(Sent(j)) <= MaxAttempts
                          /\ redemptions'[j].retry /\ redemptions'[j].status = "failed" =>
                               Cardinality(Sent(j)) <= redemptions'[j].attempts
        BY <3>5, <3>6 DEF AttemptsOK, Sent
      <4>1. CASE j = n
        BY <3>2, <3>5, <3>7, <3>8, <4>1
      <4>2. CASE j \in 1 .. Len(redemptions)
        BY <3>5, <4>2 DEF KeptInv, AttemptsOK, Sent
      <4> QED
        BY <3>9, <4>1, <4>2
    <3>11. HoldersOK'
      <4>1. ASSUME NEW u \in Tasks, NEW j \in Nat, Holds(u, j)'
            PROVE  \/ u = t /\ j = n
                   \/ u # t /\ j # n /\ Holds(u, j) /\ (Early(u)' <=> Early(u))
        BY <3>3, <3>4, <3>7, <4>1 DEF Holds, Steps, Early
      <4>2. ASSUME NEW u \in Tasks, NEW j \in Nat, Holds(u, j)'
            PROVE  /\ j \in 1 .. Len(redemptions') /\ redemptions'[j].status = "pending"
                   /\ u \in Api => ~redemptions'[j].retry
                   /\ redemptions'[j].attempts < MaxAttempts
                   /\ Cardinality(Sent(j))' <= redemptions'[j].attempts + (IF Early(u)' THEN 0 ELSE 1)
                   /\ \A v \in Tasks \ {u} : ~Holds(v, j)'
        <5>1. CASE u = t /\ j = n
          <6>1. n \in 1 .. n
            BY <2>1 DEF n
          <6>2. \A v \in Tasks \ {u} : ~Holds(v, j)'
            BY <4>1, <5>1
          <6>3. Early(u)' /\ Cardinality(Sent(j))' = 0
            BY <3>3, <3>4, <3>6, <3>7, <5>1 DEF Early
          <6> QED
            BY <3>2, <3>5, <3>8, <5>1, <6>1, <6>2, <6>3
        <5>2. CASE u # t /\ j # n /\ Holds(u, j) /\ (Early(u)' <=> Early(u))
          <6>1. /\ j \in 1 .. Len(redemptions) /\ redemptions[j].status = "pending"
                /\ u \in Api => ~redemptions[j].retry
                /\ redemptions[j].attempts < MaxAttempts
                /\ Cardinality(Sent(j)) <= redemptions[j].attempts + (IF Early(u) THEN 0 ELSE 1)
                /\ \A v \in Tasks \ {u} : ~Holds(v, j)
            BY <5>2 DEF KeptInv, HoldersOK, Sent, Early
          <6>2. redemptions'[j] = redemptions[j] /\ j \in 1 .. Len(redemptions')
            BY <2>1, <3>5, <6>1 DEF n
          <6>3. \A v \in Tasks \ {u} : ~Holds(v, j)'
            BY <4>1, <5>2, <6>1
          <6>4. Cardinality(Sent(j))' = Cardinality(Sent(j))
            BY <3>6
          <6> QED
            BY <5>2, <6>1, <6>2, <6>3, <6>4
        <5> QED
          BY <4>1, <4>2, <5>1, <5>2
      <4> QED
        BY <4>2 DEF HoldersOK, Sent, Early
    <3>12. RowsGrow
      <4>1. scan.retries \subseteq 1 .. Len(redemptions)
        BY TablesAre DEF KeptInv, ScanOK, Retryable, TrueInv
      <4> QED
        BY <2>1, <3>5, <4>1 DEF RowsGrow, n
    <3>13. WorkerMoves
      <4>1. n \in 1 .. Len(redemptions') /\ redemptions'[n].cond = c
        BY <2>1, <3>2, <3>5 DEF n
      <4>2. t = Worker => scan.on
        BY <1>1 DEF KeptInv, ScanOK
      <4> QED
        BY <1>1, <3>3, <3>4, <4>1, <4>2 DEF WorkerMoves, Tasks
    <3>14. closed <= closed'
      BY <1>1, MoneyAssumption DEF TrueInv, TypeOK
    <3> QED
      BY <1>1, <3>10, <3>11, <3>12, <3>13, <3>14, ScanStays DEF TrueInv, KeptInv
  <2> QED
    BY <2>2, <2>3
<1> QED
  BY <1>2, <1>3
\* A row that is tried again was failed, and nobody worked on it.
LEMMA KeptRetry ==
  ASSUME TrueInv, KeptInv, TypeOK', NEW i \in scan.retries, Retry(i)
  PROVE  KeptInv'
<1>1. /\ Worker \in Tasks /\ UNCHANGED <<withdrawals, outside, missed>> /\ task[Worker].pc = "idle"
      /\ UNCHANGED <<wallet, closed, chain, relay>> /\ scan.on
  BY DEF Retry, Tasks, outside
<1>2. /\ i \in 1 .. Len(redemptions) /\ redemptions[i] \in Redemptions /\ i \in Nat
      /\ redemptions[i].status = "failed" /\ redemptions[i].retry
  BY TablesAre DEF KeptInv, ScanOK, Retryable, TrueInv
<1>3. /\ scan'.on /\ scan'.cursor = scan.cursor /\ scan'.upto = scan.upto
      /\ scan'.markets = scan.markets /\ scan'.retries = scan.retries \ {i} /\ scan'.late = scan.late
  <2>1. scan' = [scan EXCEPT !.retries = @ \ {i}] /\ scan \in Scans
    BY <1>1 DEF Retry, TrueInv, TypeOK
  <2> QED
    BY <1>1, <2>1 DEF Scans
<1>4. /\ redemptions[i].attempts < MaxAttempts /\ Cardinality(Sent(i)) <= redemptions[i].attempts
      /\ redemptions[i].attempts \in Nat /\ Cardinality(Sent(i)) \in Nat /\ MaxAttempts \in Nat
  BY <1>2, SentIsFinite, MoneyAssumption DEF KeptInv, AttemptsOK, Sent, Redemptions, TrueInv
<1>5. \A u \in Tasks : ~Holds(u, i)
  BY <1>2 DEF KeptInv, HoldersOK
<1>6. \A j : Sent(j)' = Sent(j)
  BY <1>1 DEF Sent, BatchesOf
<1> DEFINE c == redemptions[i].cond
           n == chain[wallet].win[c]
\* The scan
<1>7. ASSUME Len(redemptions') = Len(redemptions), task'[Worker].pc # "checked",
             \A j \in 1 .. Len(redemptions) : /\ redemptions'[j].cond = redemptions[j].cond
                                              /\ j # i => redemptions'[j] = redemptions[j]
      PROVE  ScanOK' /\ ReachedOK'
  <2>1. Reached' = Reached
    BY <1>1, <1>3 DEF Reached
  <2>2. scan'.retries \subseteq Retryable'
    <3>1. DOMAIN redemptions = 1 .. Len(redemptions) /\ DOMAIN redemptions' = 1 .. Len(redemptions')
      BY TablesAre, LenProperties DEF TrueInv, TypeOK
    <3> QED
      BY <1>3, <1>7, <3>1 DEF KeptInv, ScanOK, Retryable
  <2>3. ScanOK'
    BY <1>1, <1>3, <1>7, <2>1, <2>2 DEF KeptInv, ScanOK
  <2>4. ReachedOK'
    BY <1>1, <1>7, <2>1 DEF KeptInv, ReachedOK
  <2> QED
    BY <2>3, <2>4
<1>8. CASE UNCHANGED <<redemptions, task>>
  <2>1. HoldersOK' /\ AttemptsOK'
    <3>1. \A t \in Tasks : HoldsOn(t)
      BY <1>8 DEF HoldsOn, Holds, Early
    <3> QED
      BY <1>1, <1>8, <3>1, HoldersStay DEF TrueInv, KeptInv
  <2>2. ScanOK' /\ ReachedOK'
    BY <1>1, <1>7, <1>8
  <2> QED
    BY <2>1, <2>2 DEF KeptInv
<1>9. ASSUME NEW s \in {"mined", "pending"}, SetStatus(i, s), s = "mined" => UNCHANGED task,
             s = "pending" => Call(Worker, "ready", [Redeem(c, n) EXCEPT !.row = i])
      PROVE  KeptInv'
  <2> DEFINE row == [redemptions[i] EXCEPT !.status = s]
  <2>1. /\ row \in Redemptions /\ row.status = s /\ row.cond = c /\ row.retry
        /\ row.attempts = redemptions[i].attempts
    BY <1>2 DEF Redemptions
  <2>2. redemptions' = [redemptions EXCEPT ![i] = row]
    BY <1>9 DEF SetStatus
  <2> HIDE DEF row
  <2>3. /\ Len(redemptions') = Len(redemptions)
        /\ \A j \in 1 .. Len(redemptions) :
             redemptions'[j] = IF j = i THEN row ELSE redemptions[j]
    BY <1>2, <2>1, <2>2, SetRow DEF TrueInv
  <2>4. /\ \A u \in Tasks \ {Worker} : task'[u] = task[u]
        /\ \/ s = "mined" /\ task'[Worker].pc = "idle"
           \/ s = "pending" /\ task'[Worker].pc = "ready" /\ task'[Worker].call.row = i
    <3>1. CASE s = "mined"
      BY <1>1, <1>9, <3>1
    <3>2. CASE s = "pending"
      <4> DEFINE q == Redeem(c, n)
                 r == [q EXCEPT !.row = i]
      <4>1. q \in Calls
        <5>1. c \in Conds /\ TypeOK
          BY <1>2 DEF Redemptions, TrueInv
        <5>2. wallet \in Wallets /\ chain[wallet] \in Holdings
          BY <5>1 DEF TypeOK
        <5>3. n \in Nat
          BY <5>1, <5>2 DEF Holdings
        <5> HIDE DEF c, n
        <5> QED
          BY <5>1, <5>3, CallsAre DEF CallOK
      <4>2. CallOn(wallet, Worker, "ready", r)
        BY <1>9, <3>2 DEF Call
      <4> HIDE DEF q
      <4>3. r \in Calls /\ r.row = i
        BY <1>2, <4>1 DEF Calls
      <4> HIDE DEF r
      <4>4. /\ \A u \in Tasks \ {Worker} : task'[u] = task[u]
            /\ task'[Worker].pc = "ready" /\ task'[Worker].call = r
        BY <1>1, <4>2, <4>3, CallStep DEF TrueInv, TypeOK
      <4> QED
        BY <3>2, <4>3, <4>4
    <3> QED
      BY <3>1, <3>2
  <2>5. AttemptsOK'
    <3> SUFFICES ASSUME NEW j \in 1 .. Len(redemptions)
                 PROVE  /\ redemptions'[j].retry => redemptions'[j].attempts < MaxAttempts
                        /\ Cardinality(Sent(j)) <= MaxAttempts
                        /\ redemptions'[j].retry /\ redemptions'[j].status = "failed" =>
                             Cardinality(Sent(j)) <= redemptions'[j].attempts
      BY <1>6, <2>3 DEF AttemptsOK, Sent
    <3>1. CASE j = i
      BY <1>4, <2>1, <2>3, <3>1
    <3>2. CASE j # i
      BY <2>3, <3>2 DEF KeptInv, AttemptsOK, Sent
    <3> QED
      BY <3>1, <3>2
  <2>6. HoldersOK'
    <3>1. ASSUME NEW u \in Tasks, NEW j \in Nat, Holds(u, j)'
          PROVE  \/ u = Worker /\ j = i /\ s = "pending" /\ Early(u)'
                 \/ u # Worker /\ j # i /\ Holds(u, j) /\ (Early(u)' <=> Early(u))
      BY <1>5, <2>4, <3>1 DEF Holds, Steps, Early
    <3>2. ASSUME NEW u \in Tasks, NEW j \in Nat, Holds(u, j)'
          PROVE  /\ j \in 1 .. Len(redemptions') /\ redemptions'[j].status = "pending"
                 /\ u \in Api => ~redemptions'[j].retry
                 /\ redemptions'[j].attempts < MaxAttempts
                 /\ Cardinality(Sent(j))' <= redemptions'[j].attempts + (IF Early(u)' THEN 0 ELSE 1)
                 /\ \A v \in Tasks \ {u} : ~Holds(v, j)'
      <4>0. Cardinality(Sent(j))' = Cardinality(Sent(j))
        BY <1>6
      <4>1. CASE u = Worker /\ j = i /\ s = "pending" /\ Early(u)'
        <5>1. \A v \in Tasks \ {u} : ~Holds(v, j)'
          BY <3>1, <4>1
        <5>2. u \notin Api
          BY <4>1, MoneyAssumption
        <5> QED
          BY <1>2, <1>4, <2>1, <2>3, <4>0, <4>1, <5>1, <5>2
      <4>2. CASE u # Worker /\ j # i /\ Holds(u, j) /\ (Early(u)' <=> Early(u))
        <5>1. /\ j \in 1 .. Len(redemptions) /\ redemptions[j].status = "pending"
              /\ u \in Api => ~redemptions[j].retry
              /\ redemptions[j].attempts < MaxAttempts
              /\ Cardinality(Sent(j)) <= redemptions[j].attempts + (IF Early(u) THEN 0 ELSE 1)
              /\ \A v \in Tasks \ {u} : ~Holds(v, j)
          BY <4>2 DEF KeptInv, HoldersOK, Sent, Early
        <5>2. redemptions'[j] = redemptions[j]
          BY <2>3, <4>2, <5>1
        <5>3. \A v \in Tasks \ {u} : ~Holds(v, j)'
          BY <3>1, <4>2, <5>1
        <5> QED
          BY <2>3, <4>0, <4>2, <5>1, <5>2, <5>3
      <4> QED
        BY <3>1, <3>2, <4>1, <4>2
    <3> QED
      BY <3>2 DEF HoldersOK, Sent, Early
  <2>7. ScanOK' /\ ReachedOK'
    <3>1. \A j \in 1 .. Len(redemptions) : /\ redemptions'[j].cond = redemptions[j].cond
                                           /\ j # i => redemptions'[j] = redemptions[j]
      BY <2>1, <2>3
    <3>2. task'[Worker].pc # "checked"
      BY <2>4
    <3> QED
      BY <1>7, <2>3, <3>1, <3>2
  <2> QED
    BY <2>5, <2>6, <2>7 DEF KeptInv
<1>10. \/ UNCHANGED <<redemptions, task>>
       \/ SetStatus(i, "mined") /\ UNCHANGED task
       \/ SetStatus(i, "pending") /\ Call(Worker, "ready", [Redeem(c, n) EXCEPT !.row = i])
  BY DEF Retry
<1> QED
  BY <1>8, <1>9, <1>10

-----------------------------------------------------------------------------
\* The theorems

MoneyInv == TrueInv /\ KeptInv

LEMMA MoneyStarts == Init => MoneyInv
<1> SUFFICES ASSUME Init PROVE MoneyInv
  OBVIOUS
<1>1. /\ withdrawals = <<>> /\ redemptions = <<>> /\ relay = <<>> /\ missed = {} /\ events = 0
      /\ closed = 0 /\ untimed = {} /\ clear = {} /\ slips = NoSlips /\ wallet = FirstWallet /\ wallet \in Wallets
      /\ task = [t \in Tasks |-> Idle] /\ scan = NoScan
  BY MoneyAssumption DEF Init
<1>2. \A t \in Tasks : task[t].pc = "idle"
  BY <1>1, IdleIs
<1>3. Len(withdrawals) = 0 /\ Len(redemptions) = 0 /\ Len(relay) = 0
  BY <1>1
<1>4. chain \in [Wallets -> Holdings]
  <2> DEFINE H(w) == LET m == IF w = FirstWallet THEN Shares ELSE 0 IN
        [cash |-> IF w = FirstWallet THEN Cash ELSE 0, nonce |-> 0,
         win |-> [c \in Conds |-> m], lose |-> [c \in Conds |-> m]]
  <2>1. chain = [w \in Wallets |-> H(w)]
    BY DEF Init
  <2>2. \A w \in Wallets : H(w) \in Holdings
    BY MoneyAssumption DEF Holdings
  <2> HIDE DEF H
  <2> QED
    BY <2>1, <2>2
<1>5. /\ scan \in Scans /\ ~scan.on /\ scan.cursor = 0 /\ scan.retries = {} /\ scan.late = {}
  BY <1>1 DEF NoScan, Scans
<1>6. TypeOK
  <2>1. withdrawals \in Seq(Withdrawals) /\ redemptions \in Seq(Redemptions) /\ relay \in Seq(Batches)
    BY <1>1
  <2>2. task \in [Tasks -> Locals]
    BY <1>1, IdleIs
  <2>3. closed \in 0 .. MaxConds /\ events \in 0 .. MaxEvents
    BY <1>1, MoneyAssumption
  <2>4. slips \in Slips
    BY <1>1 DEF NoSlips, Slips
  <2> QED
    BY <1>1, <1>4, <1>5, <2>1, <2>2, <2>3, <2>4 DEF TypeOK
<1>7. TasksOK /\ HoldersOK
  BY <1>2 DEF TasksOK, TaskOK, Steps, HoldersOK, Holds
<1>8. RelayOK /\ RowsOK /\ AttemptsOK
  BY <1>3 DEF RelayOK, RowsOK, AttemptsOK
<1>9. MinedIsTrue
  BY <1>1 DEF MinedIsTrue
<1>10. Reached = 0 /\ Worker \in Tasks
  BY <1>5 DEF Reached, Tasks
<1>11. ScanOK /\ ReachedOK
  BY <1>1, <1>2, <1>5, <1>10 DEF ScanOK, ReachedOK
<1> QED
  BY <1>6, <1>7, <1>8, <1>9, <1>11 DEF MoneyInv, TrueInv, KeptInv

\* What the daily limit does not see is of requests and rows.
LEMMA SlipsStep ==
  ASSUME TrueInv, KeptInv, [Next]_vars
  PROVE  slips' \in Slips
<1> USE DEF TrueInv
<1>1. /\ slips \in Slips /\ slips.overtaken \subseteq Api /\ slips.raced \subseteq Nat
      /\ slips.unsure \subseteq Nat
  BY DEF TypeOK, Slips
<1>2. ASSUME NEW t \in Api, Ask(t) PROVE slips' \in Slips
  BY <1>1, <1>2 DEF Ask, Slips
<1>3. ASSUME NEW t \in Tasks, InsertWithdrawal(t) PROVE slips' \in Slips
  <2> DEFINE late  == {u \in Api \ {t} : Checked(u)}
             raced == slips.raced \cup {i \in {Len(withdrawals) + 1} : t \in slips.overtaken}
  <2>1. slips' = [slips EXCEPT !.overtaken = late, !.raced = raced]
    BY <1>3 DEF InsertWithdrawal
  <2>2. late \subseteq Api /\ raced \subseteq Nat
    BY <1>1, TablesAre
  <2> HIDE DEF late, raced
  <2> QED
    BY <1>1, <2>1, <2>2 DEF Slips
<1>4. ASSUME NEW t \in Tasks, SubmitErr(t) PROVE slips' \in Slips
  <2> DEFINE unsure == slips.unsure \cup {i \in {task[t].call.row} : task[t].call.kind = "transfer"}
  <2>1. task[t].call.row \in Nat
    BY <1>4 DEF SubmitErr, TasksOK, TaskOK, CallOK, Calls
  <2>2. slips' = slips \/ slips' = [slips EXCEPT !.unsure = unsure]
    BY <1>4 DEF SubmitErr
  <2>3. unsure \subseteq Nat
    BY <1>1, <2>1
  <2> HIDE DEF unsure
  <2> QED
    BY <1>1, <2>2, <2>3 DEF Slips
<1>5. \/ \E t \in Api : Ask(t)
      \/ \E t \in Tasks : InsertWithdrawal(t) \/ SubmitErr(t)
      \/ UNCHANGED slips
  <2>1. \A t \in Tasks : Proceed(t) => InsertWithdrawal(t) \/ UNCHANGED slips
    BY DEF Proceed, InsertRedemption, Sign, Submit, Poll, Write
  <2>2. WorkerStep => InsertWithdrawal(Worker) \/ UNCHANGED slips
    BY <2>1 DEF WorkerStep, Tick, Market, TickEnd, Retry, Tasks
  <2>3. ASSUME NEW t \in Api,
               \/ Withdraw(t) \/ RedeemByHand(t) \/ MergeByHand(t) \/ RedeemArchive(t) \/ MigrateArchive(t)
        PROVE  Ask(t)
    BY <2>3 DEF Withdraw, RedeemByHand, MergeByHand, RedeemArchive, MigrateArchive
  <2>4. ASSUME NEW t \in Tasks, SignErr(t) \/ WriteErr(t) PROVE UNCHANGED slips
    BY <2>4 DEF SignErr, WriteErr
  <2>5. ASSUME \/ Crash \/ (\E i \in DOMAIN relay : Mine(i) \/ Drop(i))
               \/ Close \/ (\E c \in Conds : InsertClosed(c) \/ Clarify(c))
               \/ DayPasses \/ (\E w \in Wallets : Migrate(w)) \/ UNCHANGED vars
        PROVE  UNCHANGED slips
    BY <2>5 DEF Crash, Mine, Drop, Close, InsertClosed, Clarify, DayPasses, Migrate, vars
  <2> QED
    BY <2>1, <2>2, <2>3, <2>4, <2>5 DEF Next, Tasks
<1> QED
  BY <1>1, <1>2, <1>3, <1>4, <1>5

\* One case per handler.
LEMMA MoneyStep == MoneyInv /\ [Next]_vars => MoneyInv'
<1> SUFFICES ASSUME TrueInv, KeptInv, [Next]_vars PROVE TrueInv' /\ KeptInv'
  BY DEF MoneyInv
<1>0. slips' \in Slips
  BY SlipsStep
<1>1. ASSUME NEW t \in Tasks, Proceed(t) PROVE TrueInv' /\ KeptInv'
  <2>1. CASE InsertWithdrawal(t) \/ InsertRedemption(t)
    BY <1>0, <2>1, TrueInserting, KeptInserting DEF TrueInv
  <2>2. CASE Sign(t) \/ Poll(t)
    BY <1>0, <2>2, TrueSigning, KeptSigning DEF TrueInv
  <2>3. CASE Submit(t)
    BY <1>0, <2>3, TrueSubmitting, KeptSubmitting DEF TrueInv
  <2>4. CASE Write(t)
    BY <1>0, <2>4, TrueWriting, KeptWriting DEF TrueInv
  <2> QED
    BY <1>1, <2>1, <2>2, <2>3, <2>4 DEF Proceed
<1>2. ASSUME WorkerStep PROVE TrueInv' /\ KeptInv'
  <2>1. CASE Proceed(Worker)
    BY <1>1, <2>1 DEF Tasks
  <2>2. CASE Tick \/ TickEnd
    BY <1>0, <2>2, TrueScan, KeptScan DEF TrueInv
  <2>3. CASE Market
    BY <1>0, <2>3, TrueMarket, KeptMarket DEF TrueInv
  <2>4. CASE \E i \in scan.retries : Retry(i)
    BY <1>0, <2>4, TrueRetry, KeptRetry DEF TrueInv
  <2> QED
    BY <1>2, <2>1, <2>2, <2>3, <2>4 DEF WorkerStep
<1>3. ASSUME NEW t \in Api,
             \/ Withdraw(t) \/ RedeemByHand(t) \/ MergeByHand(t) \/ RedeemArchive(t) \/ MigrateArchive(t)
      PROVE  TrueInv' /\ KeptInv'
  BY <1>0, <1>3, TrueAsking, KeptAsking DEF TrueInv
<1>4. ASSUME NEW t \in Tasks, SignErr(t) \/ SubmitErr(t) \/ WriteErr(t)
      PROVE  TrueInv' /\ KeptInv'
  <2>1. CASE SignErr(t)
    BY <1>0, <2>1, TrueSigning, KeptSigning DEF TrueInv
  <2>2. CASE SubmitErr(t)
    BY <1>0, <2>2, TrueSubmitting, KeptSubmitting DEF TrueInv
  <2>3. CASE WriteErr(t)
    BY <1>0, <2>3, TrueWriting, KeptWriteErr DEF TrueInv
  <2> QED
    BY <1>4, <2>1, <2>2, <2>3
<1>5. CASE Crash
  BY <1>0, <1>5, TrueScan, KeptScan DEF TrueInv
<1>6. ASSUME NEW i \in DOMAIN relay, Mine(i) \/ Drop(i) PROVE TrueInv' /\ KeptInv'
  BY <1>0, <1>6, TrueRelay, KeptOutside DEF TrueInv
<1>7. ASSUME Close \/ (\E c \in Conds : InsertClosed(c) \/ Clarify(c)) \/ DayPasses \/ (\E w \in Wallets : Migrate(w))
      PROVE  TrueInv' /\ KeptInv'
  BY <1>0, <1>7, TrueOutside, KeptOutside DEF TrueInv
<1>8. CASE UNCHANGED vars
  <2>1. UNCHANGED <<withdrawals, redemptions, closed, untimed, clear, wallet, chain, relay, task, scan, missed, slips,
                  events>>
    BY <1>8 DEF vars
  <2>2. TypeOK' /\ MinedIsTrue'
    BY <2>1 DEF TrueInv, TypeOK, MinedIsTrue, Happened, BatchesOf
  <2>3. TasksOK' /\ RelayOK' /\ RowsOK'
    BY <2>1 DEF TrueInv, TasksOK, TaskOK, Steps, Happened, BatchesOf, RelayOK, CallOK, RowsOK
  <2>4. KeptInv'
    <3>1. (\A t \in Tasks : HoldsOn(t)) /\ WorkerMoves
      BY <2>1 DEF HoldsOn, Holds, Early, WorkerMoves
    <3>2. closed <= closed'
      BY <2>1, MoneyAssumption DEF TrueInv, TypeOK
    <3> QED
      BY <2>1, <2>2, <3>1, <3>2, KeptStays
  <2> QED
    BY <2>2, <2>3, <2>4 DEF TrueInv
<1> QED
  BY <1>1, <1>2, <1>3, <1>4, <1>5, <1>6, <1>7, <1>8 DEF Next, Tasks

LEMMA MoneyKept == Spec => []MoneyInv
BY MoneyStarts, MoneyStep, PTL DEF Spec

\* Rows, batches and locals stay what the tables can hold.
THEOREM MoneyTypes == Spec => []TypeOK
<1>1. MoneyInv => TypeOK
  BY DEF MoneyInv, TrueInv
<1> QED
  BY <1>1, MoneyKept, PTL

\* A row that says "mined" is true: executed, or nothing left to redeem, or a
\* hash in the first answer, or of a wallet left behind.
THEOREM MinedTrue == Spec => []MinedIsTrue
<1>1. MoneyInv => MinedIsTrue
  BY DEF MoneyInv, TrueInv
<1> QED
  BY <1>1, MoneyKept, PTL

\* At most MaxAttempts batches for a redemption, and nothing that is not listed
\* any more without a row or an error that says why, or for want of a
\* resolved_at.
THEOREM RedemptionsKept == Spec => []RedemptionsAreKept
<1>1. ASSUME TrueInv, KeptInv PROVE RetriesAreBounded /\ NothingElseIsLeft
  <2>1. DOMAIN redemptions = 1 .. Len(redemptions)
    BY <1>1, TablesAre DEF TrueInv
  <2>2. RetriesAreBounded
    BY <1>1, <2>1 DEF KeptInv, AttemptsOK, RetriesAreBounded
  <2>3. NothingElseIsLeft
    <3> SUFFICES ASSUME NEW c \in (1 .. closed \cup untimed) \ Due, c \notin untimed,
                        wallet = FirstWallet, chain[wallet].win[c] > 0
                 PROVE  c \in missed \/ \E r \in DOMAIN redemptions : redemptions[r].cond = c
      BY DEF NothingElseIsLeft
    <3>0. c \in 1 .. scan.cursor
      <4>1. scan.cursor \in Nat /\ closed \in Nat
        BY <1>1, ClearIs DEF TrueInv, TypeOK, Scans
      <4> QED
        BY <4>1 DEF Due
    <3>1. scan.cursor \in Nat /\ Reached \in Nat /\ scan.cursor <= Reached
      BY <1>1 DEF TrueInv, TypeOK, Scans, KeptInv, ScanOK, Reached
    <3>2. c \in 1 .. Reached
      BY <3>0, <3>1
    <3>3. ~(task[Worker].pc = "checked" /\ task[Worker].call.cond = c)
      BY <1>1, <3>0, <3>1 DEF KeptInv, ScanOK
    <3> QED
      BY <1>1, <2>1, <3>2, <3>3 DEF KeptInv, ReachedOK
  <2> QED
    BY <2>2, <2>3
<1>2. MoneyInv => RedemptionsAreKept
  BY <1>1 DEF MoneyInv, RedemptionsAreKept
<1> QED
  BY <1>2, MoneyKept, PTL

-----------------------------------------------------------------------------
\* The daily limit

\* What counts in a table of withdrawals, and the sum of it but for some rows.
AmountsOf(ws)   == [i \in DOMAIN ws |-> ws[i].amount]
CountedOf(ws)   == {i \in DOMAIN ws : ws[i].today /\ ws[i].status # "failed"}
DaySum(ws, out) == SumFunctionOnSet(AmountsOf(ws), CountedOf(ws) \ out)
TotalOf(ws)     == DaySum(ws, {})

\* The withdrawal that a task has in hand, and the rows the relayer has had.
Transfers(t)  == task[t].pc # "idle" /\ task[t].call.kind = "transfer"
Writes(t, i)  == Transfers(t) /\ task[t].pc \in Steps /\ task[t].call.row = i
HandedOver(i) == \E b \in 1 .. Len(relay) : relay[b].call.kind = "transfer" /\ relay[b].call.row = i

\* What is asked for fits in what is left of the day, unless another was
\* faster.  A row in hand has not failed and is in no other's hands; before it
\* is submitted the relayer has not had it, and after an error it has not, or
\* the row is one of the unsure.
LimitOK(t) == Transfers(t) =>
  /\ t \in Api
  /\ task[t].pc = "checked" /\ t \notin slips.overtaken =>
       TotalOf(withdrawals) + task[t].call.amount <= DailyMax
  /\ task[t].pc \in Steps =>
       /\ withdrawals[task[t].call.row].status # "failed"
       /\ \A u \in Tasks \ {t} : ~Writes(u, task[t].call.row)
  /\ task[t].pc \in {"ready", "signed"} => ~HandedOver(task[t].call.row)
  /\ task[t].pc = "err" /\ HandedOver(task[t].call.row) => task[t].call.row \in slips.unsure

HandedOK == \A i : HandedOver(i) =>
  /\ i \in 1 .. Len(withdrawals)
  /\ withdrawals[i].status = "failed" => i \in slips.unsure

LimitInv ==
  /\ DaySum(withdrawals, slips.raced) <= DailyMax
  /\ HandedOK /\ \A t \in Tasks : LimitOK(t)

\* daily_withdrawal_total reads what counts in the table.
LEMMA TotalIs == DailyTotal = TotalOf(withdrawals)
<1>1. CountedOf(withdrawals) \ {} = CountedOf(withdrawals)
  OBVIOUS
<1> QED
  BY <1>1 DEF DailyTotal, TotalOf, DaySum, Withdrawn, AmountsOf, CountedOf

\* The sum of a day is a number.
LEMMA DailyIs ==
  ASSUME NEW ws \in Seq(Withdrawals), NEW out
  PROVE  /\ IsFiniteSet(CountedOf(ws) \ out) /\ DaySum(ws, out) \in Nat
         /\ CountedOf(ws) \ out \subseteq 1 .. Len(ws) /\ DOMAIN ws = 1 .. Len(ws) /\ Len(ws) \in Nat
         /\ \A i \in 1 .. Len(ws) : AmountsOf(ws)[i] = ws[i].amount /\ AmountsOf(ws)[i] \in Nat
<1> DEFINE S == CountedOf(ws) \ out
<1>1. IsFiniteSet(1 .. Len(ws)) /\ DOMAIN ws = 1 .. Len(ws) /\ Len(ws) \in Nat
      /\ \A i \in 1 .. Len(ws) : ws[i] \in Withdrawals
  BY LenProperties, ElementOfSeq, FS_Interval
<1>2. IsFiniteSet(S) /\ S \subseteq 1 .. Len(ws)
  BY <1>1, FS_Subset DEF CountedOf
<1>3. \A i \in 1 .. Len(ws) : AmountsOf(ws)[i] = ws[i].amount /\ AmountsOf(ws)[i] \in Nat
  BY <1>1, MoneyAssumption DEF AmountsOf, Withdrawals
<1>4. \A i \in S : AmountsOf(ws)[i] \in Nat
  BY <1>2, <1>3
<1>5. DaySum(ws, out) \in Nat
  BY <1>2, <1>4, SumNat DEF DaySum
<1> QED
  BY <1>1, <1>2, <1>3, <1>5

\* Of fewer rows the sum is less.
LEMMA SumShrinks ==
  ASSUME NEW ws \in Seq(Withdrawals), NEW now \in Seq(Withdrawals), NEW out, NEW less,
         CountedOf(now) \ less \subseteq CountedOf(ws) \ out,
         \A i \in CountedOf(now) \ less : now[i].amount = ws[i].amount
  PROVE  DaySum(now, less) <= DaySum(ws, out)
<1> DEFINE S == CountedOf(now) \ less
           U == CountedOf(ws) \ out
           f == AmountsOf(ws)
           g == AmountsOf(now)
<1>1. IsFiniteSet(U) /\ S \in SUBSET U /\ \A i \in U : f[i] = ws[i].amount /\ f[i] \in Nat
  <2>1. U \subseteq 1 .. Len(ws) /\ IsFiniteSet(U) /\ \A i \in 1 .. Len(ws) : f[i] = ws[i].amount /\ f[i] \in Nat
    BY DailyIs
  <2> QED
    BY <2>1
<1>2. IsFiniteSet(S) /\ \A i \in S : g[i] = now[i].amount
  <2>1. S \subseteq 1 .. Len(now) /\ IsFiniteSet(S) /\ \A i \in 1 .. Len(now) : g[i] = now[i].amount
    BY DailyIs
  <2> QED
    BY <2>1
<1> HIDE DEF S, U, f, g
<1>3. SumFunctionOnSet(g, S) = SumFunctionOnSet(f, S)
  <2>1. \A i \in S : f[i] \in Int /\ g[i] = f[i]
    BY <1>1, <1>2 DEF S
  <2> QED
    BY <1>2, <2>1, SumSame
<1>4. SumFunctionOnSet(f, S) <= SumFunctionOnSet(f, U)
  BY <1>1, SumSubset
<1> QED
  BY <1>3, <1>4 DEF DaySum, S, U, f, g

\* A task stands still, gives up, turns to something else, or goes on with the
\* call it has; none comes to an error but from where nothing is submitted.
GoesOn(t) ==
  \/ task'[t].pc = "idle"
  \/ task'[t].pc = task[t].pc /\ task'[t].call = task[t].call
  \/ /\ task'[t].pc \in Steps /\ task[t].pc \in Steps /\ task'[t].call = task[t].call
     /\ task'[t].pc \in {"ready", "signed", "err"} => task[t].pc \in {"ready", "signed"}
  \/ task'[t].call.kind # "transfer"

\* The history grows by no withdrawal, and the relayer gets none.
SlipsStay ==
  /\ slips'.raced = slips.raced /\ slips'.unsure = slips.unsure
  /\ \A t \in Tasks : Transfers(t)' /\ t \notin slips'.overtaken => t \notin slips.overtaken
  /\ \A i : HandedOver(i)' <=> HandedOver(i)

LEMMA NothingSlips ==
  ASSUME UNCHANGED <<slips, relay>>
  PROVE  SlipsStay
BY DEF SlipsStay, HandedOver

\* A step that writes no withdrawal, in which every task goes on, keeps within the limit.
LEMMA LimitKept ==
  ASSUME LimitInv, UNCHANGED withdrawals, SlipsStay, \A t \in Tasks : GoesOn(t)
  PROVE  LimitInv'
<1>1. /\ TotalOf(withdrawals)' = TotalOf(withdrawals)
      /\ DaySum(withdrawals, slips.raced)' = DaySum(withdrawals, slips.raced)
  BY DEF SlipsStay
<1>2. \A i : \A u \in Tasks : Writes(u, i)' => Writes(u, i)
  BY DEF GoesOn, Writes, Transfers, Steps
<1>3. \A i : HandedOver(i)' <=> HandedOver(i)
  BY DEF SlipsStay
<1>4. ASSUME NEW t \in Tasks PROVE LimitOK(t)'
  <2> SUFFICES ASSUME Transfers(t)'
               PROVE  (/\ t \in Api
                       /\ task[t].pc = "checked" /\ t \notin slips.overtaken =>
                            TotalOf(withdrawals) + task[t].call.amount <= DailyMax
                       /\ task[t].pc \in Steps =>
                            /\ withdrawals[task[t].call.row].status # "failed"
                            /\ \A u \in Tasks \ {t} : ~Writes(u, task[t].call.row)
                       /\ task[t].pc \in {"ready", "signed"} => ~HandedOver(task[t].call.row)
                       /\ task[t].pc = "err" /\ HandedOver(task[t].call.row) =>
                            task[t].call.row \in slips.unsure)'
    BY DEF LimitOK
  <2>1. /\ task'[t].call = task[t].call /\ Transfers(t)
        /\ \/ task'[t].pc = task[t].pc
           \/ /\ task'[t].pc \in Steps /\ task[t].pc \in Steps
              /\ task'[t].pc \in {"ready", "signed", "err"} => task[t].pc \in {"ready", "signed"}
    BY DEF GoesOn, Transfers, Steps
  <2> DEFINE i == task[t].call.row
  <2>2. LimitOK(t) /\ i' = i
    BY <2>1 DEF LimitInv
  <2>3. /\ t \in Api
        /\ task[t].pc = "checked" /\ t \notin slips.overtaken =>
             TotalOf(withdrawals) + task[t].call.amount <= DailyMax
        /\ task[t].pc \in Steps => /\ withdrawals[i].status # "failed"
                                   /\ \A u \in Tasks \ {t} : ~Writes(u, i)
        /\ task[t].pc \in {"ready", "signed"} => ~HandedOver(i)
        /\ task[t].pc = "err" /\ HandedOver(i) => i \in slips.unsure
    BY <2>1, <2>2 DEF LimitOK
  <2>4. task'[t].pc = "checked" /\ t \notin slips'.overtaken =>
          task[t].pc = "checked" /\ t \notin slips.overtaken
    BY <2>1 DEF SlipsStay, Steps
  <2>5. /\ task'[t].pc \in Steps => task[t].pc \in Steps
        /\ task'[t].pc \in {"ready", "signed"} => task[t].pc \in {"ready", "signed"}
        /\ task'[t].pc = "err" => task[t].pc \in {"ready", "signed", "err"}
    BY <2>1 DEF Steps
  <2>6. \A u \in Tasks \ {t} : Writes(u, i)' => Writes(u, i)
    BY <1>2, <2>2
  <2>7. (HandedOver(i)' <=> HandedOver(i)) /\ slips'.unsure = slips.unsure
    BY <1>3, <2>2 DEF SlipsStay
  <2> HIDE DEF i
  <2>8. task'[t].pc = "checked" /\ t \notin slips'.overtaken =>
          TotalOf(withdrawals)' + task'[t].call.amount <= DailyMax
    BY <1>1, <2>1, <2>3, <2>4
  <2>9. task'[t].pc \in Steps => /\ withdrawals'[i'].status # "failed"
                                 /\ \A u \in Tasks \ {t} : ~Writes(u, i)'
    BY <2>2, <2>3, <2>5, <2>6
  <2>10. /\ task'[t].pc \in {"ready", "signed"} => ~HandedOver(i)'
         /\ task'[t].pc = "err" /\ HandedOver(i)' => i' \in slips'.unsure
    BY <2>2, <2>3, <2>5, <2>7
  <2> QED
    BY <2>3, <2>8, <2>9, <2>10 DEF i
<1>5. HandedOK'
  BY <1>3 DEF LimitInv, HandedOK, SlipsStay
<1> QED
  BY <1>1, <1>4, <1>5 DEF LimitInv

\* The others stand still.
LEMMA LimitTask ==
  ASSUME LimitInv, UNCHANGED withdrawals, SlipsStay, NEW t \in Tasks, GoesOn(t),
         \A u \in Tasks \ {t} : task'[u] = task[u]
  PROVE  LimitInv'
<1>1. \A u \in Tasks : GoesOn(u)
  BY DEF GoesOn
<1> QED
  BY <1>1, LimitKept

\* A withdrawal is asked for within what is left of the day.
LEMMA LimitAsking ==
  ASSUME MoneyInv, TypeOK', LimitInv, NEW t \in Api,
         \/ Withdraw(t) \/ RedeemByHand(t) \/ MergeByHand(t) \/ RedeemArchive(t) \/ MigrateArchive(t)
  PROVE  LimitInv'
<1> USE DEF MoneyInv, TrueInv
<1>1. /\ t \in Tasks /\ UNCHANGED <<withdrawals, relay>>
      /\ slips' = [slips EXCEPT !.overtaken = @ \ {t}]
  BY DEF Tasks, Withdraw, RedeemByHand, MergeByHand, RedeemArchive, MigrateArchive, Ask, tables, outside
<1>a. /\ slips'.raced = slips.raced /\ slips'.unsure = slips.unsure
      /\ slips'.overtaken = slips.overtaken \ {t}
      /\ \A i : HandedOver(i)' <=> HandedOver(i)
  BY <1>1 DEF HandedOver, TypeOK, Slips
<1>2. /\ task' \in [Tasks -> Locals] /\ \A u \in Tasks \ {t} : task'[u] = task[u]
      /\ \/ task'[t].pc = "checked" /\ task'[t].call.kind \in {"transfer", "redeem"}
         \/ task'[t].pc = "ready" /\ task'[t].call.kind \in {"merge", "move"}
  BY AskingIs
<1>3. CASE task'[t].call.kind # "transfer"
  <2>1. SlipsStay
    BY <1>a, <1>3 DEF SlipsStay, Transfers
  <2> QED
    BY <1>1, <1>2, <1>3, <2>1, LimitTask DEF GoesOn
<1>4. CASE task'[t].call.kind = "transfer"
  <2>1. Withdraw(t)
    <3>1. ASSUME NEW w \in Wallets, NEW pc \in {"checked", "ready"}, NEW c \in Calls, CallOn(w, t, pc, c)
          PROVE  task'[t].call = c
      BY <1>1, <3>1, CallStep
    <3>2. clear \subseteq Conds /\ \A w \in Wallets, c \in clear : chain[w].win[c] \in Nat
      <4> QED
        BY ClearIs DEF TypeOK, Holdings
    <3>3. FirstWallet \in Wallets /\ wallet \in Wallets
      BY MoneyAssumption DEF TypeOK
    <3>4. ~RedeemByHand(t)
      <4> SUFFICES ASSUME RedeemByHand(t) PROVE FALSE
        OBVIOUS
      <4>1. PICK c \in ListRedeemable : CallOn(wallet, t, "checked", Redeem(c, chain[wallet].win[c]))
        BY DEF RedeemByHand, Call
      <4>2. c \in Conds /\ chain[wallet].win[c] \in Nat
        BY <3>2, <3>3 DEF ListRedeemable, Redeemable
      <4>3. Redeem(c, chain[wallet].win[c]) \in Calls /\ Redeem(c, chain[wallet].win[c]).kind = "redeem"
        BY <4>2, CallsAre DEF CallOK
      <4> QED
        BY <1>4, <3>1, <3>3, <4>1, <4>3
    <3>5. ~MergeByHand(t)
      <4> SUFFICES ASSUME MergeByHand(t) PROVE FALSE
        OBVIOUS
      <4>1. PICK c \in Conds, n \in Amounts : CallOn(wallet, t, "ready", Merge(c, n))
        BY DEF MergeByHand, Call
      <4>2. Merge(c, n) \in Calls /\ Merge(c, n).kind = "merge"
        BY <4>1, CallsAre, MoneyAssumption DEF CallOK
      <4> QED
        BY <1>4, <3>1, <3>3, <4>1, <4>2
    <3>6. ~RedeemArchive(t)
      <4> SUFFICES ASSUME RedeemArchive(t) PROVE FALSE
        OBVIOUS
      <4>1. PICK c \in ListArchiveRedeemable :
              CallOn(FirstWallet, t, "checked", Redeem(c, chain[FirstWallet].win[c]))
        BY DEF RedeemArchive
      <4>2. c \in Conds /\ chain[FirstWallet].win[c] \in Nat
        BY <3>2, <3>3 DEF ListArchiveRedeemable, Redeemable
      <4>3. Redeem(c, chain[FirstWallet].win[c]) \in Calls /\ Redeem(c, chain[FirstWallet].win[c]).kind = "redeem"
        BY <4>2, CallsAre DEF CallOK
      <4> QED
        BY <1>4, <3>1, <3>3, <4>1, <4>3
    <3>7. ~MigrateArchive(t)
      <4> SUFFICES ASSUME MigrateArchive(t) PROVE FALSE
        OBVIOUS
      <4>1. CallOn(FirstWallet, t, "ready", Move(chain[FirstWallet].cash))
        BY DEF MigrateArchive
      <4>2. chain[FirstWallet].cash \in Nat
        BY <3>3 DEF TypeOK, Holdings
      <4>3. Move(chain[FirstWallet].cash) \in Calls /\ Move(chain[FirstWallet].cash).kind = "move"
        BY <4>2, CallsAre DEF CallOK
      <4> QED
        BY <1>4, <3>1, <3>3, <4>1, <4>3
    <3> QED
      BY <3>4, <3>5, <3>6, <3>7
  <2>2. PICK n \in Amounts : TotalOf(withdrawals) + n <= DailyMax /\ CallOn(wallet, t, "checked", Transfer(n))
    BY <2>1, TotalIs DEF Withdraw, Call
  <2>3. task'[t].pc = "checked" /\ task'[t].call = Transfer(n) /\ Transfer(n).amount = n
    BY <1>1, <2>2, CallStep, CallsAre DEF CallOK, TypeOK
  <2>4. /\ TotalOf(withdrawals)' = TotalOf(withdrawals)
        /\ DaySum(withdrawals, slips.raced)' = DaySum(withdrawals, slips.raced)
    BY <1>1, <1>a
  <2>5. LimitOK(t)'
    BY <1>1, <2>2, <2>3, <2>4 DEF LimitOK, Steps
  <2>6. ASSUME NEW u \in Tasks \ {t} PROVE LimitOK(u)'
    <3>1. LimitOK(u) /\ task'[u] = task[u] /\ (u \notin slips'.overtaken => u \notin slips.overtaken)
      BY <1>2, <1>a DEF LimitInv
    <3>2. \A i : \A v \in Tasks : Writes(v, i)' => Writes(v, i)
      BY <1>2, <2>3 DEF Writes, Transfers, Steps
    <3>3. \A i : (HandedOver(i)' <=> HandedOver(i)) /\ slips'.unsure = slips.unsure
      BY <1>a
    <3> QED
      BY <1>1, <2>4, <3>1, <3>2, <3>3 DEF LimitOK, Transfers
  <2>7. DaySum(withdrawals, slips.raced)' <= DailyMax /\ HandedOK'
    BY <1>1, <1>a, <2>4 DEF LimitInv, HandedOK
  <2> QED
    BY <2>5, <2>6, <2>7 DEF LimitInv
<1> QED
  BY <1>3, <1>4

\* A row that is new adds its amount.
LEMMA TotalGrows ==
  ASSUME NEW ws \in Seq(Withdrawals), NEW row \in Withdrawals
  PROVE  TotalOf(Append(ws, row)) <= TotalOf(ws) + row.amount
<1> DEFINE now == Append(ws, row)
           n   == Len(ws) + 1
           f   == AmountsOf(now)
           old == CountedOf(now) \ {n}
<1>1. /\ now \in Seq(Withdrawals) /\ Len(now) = n /\ now[n] = row
      /\ \A i \in 1 .. Len(ws) : now[i] = ws[i]
  BY AppendProperties
<1>2. row.amount \in Nat /\ Len(ws) \in Nat
  BY LenProperties, MoneyAssumption DEF Withdrawals
<1> HIDE DEF now
<1>3. /\ IsFiniteSet(CountedOf(now)) /\ CountedOf(now) \subseteq 1 .. n
      /\ \A i \in 1 .. n : f[i] = now[i].amount /\ f[i] \in Nat
  <2>1. /\ IsFiniteSet(CountedOf(now) \ {}) /\ CountedOf(now) \ {} \subseteq 1 .. Len(now)
        /\ \A i \in 1 .. Len(now) : AmountsOf(now)[i] = now[i].amount /\ AmountsOf(now)[i] \in Nat
    BY <1>1, DailyIs
  <2>2. CountedOf(now) \ {} = CountedOf(now)
    OBVIOUS
  <2> QED
    BY <1>1, <2>1, <2>2
<1>4. IsFiniteSet(old) /\ old \subseteq CountedOf(ws)
  <2>1. IsFiniteSet(old)
    BY <1>3, FS_Subset
  <2>2. old \subseteq 1 .. Len(ws)
    BY <1>2, <1>3
  <2>3. DOMAIN ws = 1 .. Len(ws) /\ DOMAIN now = 1 .. n
    BY <1>1, LenProperties
  <2> QED
    BY <1>1, <2>1, <2>2, <2>3 DEF CountedOf
<1>5. SumFunctionOnSet(f, old) <= TotalOf(ws) /\ SumFunctionOnSet(f, old) \in Int /\ TotalOf(ws) \in Nat
  <2> DEFINE g == AmountsOf(ws)
             U == CountedOf(ws) \ {}
  <2>1. /\ IsFiniteSet(U) /\ U \subseteq 1 .. Len(ws) /\ TotalOf(ws) = SumFunctionOnSet(g, U) /\ TotalOf(ws) \in Nat
        /\ \A i \in 1 .. Len(ws) : g[i] = ws[i].amount /\ g[i] \in Nat
    BY DailyIs DEF TotalOf, DaySum
  <2>2. (\A i \in U : g[i] \in Nat) /\ old \in SUBSET U
    BY <1>4, <2>1
  <2>3. \A i \in old : g[i] \in Int /\ f[i] = g[i] /\ f[i] \in Int
    BY SMTT(40), <1>1, <1>2, <1>3, <2>1, <2>2
  <2> HIDE DEF g, U, f, old
  <2>4. SumFunctionOnSet(f, old) = SumFunctionOnSet(g, old)
    BY <1>4, <2>3, SumSame
  <2>5. SumFunctionOnSet(g, old) <= SumFunctionOnSet(g, U)
    BY <2>1, <2>2, SumSubset
  <2>6. SumFunctionOnSet(f, old) \in Int
    BY <1>4, <2>3, SumType
  <2> QED
    BY <2>1, <2>4, <2>5, <2>6
<1>6. CASE n \in CountedOf(now)
  <2>1. CountedOf(now) = old \cup {n} /\ n \notin old
    BY <1>6
  <2>2. \A i \in old \cup {n} : f[i] \in Int
    BY <1>3, <2>1
  <2>3. f[n] = row.amount
    BY <1>1, <1>2, <1>3
  <2> HIDE DEF f, old, n
  <2>4. SumFunctionOnSet(f, old \cup {n}) = SumFunctionOnSet(f, old) + f[n]
    BY <1>4, <2>1, <2>2, SumAdd
  <2>5. TotalOf(now) = SumFunctionOnSet(f, old) + row.amount
    <3>1. CountedOf(now) \ {} = old \cup {n}
      BY <2>1
    <3> QED
      BY <2>3, <2>4, <3>1 DEF TotalOf, DaySum, f
  <2> QED
    BY <1>2, <1>5, <2>5 DEF now
<1>7. CASE n \notin CountedOf(now)
  <2>1. CountedOf(now) = old
    BY <1>7
  <2>2. TotalOf(now) = SumFunctionOnSet(f, old)
    <3>1. CountedOf(now) \ {} = old
      BY <2>1
    <3> QED
      BY <3>1 DEF TotalOf, DaySum
  <2> HIDE DEF f, old
  <2> QED
    BY <1>2, <1>5, <2>2 DEF now
<1> QED
  BY <1>6, <1>7

\* The row is written.  Either nobody has been faster since the check, and it
\* fits, or it is one of those that raced; the others that have checked are
\* overtaken now.
LEMMA LimitInserting ==
  ASSUME MoneyInv, TypeOK', LimitInv, NEW t \in Tasks, InsertWithdrawal(t)
  PROVE  LimitInv'
<1> USE DEF MoneyInv, TrueInv
<1> DEFINE n   == Len(withdrawals) + 1
           row == [amount |-> task[t].call.amount, status |-> "pending", today |-> TRUE]
<1>1. /\ task[t].pc = "checked" /\ task[t].call.kind = "transfer" /\ withdrawals' = Append(withdrawals, row)
      /\ task' = [task EXCEPT ![t].pc = "ready", ![t].call.row = n] /\ UNCHANGED relay
  BY DEF InsertWithdrawal, Checked, outside
<1>2. /\ task[t].call \in Calls /\ task[t].call.amount \in Amounts /\ n \in Nat /\ Len(withdrawals) \in Nat
      /\ withdrawals \in Seq(Withdrawals)
  BY <1>1, TablesAre DEF TasksOK, TaskOK, CallOK, TypeOK
<1>3. row \in Withdrawals /\ row.status = "pending" /\ row.amount = task[t].call.amount /\ row.amount \in Nat
  BY <1>2, MoneyAssumption DEF Withdrawals
<1>4. /\ \A u \in Tasks \ {t} : task'[u] = task[u]
      /\ task'[t].pc = "ready" /\ task'[t].call.row = n /\ task'[t].call.kind = task[t].call.kind
  BY <1>1, <1>2, RowStep
<1>5. /\ t \in Api /\ slips \in Slips
      /\ t \notin slips.overtaken => TotalOf(withdrawals) + row.amount <= DailyMax
  BY <1>1, <1>3 DEF LimitInv, LimitOK, Transfers, TypeOK
<1> HIDE DEF row
<1>6. /\ withdrawals' \in Seq(Withdrawals) /\ Len(withdrawals') = n
      /\ withdrawals'[n] = row /\ TotalOf(withdrawals') <= TotalOf(withdrawals) + row.amount
      /\ \A i \in 1 .. Len(withdrawals) : withdrawals'[i] = withdrawals[i]
      /\ DOMAIN withdrawals = 1 .. Len(withdrawals) /\ DOMAIN withdrawals' = 1 .. n
  <2>1. /\ withdrawals' \in Seq(Withdrawals) /\ Len(withdrawals') = n /\ withdrawals'[n] = row
        /\ \A i \in 1 .. Len(withdrawals) : withdrawals'[i] = withdrawals[i]
    BY <1>1, <1>2, <1>3, AppendProperties
  <2> QED
    BY <1>1, <1>2, <1>3, <2>1, TotalGrows, LenProperties
<1>7. /\ slips'.overtaken = {u \in Api \ {t} : Checked(u)} /\ slips'.unsure = slips.unsure
      /\ slips'.raced = slips.raced \cup {i \in {n} : t \in slips.overtaken}
  <2> DEFINE late  == {u \in Api \ {t} : Checked(u)}
             raced == slips.raced \cup {i \in {n} : t \in slips.overtaken}
  <2>1. slips' = [slips EXCEPT !.overtaken = late, !.raced = raced]
    BY DEF InsertWithdrawal
  <2> HIDE DEF late, raced
  <2>2. slips'.overtaken = late /\ slips'.raced = raced /\ slips'.unsure = slips.unsure
    BY <1>5, <2>1 DEF Slips
  <2> QED
    BY <2>2 DEF late, raced
<1>8. DaySum(withdrawals', slips'.raced) <= DailyMax
  <2>0. \A out : \A ws \in Seq(Withdrawals) : DaySum(ws, out) \in Nat
    BY DailyIs
  <2>1. CASE t \in slips.overtaken
    <3>1. /\ CountedOf(withdrawals') \ slips'.raced \subseteq CountedOf(withdrawals) \ slips.raced
          /\ \A i \in CountedOf(withdrawals') \ slips'.raced : withdrawals'[i].amount = withdrawals[i].amount
      <4> SUFFICES ASSUME NEW i \in CountedOf(withdrawals') \ slips'.raced
                   PROVE  /\ i \in CountedOf(withdrawals) \ slips.raced
                          /\ withdrawals'[i].amount = withdrawals[i].amount
        OBVIOUS
      <4>1. i \in 1 .. n /\ i # n /\ i \notin slips.raced
        BY <1>6, <1>7, <2>1 DEF CountedOf
      <4>2. i \in 1 .. Len(withdrawals)
        BY <1>2, <4>1
      <4> QED
        BY <1>6, <4>1, <4>2 DEF CountedOf
    <3>2. DaySum(withdrawals', slips'.raced) <= DaySum(withdrawals, slips.raced)
      BY <1>2, <1>6, <3>1, SumShrinks
    <3> QED
      BY <1>2, <1>6, <2>0, <3>2, MoneyAssumption DEF LimitInv
  <2>2. CASE t \notin slips.overtaken
    <3>1. DaySum(withdrawals', slips'.raced) <= DaySum(withdrawals', {})
      BY <1>6, SumShrinks
    <3> DEFINE a == row.amount
               x == TotalOf(withdrawals)
               y == TotalOf(withdrawals')
               z == DaySum(withdrawals', slips'.raced)
    <3>2. /\ a \in Nat /\ x \in Nat /\ y \in Nat /\ z \in Nat /\ DailyMax \in Nat
          /\ x + a <= DailyMax /\ y <= x + a /\ z <= y
      BY <1>2, <1>3, <1>5, <1>6, <2>0, <2>2, <3>1, MoneyAssumption DEF TotalOf
    <3> HIDE DEF a, x, y, z
    <3>3. z <= DailyMax
      BY <3>2
    <3> QED
      BY <3>3 DEF z
  <2> QED
    BY <2>1, <2>2
<1>9. \A i : HandedOver(i)' <=> HandedOver(i)
  BY <1>1 DEF HandedOver
<1>10. \A i : \A u \in Tasks : Writes(u, i) => i \in 1 .. Len(withdrawals)
  BY DEF Writes, Transfers, TasksOK, TaskOK
<1>11. \A i : \A u \in Tasks \ {t} : Writes(u, i)' <=> Writes(u, i)
  BY <1>4 DEF Writes, Transfers
<1>12. n \notin 1 .. Len(withdrawals)
  BY <1>2
<1>13. LimitOK(t)'
  <2>1. withdrawals'[n].status # "failed"
    BY <1>3, <1>6
  <2>2. \A i : i = n => \A u \in Tasks \ {t} : ~Writes(u, i)'
    BY <1>10, <1>11, <1>12
  <2>3. \A i : i = n => ~HandedOver(i)'
    BY <1>9, <1>12 DEF LimitInv, HandedOK
  <2> HIDE DEF n
  <2> QED
    BY <1>4, <1>5, <2>1, <2>2, <2>3 DEF LimitOK
<1>14. ASSUME NEW u \in Tasks \ {t} PROVE LimitOK(u)'
  <2> SUFFICES ASSUME Transfers(u)' PROVE LimitOK(u)'
    BY DEF LimitOK
  <2> DEFINE i == task[u].call.row
  <2>1. LimitOK(u) /\ task'[u] = task[u] /\ Transfers(u) /\ u \in Api /\ i' = i
    BY <1>4 DEF LimitInv, LimitOK, Transfers
  <2>2. task[u].pc = "checked" => u \in slips'.overtaken
    BY <1>7, <2>1 DEF Checked, Transfers
  <2>3. task[u].pc \in Steps =>
          /\ withdrawals'[i].status # "failed" /\ i # n
          /\ \A v \in Tasks \ {u} : ~Writes(v, i)
    <3>1. task[u].pc \in Steps => i \in 1 .. Len(withdrawals)
      BY <2>1 DEF Transfers, TasksOK, TaskOK
    <3> QED
      BY <1>6, <1>12, <2>1, <3>1 DEF LimitOK
  <2>4. task[u].pc \in Steps => \A v \in Tasks \ {u} : ~Writes(v, i)'
    <3>1. \A j : j # n => ~Writes(t, j)'
      BY <1>4 DEF Writes
    <3> HIDE DEF i, n
    <3> QED
      BY <1>11, <2>1, <2>3, <3>1
  <2>5. /\ task[u].pc \in {"ready", "signed"} => ~HandedOver(i)
        /\ task[u].pc = "err" /\ HandedOver(i) => i \in slips.unsure
    BY <2>1 DEF LimitOK
  <2> HIDE DEF i
  <2> QED
    BY <1>7, <1>9, <2>1, <2>2, <2>3, <2>4, <2>5 DEF LimitOK, i
<1>15. HandedOK'
  <2> SUFFICES ASSUME NEW i, HandedOver(i)
               PROVE  /\ i \in 1 .. Len(withdrawals')
                      /\ withdrawals'[i].status = "failed" => i \in slips'.unsure
    BY <1>9 DEF HandedOK
  <2>1. i \in 1 .. Len(withdrawals) /\ (withdrawals[i].status = "failed" => i \in slips.unsure)
    BY DEF LimitInv, HandedOK
  <2> QED
    BY <1>2, <1>6, <1>7, <2>1
<1> QED
  BY <1>8, <1>13, <1>14, <1>15 DEF LimitInv

\* insert_redemption writes the other table, and its call is none of a withdrawal.
LEMMA LimitRedemption ==
  ASSUME MoneyInv, TypeOK', LimitInv, NEW t \in Tasks, InsertRedemption(t)
  PROVE  LimitInv'
<1> USE DEF MoneyInv, TrueInv
<1>1. UNCHANGED withdrawals /\ task[t].pc = "checked" /\ task[t].call.kind = "redeem" /\ task[t].call \in Calls
      /\ SlipsStay
  BY NothingSlips DEF InsertRedemption, TasksOK, TaskOK, CallOK, outside
<1>2. Len(redemptions) + 1 \in Nat
  BY TablesAre
<1>3. \/ task' = [task EXCEPT ![t] = Idle]
      \/ task' = [task EXCEPT ![t].pc = "ready", ![t].call.row = Len(redemptions) + 1]
  BY DEF InsertRedemption
<1>4. CASE task' = [task EXCEPT ![t] = Idle]
  BY <1>1, <1>4, IdleStep, LimitTask DEF GoesOn
<1>5. CASE task' = [task EXCEPT ![t].pc = "ready", ![t].call.row = Len(redemptions) + 1]
  <2>1. task'[t].call.kind # "transfer" /\ \A u \in Tasks \ {t} : task'[u] = task[u]
    BY <1>1, <1>2, <1>5, RowStep
  <2> QED
    BY <1>1, <2>1, LimitTask DEF GoesOn
<1> QED
  BY <1>3, <1>4, <1>5

\* Signing and polling go on with the call in hand.
LEMMA LimitVenue ==
  ASSUME MoneyInv, TypeOK', LimitInv, NEW t \in Tasks, Sign(t) \/ SignErr(t) \/ Poll(t)
  PROVE  LimitInv'
<1> USE DEF MoneyInv, TrueInv
<1>1. UNCHANGED withdrawals /\ task[t].pc \in Steps /\ SlipsStay
  BY NothingSlips DEF Sign, SignErr, Poll, tables, outside, Steps
<1>2. /\ \A u \in Tasks \ {t} : task'[u] = task[u]
      /\ task'[t].call = task[t].call /\ task'[t].pc \in Steps
      /\ task'[t].pc \in {"ready", "signed", "err"} => task[t].pc \in {"ready", "signed"}
  <2>1. CASE Sign(t)
    <3> DEFINE n   == chain[task[t].wallet].nonce
               new == [[task[t] EXCEPT !.pc = "signed"] EXCEPT !.nonce = n]
    <3>1. task' = [task EXCEPT ![t] = new]
      BY <2>1, TaskIs DEF Sign, Locals
    <3>2. new.pc = "signed" /\ new.call = task[t].call
      BY TaskIs DEF Locals
    <3> HIDE DEF new
    <3> QED
      BY <2>1, <3>1, <3>2, TaskIs DEF Sign, Steps
  <2>2. CASE SignErr(t) \/ Poll(t)
    <3>1. \/ Goto(t, "err") /\ task[t].pc = "ready"
          \/ Goto(t, "ok") \/ Goto(t, "hash")
      BY <2>2 DEF SignErr, Poll
    <3> QED
      BY <3>1, GotoStep DEF Steps
  <2> QED
    BY <2>1, <2>2
<1> QED
  BY <1>1, <1>2, LimitTask DEF GoesOn

\* A batch more is of the row in hand, which no other has and which has not
\* failed.
LEMMA LimitSubmitting ==
  ASSUME MoneyInv, TypeOK', LimitInv, NEW t \in Tasks, Submit(t) \/ SubmitErr(t)
  PROVE  LimitInv'
<1> USE DEF MoneyInv, TrueInv
<1> DEFINE i == task[t].call.row
<1>1. UNCHANGED withdrawals /\ task[t].pc = "signed" /\ slips \in Slips
  BY DEF Submit, SubmitErr, tables, TypeOK
<1>2. /\ \A u \in Tasks \ {t} : task'[u] = task[u]
      /\ task'[t].call = task[t].call /\ task'[t].pc \in {"polling", "err"}
      /\ Submit(t) => task'[t].pc = "polling"
  <2>1. CASE SubmitErr(t) /\ ~Submit(t)
    BY <2>1, GotoStep DEF SubmitErr
  <2>2. CASE Submit(t)
    <3> DEFINE n   == Len(relay) + 1
               new == [[task[t] EXCEPT !.pc = "polling"] EXCEPT !.tx = n]
    <3>1. task' = [task EXCEPT ![t] = new]
      BY <2>2, TaskIs DEF Submit, Locals
    <3>2. new.pc = "polling" /\ new.call = task[t].call
      BY TaskIs DEF Locals
    <3> HIDE DEF new
    <3> QED
      BY <3>1, <3>2, TaskIs
  <2> QED
    BY <2>1, <2>2
<1>3. GoesOn(t)
  BY <1>1, <1>2 DEF GoesOn, Steps
<1>4. CASE SubmitErr(t) /\ UNCHANGED <<relay, slips>>
  BY <1>1, <1>2, <1>3, <1>4, NothingSlips, LimitTask
<1>5. ASSUME NEW h \in BOOLEAN, relay' = Append(relay, Batch(t, h)),
             \/ Submit(t) /\ UNCHANGED slips
             \/ slips' = [slips EXCEPT !.unsure = @ \cup {r \in {i} : task[t].call.kind = "transfer"}]
      PROVE  LimitInv'
  <2>1. \A j : HandedOver(j)' <=> HandedOver(j) \/ (task[t].call.kind = "transfer" /\ j = i)
    <3>1. Batch(t, h) \in Batches /\ Batch(t, h).call = task[t].call
      <4>1. task[t].call \in Calls /\ task[t].wallet \in Wallets
        BY <1>1, MoneyAssumption DEF TasksOK, TaskOK, CallOK, TypeOK
      <4> QED
        BY <4>1, TaskIs DEF Batch, Batches
    <3>2. /\ Len(relay') = Len(relay) + 1 /\ Len(relay) \in Nat
          /\ \A b \in 1 .. Len(relay) : relay'[b] = relay[b]
          /\ relay'[Len(relay) + 1].call = task[t].call
      BY <1>5, <3>1, AppendBatch, TablesAre
    <3>3. \A b : b \in 1 .. Len(relay') <=> b \in 1 .. Len(relay) \/ b = Len(relay) + 1
      BY <3>2
    <3> QED
      BY <3>2, <3>3 DEF HandedOver
  <2>2. /\ slips'.overtaken = slips.overtaken /\ slips'.raced = slips.raced
        /\ slips.unsure \subseteq slips'.unsure
        /\ task'[t].pc = "err" /\ task[t].call.kind = "transfer" => i \in slips'.unsure
        /\ task[t].call.kind # "transfer" => slips'.unsure = slips.unsure
    <3> DEFINE more == slips.unsure \cup {r \in {i} : task[t].call.kind = "transfer"}
    <3>1. CASE Submit(t) /\ UNCHANGED slips
      BY <1>2, <3>1
    <3>2. CASE slips' = [slips EXCEPT !.unsure = @ \cup {r \in {i} : task[t].call.kind = "transfer"}]
      <4>1. slips' = [slips EXCEPT !.unsure = more]
        BY <3>2
      <4> HIDE DEF more
      <4>2. slips'.overtaken = slips.overtaken /\ slips'.raced = slips.raced /\ slips'.unsure = more
        BY <1>1, <4>1 DEF Slips
      <4> QED
        BY <4>2 DEF more
    <3> QED
      BY <1>5, <3>1, <3>2
  <2> HIDE DEF i
  <2>3. CASE task[t].call.kind # "transfer"
    <3>1. SlipsStay
      BY <2>1, <2>2, <2>3 DEF SlipsStay
    <3> QED
      BY <1>1, <1>2, <1>3, <3>1, LimitTask
  <2>4. CASE task[t].call.kind = "transfer"
    <3>1. /\ Transfers(t) /\ t \in Api /\ withdrawals[i].status # "failed" /\ i \in 1 .. Len(withdrawals)
          /\ \A u \in Tasks \ {t} : ~Writes(u, i)
      BY <1>1, <2>4 DEF LimitInv, LimitOK, Transfers, Steps, TasksOK, TaskOK, i
    <3>2. \A j : \A u \in Tasks : Writes(u, j)' <=> Writes(u, j)
      BY <1>1, <1>2 DEF Writes, Transfers, Steps
    <3>3. i' = i
      BY <1>2 DEF i
    <3>4. LimitOK(t)'
      <4>1. task'[t].pc \notin {"checked", "ready", "signed"}
        BY <1>2
      <4>2. task'[t].pc = "err" => i' \in slips'.unsure
        BY <1>2, <2>2, <2>4, <3>3
      <4>3. withdrawals'[i'].status # "failed" /\ \A u \in Tasks \ {t} : ~Writes(u, i)'
        BY <1>1, <3>1, <3>2, <3>3
      <4> QED
        BY <3>1, <4>1, <4>2, <4>3 DEF LimitOK, i
    <3>5. ASSUME NEW u \in Tasks \ {t} PROVE LimitOK(u)'
      <4> SUFFICES ASSUME Transfers(u)' PROVE LimitOK(u)'
        BY DEF LimitOK
      <4> DEFINE j == task[u].call.row
      <4>1. LimitOK(u) /\ task'[u] = task[u] /\ Transfers(u) /\ j' = j
        BY <1>2 DEF LimitInv, Transfers
      <4>2. task[u].pc \in Steps => j # i
        BY <3>1, <4>1 DEF Writes
      <4>3. /\ u \in Api
            /\ task[u].pc = "checked" /\ u \notin slips.overtaken =>
                 TotalOf(withdrawals) + task[u].call.amount <= DailyMax
            /\ task[u].pc \in Steps => /\ withdrawals[j].status # "failed"
                                       /\ \A v \in Tasks \ {u} : ~Writes(v, j)
            /\ task[u].pc \in {"ready", "signed"} => ~HandedOver(j)
            /\ task[u].pc = "err" /\ HandedOver(j) => j \in slips.unsure
        BY <4>1 DEF LimitOK
      <4>4. task[u].pc \in Steps => (HandedOver(j)' <=> HandedOver(j))
        BY <2>1, <4>1, <4>2
      <4>5. TotalOf(withdrawals)' = TotalOf(withdrawals)
        BY <1>1
      <4>6. \A v \in Tasks \ {u} : Writes(v, j)' <=> Writes(v, j)
        BY <3>2, <4>1
      <4> HIDE DEF j
      <4>7. task[u].pc \in {"ready", "signed", "err"} => task[u].pc \in Steps
        BY DEF Steps
      <4> QED
        BY <1>1, <2>2, <4>1, <4>3, <4>4, <4>5, <4>6, <4>7 DEF LimitOK, j
    <3>6. HandedOK'
      BY <1>1, <2>1, <2>2, <3>1 DEF LimitInv, HandedOK
    <3>7. DaySum(withdrawals, slips.raced)' = DaySum(withdrawals, slips.raced)
      BY <1>1, <2>2
    <3> QED
      BY <3>4, <3>5, <3>6, <3>7 DEF LimitInv
  <2> QED
    BY <2>3, <2>4
<1>6. \/ SubmitErr(t) /\ UNCHANGED <<relay, slips>>
      \/ \E h \in BOOLEAN :
           /\ relay' = Append(relay, Batch(t, h))
           /\ \/ Submit(t) /\ UNCHANGED slips
              \/ slips' = [slips EXCEPT !.unsure = @ \cup {r \in {i} : task[t].call.kind = "transfer"}]
  BY DEF Submit, SubmitErr
<1> QED
  BY <1>4, <1>5, <1>6

\* What a request wrote of its row never counts more than before.
LEMMA LimitWriting ==
  ASSUME MoneyInv, TypeOK', LimitInv, NEW t \in Tasks, Write(t)
  PROVE  LimitInv'
<1> USE DEF MoneyInv, TrueInv
<1>1. task[t].pc \in {"ok", "hash", "err"} /\ task' = [task EXCEPT ![t] = Idle] /\ task[t].pc \in Steps
  BY DEF Write, Steps
<1>2. task'[t].pc = "idle" /\ \A u \in Tasks \ {t} : task'[u] = task[u]
  BY <1>1, IdleStep
<1>a. SlipsStay /\ UNCHANGED slips
  BY NothingSlips DEF Write, outside
<1>3. CASE task[t].call.kind # "transfer"
  BY <1>2, <1>a, <1>3, LimitTask DEF Write, GoesOn
<1>4. CASE task[t].call.kind = "transfer"
  <2> DEFINE r   == task[t].call.row
             st  == Status(task[t].pc)
             new == [withdrawals[r] EXCEPT !.status = st]
  <2>1. withdrawals' = [withdrawals EXCEPT ![r].status = st]
    BY <1>4 DEF Write
  <2>2. r \in 1 .. Len(withdrawals) /\ withdrawals \in Seq(Withdrawals) /\ withdrawals' \in Seq(Withdrawals)
        /\ withdrawals[r] \in Withdrawals /\ DOMAIN withdrawals = 1 .. Len(withdrawals)
    BY <1>1, <1>4, TablesAre DEF TasksOK, TaskOK, TypeOK
  <2>3. /\ new.amount = withdrawals[r].amount /\ new.today = withdrawals[r].today
        /\ withdrawals' = [withdrawals EXCEPT ![r] = new]
    BY <2>1, <2>2 DEF Withdrawals
  <2>4. /\ withdrawals[r].status # "failed" /\ \A u \in Tasks \ {t} : ~Writes(u, r)
        /\ task[t].pc = "err" /\ HandedOver(r) => r \in slips.unsure
    BY <1>1, <1>4 DEF LimitInv, LimitOK, Transfers, Steps
  <2>5. st = "failed" => task[t].pc = "err"
    BY <1>1 DEF Status
  <2>6. new.status = st
    BY <2>2 DEF Withdrawals
  <2> HIDE DEF new, r, st
  <2>7. /\ DOMAIN withdrawals' = DOMAIN withdrawals /\ withdrawals'[r] = new
        /\ \A i \in DOMAIN withdrawals : i # r => withdrawals'[i] = withdrawals[i]
    BY <2>2, <2>3
  <2>8. /\ CountedOf(withdrawals') \subseteq CountedOf(withdrawals)
        /\ \A i \in CountedOf(withdrawals') : withdrawals'[i].amount = withdrawals[i].amount
    BY <2>2, <2>3, <2>4, <2>7 DEF CountedOf
  <2>9. \A out : /\ DaySum(withdrawals', out) <= DaySum(withdrawals, out)
                 /\ DaySum(withdrawals', out) \in Nat /\ DaySum(withdrawals, out) \in Nat
    <3> TAKE out
    <3>1. /\ CountedOf(withdrawals') \ out \subseteq CountedOf(withdrawals) \ out
          /\ \A i \in CountedOf(withdrawals') \ out : withdrawals'[i].amount = withdrawals[i].amount
      BY <2>8
    <3> QED
      BY <2>2, <3>1, SumShrinks, DailyIs
  <2>10. DaySum(withdrawals', slips'.raced) <= DailyMax
    <3>1. DaySum(withdrawals, slips.raced) <= DailyMax /\ slips' = slips
      BY <1>a DEF LimitInv
    <3> QED
      BY <2>9, <3>1, MoneyAssumption
  <2>11. \A i : HandedOver(i)' <=> HandedOver(i)
    BY <1>a DEF SlipsStay
  <2>12. ASSUME NEW u \in Tasks \ {t} PROVE LimitOK(u)'
    <3> SUFFICES ASSUME Transfers(u)' PROVE LimitOK(u)'
      BY DEF LimitOK
    <3> DEFINE i == task[u].call.row
    <3>1. LimitOK(u) /\ task'[u] = task[u] /\ Transfers(u) /\ i' = i
      BY <1>2 DEF LimitInv, Transfers
    <3>2. task[u].pc \in Steps => i # r /\ i \in DOMAIN withdrawals
      BY <2>2, <2>4, <3>1 DEF Writes, Transfers, TasksOK, TaskOK
    <3>3. /\ u \in Api
          /\ task[u].pc = "checked" /\ u \notin slips.overtaken =>
               TotalOf(withdrawals) + task[u].call.amount <= DailyMax
          /\ task[u].pc \in Steps => /\ withdrawals[i].status # "failed"
                                     /\ \A v \in Tasks \ {u} : ~Writes(v, i)
          /\ task[u].pc \in {"ready", "signed"} => ~HandedOver(i)
          /\ task[u].pc = "err" /\ HandedOver(i) => i \in slips.unsure
      BY <3>1 DEF LimitOK
    <3>4. \A v \in Tasks \ {u} : Writes(v, i)' => Writes(v, i)
      BY <1>2, <3>1 DEF Writes, Transfers
    <3>5. task[u].pc = "checked" /\ u \notin slips.overtaken =>
            TotalOf(withdrawals)' + task[u].call.amount <= DailyMax
      <4>1. task[u].call.amount \in Nat
        BY <3>1, MoneyAssumption DEF Transfers, TasksOK, TaskOK, CallOK
      <4>2. /\ TotalOf(withdrawals)' <= TotalOf(withdrawals)
            /\ TotalOf(withdrawals)' \in Nat /\ TotalOf(withdrawals) \in Nat
        BY <2>9 DEF TotalOf
      <4> QED
        BY <3>3, <4>1, <4>2, MoneyAssumption
    <3>6. task[u].pc \in Steps => withdrawals'[i].status # "failed"
      BY <2>7, <3>2, <3>3
    <3>7. (HandedOver(i)' <=> HandedOver(i)) /\ slips' = slips
      BY <1>a, <2>11, <3>1
    <3> HIDE DEF i
    <3> QED
      BY <3>1, <3>3, <3>4, <3>5, <3>6, <3>7 DEF LimitOK, i
  <2>13. LimitOK(t)'
    BY <1>2 DEF LimitOK, Transfers
  <2>14. HandedOK'
    <3> SUFFICES ASSUME NEW i, HandedOver(i)
                 PROVE  /\ i \in 1 .. Len(withdrawals')
                        /\ withdrawals'[i].status = "failed" => i \in slips.unsure
      BY <1>a, <2>11 DEF HandedOK
    <3>1. i \in DOMAIN withdrawals /\ (withdrawals[i].status = "failed" => i \in slips.unsure)
      BY <2>2 DEF LimitInv, HandedOK
    <3>2. i \in 1 .. Len(withdrawals')
      BY <2>2, <2>7, <3>1, LenProperties
    <3>3. CASE i = r
      BY <2>4, <2>5, <2>6, <2>7, <3>2, <3>3
    <3>4. CASE i # r
      BY <2>7, <3>1, <3>2, <3>4
    <3> QED
      BY <3>3, <3>4
  <2> QED
    BY <2>10, <2>12, <2>13, <2>14 DEF LimitInv
<1> QED
  BY <1>3, <1>4

\* A request or the worker gives up, or the copier dies.
LEMMA LimitEnds ==
  ASSUME MoneyInv, TypeOK', LimitInv, (\E t \in Tasks : WriteErr(t)) \/ Crash
  PROVE  LimitInv'
<1> USE DEF MoneyInv, TrueInv
<1>1. CASE Crash
  <2>1. UNCHANGED withdrawals /\ task' = [t \in Tasks |-> Idle] /\ SlipsStay
    BY <1>1, NothingSlips DEF Crash, tables, outside
  <2>2. \A t \in Tasks : task'[t].pc = "idle"
    BY <2>1, IdleIs
  <2> QED
    BY <2>1, <2>2, LimitKept DEF GoesOn
<1>2. ASSUME NEW t \in Tasks, WriteErr(t) PROVE LimitInv'
  <2>1. UNCHANGED withdrawals /\ task' = [task EXCEPT ![t] = Idle] /\ SlipsStay
    BY <1>2, NothingSlips DEF WriteErr, tables, outside
  <2> QED
    BY <2>1, IdleStep, LimitTask DEF GoesOn
<1> QED
  BY <1>1, <1>2

\* The worker only redeems.
LEMMA LimitWorker ==
  ASSUME MoneyInv, TypeOK', LimitInv, Tick \/ TickEnd \/ Market \/ \E i \in scan.retries : Retry(i)
  PROVE  LimitInv'
<1> USE DEF MoneyInv, TrueInv
<1>1. UNCHANGED withdrawals /\ Worker \in Tasks /\ SlipsStay
  BY NothingSlips DEF Tick, TickEnd, Market, Retry, tables, outside, Tasks
<1>2. UNCHANGED task
      \/ \E pc \in {"checked", "ready"}, c \in Calls : CallOn(wallet, Worker, pc, c) /\ c.kind = "redeem"
  <2>1. CASE Tick \/ TickEnd
    BY <2>1 DEF Tick, TickEnd
  <2>2. CASE Market
    <3>1. PICK c \in Conds : UNCHANGED task \/ Call(Worker, "checked", Redeem(c, chain[wallet].win[c]))
      BY <2>2, MarketPicks DEF MarketIs
    <3>2. chain[wallet].win[c] \in Nat
      BY DEF TypeOK, Holdings
    <3>3. Redeem(c, chain[wallet].win[c]) \in Calls /\ Redeem(c, chain[wallet].win[c]).kind = "redeem"
      BY <3>2, CallsAre DEF CallOK
    <3> QED
      BY <3>1, <3>3 DEF Call
  <2>3. ASSUME NEW i \in scan.retries, Retry(i)
        PROVE  UNCHANGED task
               \/ \E pc \in {"checked", "ready"}, c \in Calls : CallOn(wallet, Worker, pc, c) /\ c.kind = "redeem"
    <3> DEFINE c   == redemptions[i].cond
               n   == chain[wallet].win[c]
               new == [Redeem(c, n) EXCEPT !.row = i]
    <3>1. UNCHANGED task \/ Call(Worker, "ready", new)
      BY <2>3 DEF Retry
    <3>2. i \in 1 .. Len(redemptions) /\ redemptions[i] \in Redemptions /\ i \in Nat
      BY TablesAre DEF KeptInv, ScanOK, Retryable
    <3>3. c \in Conds /\ n \in Nat
      BY ZenonT(60), <3>2 DEF Redemptions, TypeOK, Holdings
    <3> HIDE DEF c, n
    <3>4. Redeem(c, n) \in Calls /\ Redeem(c, n).kind = "redeem"
      BY <3>3, CallsAre DEF CallOK
    <3>5. new \in Calls /\ new.kind = "redeem"
      BY <3>2, <3>4 DEF Calls
    <3> QED
      BY <3>1, <3>5 DEF Call
  <2> QED
    BY <2>1, <2>2, <2>3
<1>3. CASE UNCHANGED task
  BY <1>1, <1>3, LimitKept DEF GoesOn
<1>4. ASSUME NEW pc \in {"checked", "ready"}, NEW c \in Calls, CallOn(wallet, Worker, pc, c), c.kind = "redeem"
      PROVE  LimitInv'
  <2>1. task'[Worker].call = c /\ \A u \in Tasks \ {Worker} : task'[u] = task[u]
    BY <1>1, <1>4, CallStep DEF TypeOK
  <2> QED
    BY <1>1, <1>4, <2>1, LimitTask DEF GoesOn
<1> QED
  BY <1>2, <1>3, <1>4

\* The day ends: nothing counts any more.
LEMMA LimitDay ==
  ASSUME MoneyInv, TypeOK', LimitInv, DayPasses
  PROVE  LimitInv'
<1> USE DEF MoneyInv, TrueInv
<1> DEFINE old(i) == [withdrawals[i] EXCEPT !.today = FALSE]
<1>1. /\ withdrawals' = [i \in DOMAIN withdrawals |-> old(i)] /\ UNCHANGED <<task, slips, relay>>
      /\ DOMAIN withdrawals = 1 .. Len(withdrawals)
  BY TablesAre DEF DayPasses, outside
<1>2. \A i \in DOMAIN withdrawals : ~old(i).today /\ old(i).status = withdrawals[i].status
  BY <1>1, TablesAre DEF Withdrawals
<1> HIDE DEF old
<1>3. CountedOf(withdrawals') = {}
  BY <1>1, <1>2 DEF CountedOf
<1>4. \A out : /\ DaySum(withdrawals', out) <= DaySum(withdrawals, out)
               /\ DaySum(withdrawals', out) \in Nat /\ DaySum(withdrawals, out) \in Nat
  BY <1>3, SumShrinks, DailyIs DEF TypeOK
<1>5. \A i : HandedOver(i)' <=> HandedOver(i)
  BY <1>1 DEF HandedOver
<1>6. ASSUME NEW t \in Tasks PROVE LimitOK(t)'
  <2> SUFFICES ASSUME Transfers(t)' PROVE LimitOK(t)'
    BY DEF LimitOK
  <2> DEFINE i == task[t].call.row
  <2>1. LimitOK(t) /\ Transfers(t) /\ task'[t] = task[t] /\ i' = i
    BY <1>1 DEF LimitInv, Transfers
  <2>2. /\ t \in Api
        /\ task[t].pc = "checked" /\ t \notin slips.overtaken =>
             TotalOf(withdrawals) + task[t].call.amount <= DailyMax
        /\ task[t].pc \in Steps => /\ withdrawals[i].status # "failed"
                                   /\ \A u \in Tasks \ {t} : ~Writes(u, i)
        /\ task[t].pc \in {"ready", "signed"} => ~HandedOver(i)
        /\ task[t].pc = "err" /\ HandedOver(i) => i \in slips.unsure
    BY <2>1 DEF LimitOK
  <2>3. task[t].pc = "checked" /\ t \notin slips.overtaken =>
          TotalOf(withdrawals)' + task[t].call.amount <= DailyMax
    <3>1. task[t].call.amount \in Nat
      BY <2>1, MoneyAssumption DEF Transfers, TasksOK, TaskOK, CallOK
    <3>2. /\ TotalOf(withdrawals)' <= TotalOf(withdrawals)
          /\ TotalOf(withdrawals)' \in Nat /\ TotalOf(withdrawals) \in Nat
      BY <1>4 DEF TotalOf
    <3> QED
      BY <2>2, <3>1, <3>2, MoneyAssumption
  <2>4. task[t].pc \in Steps => withdrawals'[i].status # "failed"
    <3>1. task[t].pc \in Steps => i \in DOMAIN withdrawals
      BY <1>1, <2>1 DEF Transfers, TasksOK, TaskOK
    <3> QED
      BY <1>1, <1>2, <2>2, <3>1
  <2>5. \A u \in Tasks \ {t} : Writes(u, i)' <=> Writes(u, i)
    BY <1>1 DEF Writes, Transfers
  <2>6. (HandedOver(i)' <=> HandedOver(i)) /\ slips' = slips
    BY <1>1, <1>5, <2>1
  <2> HIDE DEF i
  <2> QED
    BY <2>1, <2>2, <2>3, <2>4, <2>5, <2>6 DEF LimitOK, i
<1>7. DaySum(withdrawals', slips'.raced) <= DailyMax
  <2>1. DaySum(withdrawals, slips.raced) <= DailyMax /\ slips' = slips
    BY <1>1 DEF LimitInv
  <2> QED
    BY <1>4, <2>1, MoneyAssumption
<1>8. HandedOK'
  <2>1. Len(withdrawals') = Len(withdrawals)
    BY <1>1, LenProperties, TablesAre DEF TypeOK
  <2> QED
    BY <1>1, <1>2, <1>5, <2>1 DEF LimitInv, HandedOK
<1> QED
  BY <1>6, <1>7, <1>8 DEF LimitInv

\* The chain, the markets and the credential leave the table and the requests alone.
LEMMA LimitOutside ==
  ASSUME MoneyInv, TypeOK', LimitInv,
         \/ \E i \in DOMAIN relay : Mine(i) \/ Drop(i)
         \/ Close \/ (\E c \in Conds : InsertClosed(c) \/ Clarify(c)) \/ (\E w \in Wallets : Migrate(w))
         \/ UNCHANGED vars
  PROVE  LimitInv'
<1>1. UNCHANGED <<withdrawals, task, slips>>
  BY DEF Mine, Drop, Close, InsertClosed, Clarify, Migrate, vars, tables
<1>2. \A i : HandedOver(i)' <=> HandedOver(i)
  <2>1. CASE UNCHANGED relay
    BY <2>1 DEF HandedOver
  <2>2. ASSUME NEW b \in DOMAIN relay, Mine(b) \/ Drop(b)
        PROVE  \A i : HandedOver(i)' <=> HandedOver(i)
    <3>1. b \in 1 .. Len(relay)
      BY TablesAre DEF MoneyInv, TrueInv
    <3>2. Len(relay') = Len(relay) /\ RelayGrows
      BY <2>2, <3>1, BatchStep DEF Mine, Drop, MoneyInv, TrueInv
    <3> QED
      BY <3>2 DEF HandedOver, RelayGrows
  <2> QED
    BY <2>1, <2>2 DEF Close, InsertClosed, Clarify, Migrate, vars, outside
<1>3. SlipsStay
  BY <1>1, <1>2 DEF SlipsStay
<1> QED
  BY <1>1, <1>3, LimitKept DEF GoesOn

\* Every step keeps within the limit.
LEMMA LimitStep ==
  ASSUME MoneyInv, MoneyInv', LimitInv, [Next]_vars
  PROVE  LimitInv'
<1>1. TypeOK'
  BY DEF MoneyInv, TrueInv
<1>2. ASSUME NEW t \in Tasks, Proceed(t) PROVE LimitInv'
  BY <1>1, <1>2, LimitInserting, LimitRedemption, LimitVenue, LimitSubmitting, LimitWriting DEF Proceed
<1>3. CASE WorkerStep
  BY <1>1, <1>2, <1>3, LimitWorker DEF WorkerStep, Tasks
<1>4. ASSUME NEW t \in Api,
             \/ Withdraw(t) \/ RedeemByHand(t) \/ MergeByHand(t) \/ RedeemArchive(t) \/ MigrateArchive(t)
      PROVE  LimitInv'
  BY <1>1, <1>4, LimitAsking
<1>5. ASSUME NEW t \in Tasks, SignErr(t) \/ SubmitErr(t) \/ WriteErr(t) PROVE LimitInv'
  BY <1>1, <1>5, LimitVenue, LimitSubmitting, LimitEnds
<1>6. CASE Crash \/ DayPasses
  BY <1>1, <1>6, LimitEnds, LimitDay
<1>7. CASE \/ \E i \in DOMAIN relay : Mine(i) \/ Drop(i)
           \/ Close \/ (\E c \in Conds : InsertClosed(c) \/ Clarify(c)) \/ (\E w \in Wallets : Migrate(w)) \/ UNCHANGED vars
  BY <1>1, <1>7, LimitOutside
<1> QED
  BY <1>2, <1>3, <1>4, <1>5, <1>6, <1>7 DEF Next, Tasks

\* The first day starts with nothing withdrawn.
LEMMA LimitStarts == Init => LimitInv
<1> SUFFICES ASSUME Init PROVE LimitInv
  OBVIOUS
<1>1. withdrawals = <<>> /\ relay = <<>> /\ \A t \in Tasks : task[t].pc = "idle"
  BY IdleIs DEF Init
<1>2. CountedOf(withdrawals) \ slips.raced = {}
  BY <1>1 DEF CountedOf
<1>3. DaySum(withdrawals, slips.raced) = 0
  BY <1>2, SumEmpty DEF DaySum
<1>4. HandedOK /\ \A t \in Tasks : LimitOK(t)
  BY <1>1 DEF HandedOK, HandedOver, LimitOK, Transfers
<1> QED
  BY <1>3, <1>4, MoneyAssumption DEF LimitInv

\* What the chain pays out for the withdrawals of a day stays within the daily
\* limit, whatever the number of requests, however long the relayer takes and
\* wherever requests break off, but for rows that were overtaken between their
\* check and their insertion and rows that failed with a batch at the relayer
\* (routes.rs withdraw, account.rs daily_withdrawal_total).
THEOREM DailyLimitKept == Spec => []DailyLimitHolds
<1>1. Init => LimitInv
  BY LimitStarts
<1>2. MoneyInv /\ MoneyInv' /\ LimitInv /\ [Next]_vars => LimitInv'
  BY LimitStep
<1>3. MoneyInv /\ LimitInv => DailyLimitHolds
  <2> SUFFICES ASSUME MoneyInv, LimitInv PROVE DailyLimitHolds
    OBVIOUS
  <2> DEFINE S == {i \in DOMAIN withdrawals : /\ withdrawals[i].today
                     /\ i \notin slips.raced \cup slips.unsure
                     /\ \E b \in BatchesOf("transfer", i) : relay[b].state = "mined"}
             U == CountedOf(withdrawals) \ slips.raced
             f == Withdrawn
  <2>1. withdrawals \in Seq(Withdrawals) /\ f = AmountsOf(withdrawals) /\ DOMAIN relay = 1 .. Len(relay)
    BY TablesAre DEF MoneyInv, TrueInv, TypeOK, Withdrawn, AmountsOf
  <2>2. S \in SUBSET U
    <3> SUFFICES ASSUME NEW i \in S PROVE i \in U
      OBVIOUS
    <3>1. HandedOver(i)
      BY <2>1 DEF HandedOver, BatchesOf
    <3>2. withdrawals[i].status # "failed"
      BY <3>1 DEF LimitInv, HandedOK
    <3> QED
      BY <3>2 DEF CountedOf
  <2>3. /\ IsFiniteSet(U) /\ (\A i \in U : f[i] \in Nat)
        /\ DaySum(withdrawals, slips.raced) = SumFunctionOnSet(f, U)
    <3>1. /\ IsFiniteSet(U) /\ U \subseteq 1 .. Len(withdrawals)
          /\ \A i \in 1 .. Len(withdrawals) : AmountsOf(withdrawals)[i] \in Nat
      BY <2>1, DailyIs
    <3> QED
      BY <2>1, <3>1 DEF DaySum
  <2> HIDE DEF S, U, f
  <2>4. SumFunctionOnSet(f, S) <= DaySum(withdrawals, slips.raced)
    BY <2>2, <2>3, SumSubset
  <2>5. SumFunctionOnSet(f, S) \in Nat /\ DaySum(withdrawals, slips.raced) \in Nat
    <3>1. IsFiniteSet(S) /\ \A i \in S : f[i] \in Nat
      BY <2>2, <2>3, FS_Subset
    <3> QED
      BY <2>1, <3>1, SumNat, DailyIs
  <2>6. SumFunctionOnSet(f, S) <= DailyMax
    BY <2>4, <2>5, MoneyAssumption DEF LimitInv
  <2> QED
    BY <2>6 DEF DailyLimitHolds, S, f
<1> QED
  BY <1>1, <1>2, <1>3, MoneyKept, PTL DEF Spec
=============================================================================
