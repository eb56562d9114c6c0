-------------------------- MODULE CopyOrdersProofs --------------------------
(***************************************************************************)
(* Invariants of CopyOrders for any number of orders, users, copier        *)
(* processes, signed bodies, wallets and faults; that it implements        *)
(* OrderPromise; and which fills find their way into copy_execution.       *)
(***************************************************************************)
EXTENDS CopyOrders, TLAPS

\* What the locals of the tasks refer to: an order in hand is an order, a
\* signed order in hand is one, whatever was read from the row is still there.
ExecRefs == \A c \in Copiers :
  /\ exec[c].pc # "idle" => exec[c].order \in Orders
  /\ exec[c].pc \in {"ready", "claimed", "posting", "accepted"} =>
       exec[c].key \in Keys /\ exec[c].key.order = exec[c].order

ReclRefs == \A c \in Copiers :
  /\ recl[c].pc # "idle" => recl[c].key \in Keys
  /\ \A o \in recl[c].batch : stamp[o] \in Stamps

ReconRefs == \A c \in Copiers :
  /\ recon[c].pc # "idle" => recon[c].order \in Orders /\ venueId[recon[c].order] \in Keys
  /\ \A o \in recon[c].batch : venueId[o] \in Keys

DispatchedIsStamped == \A o \in Orders : status[o] = "dispatched" => stamp[o] \in Stamps

\* The claim is the only place that chooses what is signed: from then on every
\* task that holds the order signed, every request and every order at the
\* venue carries the stamp of the row.
PendingIsUnstamped == \A o \in Orders : status[o] = "pending" => stamp[o] = None

ExecSigned == \A c \in Copiers :
  exec[c].pc \in {"claimed", "posting", "accepted"} =>
    stamp[exec[c].key.order] = exec[c].key.stamp

ReclSigned == \A c \in Copiers :
  recl[c].pc # "idle" => stamp[recl[c].key.order] = recl[c].key.stamp

PostedSigned == \A k \in Posted : stamp[k.order] = k.stamp

\* The venue's id is written once, when the row leaves 'dispatched' for good.
IdIsLate == \A o \in Orders : venueId[o] # None => status[o] \notin {"pending", "dispatched"}

\* What reconcile is about to book is what the venue will always say.
SeenIsSettled == \A c \in Copiers : recon[c].pc = "booking" =>
  /\ recon[c].seen.st \in Settled
  /\ recon[c].seen.st = venue[venueId[recon[c].order]].st
  /\ recon[c].seen.filled = venue[venueId[recon[c].order]].filled

\* Whoever is about to write 'filled' has the execution in the table.
ExecBooked  == \A c \in Copiers :
  exec[c].pc = "closing" => execution[exec[c].order] # None
ReconBooked == \A c \in Copiers :
  recon[c].pc = "closing" /\ recon[c].seen.st = "matched" => execution[recon[c].order] # None

Refs   == ExecRefs /\ ReclRefs /\ ReconRefs /\ DispatchedIsStamped
Claims == PendingIsUnstamped /\ ExecSigned /\ ReclSigned /\ PostedSigned
Books  == IdIsLate /\ SeenIsSettled /\ BooksMatchVenue /\ ExecBooked /\ ReconBooked /\ FilledIsBooked

IInv == TypeOK /\ Refs /\ Claims /\ Books

-----------------------------------------------------------------------------
\* Who writes what: the actions that change a variable, by inspection.

\* The exec task of a copier changes only by its own steps and by a crash.
LEMMA ExecFrame ==
  ASSUME [Next]_vars
  PROVE  \/ UNCHANGED exec
         \/ \E c \in Copiers :
                 ExecPull(c) \/ ExecTake(c) \/ ExecSkip(c) \/ ExecReady(c)
              \/ ExecClaim(c) \/ ExecGiveUp(c) \/ ExecPost(c)
              \/ ExecDrySign(c) \/ ExecOk(c) \/ ExecErr(c) \/ ExecMark(c)
              \/ ExecFail(c) \/ ExecDryBook(c) \/ ExecDryClose(c)
              \/ ExecMarkErr(c) \/ ExecDbErr(c) \/ Crash(c)
  BY ZenonT(60) DEF
     Next, Exec, Reclaim, Reconcile, vars, dbVars, taskVars, venueVars,
     ReclPull, ReclTake, ReclOk, ReclErr, ReclMark, ReclFail, ReconPull,
     ReconAsk, ReconBook, ReconClose, ReconCancel, ReclMarkErr, ReclDbErr,
     ReconAskErr, ReconErr, VenueAccept, VenueRefuse, VenueFill, VenueSettle,
     Age, Revoke, Reprovision

\* The reclaim task of a copier changes only by its own steps and by a crash.
LEMMA ReclFrame ==
  ASSUME [Next]_vars
  PROVE  \/ UNCHANGED recl
         \/ \E c \in Copiers :
                 ReclPull(c) \/ ReclTake(c) \/ ReclOk(c) \/ ReclErr(c)
              \/ ReclMark(c) \/ ReclFail(c) \/ ReclMarkErr(c)
              \/ ReclDbErr(c) \/ Crash(c)
  BY ZenonT(60) DEF
     Next, Exec, Reclaim, Reconcile, vars, dbVars, taskVars, venueVars,
     ExecPull, ExecTake, ExecSkip, ExecReady, ExecClaim, ExecGiveUp,
     ExecPost, ExecDrySign, ExecOk, ExecErr, ExecMark, ExecFail, ExecDryBook,
     ExecDryClose, ReconPull, ReconAsk, ReconBook, ReconClose, ReconCancel,
     ExecMarkErr, ExecDbErr, ReconAskErr, ReconErr, VenueAccept, VenueRefuse,
     VenueFill, VenueSettle, Age, Revoke, Reprovision

\* The reconcile task of a copier changes only by its own steps and by a crash.
LEMMA ReconFrame ==
  ASSUME [Next]_vars
  PROVE  \/ UNCHANGED recon
         \/ \E c \in Copiers :
                 ReconPull(c) \/ ReconAsk(c) \/ ReconBook(c)
              \/ ReconClose(c) \/ ReconCancel(c) \/ ReconAskErr(c)
              \/ ReconErr(c) \/ Crash(c)
  BY ZenonT(60) DEF
     Next, Exec, Reclaim, Reconcile, vars, dbVars, taskVars, venueVars,
     ExecPull, ExecTake, ExecSkip, ExecReady, ExecClaim, ExecGiveUp,
     ExecPost, ExecDrySign, ExecOk, ExecErr, ExecMark, ExecFail, ExecDryBook,
     ExecDryClose, ReclPull, ReclTake, ReclOk, ReclErr, ReclMark, ReclFail,
     ExecMarkErr, ExecDbErr, ReclMarkErr, ReclDbErr, VenueAccept,
     VenueRefuse, VenueFill, VenueSettle, Age, Revoke, Reprovision

\* The steps that hold a statement on copy_order.status.
LEMMA StatusFrame ==
  ASSUME [Next]_vars
  PROVE  \/ UNCHANGED status
         \/ \E c \in Copiers :
                 ExecSkip(c) \/ ExecClaim(c) \/ ExecDrySign(c)
              \/ ExecMark(c) \/ ExecFail(c) \/ ExecDryClose(c)
              \/ ExecMarkErr(c) \/ ReclMark(c) \/ ReclMarkErr(c)
              \/ ReclFail(c) \/ ReconClose(c)
  BY ZenonT(60) DEF
     Next, Exec, Reclaim, Reconcile, vars, dbVars, taskVars, venueVars,
     ExecPull, ExecTake, ExecReady, ExecGiveUp, ExecPost, ExecOk, ExecErr,
     ExecDryBook, ReclPull, ReclTake, ReclOk, ReclErr, ReconPull, ReconAsk,
     ReconBook, ReconCancel, ExecDbErr, ReclDbErr, ReconAskErr, ReconErr,
     Crash, VenueAccept, VenueRefuse, VenueFill, VenueSettle, Age, Revoke,
     Reprovision

\* The idempotency columns are written by the claim only.
LEMMA StampFrame ==
  ASSUME [Next]_vars
  PROVE  \/ UNCHANGED stamp
         \/ \E c \in Copiers :
                 ExecClaim(c)
  BY ZenonT(60) DEF
     Next, Exec, Reclaim, Reconcile, vars, dbVars, taskVars, venueVars,
     ExecPull, ExecTake, ExecSkip, ExecReady, ExecGiveUp, ExecPost,
     ExecDrySign, ExecOk, ExecErr, ExecMark, ExecFail, ExecDryBook,
     ExecDryClose, ReclPull, ReclTake, ReclOk, ReclErr, ReclMark, ReclFail,
     ReconPull, ReconAsk, ReconBook, ReconClose, ReconCancel, ExecMarkErr,
     ExecDbErr, ReclMarkErr, ReclDbErr, ReconAskErr, ReconErr, Crash,
     VenueAccept, VenueRefuse, VenueFill, VenueSettle, Age, Revoke,
     Reprovision

\* venue_order_id is written by the two callers of mark_copy_order_submitted.
LEMMA VenueIdFrame ==
  ASSUME [Next]_vars
  PROVE  \/ UNCHANGED venueId
         \/ \E c \in Copiers :
                 ExecMark(c) \/ ExecMarkErr(c) \/ ReclMark(c)
              \/ ReclMarkErr(c)
  BY ZenonT(60) DEF
     Next, Exec, Reclaim, Reconcile, vars, dbVars, taskVars, venueVars,
     ExecPull, ExecTake, ExecSkip, ExecReady, ExecClaim, ExecGiveUp,
     ExecPost, ExecDrySign, ExecOk, ExecErr, ExecFail, ExecDryBook,
     ExecDryClose, ReclPull, ReclTake, ReclOk, ReclErr, ReclFail, ReconPull,
     ReconAsk, ReconBook, ReconClose, ReconCancel, ExecDbErr, ReclDbErr,
     ReconAskErr, ReconErr, Crash, VenueAccept, VenueRefuse, VenueFill,
     VenueSettle, Age, Revoke, Reprovision

\* copy_execution is written by the dry run and by reconcile only.
LEMMA ExecutionFrame ==
  ASSUME [Next]_vars
  PROVE  \/ UNCHANGED execution
         \/ \E c \in Copiers :
                 ExecDryBook(c) \/ ReconBook(c)
  BY ZenonT(60) DEF
     Next, Exec, Reclaim, Reconcile, vars, dbVars, taskVars, venueVars,
     ExecPull, ExecTake, ExecSkip, ExecReady, ExecClaim, ExecGiveUp,
     ExecPost, ExecDrySign, ExecOk, ExecErr, ExecMark, ExecFail,
     ExecDryClose, ReclPull, ReclTake, ReclOk, ReclErr, ReclMark, ReclFail,
     ReconPull, ReconAsk, ReconClose, ReconCancel, ExecMarkErr, ExecDbErr,
     ReclMarkErr, ReclDbErr, ReconAskErr, ReconErr, Crash, VenueAccept,
     VenueRefuse, VenueFill, VenueSettle, Age, Revoke, Reprovision

\* A timeout is set by the clock and reset by the mark.
LEMMA AgedFrame ==
  ASSUME [Next]_vars
  PROVE  \/ UNCHANGED aged
         \/ \E c \in Copiers :
                 ExecMark(c) \/ ExecMarkErr(c) \/ ReclMark(c)
              \/ ReclMarkErr(c)
         \/ \E o \in Orders : Age(o)
  BY ZenonT(60) DEF
     Next, Exec, Reclaim, Reconcile, vars, dbVars, taskVars, venueVars,
     ExecPull, ExecTake, ExecSkip, ExecReady, ExecClaim, ExecGiveUp,
     ExecPost, ExecDrySign, ExecOk, ExecErr, ExecFail, ExecDryBook,
     ExecDryClose, ReclPull, ReclTake, ReclOk, ReclErr, ReclFail, ReconPull,
     ReconAsk, ReconBook, ReconClose, ReconCancel, ExecDbErr, ReclDbErr,
     ReconAskErr, ReconErr, Crash, VenueAccept, VenueRefuse, VenueFill,
     VenueSettle, Revoke, Reprovision

\* Requests are sent by place_order, in exec and in reclaim, and leave at the venue.
LEMMA WireFrame ==
  ASSUME [Next]_vars
  PROVE  \/ UNCHANGED wire
         \/ \E c \in Copiers :
                 ExecPost(c) \/ ReclTake(c)
         \/ \E k \in Keys : VenueAccept(k)
         \/ \E k \in Keys : VenueRefuse(k)
  BY ZenonT(60) DEF
     Next, Exec, Reclaim, Reconcile, vars, dbVars, taskVars, venueVars,
     ExecPull, ExecTake, ExecSkip, ExecReady, ExecClaim, ExecGiveUp,
     ExecDrySign, ExecOk, ExecErr, ExecMark, ExecFail, ExecDryBook,
     ExecDryClose, ReclPull, ReclOk, ReclErr, ReclMark, ReclFail, ReconPull,
     ReconAsk, ReconBook, ReconClose, ReconCancel, ExecMarkErr, ExecDbErr,
     ReclMarkErr, ReclDbErr, ReconAskErr, ReconErr, Crash, VenueFill,
     VenueSettle, Age, Revoke, Reprovision

\* The venue's book changes by what the venue does and by the cancel of reconcile.
LEMMA VenueFrame ==
  ASSUME [Next]_vars
  PROVE  \/ UNCHANGED venue
         \/ \E c \in Copiers :
                 ReconCancel(c)
         \/ \E k \in Keys : VenueAccept(k)
         \/ \E k \in Keys : VenueFill(k)
         \/ \E k \in Keys : VenueSettle(k)
  BY ZenonT(60) DEF
     Next, Exec, Reclaim, Reconcile, vars, dbVars, taskVars, venueVars,
     ExecPull, ExecTake, ExecSkip, ExecReady, ExecClaim, ExecGiveUp,
     ExecPost, ExecDrySign, ExecOk, ExecErr, ExecMark, ExecFail, ExecDryBook,
     ExecDryClose, ReclPull, ReclTake, ReclOk, ReclErr, ReclMark, ReclFail,
     ReconPull, ReconAsk, ReconBook, ReconClose, ExecMarkErr, ExecDbErr,
     ReclMarkErr, ReclDbErr, ReconAskErr, ReconErr, Crash, VenueRefuse, Age,
     Revoke, Reprovision

\* Every process posts what it signs.
AllPost == \A c \in Copiers : mode[c].post

\* The credential changes only by what the user does, the processes keep their modes.
LEMMA SetFrame ==
  ASSUME [Next]_vars
  PROVE  \/ UNCHANGED setVars
         \/ \E u \in Users : Revoke(u)
         \/ \E u \in Users : Reprovision(u)
  BY ZenonT(60) DEF
     Next, Exec, Reclaim, Reconcile, vars, ExecPull, ExecTake, ExecSkip,
     ExecReady, ExecClaim, ExecGiveUp, ExecPost, ExecDrySign, ExecOk,
     ExecErr, ExecMark, ExecFail, ExecDryBook, ExecDryClose, ReclPull,
     ReclTake, ReclOk, ReclErr, ReclMark, ReclFail, ReconPull, ReconAsk,
     ReconBook, ReconClose, ReconCancel, ExecMarkErr, ExecDbErr, ReclMarkErr,
     ReclDbErr, ReconAskErr, ReconErr, Crash, VenueAccept, VenueRefuse,
     VenueFill, VenueSettle, Age

LEMMA ModeFrame ==
  ASSUME [Next]_vars
  PROVE  mode' = mode /\ NoneDry' = NoneDry /\ AllPost' = AllPost
<1>1. mode' = mode
  BY SetFrame DEF setVars, Revoke, Reprovision
<1> QED
  BY <1>1 DEF NoneDry, AllPost

-----------------------------------------------------------------------------
\* Types

\* A signed order is a key of the venue, for the order that was signed.
LEMMA SignedType ==
  ASSUME SetTypeOK, NEW o \in Orders, NEW s \in Stamps
  PROVE  Signed(o, s) \in Keys /\ Signed(o, s).order = o /\ Signed(o, s).stamp = s
  BY OrdersAssumption DEF SetTypeOK, Signed, WalletOf, Keys

\* Every step keeps the type of the locals of the exec tasks.
LEMMA ExecType ==
  ASSUME TypeOK, ExecRefs, [Next]_vars
  PROVE  (exec \in [Copiers -> ExecTasks])'
<1>a. exec \in [Copiers -> ExecTasks]
  BY DEF TypeOK, TaskTypeOK
<1>0. ASSUME UNCHANGED exec PROVE (exec \in [Copiers -> ExecTasks])'
  BY <1>a, <1>0
<1>1. ASSUME NEW c \in Copiers, ExecPull(c) PROVE (exec \in [Copiers -> ExecTasks])'
  BY <1>a, <1>1
     DEF ExecPull, ExecTasks
<1>2. ASSUME NEW c \in Copiers, ExecTake(c) PROVE (exec \in [Copiers -> ExecTasks])'
  BY <1>a, <1>2
     DEF ExecTake, ExecTasks
<1>3. ASSUME NEW c \in Copiers, ExecSkip(c) PROVE (exec \in [Copiers -> ExecTasks])'
  BY <1>a, <1>3
     DEF ExecSkip, WriteStatus, ExecDone, ExecIdle, ExecTasks
<1>4. ASSUME NEW c \in Copiers, ExecReady(c) PROVE (exec \in [Copiers -> ExecTasks])'
  <2>1. PICK s \in Stamps :
          exec' = [exec EXCEPT ![c].pc = "ready", ![c].key = Signed(exec[c].order, s)]
    BY <1>4 DEF ExecReady
  <2>2. Signed(exec[c].order, s) \in Keys
    BY <1>4, SignedType DEF ExecReady, ExecRefs, TypeOK
  <2> QED
    BY ZenonT(60), <1>a, <2>1, <2>2 DEF ExecTasks
<1>5. ASSUME NEW c \in Copiers, ExecClaim(c) PROVE (exec \in [Copiers -> ExecTasks])'
  BY <1>a, <1>5
     DEF ExecClaim, WriteStatus, ExecTasks
<1>6. ASSUME NEW c \in Copiers, ExecGiveUp(c) PROVE (exec \in [Copiers -> ExecTasks])'
  BY <1>a, <1>6
     DEF ExecGiveUp, ExecDone, ExecIdle, ExecTasks
<1>7. ASSUME NEW c \in Copiers, ExecPost(c) PROVE (exec \in [Copiers -> ExecTasks])'
  BY <1>a, <1>7
     DEF ExecPost, ExecTasks
<1>8. ASSUME NEW c \in Copiers, ExecDrySign(c) PROVE (exec \in [Copiers -> ExecTasks])'
  BY <1>a, <1>8
     DEF ExecDrySign, WriteStatus, ExecDone, ExecIdle, ExecTasks
<1>9. ASSUME NEW c \in Copiers, ExecOk(c) PROVE (exec \in [Copiers -> ExecTasks])'
  BY <1>a, <1>9
     DEF ExecOk, ExecTasks
<1>10. ASSUME NEW c \in Copiers, ExecErr(c) PROVE (exec \in [Copiers -> ExecTasks])'
  BY <1>a, <1>10
     DEF ExecErr, ExecTasks
<1>11. ASSUME NEW c \in Copiers, ExecMark(c) PROVE (exec \in [Copiers -> ExecTasks])'
  BY <1>a, <1>11
     DEF ExecMark, MarkSubmitted, ExecDone, ExecIdle, ExecTasks
<1>12. ASSUME NEW c \in Copiers, ExecFail(c) PROVE (exec \in [Copiers -> ExecTasks])'
  BY <1>a, <1>12
     DEF ExecFail, WriteStatus, ExecDone, ExecIdle, ExecTasks
<1>13. ASSUME NEW c \in Copiers, ExecDryBook(c) PROVE (exec \in [Copiers -> ExecTasks])'
  BY <1>a, <1>13
     DEF ExecDryBook, InsertExecution, ExecTasks
<1>14. ASSUME NEW c \in Copiers, ExecDryClose(c) PROVE (exec \in [Copiers -> ExecTasks])'
  BY <1>a, <1>14
     DEF ExecDryClose, WriteStatus, ExecDone, ExecIdle, ExecTasks
<1>15. ASSUME NEW c \in Copiers, ExecMarkErr(c) PROVE (exec \in [Copiers -> ExecTasks])'
  BY <1>a, <1>15
     DEF ExecMarkErr, MarkSubmitted, Fault, ExecTasks
<1>16. ASSUME NEW c \in Copiers, ExecDbErr(c) PROVE (exec \in [Copiers -> ExecTasks])'
  BY <1>a, <1>16
     DEF ExecDbErr, ExecDone, ExecIdle, Fault, ExecTasks
<1>17. ASSUME NEW c \in Copiers, Crash(c) PROVE (exec \in [Copiers -> ExecTasks])'
  BY <1>a, <1>17
     DEF Crash, ExecIdle, ReclIdle, ReconIdle, Fault, ExecTasks
<1> QED
  BY <1>0, <1>1, <1>2, <1>3, <1>4, <1>5, <1>6, <1>7, <1>8, <1>9, <1>10, <1>11, <1>12, <1>13, <1>14, <1>15, <1>16, <1>17,
     ExecFrame
     DEF Exec

\* Every step keeps the type of the locals of the reclaim tasks.
LEMMA ReclType ==
  ASSUME TypeOK, ReclRefs, [Next]_vars
  PROVE  (recl \in [Copiers -> ReclTasks])'
<1>a. recl \in [Copiers -> ReclTasks]
  BY DEF TypeOK, TaskTypeOK
<1>0. ASSUME UNCHANGED recl PROVE (recl \in [Copiers -> ReclTasks])'
  BY <1>a, <1>0
<1>1. ASSUME NEW c \in Copiers, ReclPull(c) PROVE (recl \in [Copiers -> ReclTasks])'
  BY <1>a, <1>1 DEF ReclPull, ReclTasks, TypeOK, RowsTypeOK
<1>2. ASSUME NEW c \in Copiers, ReclTake(c) PROVE (recl \in [Copiers -> ReclTasks])'
  <2>1. PICK o \in recl[c].batch : ReclTake(c)!(o)
    BY <1>2 DEF ReclTake
  <2>2. o \in Orders /\ stamp[o] \in Stamps
    BY <1>a DEF ReclTasks, ReclRefs
  <2>3. Signed(o, stamp[o]) \in Keys
    BY <2>2, SignedType DEF TypeOK
  <2> QED
    BY <1>a, <2>1, <2>2, <2>3 DEF ReclTasks, ReclIdle
<1>3. ASSUME NEW c \in Copiers, ReclOk(c) PROVE (recl \in [Copiers -> ReclTasks])'
  BY <1>a, <1>3
     DEF ReclOk, ReclTasks
<1>4. ASSUME NEW c \in Copiers, ReclErr(c) PROVE (recl \in [Copiers -> ReclTasks])'
  BY <1>a, <1>4
     DEF ReclErr, ReclTasks
<1>5. ASSUME NEW c \in Copiers, ReclMark(c) PROVE (recl \in [Copiers -> ReclTasks])'
  BY <1>a, <1>5
     DEF ReclMark, MarkSubmitted, ReclDone, ReclIdle, ReclTasks
<1>6. ASSUME NEW c \in Copiers, ReclFail(c) PROVE (recl \in [Copiers -> ReclTasks])'
  BY <1>a, <1>6
     DEF ReclFail, WriteStatus, ReclDone, ReclIdle, ReclTasks
<1>7. ASSUME NEW c \in Copiers, ReclMarkErr(c) PROVE (recl \in [Copiers -> ReclTasks])'
  BY <1>a, <1>7
     DEF ReclMarkErr, MarkSubmitted, Fault, ReclTasks
<1>8. ASSUME NEW c \in Copiers, ReclDbErr(c) PROVE (recl \in [Copiers -> ReclTasks])'
  BY <1>a, <1>8
     DEF ReclDbErr, ReclDone, ReclIdle, Fault, ReclTasks
<1>9. ASSUME NEW c \in Copiers, Crash(c) PROVE (recl \in [Copiers -> ReclTasks])'
  BY <1>a, <1>9
     DEF Crash, ExecIdle, ReclIdle, ReconIdle, Fault, ReclTasks
<1> QED
  BY <1>0, <1>1, <1>2, <1>3, <1>4, <1>5, <1>6, <1>7, <1>8, <1>9,
     ReclFrame
     DEF Reclaim

\* An order that the venue does not know is one of the things it may answer.
LEMMA UnseenType == Unseen \in Sightings
  BY OrdersAssumption DEF Unseen, Sightings, VenueStates

\* Every step keeps the type of the locals of the reconcile tasks.
LEMMA ReconType ==
  ASSUME TypeOK, ReconRefs, [Next]_vars
  PROVE  (recon \in [Copiers -> ReconTasks])'
<1>a. recon \in [Copiers -> ReconTasks]
  BY DEF TypeOK, TaskTypeOK
<1>0. ASSUME UNCHANGED recon PROVE (recon \in [Copiers -> ReconTasks])'
  BY <1>a, <1>0
<1>1. ASSUME NEW c \in Copiers, ReconPull(c) PROVE (recon \in [Copiers -> ReconTasks])'
  BY <1>a, <1>1, UnseenType
     DEF ReconPull, ReconTasks
<1>2. ASSUME NEW c \in Copiers, ReconAsk(c) PROVE (recon \in [Copiers -> ReconTasks])'
  <2>1. PICK o \in recon[c].batch : ReconAsk(c)!(o)
    BY <1>2 DEF ReconAsk
  <2>2. o \in Orders /\ venueId[o] \in Keys
    BY <1>a DEF ReconTasks, ReconRefs
  <2>3. venue[venueId[o]] \in Sightings
    BY <2>2 DEF TypeOK, VenueTypeOK
  <2> QED
    BY <1>a, <2>1, <2>2, <2>3, UnseenType DEF ReconTasks, ReconIdle, Verdict
<1>3. ASSUME NEW c \in Copiers, ReconBook(c) PROVE (recon \in [Copiers -> ReconTasks])'
  BY <1>a, <1>3, UnseenType
     DEF ReconBook, InsertExecution, ReconTasks
<1>4. ASSUME NEW c \in Copiers, ReconClose(c) PROVE (recon \in [Copiers -> ReconTasks])'
  BY <1>a, <1>4, UnseenType
     DEF ReconClose, WriteStatus, ReconDone, ReconIdle, ReconTasks
<1>5. ASSUME NEW c \in Copiers, ReconCancel(c) PROVE (recon \in [Copiers -> ReconTasks])'
  BY <1>a, <1>5, UnseenType
     DEF ReconCancel, ReconDone, ReconIdle, ReconTasks
<1>6. ASSUME NEW c \in Copiers, ReconAskErr(c) PROVE (recon \in [Copiers -> ReconTasks])'
  <2>1. PICK o \in recon[c].batch : ReconAskErr(c)!(o)
    BY <1>6 DEF ReconAskErr
  <2>2. o \in Orders
    BY <1>a DEF ReconTasks
  <2> QED
    BY <1>a, <2>1, <2>2, UnseenType DEF ReconTasks, ReconIdle
<1>7. ASSUME NEW c \in Copiers, ReconErr(c) PROVE (recon \in [Copiers -> ReconTasks])'
  BY <1>a, <1>7, UnseenType
     DEF ReconErr, ReconDone, ReconIdle, Fault, ReconTasks
<1>8. ASSUME NEW c \in Copiers, Crash(c) PROVE (recon \in [Copiers -> ReconTasks])'
  BY <1>a, <1>8, UnseenType
     DEF Crash, ExecIdle, ReclIdle, ReconIdle, Fault, ReconTasks
<1> QED
  BY <1>0, <1>1, <1>2, <1>3, <1>4, <1>5, <1>6, <1>7, <1>8,
     ReconFrame
     DEF Reconcile

\* Every step keeps copy_order.status among the statuses of the schema.
LEMMA StatusType ==
  ASSUME TypeOK, [Next]_vars
  PROVE  (status \in [Orders -> Statuses])'
<1>a. status \in [Orders -> Statuses]
  BY DEF TypeOK, RowsTypeOK
<1>0. ASSUME UNCHANGED status PROVE (status \in [Orders -> Statuses])'
  BY <1>a, <1>0
<1>1. ASSUME NEW c \in Copiers, ExecSkip(c) PROVE (status \in [Orders -> Statuses])'
  BY <1>a, <1>1
     DEF ExecSkip, WriteStatus, ExecDone, ExecIdle, Statuses
<1>2. ASSUME NEW c \in Copiers, ExecClaim(c) PROVE (status \in [Orders -> Statuses])'
  BY <1>a, <1>2
     DEF ExecClaim, WriteStatus, Statuses
<1>3. ASSUME NEW c \in Copiers, ExecDrySign(c) PROVE (status \in [Orders -> Statuses])'
  BY <1>a, <1>3
     DEF ExecDrySign, WriteStatus, ExecDone, ExecIdle, Statuses
<1>4. ASSUME NEW c \in Copiers, ExecMark(c) PROVE (status \in [Orders -> Statuses])'
  BY <1>a, <1>4
     DEF ExecMark, MarkSubmitted, ExecDone, ExecIdle, Statuses
<1>5. ASSUME NEW c \in Copiers, ExecFail(c) PROVE (status \in [Orders -> Statuses])'
  BY <1>a, <1>5
     DEF ExecFail, WriteStatus, ExecDone, ExecIdle, Statuses
<1>6. ASSUME NEW c \in Copiers, ExecDryClose(c) PROVE (status \in [Orders -> Statuses])'
  BY <1>a, <1>6
     DEF ExecDryClose, WriteStatus, ExecDone, ExecIdle, Statuses
<1>7. ASSUME NEW c \in Copiers, ExecMarkErr(c) PROVE (status \in [Orders -> Statuses])'
  BY <1>a, <1>7
     DEF ExecMarkErr, MarkSubmitted, Fault, Statuses
<1>8. ASSUME NEW c \in Copiers, ReclMark(c) PROVE (status \in [Orders -> Statuses])'
  BY <1>a, <1>8
     DEF ReclMark, MarkSubmitted, ReclDone, ReclIdle, Statuses
<1>9. ASSUME NEW c \in Copiers, ReclMarkErr(c) PROVE (status \in [Orders -> Statuses])'
  BY <1>a, <1>9
     DEF ReclMarkErr, MarkSubmitted, Fault, Statuses
<1>10. ASSUME NEW c \in Copiers, ReclFail(c) PROVE (status \in [Orders -> Statuses])'
  BY <1>a, <1>10
     DEF ReclFail, WriteStatus, ReclDone, ReclIdle, Statuses
<1>11. ASSUME NEW c \in Copiers, ReconClose(c) PROVE (status \in [Orders -> Statuses])'
  BY <1>a, <1>11
     DEF ReconClose, WriteStatus, ReconDone, ReconIdle, Statuses
<1> QED
  BY <1>0, <1>1, <1>2, <1>3, <1>4, <1>5, <1>6, <1>7, <1>8, <1>9, <1>10, <1>11,
     StatusFrame

\* Every step keeps the types of the columns of copy_order and copy_execution.
LEMMA RowsType ==
  ASSUME TypeOK, ExecRefs, ReclRefs, [Next]_vars
  PROVE  RowsTypeOK'
<1>1. status' \in [Orders -> Statuses]
  BY StatusType
<1>2. stamp' \in [Orders -> Stamps \cup {None}]
  BY StampFrame DEF TypeOK, RowsTypeOK, ExecClaim, ExecRefs, Keys
<1>3. venueId' \in [Orders -> Keys \cup {None}]
  BY VenueIdFrame DEF TypeOK, RowsTypeOK, ExecRefs, ReclRefs,
     ExecMark, ExecMarkErr, ReclMark, ReclMarkErr, MarkSubmitted
<1>4. aged' \subseteq Orders
  BY AgedFrame DEF TypeOK, RowsTypeOK,
     ExecMark, ExecMarkErr, ReclMark, ReclMarkErr, MarkSubmitted, Age
<1>5. execution' \in [Orders -> (0 .. Size) \cup {None}]
  <2>1. Size \in 0 .. Size
    BY OrdersAssumption
  <2>2. recon \in [Copiers -> ReconTasks]
    BY DEF TypeOK, TaskTypeOK
  <2> QED
    BY <2>1, <2>2, ExecutionFrame DEF TypeOK, RowsTypeOK,
       ExecDryBook, ReconBook, InsertExecution, ReconTasks, Sightings
<1> QED
  BY <1>1, <1>2, <1>3, <1>4, <1>5 DEF RowsTypeOK

\* Every step keeps the type of the credential.
LEMMA SetType ==
  ASSUME TypeOK, [Next]_vars
  PROVE  SetTypeOK'
<1>1. ASSUME NEW u \in Users, Revoke(u) PROVE SetTypeOK'
  BY <1>1 DEF TypeOK, SetTypeOK, Revoke
<1>2. ASSUME NEW u \in Users, Reprovision(u) PROVE SetTypeOK'
  BY <1>2, OrdersAssumption DEF TypeOK, SetTypeOK, Wallets, Reprovision
<1> QED
  BY <1>1, <1>2, SetFrame DEF TypeOK, SetTypeOK, setVars

\* The count of faults stays within its bound.
LEMMA FaultsType ==
  ASSUME TypeOK, [Next]_vars
  PROVE  faults' \in 0 .. MaxFaults
<1>1. UNCHANGED faults \/ Fault
  BY ZenonT(60) DEF
     Next, Exec, Reclaim, Reconcile, vars, ExecPull, ExecTake, ExecSkip,
     ExecReady, ExecClaim, ExecGiveUp, ExecPost, ExecDrySign, ExecOk,
     ExecErr, ExecMark, ExecFail, ExecDryBook, ExecDryClose, ReclPull,
     ReclTake, ReclOk, ReclErr, ReclMark, ReclFail, ReconPull, ReconAsk,
     ReconBook, ReconClose, ReconCancel, ExecMarkErr, ExecDbErr, ReclMarkErr,
     ReclDbErr, ReconAskErr, ReconErr, Crash, VenueAccept, VenueRefuse,
     VenueFill, VenueSettle, Age, Revoke, Reprovision
<1> QED
  BY SMTT(40), <1>1, OrdersAssumption DEF TypeOK, Fault

\* Only signed orders are on the wire.
LEMMA WireType ==
  ASSUME TypeOK, ExecRefs, ReclRefs, [Next]_vars
  PROVE  wire' \subseteq Keys
<1>1. ASSUME NEW c \in Copiers, ReclTake(c) PROVE wire' \subseteq Keys
  <2>1. PICK o \in recl[c].batch : ReclTake(c)!(o)
    BY <1>1 DEF ReclTake
  <2>2. o \in Orders /\ stamp[o] \in Stamps
    BY DEF TypeOK, TaskTypeOK, ReclTasks, ReclRefs
  <2>3. Signed(o, stamp[o]) \in Keys
    BY <2>2, SignedType DEF TypeOK
  <2> QED
    BY <2>1, <2>3 DEF TypeOK, VenueTypeOK
<1> QED
  BY <1>1, WireFrame DEF TypeOK, VenueTypeOK, ExecRefs, ExecPost, VenueAccept, VenueRefuse

\* Every step keeps the type of the venue's book.
LEMMA VenueType ==
  ASSUME TypeOK, ReconRefs, [Next]_vars
  PROVE  venue' \in [Keys -> Sightings]
<1>a. venue \in [Keys -> Sightings]
  BY DEF TypeOK, VenueTypeOK
<1>1. ASSUME NEW c \in Copiers, ReconCancel(c) PROVE venue' \in [Keys -> Sightings]
  BY <1>a, <1>1 DEF ReconCancel, Sightings, VenueStates
<1>2. ASSUME NEW k \in Keys, VenueAccept(k) PROVE venue' \in [Keys -> Sightings]
  BY <1>a, <1>2 DEF VenueAccept, Sightings, VenueStates
<1>3. ASSUME NEW k \in Keys, VenueFill(k) PROVE venue' \in [Keys -> Sightings]
  BY <1>a, <1>3, OrdersAssumption DEF VenueFill, Sightings
<1>4. ASSUME NEW k \in Keys, VenueSettle(k) PROVE venue' \in [Keys -> Sightings]
  BY <1>a, <1>4 DEF VenueSettle, Sightings, VenueStates, Settled
<1> QED
  BY <1>a, <1>1, <1>2, <1>3, <1>4, VenueFrame

-----------------------------------------------------------------------------
\* What is written once is kept

\* The idempotency columns of a row never change once they are written.
LEMMA StampKept ==
  ASSUME TypeOK, ExecRefs, PendingIsUnstamped, [Next]_vars,
         NEW o \in Orders, stamp[o] \in Stamps
  PROVE  stamp'[o] = stamp[o]
  BY StampFrame, NoneAssumption DEF TypeOK, RowsTypeOK, ExecRefs, PendingIsUnstamped, ExecClaim

\* The venue_order_id of a row never changes once it is written.
LEMMA IdKept ==
  ASSUME TypeOK, IdIsLate, [Next]_vars, NEW o \in Orders, venueId[o] \in Keys
  PROVE  venueId'[o] = venueId[o]
  BY VenueIdFrame, NoneAssumption DEF TypeOK, RowsTypeOK, IdIsLate,
     ExecMark, ExecMarkErr, ReclMark, ReclMarkErr, MarkSubmitted

\* A settled order of the venue never changes again: it fills no more.
LEMMA SettledKept ==
  ASSUME TypeOK, [Next]_vars, NEW k \in Keys, venue[k].st \in Settled
  PROVE  venue'[k].st = venue[k].st /\ venue'[k].filled = venue[k].filled
<1>1. ASSUME NEW c \in Copiers, ReconCancel(c) PROVE venue'[k].st = venue[k].st /\ venue'[k].filled = venue[k].filled
  BY <1>1 DEF TypeOK, VenueTypeOK, Sightings, Settled, ReconCancel
<1>2. ASSUME NEW j \in Keys, VenueAccept(j) PROVE venue'[k].st = venue[k].st /\ venue'[k].filled = venue[k].filled
  BY <1>2 DEF TypeOK, VenueTypeOK, Sightings, Settled, VenueAccept
<1>3. ASSUME NEW j \in Keys, VenueFill(j) PROVE venue'[k].st = venue[k].st /\ venue'[k].filled = venue[k].filled
  BY <1>3 DEF TypeOK, VenueTypeOK, Sightings, Settled, VenueFill
<1>4. ASSUME NEW j \in Keys, VenueSettle(j) PROVE venue'[k].st = venue[k].st /\ venue'[k].filled = venue[k].filled
  BY <1>4 DEF TypeOK, VenueTypeOK, Sightings, Settled, VenueSettle
<1> QED
  BY <1>1, <1>2, <1>3, <1>4, VenueFrame

\* An execution row is never changed once it is inserted (ON CONFLICT DO NOTHING).
LEMMA ExecutionKept ==
  ASSUME TypeOK, [Next]_vars, NEW o \in Orders, execution[o] # None
  PROVE  execution'[o] = execution[o]
  BY ExecutionFrame DEF TypeOK, RowsTypeOK, ExecDryBook, ReconBook, InsertExecution

-----------------------------------------------------------------------------
\* References

\* Every step keeps ExecRefs: the exec task holds orders and orders signed for them.
LEMMA ExecRefsStep ==
  ASSUME TypeOK, ExecRefs, [Next]_vars
  PROVE  ExecRefs'
<1>a. exec \in [Copiers -> ExecTasks]
  BY DEF TypeOK, TaskTypeOK
<1>0. ASSUME UNCHANGED exec PROVE ExecRefs'
  BY <1>0 DEF ExecRefs
<1>1. ASSUME NEW c \in Copiers, ExecPull(c) PROVE ExecRefs'
  BY <1>a, <1>1
     DEF ExecPull, ExecTasks, ExecRefs
<1>2. ASSUME NEW c \in Copiers, ExecTake(c) PROVE ExecRefs'
  BY <1>a, <1>2
     DEF ExecTake, ExecTasks, ExecRefs
<1>3. ASSUME NEW c \in Copiers, ExecSkip(c) PROVE ExecRefs'
  BY <1>a, <1>3
     DEF ExecSkip, WriteStatus, ExecDone, ExecIdle, ExecTasks, ExecRefs
<1>4. ASSUME NEW c \in Copiers, ExecReady(c) PROVE ExecRefs'
  <2>1. PICK s \in Stamps :
          exec' = [exec EXCEPT ![c].pc = "ready", ![c].key = Signed(exec[c].order, s)]
    BY <1>4 DEF ExecReady
  <2>2. exec[c].order \in Orders
    BY <1>4 DEF ExecReady, ExecRefs
  <2>3. Signed(exec[c].order, s) \in Keys /\ Signed(exec[c].order, s).order = exec[c].order
    BY <2>2, SignedType DEF TypeOK
  <2> QED
    BY <1>a, <2>1, <2>2, <2>3 DEF ExecTasks, ExecRefs
<1>5. ASSUME NEW c \in Copiers, ExecClaim(c) PROVE ExecRefs'
  BY <1>a, <1>5
     DEF ExecClaim, WriteStatus, ExecTasks, ExecRefs
<1>6. ASSUME NEW c \in Copiers, ExecGiveUp(c) PROVE ExecRefs'
  BY <1>a, <1>6
     DEF ExecGiveUp, ExecDone, ExecIdle, ExecTasks, ExecRefs
<1>7. ASSUME NEW c \in Copiers, ExecPost(c) PROVE ExecRefs'
  BY <1>a, <1>7
     DEF ExecPost, ExecTasks, ExecRefs
<1>8. ASSUME NEW c \in Copiers, ExecDrySign(c) PROVE ExecRefs'
  BY <1>a, <1>8
     DEF ExecDrySign, WriteStatus, ExecDone, ExecIdle, ExecTasks, ExecRefs
<1>9. ASSUME NEW c \in Copiers, ExecOk(c) PROVE ExecRefs'
  BY <1>a, <1>9
     DEF ExecOk, ExecTasks, ExecRefs
<1>10. ASSUME NEW c \in Copiers, ExecErr(c) PROVE ExecRefs'
  BY <1>a, <1>10
     DEF ExecErr, ExecTasks, ExecRefs
<1>11. ASSUME NEW c \in Copiers, ExecMark(c) PROVE ExecRefs'
  BY <1>a, <1>11
     DEF ExecMark, MarkSubmitted, ExecDone, ExecIdle, ExecTasks, ExecRefs
<1>12. ASSUME NEW c \in Copiers, ExecFail(c) PROVE ExecRefs'
  BY <1>a, <1>12
     DEF ExecFail, WriteStatus, ExecDone, ExecIdle, ExecTasks, ExecRefs
<1>13. ASSUME NEW c \in Copiers, ExecDryBook(c) PROVE ExecRefs'
  BY <1>a, <1>13
     DEF ExecDryBook, InsertExecution, ExecTasks, ExecRefs
<1>14. ASSUME NEW c \in Copiers, ExecDryClose(c) PROVE ExecRefs'
  BY <1>a, <1>14
     DEF ExecDryClose, WriteStatus, ExecDone, ExecIdle, ExecTasks, ExecRefs
<1>15. ASSUME NEW c \in Copiers, ExecMarkErr(c) PROVE ExecRefs'
  BY <1>a, <1>15
     DEF ExecMarkErr, MarkSubmitted, Fault, ExecTasks, ExecRefs
<1>16. ASSUME NEW c \in Copiers, ExecDbErr(c) PROVE ExecRefs'
  BY <1>a, <1>16
     DEF ExecDbErr, ExecDone, ExecIdle, Fault, ExecTasks, ExecRefs
<1>17. ASSUME NEW c \in Copiers, Crash(c) PROVE ExecRefs'
  BY <1>a, <1>17
     DEF Crash, ExecIdle, ReclIdle, ReconIdle, Fault, ExecTasks, ExecRefs
<1> QED
  BY <1>0, <1>1, <1>2, <1>3, <1>4, <1>5, <1>6, <1>7, <1>8, <1>9, <1>10, <1>11, <1>12, <1>13, <1>14, <1>15, <1>16, <1>17,
     ExecFrame
     DEF Exec

\* Every step keeps ReclRefs: what reclaim has listed still has its idempotency columns.
LEMMA ReclRefsStep ==
  ASSUME TypeOK, Refs, PendingIsUnstamped, [Next]_vars
  PROVE  ReclRefs'
<1>a. recl \in [Copiers -> ReclTasks]
  BY DEF TypeOK, TaskTypeOK
<1>b. \A o \in Orders : stamp[o] \in Stamps => stamp'[o] = stamp[o]
  BY StampKept DEF Refs
<1>c. ReclRefs
  BY DEF Refs
<1>0. ASSUME UNCHANGED recl PROVE ReclRefs'
  BY <1>a, <1>b, <1>c, <1>0 DEF ReclRefs, ReclTasks
<1>1. ASSUME NEW c \in Copiers, ReclPull(c) PROVE ReclRefs'
  BY <1>a, <1>b, <1>c, <1>1 DEF ReclPull, ReclTasks, ReclRefs, Refs, DispatchedIsStamped, TypeOK, RowsTypeOK
<1>2. ASSUME NEW c \in Copiers, ReclTake(c) PROVE ReclRefs'
  <2>1. PICK o \in recl[c].batch : ReclTake(c)!(o)
    BY <1>2 DEF ReclTake
  <2>2. o \in Orders /\ stamp[o] \in Stamps
    BY <1>a, <1>c DEF ReclTasks, ReclRefs
  <2>3. Signed(o, stamp[o]) \in Keys
    BY <2>2, SignedType DEF TypeOK
  <2> QED
    BY <1>a, <1>b, <1>c, <2>1, <2>2, <2>3 DEF ReclTasks, ReclIdle, ReclRefs
<1>3. ASSUME NEW c \in Copiers, ReclOk(c) PROVE ReclRefs'
  BY <1>a, <1>b, <1>c, <1>3
     DEF ReclOk, ReclTasks, ReclRefs
<1>4. ASSUME NEW c \in Copiers, ReclErr(c) PROVE ReclRefs'
  BY <1>a, <1>b, <1>c, <1>4
     DEF ReclErr, ReclTasks, ReclRefs
<1>5. ASSUME NEW c \in Copiers, ReclMark(c) PROVE ReclRefs'
  BY <1>a, <1>b, <1>c, <1>5
     DEF ReclMark, MarkSubmitted, ReclDone, ReclIdle, ReclTasks, ReclRefs
<1>6. ASSUME NEW c \in Copiers, ReclFail(c) PROVE ReclRefs'
  BY <1>a, <1>b, <1>c, <1>6
     DEF ReclFail, WriteStatus, ReclDone, ReclIdle, ReclTasks, ReclRefs
<1>7. ASSUME NEW c \in Copiers, ReclMarkErr(c) PROVE ReclRefs'
  BY <1>a, <1>b, <1>c, <1>7
     DEF ReclMarkErr, MarkSubmitted, Fault, ReclTasks, ReclRefs
<1>8. ASSUME NEW c \in Copiers, ReclDbErr(c) PROVE ReclRefs'
  BY <1>a, <1>b, <1>c, <1>8
     DEF ReclDbErr, ReclDone, ReclIdle, Fault, ReclTasks, ReclRefs
<1>9. ASSUME NEW c \in Copiers, Crash(c) PROVE ReclRefs'
  BY <1>a, <1>b, <1>c, <1>9
     DEF Crash, ExecIdle, ReclIdle, ReconIdle, Fault, ReclTasks, ReclRefs
<1> QED
  BY <1>0, <1>1, <1>2, <1>3, <1>4, <1>5, <1>6, <1>7, <1>8, <1>9,
     ReclFrame
     DEF Reclaim

\* Every step keeps ReconRefs: what reconcile has listed still has its venue_order_id.
LEMMA ReconRefsStep ==
  ASSUME TypeOK, ReconRefs, IdIsLate, [Next]_vars
  PROVE  ReconRefs'
<1>a. recon \in [Copiers -> ReconTasks]
  BY DEF TypeOK, TaskTypeOK
<1>b. \A o \in Orders : venueId[o] \in Keys => venueId'[o] = venueId[o]
  BY IdKept
<1>0. ASSUME UNCHANGED recon PROVE ReconRefs'
  BY <1>a, <1>b, <1>0 DEF ReconRefs, ReconTasks
<1>1. ASSUME NEW c \in Copiers, ReconPull(c) PROVE ReconRefs'
  BY <1>a, <1>b, <1>1 DEF ReconPull, ReconTasks, ReconRefs, TypeOK, RowsTypeOK
<1>2. ASSUME NEW c \in Copiers, ReconAsk(c) PROVE ReconRefs'
  <2>1. PICK o \in recon[c].batch : ReconAsk(c)!(o)
    BY <1>2 DEF ReconAsk
  <2> QED
    BY <1>a, <1>b, <2>1 DEF ReconTasks, ReconIdle, Verdict, ReconRefs
<1>3. ASSUME NEW c \in Copiers, ReconBook(c) PROVE ReconRefs'
  BY <1>a, <1>b, <1>3
     DEF ReconBook, InsertExecution, ReconTasks, ReconRefs
<1>4. ASSUME NEW c \in Copiers, ReconClose(c) PROVE ReconRefs'
  BY <1>a, <1>b, <1>4
     DEF ReconClose, WriteStatus, ReconDone, ReconIdle, ReconTasks, ReconRefs
<1>5. ASSUME NEW c \in Copiers, ReconCancel(c) PROVE ReconRefs'
  BY <1>a, <1>b, <1>5
     DEF ReconCancel, ReconDone, ReconIdle, ReconTasks, ReconRefs
<1>6. ASSUME NEW c \in Copiers, ReconAskErr(c) PROVE ReconRefs'
  <2>1. PICK o \in recon[c].batch : ReconAskErr(c)!(o)
    BY <1>6 DEF ReconAskErr
  <2> QED
    BY <1>a, <1>b, <2>1 DEF ReconTasks, ReconIdle, ReconRefs
<1>7. ASSUME NEW c \in Copiers, ReconErr(c) PROVE ReconRefs'
  BY <1>a, <1>b, <1>7
     DEF ReconErr, ReconDone, ReconIdle, Fault, ReconTasks, ReconRefs
<1>8. ASSUME NEW c \in Copiers, Crash(c) PROVE ReconRefs'
  BY <1>a, <1>b, <1>8
     DEF Crash, ExecIdle, ReclIdle, ReconIdle, Fault, ReconTasks, ReconRefs
<1> QED
  BY <1>0, <1>1, <1>2, <1>3, <1>4, <1>5, <1>6, <1>7, <1>8,
     ReconFrame
     DEF Reconcile

\* A row is dispatched by the claim only, which writes the idempotency columns with it.
LEMMA DispatchedStep ==
  ASSUME TypeOK, Refs, PendingIsUnstamped, [Next]_vars
  PROVE  DispatchedIsStamped'
<1>1. \A o \in Orders : stamp[o] \in Stamps => stamp'[o] = stamp[o]
  BY StampKept DEF Refs
<1>2. \A o \in Orders : status'[o] = "dispatched" =>
        status[o] = "dispatched" \/ \E c \in Copiers : ExecClaim(c) /\ exec[c].order = o
  BY StatusFrame DEF TypeOK, RowsTypeOK, ExecSkip, ExecClaim, ExecDrySign, ExecMark,
     ExecFail, ExecDryClose, ExecMarkErr, ReclMark, ReclMarkErr, ReclFail, ReconClose,
     WriteStatus, MarkSubmitted
<1>3. ASSUME NEW c \in Copiers, ExecClaim(c)
      PROVE  stamp'[exec[c].order] \in Stamps
  BY <1>3 DEF ExecClaim, TypeOK, RowsTypeOK, Refs, ExecRefs, Keys
<1> QED
  BY <1>1, <1>2, <1>3 DEF Refs, DispatchedIsStamped

-----------------------------------------------------------------------------
\* One stamp for each order

\* No step writes the idempotency columns of a row and leaves it pending.
LEMMA PendingStep ==
  ASSUME TypeOK, ExecRefs, PendingIsUnstamped, [Next]_vars
  PROVE  PendingIsUnstamped'
<1>1. \A o \in Orders : status'[o] = "pending" => status[o] = "pending"
  BY StatusFrame DEF TypeOK, RowsTypeOK, ExecSkip, ExecClaim, ExecDrySign, ExecMark,
     ExecFail, ExecDryClose, ExecMarkErr, ReclMark, ReclMarkErr, ReclFail, ReconClose,
     WriteStatus, MarkSubmitted
<1>2. ASSUME NEW c \in Copiers, ExecClaim(c) PROVE PendingIsUnstamped'
  BY <1>2 DEF ExecClaim, WriteStatus, TypeOK, RowsTypeOK, ExecRefs, PendingIsUnstamped
<1> QED
  BY <1>1, <1>2, StampFrame DEF PendingIsUnstamped

\* Every step keeps ExecSigned: past the claim, exec holds the body that is in the row.
LEMMA ExecSignedStep ==
  ASSUME TypeOK, ExecRefs, PendingIsUnstamped, ExecSigned, [Next]_vars
  PROVE  ExecSigned'
<1>a. exec \in [Copiers -> ExecTasks]
  BY DEF TypeOK, TaskTypeOK
<1>b. \A o \in Orders : stamp[o] \in Stamps => stamp'[o] = stamp[o]
  BY StampKept
<1>c. \A d \in Copiers : exec[d].pc \in {"claimed", "posting", "accepted"} =>
        exec[d].key.order \in Orders /\ exec[d].key.stamp \in Stamps
  BY DEF ExecRefs, Keys
<1>0. ASSUME UNCHANGED exec PROVE ExecSigned'
  BY <1>a, <1>b, <1>c, <1>0 DEF ExecSigned, ExecTasks
<1>1. ASSUME NEW c \in Copiers, ExecPull(c) PROVE ExecSigned'
  BY <1>a, <1>b, <1>c, <1>1
     DEF ExecPull, ExecTasks, ExecSigned
<1>2. ASSUME NEW c \in Copiers, ExecTake(c) PROVE ExecSigned'
  BY <1>a, <1>b, <1>c, <1>2
     DEF ExecTake, ExecTasks, ExecSigned
<1>3. ASSUME NEW c \in Copiers, ExecSkip(c) PROVE ExecSigned'
  BY <1>a, <1>b, <1>c, <1>3
     DEF ExecSkip, WriteStatus, ExecDone, ExecIdle, ExecTasks, ExecSigned
<1>4. ASSUME NEW c \in Copiers, ExecReady(c) PROVE ExecSigned'
  BY <1>a, <1>b, <1>c, <1>4
     DEF ExecReady, HasCredential, WalletOf, ExecTasks, ExecSigned
<1>5. ASSUME NEW c \in Copiers, ExecClaim(c) PROVE ExecSigned'
  <2>1. exec[c].key.order = exec[c].order /\ exec[c].order \in Orders
    BY <1>5 DEF ExecRefs, ExecClaim
  <2> QED
    BY <1>a, <1>b, <1>c, <1>5, <2>1 DEF ExecClaim, ExecTasks, ExecSigned, TypeOK, RowsTypeOK
<1>6. ASSUME NEW c \in Copiers, ExecGiveUp(c) PROVE ExecSigned'
  BY <1>a, <1>b, <1>c, <1>6
     DEF ExecGiveUp, ExecDone, ExecIdle, ExecTasks, ExecSigned
<1>7. ASSUME NEW c \in Copiers, ExecPost(c) PROVE ExecSigned'
  BY <1>a, <1>b, <1>c, <1>7
     DEF ExecPost, ExecTasks, ExecSigned
<1>8. ASSUME NEW c \in Copiers, ExecDrySign(c) PROVE ExecSigned'
  BY <1>a, <1>b, <1>c, <1>8
     DEF ExecDrySign, WriteStatus, ExecDone, ExecIdle, ExecTasks, ExecSigned
<1>9. ASSUME NEW c \in Copiers, ExecOk(c) PROVE ExecSigned'
  BY <1>a, <1>b, <1>c, <1>9
     DEF ExecOk, ExecTasks, ExecSigned
<1>10. ASSUME NEW c \in Copiers, ExecErr(c) PROVE ExecSigned'
  BY <1>a, <1>b, <1>c, <1>10
     DEF ExecErr, ExecTasks, ExecSigned
<1>11. ASSUME NEW c \in Copiers, ExecMark(c) PROVE ExecSigned'
  BY <1>a, <1>b, <1>c, <1>11
     DEF ExecMark, MarkSubmitted, ExecDone, ExecIdle, ExecTasks, ExecSigned
<1>12. ASSUME NEW c \in Copiers, ExecFail(c) PROVE ExecSigned'
  BY <1>a, <1>b, <1>c, <1>12
     DEF ExecFail, WriteStatus, ExecDone, ExecIdle, ExecTasks, ExecSigned
<1>13. ASSUME NEW c \in Copiers, ExecDryBook(c) PROVE ExecSigned'
  BY <1>a, <1>b, <1>c, <1>13
     DEF ExecDryBook, InsertExecution, ExecTasks, ExecSigned
<1>14. ASSUME NEW c \in Copiers, ExecDryClose(c) PROVE ExecSigned'
  BY <1>a, <1>b, <1>c, <1>14
     DEF ExecDryClose, WriteStatus, ExecDone, ExecIdle, ExecTasks, ExecSigned
<1>15. ASSUME NEW c \in Copiers, ExecMarkErr(c) PROVE ExecSigned'
  BY <1>a, <1>b, <1>c, <1>15
     DEF ExecMarkErr, MarkSubmitted, Fault, ExecTasks, ExecSigned
<1>16. ASSUME NEW c \in Copiers, ExecDbErr(c) PROVE ExecSigned'
  BY <1>a, <1>b, <1>c, <1>16
     DEF ExecDbErr, ExecDone, ExecIdle, Fault, ExecTasks, ExecSigned
<1>17. ASSUME NEW c \in Copiers, Crash(c) PROVE ExecSigned'
  BY <1>a, <1>b, <1>c, <1>17
     DEF Crash, ExecIdle, ReclIdle, ReconIdle, Fault, ExecTasks, ExecSigned
<1> QED
  BY <1>0, <1>1, <1>2, <1>3, <1>4, <1>5, <1>6, <1>7, <1>8, <1>9, <1>10, <1>11, <1>12, <1>13, <1>14, <1>15, <1>16, <1>17,
     ExecFrame
     DEF Exec

\* Every step keeps ReclSigned: reclaim posts the body that is in the row.
LEMMA ReclSignedStep ==
  ASSUME TypeOK, Refs, PendingIsUnstamped, ReclSigned, [Next]_vars
  PROVE  ReclSigned'
<1>a. recl \in [Copiers -> ReclTasks]
  BY DEF TypeOK, TaskTypeOK
<1>b. \A o \in Orders : stamp[o] \in Stamps => stamp'[o] = stamp[o]
  BY StampKept DEF Refs
<1>c. \A d \in Copiers : recl[d].pc # "idle" =>
        recl[d].key.order \in Orders /\ recl[d].key.stamp \in Stamps
  BY DEF Refs, ReclRefs, Keys
<1>0. ASSUME UNCHANGED recl PROVE ReclSigned'
  BY <1>a, <1>b, <1>c, <1>0 DEF ReclSigned, ReclTasks
<1>1. ASSUME NEW c \in Copiers, ReclPull(c) PROVE ReclSigned'
  BY <1>a, <1>b, <1>c, <1>1
     DEF ReclPull, ReclTasks, ReclSigned
<1>2. ASSUME NEW c \in Copiers, ReclTake(c) PROVE ReclSigned'
  <2>1. PICK o \in recl[c].batch : ReclTake(c)!(o)
    BY <1>2 DEF ReclTake
  <2>2. o \in Orders /\ stamp[o] \in Stamps
    BY <1>a DEF ReclTasks, Refs, ReclRefs
  <2>3. Signed(o, stamp[o]).order = o /\ Signed(o, stamp[o]).stamp = stamp[o]
    BY <2>2, SignedType DEF TypeOK
  <2> QED
    BY <1>a, <1>b, <1>c, <2>1, <2>2, <2>3 DEF ReclTasks, ReclIdle, ReclSigned
<1>3. ASSUME NEW c \in Copiers, ReclOk(c) PROVE ReclSigned'
  BY <1>a, <1>b, <1>c, <1>3
     DEF ReclOk, ReclTasks, ReclSigned
<1>4. ASSUME NEW c \in Copiers, ReclErr(c) PROVE ReclSigned'
  BY <1>a, <1>b, <1>c, <1>4
     DEF ReclErr, ReclTasks, ReclSigned
<1>5. ASSUME NEW c \in Copiers, ReclMark(c) PROVE ReclSigned'
  BY <1>a, <1>b, <1>c, <1>5
     DEF ReclMark, MarkSubmitted, ReclDone, ReclIdle, ReclTasks, ReclSigned
<1>6. ASSUME NEW c \in Copiers, ReclFail(c) PROVE ReclSigned'
  BY <1>a, <1>b, <1>c, <1>6
     DEF ReclFail, WriteStatus, ReclDone, ReclIdle, ReclTasks, ReclSigned
<1>7. ASSUME NEW c \in Copiers, ReclMarkErr(c) PROVE ReclSigned'
  BY <1>a, <1>b, <1>c, <1>7
     DEF ReclMarkErr, MarkSubmitted, Fault, ReclTasks, ReclSigned
<1>8. ASSUME NEW c \in Copiers, ReclDbErr(c) PROVE ReclSigned'
  BY <1>a, <1>b, <1>c, <1>8
     DEF ReclDbErr, ReclDone, ReclIdle, Fault, ReclTasks, ReclSigned
<1>9. ASSUME NEW c \in Copiers, Crash(c) PROVE ReclSigned'
  BY <1>a, <1>b, <1>c, <1>9
     DEF Crash, ExecIdle, ReclIdle, ReconIdle, Fault, ReclTasks, ReclSigned
<1> QED
  BY <1>0, <1>1, <1>2, <1>3, <1>4, <1>5, <1>6, <1>7, <1>8, <1>9,
     ReclFrame
     DEF Reclaim

\* Every step keeps PostedSigned: all that is or was sent carries the body in its row.
LEMMA PostedStep ==
  ASSUME TypeOK, Refs, Claims, [Next]_vars
  PROVE  PostedSigned'
<1>1. \A o \in Orders : stamp[o] \in Stamps => stamp'[o] = stamp[o]
  BY StampKept DEF Refs, Claims
<1>2. \A k \in AtVenue' : k \in Posted
  <2> SUFFICES ASSUME NEW k \in Keys, venue'[k].st # "unknown"
               PROVE  k \in wire \/ venue[k].st # "unknown"
    BY DEF AtVenue, Posted
  <2>a. venue \in [Keys -> Sightings]
    BY DEF TypeOK, VenueTypeOK
  <2>1. ASSUME NEW c \in Copiers, ReconCancel(c) PROVE venue[k].st # "unknown"
    BY <2>a, <2>1 DEF Sightings, ReconCancel
  <2>2. ASSUME NEW j \in Keys, VenueAccept(j) PROVE k \in wire \/ venue[k].st # "unknown"
    BY <2>a, <2>2 DEF Sightings, VenueAccept
  <2>3. ASSUME NEW j \in Keys, VenueFill(j) PROVE venue[k].st # "unknown"
    BY <2>a, <2>3 DEF Sightings, VenueFill
  <2>4. ASSUME NEW j \in Keys, VenueSettle(j) PROVE venue[k].st # "unknown"
    BY <2>a, <2>4 DEF Sightings, VenueSettle
  <2> QED
    BY <2>1, <2>2, <2>3, <2>4, VenueFrame
<1>3. \A k \in wire' : k \in wire \/ stamp[k.order] = k.stamp
  <2>1. ASSUME NEW c \in Copiers, ReclTake(c)
        PROVE  \A k \in wire' : k \in wire \/ stamp[k.order] = k.stamp
    <3>1. PICK o \in recl[c].batch : ReclTake(c)!(o)
      BY <2>1 DEF ReclTake
    <3>2. o \in Orders /\ stamp[o] \in Stamps
      BY DEF TypeOK, TaskTypeOK, ReclTasks, Refs, ReclRefs
    <3>3. Signed(o, stamp[o]).order = o /\ Signed(o, stamp[o]).stamp = stamp[o]
      BY <3>2, SignedType DEF TypeOK
    <3> QED
      BY <3>1, <3>3
  <2>2. ASSUME NEW c \in Copiers, ExecPost(c)
        PROVE  \A k \in wire' : k \in wire \/ stamp[k.order] = k.stamp
    BY <2>2 DEF ExecPost, Claims, ExecSigned
  <2> QED
    BY <2>1, <2>2, WireFrame DEF VenueAccept, VenueRefuse
<1>4. \A k \in Posted' : k \in Keys /\ stamp[k.order] = k.stamp
  <2>1. wire' \subseteq Keys
    BY WireType DEF Refs
  <2> QED
    BY <1>2, <1>3, <2>1 DEF Posted, AtVenue, Claims, PostedSigned
<1> QED
  BY <1>1, <1>4 DEF PostedSigned, Keys

-----------------------------------------------------------------------------
\* The books

\* No step gives a venue_order_id to a row that is still pending or dispatched.
LEMMA IdStep ==
  ASSUME TypeOK, ExecRefs, IdIsLate, [Next]_vars
  PROVE  IdIsLate'
<1>1. \A o \in Orders : status[o] \notin {"pending", "dispatched"} =>
                         status'[o] \notin {"pending", "dispatched"}
  BY StatusFrame DEF TypeOK, RowsTypeOK, ExecSkip, ExecClaim, ExecDrySign, ExecMark,
     ExecFail, ExecDryClose, ExecMarkErr, ReclMark, ReclMarkErr, ReclFail, ReconClose,
     WriteStatus, MarkSubmitted
<1>2. \A o \in Orders : venueId'[o] # venueId[o] => status'[o] = "submitted"
  BY VenueIdFrame DEF TypeOK, RowsTypeOK, ExecMark, ExecMarkErr, ReclMark, ReclMarkErr,
     MarkSubmitted
<1> QED
  BY <1>1, <1>2 DEF IdIsLate

\* Every step keeps SeenIsSettled: between asking the venue and booking, nothing settled moves.
LEMMA SeenStep ==
  ASSUME TypeOK, ReconRefs, IdIsLate, SeenIsSettled, [Next]_vars
  PROVE  SeenIsSettled'
<1>a. recon \in [Copiers -> ReconTasks]
  BY DEF TypeOK, TaskTypeOK
<1>b. \A k \in Keys : venue[k].st \in Settled =>
        venue'[k].st = venue[k].st /\ venue'[k].filled = venue[k].filled
  BY SettledKept
<1>c. \A o \in Orders : venueId[o] \in Keys => venueId'[o] = venueId[o]
  BY IdKept
<1>0. ASSUME UNCHANGED recon PROVE SeenIsSettled'
  BY <1>a, <1>b, <1>c, <1>0 DEF SeenIsSettled, ReconRefs
<1>1. ASSUME NEW c \in Copiers, ReconPull(c) PROVE SeenIsSettled'
  BY <1>a, <1>b, <1>c, <1>1
     DEF ReconPull, ReconTasks, ReconRefs, SeenIsSettled
<1>2. ASSUME NEW c \in Copiers, ReconAsk(c) PROVE SeenIsSettled'
  <2>1. PICK o \in recon[c].batch : ReconAsk(c)!(o)
    BY <1>2 DEF ReconAsk
  <2>2. o \in Orders /\ venueId[o] \in Keys
    BY <1>a DEF ReconTasks, ReconRefs
  <2>3. recon'[c].pc = "booking" =>
          /\ recon'[c].order = o /\ recon'[c].seen = venue[venueId[o]]
          /\ recon'[c].seen.st \in Settled
    BY <1>a, <2>1 DEF ReconTasks, ReconIdle, Verdict, Unseen, Settled
  <2>4. \A d \in Copiers \ {c} : recon'[d] = recon[d]
    BY <1>a, <2>1
  <2>5. UNCHANGED <<venue, venueId>>
    BY <2>1 DEF dbVars, venueVars
  <2> QED
    BY <2>2, <2>3, <2>4, <2>5 DEF SeenIsSettled
<1>3. ASSUME NEW c \in Copiers, ReconBook(c) PROVE SeenIsSettled'
  BY <1>a, <1>b, <1>c, <1>3
     DEF ReconBook, InsertExecution, ReconTasks, ReconRefs, SeenIsSettled
<1>4. ASSUME NEW c \in Copiers, ReconClose(c) PROVE SeenIsSettled'
  BY <1>a, <1>b, <1>c, <1>4
     DEF ReconClose, WriteStatus, ReconDone, ReconIdle, ReconTasks, ReconRefs, SeenIsSettled
<1>5. ASSUME NEW c \in Copiers, ReconCancel(c) PROVE SeenIsSettled'
  BY <1>a, <1>b, <1>c, <1>5
     DEF ReconCancel, ReconDone, ReconIdle, ReconTasks, ReconRefs, SeenIsSettled
<1>6. ASSUME NEW c \in Copiers, ReconAskErr(c) PROVE SeenIsSettled'
  <2>1. PICK o \in recon[c].batch : ReconAskErr(c)!(o)
    BY <1>6 DEF ReconAskErr
  <2> QED
    BY <1>a, <1>b, <1>c, <2>1 DEF ReconTasks, ReconIdle, ReconRefs, SeenIsSettled
<1>7. ASSUME NEW c \in Copiers, ReconErr(c) PROVE SeenIsSettled'
  BY <1>a, <1>b, <1>c, <1>7
     DEF ReconErr, ReconDone, ReconIdle, Fault, ReconTasks, ReconRefs, SeenIsSettled
<1>8. ASSUME NEW c \in Copiers, Crash(c) PROVE SeenIsSettled'
  BY <1>a, <1>b, <1>c, <1>8
     DEF Crash, ExecIdle, ReclIdle, ReconIdle, Fault, ReconTasks, ReconRefs, SeenIsSettled
<1> QED
  BY <1>0, <1>1, <1>2, <1>3, <1>4, <1>5, <1>6, <1>7, <1>8,
     ReconFrame
     DEF Reconcile

\* Every step keeps the books equal to the venue's settled fills.
LEMMA BooksStep ==
  ASSUME TypeOK, ReconRefs, IdIsLate, SeenIsSettled, BooksMatchVenue, [Next]_vars
  PROVE  BooksMatchVenue'
<1> SUFFICES ASSUME NoneDry, NEW o \in Orders, execution'[o] # None
             PROVE  /\ venueId'[o] # None
                    /\ venue'[venueId'[o]].st \in Settled
                    /\ execution'[o] = venue'[venueId'[o]].filled
  BY ModeFrame DEF BooksMatchVenue
<1>1. \A k \in Keys : venue[k].st \in Settled =>
        venue'[k].st = venue[k].st /\ venue'[k].filled = venue[k].filled
  BY SettledKept
<1>2. venueId[o] \in Keys => venueId'[o] = venueId[o]
  BY IdKept
<1>3. CASE execution'[o] = execution[o]
  <2>1. venueId[o] \in Keys
    BY <1>3 DEF BooksMatchVenue, TypeOK, RowsTypeOK
  <2> QED
    BY <1>1, <1>2, <1>3, <2>1, NoneAssumption DEF BooksMatchVenue
<1>4. ASSUME NEW c \in Copiers, ReconBook(c), recon[c].order = o,
             execution'[o] = recon[c].seen.filled
      PROVE  /\ venueId'[o] # None
             /\ venue'[venueId'[o]].st \in Settled
             /\ execution'[o] = venue'[venueId'[o]].filled
  <2>1. venueId[o] \in Keys
    BY <1>4 DEF ReconBook, ReconRefs
  <2>2. /\ recon[c].seen.st \in Settled
        /\ recon[c].seen.st = venue[venueId[o]].st
        /\ recon[c].seen.filled = venue[venueId[o]].filled
    BY <1>4 DEF ReconBook, SeenIsSettled
  <2> QED
    BY <1>1, <1>2, <1>4, <2>1, <2>2, NoneAssumption
<1>5. ASSUME NEW c \in Copiers, ReconBook(c)
      PROVE  \/ execution'[o] = execution[o]
             \/ recon[c].order = o /\ execution'[o] = recon[c].seen.filled
  BY <1>5 DEF ReconBook, ReconRefs, InsertExecution, TypeOK, RowsTypeOK
<1>6. execution' = execution \/ \E c \in Copiers : ReconBook(c)
  BY ExecutionFrame DEF ExecDryBook, NoneDry
<1> QED
  BY <1>3, <1>4, <1>5, <1>6

\* The dry run books its synthetic fill before it goes on to write the status.
LEMMA ExecBookedStep ==
  ASSUME TypeOK, ExecRefs, ExecBooked, [Next]_vars
  PROVE  ExecBooked'
<1>a. exec \in [Copiers -> ExecTasks]
  BY DEF TypeOK, TaskTypeOK
<1>b. \A o \in Orders : execution[o] # None => execution'[o] = execution[o]
  BY ExecutionKept
<1>0. ASSUME UNCHANGED exec PROVE ExecBooked'
  BY <1>a, <1>b, <1>0 DEF ExecBooked, ExecRefs
<1>1. ASSUME NEW c \in Copiers, ExecPull(c) PROVE ExecBooked'
  BY <1>a, <1>b, <1>1
     DEF ExecPull, ExecTasks, ExecRefs, ExecBooked
<1>2. ASSUME NEW c \in Copiers, ExecTake(c) PROVE ExecBooked'
  BY <1>a, <1>b, <1>2
     DEF ExecTake, ExecTasks, ExecRefs, ExecBooked
<1>3. ASSUME NEW c \in Copiers, ExecSkip(c) PROVE ExecBooked'
  BY <1>a, <1>b, <1>3
     DEF ExecSkip, WriteStatus, ExecDone, ExecIdle, ExecTasks, ExecRefs, ExecBooked
<1>4. ASSUME NEW c \in Copiers, ExecReady(c) PROVE ExecBooked'
  BY <1>a, <1>b, <1>4
     DEF ExecReady, HasCredential, WalletOf, ExecTasks, ExecRefs, ExecBooked
<1>5. ASSUME NEW c \in Copiers, ExecClaim(c) PROVE ExecBooked'
  BY <1>a, <1>b, <1>5
     DEF ExecClaim, WriteStatus, ExecTasks, ExecRefs, ExecBooked
<1>6. ASSUME NEW c \in Copiers, ExecGiveUp(c) PROVE ExecBooked'
  BY <1>a, <1>b, <1>6
     DEF ExecGiveUp, ExecDone, ExecIdle, ExecTasks, ExecRefs, ExecBooked
<1>7. ASSUME NEW c \in Copiers, ExecPost(c) PROVE ExecBooked'
  BY <1>a, <1>b, <1>7
     DEF ExecPost, ExecTasks, ExecRefs, ExecBooked
<1>8. ASSUME NEW c \in Copiers, ExecDrySign(c) PROVE ExecBooked'
  BY <1>a, <1>b, <1>8
     DEF ExecDrySign, WriteStatus, ExecDone, ExecIdle, ExecTasks, ExecRefs, ExecBooked
<1>9. ASSUME NEW c \in Copiers, ExecOk(c) PROVE ExecBooked'
  BY <1>a, <1>b, <1>9
     DEF ExecOk, ExecTasks, ExecRefs, ExecBooked
<1>10. ASSUME NEW c \in Copiers, ExecErr(c) PROVE ExecBooked'
  BY <1>a, <1>b, <1>10
     DEF ExecErr, ExecTasks, ExecRefs, ExecBooked
<1>11. ASSUME NEW c \in Copiers, ExecMark(c) PROVE ExecBooked'
  BY <1>a, <1>b, <1>11
     DEF ExecMark, MarkSubmitted, ExecDone, ExecIdle, ExecTasks, ExecRefs, ExecBooked
<1>12. ASSUME NEW c \in Copiers, ExecFail(c) PROVE ExecBooked'
  BY <1>a, <1>b, <1>12
     DEF ExecFail, WriteStatus, ExecDone, ExecIdle, ExecTasks, ExecRefs, ExecBooked
<1>13. ASSUME NEW c \in Copiers, ExecDryBook(c) PROVE ExecBooked'
  <2>1. exec[c].order \in Orders /\ execution'[exec[c].order] # None
    BY <1>13, OrdersAssumption, NoneAssumption
       DEF ExecDryBook, InsertExecution, ExecRefs, TypeOK, RowsTypeOK
  <2> QED
    BY <1>a, <1>b, <1>13, <2>1 DEF ExecDryBook, ExecTasks, ExecRefs, ExecBooked
<1>14. ASSUME NEW c \in Copiers, ExecDryClose(c) PROVE ExecBooked'
  BY <1>a, <1>b, <1>14
     DEF ExecDryClose, WriteStatus, ExecDone, ExecIdle, ExecTasks, ExecRefs, ExecBooked
<1>15. ASSUME NEW c \in Copiers, ExecMarkErr(c) PROVE ExecBooked'
  BY <1>a, <1>b, <1>15
     DEF ExecMarkErr, MarkSubmitted, Fault, ExecTasks, ExecRefs, ExecBooked
<1>16. ASSUME NEW c \in Copiers, ExecDbErr(c) PROVE ExecBooked'
  BY <1>a, <1>b, <1>16
     DEF ExecDbErr, ExecDone, ExecIdle, Fault, ExecTasks, ExecRefs, ExecBooked
<1>17. ASSUME NEW c \in Copiers, Crash(c) PROVE ExecBooked'
  BY <1>a, <1>b, <1>17
     DEF Crash, ExecIdle, ReclIdle, ReconIdle, Fault, ExecTasks, ExecRefs, ExecBooked
<1> QED
  BY <1>0, <1>1, <1>2, <1>3, <1>4, <1>5, <1>6, <1>7, <1>8, <1>9, <1>10, <1>11, <1>12, <1>13, <1>14, <1>15, <1>16, <1>17,
     ExecFrame
     DEF Exec

\* Reconcile books the fill of a matched order before it goes on to write the status.
LEMMA ReconBookedStep ==
  ASSUME TypeOK, ReconRefs, ReconBooked, [Next]_vars
  PROVE  ReconBooked'
<1>a. recon \in [Copiers -> ReconTasks]
  BY DEF TypeOK, TaskTypeOK
<1>b. \A o \in Orders : execution[o] # None => execution'[o] = execution[o]
  BY ExecutionKept
<1>0. ASSUME UNCHANGED recon PROVE ReconBooked'
  BY <1>a, <1>b, <1>0 DEF ReconBooked, ReconRefs
<1>1. ASSUME NEW c \in Copiers, ReconPull(c) PROVE ReconBooked'
  BY <1>a, <1>b, <1>1
     DEF ReconPull, ReconTasks, ReconRefs, ReconBooked
<1>2. ASSUME NEW c \in Copiers, ReconAsk(c) PROVE ReconBooked'
  <2>1. PICK o \in recon[c].batch : ReconAsk(c)!(o)
    BY <1>2 DEF ReconAsk
  <2>2. recon'[c].pc = "closing" => recon'[c].seen.st # "matched"
    BY <1>a, <2>1 DEF ReconTasks, ReconIdle, Verdict, Unseen, Settled
  <2>3. \A d \in Copiers \ {c} : recon'[d] = recon[d]
    BY <1>a, <2>1
  <2>4. UNCHANGED execution
    BY <2>1 DEF dbVars
  <2> QED
    BY <2>2, <2>3, <2>4 DEF ReconBooked
<1>3. ASSUME NEW c \in Copiers, ReconBook(c) PROVE ReconBooked'
  <2>1. recon[c].order \in Orders /\ recon[c].seen.filled # None
    BY <1>a, <1>3, NoneAssumption DEF ReconBook, ReconRefs, ReconTasks, Sightings
  <2>2. execution'[recon[c].order] # None
    BY <1>3, <2>1 DEF ReconBook, InsertExecution, TypeOK, RowsTypeOK
  <2> QED
    BY <1>a, <1>b, <1>3, <2>1, <2>2 DEF ReconBook, ReconTasks, ReconRefs, ReconBooked
<1>4. ASSUME NEW c \in Copiers, ReconClose(c) PROVE ReconBooked'
  BY <1>a, <1>b, <1>4
     DEF ReconClose, WriteStatus, ReconDone, ReconIdle, ReconTasks, ReconRefs, ReconBooked
<1>5. ASSUME NEW c \in Copiers, ReconCancel(c) PROVE ReconBooked'
  BY <1>a, <1>b, <1>5
     DEF ReconCancel, ReconDone, ReconIdle, ReconTasks, ReconRefs, ReconBooked
<1>6. ASSUME NEW c \in Copiers, ReconAskErr(c) PROVE ReconBooked'
  <2>1. PICK o \in recon[c].batch : ReconAskErr(c)!(o)
    BY <1>6 DEF ReconAskErr
  <2> QED
    BY <1>a, <1>b, <2>1 DEF ReconTasks, ReconIdle, ReconRefs, ReconBooked, Unseen
<1>7. ASSUME NEW c \in Copiers, ReconErr(c) PROVE ReconBooked'
  BY <1>a, <1>b, <1>7
     DEF ReconErr, ReconDone, ReconIdle, Fault, ReconTasks, ReconRefs, ReconBooked
<1>8. ASSUME NEW c \in Copiers, Crash(c) PROVE ReconBooked'
  BY <1>a, <1>b, <1>8
     DEF Crash, ExecIdle, ReclIdle, ReconIdle, Fault, ReconTasks, ReconRefs, ReconBooked
<1> QED
  BY <1>0, <1>1, <1>2, <1>3, <1>4, <1>5, <1>6, <1>7, <1>8,
     ReconFrame
     DEF Reconcile

\* No step writes 'filled' for an order without an execution row.
LEMMA FilledStep ==
  ASSUME TypeOK, ExecRefs, ReconRefs, ExecBooked, ReconBooked, FilledIsBooked, [Next]_vars
  PROVE  FilledIsBooked'
<1>1. \A o \in Orders : execution[o] # None => execution'[o] = execution[o]
  BY ExecutionKept
<1>2. \A o \in Orders : status'[o] = "filled" =>
        \/ status[o] = "filled"
        \/ \E c \in Copiers : ExecDryClose(c) /\ exec[c].order = o
        \/ \E c \in Copiers : ReconClose(c) /\ recon[c].order = o /\ recon[c].seen.st = "matched"
  BY StatusFrame DEF TypeOK, RowsTypeOK, ExecSkip, ExecClaim, ExecDrySign, ExecMark,
     ExecFail, ExecDryClose, ExecMarkErr, ReclMark, ReclMarkErr, ReclFail, ReconClose,
     WriteStatus, MarkSubmitted
<1> QED
  BY <1>1, <1>2 DEF FilledIsBooked, ExecBooked, ReconBooked, ExecDryClose, ReconClose

-----------------------------------------------------------------------------
\* The invariant and what follows from it

\* The invariant holds when the first orders are queued.
LEMMA InitInv == Init => IInv
<1> SUFFICES ASSUME Init PROVE IInv
  OBVIOUS
<1>1. TypeOK
  BY OrdersAssumption, UnseenType DEF Init, TypeOK, RowsTypeOK, SetTypeOK, TaskTypeOK,
     VenueTypeOK, Statuses, Wallets, ExecTasks, ReclTasks, ReconTasks, ExecIdle, ReclIdle, ReconIdle
<1>2. Refs
  BY DEF Init, Refs, ExecRefs, ReclRefs, ReconRefs, DispatchedIsStamped, ExecIdle, ReclIdle, ReconIdle
<1>3. Claims
  BY DEF Init, Claims, PendingIsUnstamped, ExecSigned, ReclSigned, PostedSigned, Posted, AtVenue,
     Unseen, ExecIdle, ReclIdle
<1>4. Books
  BY DEF Init, Books, IdIsLate, SeenIsSettled, BooksMatchVenue, ExecBooked, ReconBooked,
     FilledIsBooked, ExecIdle, ReconIdle
<1> QED
  BY <1>1, <1>2, <1>3, <1>4 DEF IInv

\* Every step of every process, of the venue and of the user keeps the invariant.
LEMMA StepInv == IInv /\ [Next]_vars => IInv'
<1> SUFFICES ASSUME TypeOK, Refs, Claims, Books, [Next]_vars PROVE IInv'
  BY DEF IInv
<1> USE DEF Refs, Claims, Books
<1>1. TypeOK'
  BY RowsType, SetType, ExecType, ReclType, ReconType, WireType, VenueType, FaultsType
     DEF TypeOK, TaskTypeOK, VenueTypeOK
<1>2. Refs'
  BY ExecRefsStep, ReclRefsStep, ReconRefsStep, DispatchedStep
<1>3. Claims'
  BY PendingStep, ExecSignedStep, ReclSignedStep, PostedStep
<1>4. Books'
  BY IdStep, SeenStep, BooksStep, ExecBookedStep, ReconBookedStep, FilledStep
<1> QED
  BY <1>1, <1>2, <1>3, <1>4 DEF IInv

\* The invariant holds for ever, whatever the number of processes and faults.
THEOREM Invariance == Spec => []IInv
  BY InitInv, StepInv, PTL DEF Spec

\* Every variable keeps its type.
THEOREM TypeCorrect == Spec => []TypeOK
  BY Invariance, PTL DEF IInv

\* The retries, races and crashes of any number of copier processes never make
\* one wallet sign two different orders for the same copy order.
THEOREM NeverTwoOrders == Spec => []OneOrderPerWallet
<1>1. IInv => OneOrderPerWallet
  BY DEF IInv, Claims, PostedSigned, OneOrderPerWallet, Posted, AtVenue, TypeOK, VenueTypeOK, Keys
<1> QED
  BY <1>1, Invariance, PTL

\* Every execution row of a live order has the size the venue settled on.
THEOREM BooksAreRight == Spec => []BooksMatchVenue
  BY Invariance, PTL DEF IInv, Books

\* No order is ever reported as filled before its execution is in the table.
THEOREM FilledMeansBooked == Spec => []FilledIsBooked
  BY Invariance, PTL DEF IInv, Books

\* A row that has reached an end never leaves the terminal statuses.
THEOREM NoResurrection == Spec => TerminalStaysTerminal
<1>1. TypeOK /\ [Next]_vars =>
        [\A o \in Orders : status[o] \in Terminal => status'[o] \in Terminal]_vars
  <2> SUFFICES ASSUME TypeOK, [Next]_vars, NEW o \in Orders, status[o] \in Terminal
               PROVE  status'[o] \in Terminal
    OBVIOUS
  <2> QED
    BY StatusFrame DEF TypeOK, RowsTypeOK, Terminal, ExecSkip, ExecClaim, ExecDrySign, ExecMark,
     ExecFail, ExecDryClose, ExecMarkErr, ReclMark, ReclMarkErr, ReclFail, ReconClose,
     WriteStatus, MarkSubmitted
<1> QED
  BY <1>1, TypeCorrect, PTL DEF Spec, TerminalStaysTerminal

-----------------------------------------------------------------------------
\* The refinement

\* The venue's id in a row is that of an order signed for this row.
IdIsOwn == \A o \in Orders : venueId[o] # None => venueId[o].order = o

RInv == IInv /\ IdIsOwn

\* The steps that touch what the promise sees; all the others leave it alone.
LEMMA PromiseFrame ==
  ASSUME [Next]_vars
  PROVE  \/ UNCHANGED <<status, stamp, execution, wire, venue>>
         \/ \E c \in Copiers :
                 ExecSkip(c) \/ ExecDrySign(c) \/ ExecFail(c) \/ ExecDryClose(c)
              \/ ReclFail(c) \/ ReconClose(c)
         \/ \E c \in Copiers :
                 ExecMark(c) \/ ExecMarkErr(c) \/ ReclMark(c) \/ ReclMarkErr(c)
         \/ \E c \in Copiers :
                 ExecClaim(c) \/ ExecPost(c) \/ ReclTake(c)
              \/ ExecDryBook(c) \/ ReconBook(c) \/ ReconCancel(c)
         \/ \E k \in Keys :
                 VenueAccept(k) \/ VenueRefuse(k) \/ VenueFill(k) \/ VenueSettle(k)
  BY StatusFrame, StampFrame, ExecutionFrame, WireFrame, VenueFrame

\* What the promise sees of the venue is a function of its book and the wire.
LEMMA SeenOfVenue ==
  ASSUME UNCHANGED <<wire, venue>>
  PROVE  UNCHANGED <<Posted, Final>>
  BY DEF Posted, AtVenue, Final

\* The first orders are open, nothing is sent and nothing booked.
LEMMA PromiseInit == Init => Promise!Init
<1> SUFFICES ASSUME Init PROVE Promise!Init
  OBVIOUS
<1>1. Fate = [o \in Orders |-> "open"]
  BY DEF Init, Fate
<1>2. Posted = {}
  BY DEF Init, Posted, AtVenue, Unseen
<1>3. Final = [k \in Keys |-> None]
  BY DEF Init, Final, Unseen, Settled
<1> QED
  BY <1>1, <1>2, <1>3 DEF Init, Promise!Init

\* Writing a terminal status is an end, and "filled" has its books.
LEMMA EndStep ==
  ASSUME TypeOK, FilledIsBooked', NEW o \in Orders, NEW s \in Terminal,
         WriteStatus(o, s), UNCHANGED <<stamp, execution, wire, venue>>
  PROVE  Promise!Next
<1> DEFINE e == IF s = "filled" THEN "filled" ELSE "ended"
<1>1. status \in [Orders -> Statuses]
  BY DEF TypeOK, RowsTypeOK
<1>2. Fate' = [Fate EXCEPT ![o] = e]
  BY <1>1 DEF Fate, WriteStatus, Terminal
<1>3. e = "filled" => execution[o] # None
  BY <1>1 DEF FilledIsBooked, WriteStatus, Terminal
<1>4. Promise!End(o)
  BY <1>2, <1>3, SeenOfVenue DEF Promise!End, Promise!Ends
<1> QED
  BY <1>4 DEF Promise!Next

\* The mark takes an order from "dispatched" to "submitted": both are "taken".
LEMMA MarkStep ==
  ASSUME TypeOK, NEW o \in Orders, NEW k, MarkSubmitted(o, k),
         UNCHANGED <<stamp, execution, wire, venue>>
  PROVE  UNCHANGED Promise!vars
<1>1. status \in [Orders -> Statuses]
  BY DEF TypeOK, RowsTypeOK
<1>2. UNCHANGED Fate
  BY <1>1 DEF Fate, MarkSubmitted
<1> QED
  BY <1>2, SeenOfVenue DEF Promise!vars

\* The claim takes the order with the stamp of what was signed.
LEMMA ClaimStep ==
  ASSUME TypeOK, Refs, NEW c \in Copiers, ExecClaim(c)
  PROVE  Promise!Next
<1> DEFINE o == exec[c].order
<1>1. status \in [Orders -> Statuses]
  BY DEF TypeOK, RowsTypeOK
<1>2. o \in Orders /\ exec[c].key.stamp \in Stamps
  BY DEF Refs, ExecRefs, ExecClaim, Keys
<1>3. Fate[o] = "open" /\ Fate' = [Fate EXCEPT ![o] = "taken"]
  BY <1>1, <1>2 DEF Fate, ExecClaim, WriteStatus
<1>4. UNCHANGED <<execution, wire, venue>>
  BY DEF ExecClaim, venueVars
<1>5. Promise!Take(o)
  BY <1>2, <1>3, <1>4, SeenOfVenue DEF Promise!Take, ExecClaim
<1> QED
  BY <1>2, <1>5 DEF Promise!Next

\* A request for an order carries the stamp the order was taken with.
LEMMA SendStep ==
  ASSUME NEW k \in Keys, k.stamp = stamp[k.order], wire' \in {wire, wire \cup {k}},
         UNCHANGED <<status, stamp, execution, venue>>
  PROVE  Promise!Next \/ UNCHANGED Promise!vars
<1>1. UNCHANGED <<Fate, Final>>
  BY DEF Fate, Final
<1>2. CASE wire' = wire
  BY <1>1, <1>2, SeenOfVenue DEF Promise!vars
<1>3. CASE wire' = wire \cup {k}
  <2>1. Posted' = Posted \cup {k}
    BY <1>3 DEF Posted, AtVenue
  <2>2. Promise!Send(k)
    BY <1>1, <2>1 DEF Promise!Send
  <2> QED
    BY <2>2 DEF Promise!Next
<1> QED
  BY <1>2, <1>3

\* The venue's answers to requests and fills of an open order.
LEMMA VenueStep ==
  ASSUME TypeOK, NEW k \in Keys,
         VenueAccept(k) \/ VenueRefuse(k) \/ VenueFill(k) \/ VenueSettle(k)
  PROVE  Promise!Next \/ UNCHANGED Promise!vars
<1>1. venue \in [Keys -> Sightings] /\ wire \subseteq Keys
  BY DEF TypeOK, VenueTypeOK
<1>2. UNCHANGED <<Fate, stamp, execution>>
  BY DEF Fate, VenueAccept, VenueRefuse, VenueFill, VenueSettle, dbVars
<1>3. CASE VenueAccept(k)
  <2>1. Posted' = Posted
    BY <1>1, <1>3 DEF VenueAccept, Posted, AtVenue, Sightings
  <2>2. Final' = Final
    BY <1>1, <1>3 DEF VenueAccept, Final, Sightings, Settled
  <2> QED
    BY <1>2, <2>1, <2>2 DEF Promise!vars
<1>4. CASE VenueRefuse(k)
  <2>1. UNCHANGED Final
    BY <1>4 DEF VenueRefuse, Final
  <2>2. CASE venue[k].st = "unknown"
    <3>1. Posted' = Posted \ {k}
      BY <1>4, <2>2 DEF VenueRefuse, Posted, AtVenue
    <3>2. Final[k] = None
      BY <2>2 DEF Final, Settled
    <3>3. Promise!Lose(k)
      BY <1>2, <2>1, <3>1, <3>2 DEF Promise!Lose
    <3> QED
      BY <3>3 DEF Promise!Next
  <2>3. CASE venue[k].st # "unknown"
    <3>1. Posted' = Posted
      BY <1>4, <2>3 DEF VenueRefuse, Posted, AtVenue
    <3> QED
      BY <1>2, <2>1, <3>1 DEF Promise!vars
  <2> QED
    BY <2>2, <2>3
<1>5. CASE VenueFill(k)
  <2>1. Posted' = Posted
    BY <1>1, <1>5 DEF VenueFill, Posted, AtVenue, Sightings
  <2>2. Final' = Final
    BY <1>1, <1>5 DEF VenueFill, Final, Sightings, Settled
  <2> QED
    BY <1>2, <2>1, <2>2 DEF Promise!vars
<1>6. CASE VenueSettle(k)
  <2>1. PICK s \in Settled : venue' = [venue EXCEPT ![k].st = s]
    BY <1>6 DEF VenueSettle
  <2>2. UNCHANGED wire /\ venue[k].st = "open"
    BY <1>6 DEF VenueSettle
  <2>3. Posted' = Posted /\ k \in Posted
    BY <1>1, <2>1, <2>2 DEF Posted, AtVenue, Settled, Sightings
  <2>4. Final[k] = None /\ Final' = [Final EXCEPT ![k] = venue[k].filled]
    BY <1>1, <2>1, <2>2 DEF Final, Settled, Sightings
  <2>5. Promise!Settle(k)
    BY <1>1, <1>2, <2>3, <2>4 DEF Promise!Settle, Sightings
  <2> QED
    BY <2>5 DEF Promise!Next
<1> QED
  BY <1>3, <1>4, <1>5, <1>6

\* The cancel of reconcile settles an order that is still open.
LEMMA CancelStep ==
  ASSUME TypeOK, Refs, NEW c \in Copiers, ReconCancel(c)
  PROVE  Promise!Next \/ UNCHANGED Promise!vars
<1> DEFINE k == venueId[recon[c].order]
<1>1. venue \in [Keys -> Sightings]
  BY DEF TypeOK, VenueTypeOK
<1>2. UNCHANGED <<Fate, stamp, execution, wire>>
  BY DEF ReconCancel, Fate, dbVars
<1>3. k \in Keys
  BY DEF Refs, ReconRefs, ReconCancel
<1>4. CASE venue[k].st = "open"
  <2>1. venue' = [venue EXCEPT ![k].st = "cancelled"]
    BY <1>4 DEF ReconCancel
  <2>2. Posted' = Posted /\ k \in Posted
    BY <1>1, <1>2, <1>3, <1>4, <2>1 DEF Posted, AtVenue, Sightings
  <2>3. Final[k] = None /\ Final' = [Final EXCEPT ![k] = venue[k].filled]
    BY <1>1, <1>3, <1>4, <2>1 DEF Final, Settled, Sightings
  <2>4. Promise!Settle(k)
    BY <1>1, <1>2, <1>3, <2>2, <2>3 DEF Promise!Settle, Sightings
  <2> QED
    BY <1>3, <2>4 DEF Promise!Next
<1>5. CASE venue[k].st # "open"
  <2>1. UNCHANGED venue
    BY <1>1, <1>3, <1>5 DEF ReconCancel, Sightings
  <2> QED
    BY <1>2, <2>1, SeenOfVenue DEF Promise!vars
<1> QED
  BY <1>4, <1>5

\* A fill is booked once, and in a fleet that trades as the venue settled it.
LEMMA BookStep ==
  ASSUME TypeOK, BooksMatchVenue', NEW o \in Orders, NEW n \in 0 .. Size,
         InsertExecution(o, n), UNCHANGED <<status, stamp, wire, venue>>, NoneDry' = NoneDry,
         NoneDry => venueId'[o] \in Keys /\ venueId'[o].order = o
  PROVE  Promise!Next \/ UNCHANGED Promise!vars
<1>1. execution \in [Orders -> (0 .. Size) \cup {None}] /\ None \notin 0 .. Size
  BY NoneAssumption, OrdersAssumption DEF TypeOK, RowsTypeOK
<1>2. UNCHANGED <<Fate, stamp, Posted, Final>>
  BY SeenOfVenue DEF Fate
<1>3. CASE execution[o] # None
  BY <1>1, <1>2, <1>3 DEF InsertExecution, Promise!vars
<1>4. CASE execution[o] = None
  <2>1. execution' = [execution EXCEPT ![o] = n] /\ execution'[o] = n
    BY <1>1, <1>4 DEF InsertExecution
  <2>2. NoneDry => \E k \in Posted : k.order = o /\ Final[k] = n
    <3> SUFFICES ASSUME NoneDry
                 PROVE  venueId'[o] \in Posted /\ venueId'[o].order = o /\ Final[venueId'[o]] = n
      OBVIOUS
    <3>1. venue[venueId'[o]].st \in Settled /\ venue[venueId'[o]].filled = n
      BY <1>1, <2>1 DEF BooksMatchVenue
    <3> QED
      BY <3>1 DEF Posted, AtVenue, Settled, Final
  <2>3. Promise!Book(o)
    BY <1>2, <1>4, <2>1, <2>2 DEF Promise!Book
  <2> QED
    BY <2>3 DEF Promise!Next
<1> QED
  BY <1>3, <1>4

-----------------------------------------------------------------------------
\* What the parameters of a writing action are: an order, a terminal status, a
\* key with the stamp of its row.

\* The six places that close a row.
LEMMA Closing ==
  ASSUME IInv, [Next]_vars, NEW c \in Copiers,
         \/ ExecSkip(c) \/ ExecDrySign(c) \/ ExecFail(c) \/ ExecDryClose(c)
         \/ ReclFail(c) \/ ReconClose(c)
  PROVE  Promise!Next \/ UNCHANGED Promise!vars
<1>1. TypeOK /\ ExecRefs /\ ReclRefs /\ ReconRefs
  BY DEF IInv, Refs
<1>2. FilledIsBooked'
  BY StepInv DEF IInv, Books
<1>3. UNCHANGED <<stamp, execution, wire, venue>>
  BY DEF ExecSkip, ExecDrySign, ExecFail, ExecDryClose, ReclFail, ReconClose, venueVars
<1>4. CASE ExecSkip(c) \/ ExecDrySign(c) \/ ExecFail(c) \/ ExecDryClose(c)
  <2>1. exec[c].order \in Orders
    BY <1>1, <1>4 DEF ExecRefs, ExecSkip, ExecDrySign, ExecFail, ExecDryClose
  <2>2. \E s \in Terminal : WriteStatus(exec[c].order, s)
    BY <1>4 DEF ExecSkip, ExecDrySign, ExecFail, ExecDryClose, Terminal
  <2> QED
    BY <1>1, <1>2, <1>3, <2>1, <2>2, EndStep
<1>5. CASE ReclFail(c)
  <2>1. recl[c].key.order \in Orders
    BY <1>1, <1>5 DEF ReclRefs, ReclFail, Keys
  <2>2. CASE status[recl[c].key.order] = "dispatched"
    <3>1. WriteStatus(recl[c].key.order, "failed") /\ "failed" \in Terminal
      BY <1>5, <2>2 DEF ReclFail, Terminal
    <3> QED
      BY <1>1, <1>2, <1>3, <2>1, <3>1, EndStep
  <2>3. CASE status[recl[c].key.order] # "dispatched"
    BY <1>3, <1>5, <2>3, SeenOfVenue DEF ReclFail, Promise!vars, Fate
  <2> QED
    BY <2>2, <2>3
<1>6. CASE ReconClose(c)
  <2>1. recon[c].order \in Orders
    BY <1>1, <1>6 DEF ReconRefs, ReconClose
  <2>2. \E s \in Terminal : WriteStatus(recon[c].order, s)
    BY <1>6 DEF ReconClose, Terminal
  <2> QED
    BY <1>1, <1>2, <1>3, <2>1, <2>2, EndStep
<1> QED
  BY <1>4, <1>5, <1>6

\* The four places that record the venue's acceptance.
LEMMA Marking ==
  ASSUME IInv, NEW c \in Copiers,
         ExecMark(c) \/ ExecMarkErr(c) \/ ReclMark(c) \/ ReclMarkErr(c)
  PROVE  UNCHANGED Promise!vars
<1>1. TypeOK /\ ExecRefs /\ ReclRefs
  BY DEF IInv, Refs
<1>2. UNCHANGED <<stamp, execution, wire, venue>>
  BY DEF ExecMark, ExecMarkErr, ReclMark, ReclMarkErr, venueVars
<1>3. \/ UNCHANGED status
      \/ MarkSubmitted(exec[c].order, exec[c].key) /\ exec[c].order \in Orders
      \/ MarkSubmitted(recl[c].key.order, recl[c].key) /\ recl[c].key.order \in Orders
  BY <1>1 DEF ExecMark, ExecMarkErr, ReclMark, ReclMarkErr, ExecRefs, ReclRefs, Keys
<1>4. CASE UNCHANGED status
  BY <1>2, <1>4, SeenOfVenue DEF Promise!vars, Fate
<1> QED
  BY <1>1, <1>2, <1>3, <1>4, MarkStep

\* The two places that send a request.
LEMMA Sending ==
  ASSUME IInv, NEW c \in Copiers, ExecPost(c) \/ ReclTake(c)
  PROVE  Promise!Next \/ UNCHANGED Promise!vars
<1>1. TypeOK /\ ExecRefs /\ ReclRefs /\ ExecSigned
  BY DEF IInv, Refs, Claims
<1>2. UNCHANGED <<status, stamp, execution, venue>>
  BY DEF ExecPost, ReclTake, dbVars
<1>3. CASE ExecPost(c)
  <2>1. exec[c].key \in Keys /\ exec[c].key.stamp = stamp[exec[c].key.order]
    BY <1>1, <1>3 DEF ExecRefs, ExecSigned, ExecPost
  <2>2. wire' \in {wire, wire \cup {exec[c].key}}
    BY <1>3 DEF ExecPost
  <2> QED
    BY <1>2, <2>1, <2>2, SendStep
<1>4. CASE ReclTake(c)
  <2>1. PICK o \in recl[c].batch : ReclTake(c)!(o)
    BY <1>4 DEF ReclTake
  <2>2. o \in Orders /\ stamp[o] \in Stamps
    BY <1>1 DEF TypeOK, TaskTypeOK, ReclTasks, ReclRefs
  <2> DEFINE k == Signed(o, stamp[o])
  <2>3. k \in Keys /\ k.order = o /\ k.stamp = stamp[o]
    BY <1>1, <2>2, SignedType DEF TypeOK
  <2>4. wire' \in {wire, wire \cup {k}}
    BY <2>1
  <2> QED
    BY <1>2, <2>3, <2>4, SendStep
<1> QED
  BY <1>3, <1>4

\* Each caller of the mark passes the order its key was signed for.
LEMMA IdOwnStep ==
  ASSUME IInv, IdIsOwn, [Next]_vars
  PROVE  IdIsOwn'
<1>1. TypeOK /\ ExecRefs /\ ReclRefs
  BY DEF IInv, Refs
<1>2. venueId \in [Orders -> Keys \cup {None}]
  BY <1>1 DEF TypeOK, RowsTypeOK
<1>3. CASE UNCHANGED venueId
  BY <1>3 DEF IdIsOwn
<1>4. CASE \E c \in Copiers : ExecMark(c) \/ ExecMarkErr(c)
  BY <1>1, <1>2, <1>4 DEF IdIsOwn, ExecMark, ExecMarkErr, MarkSubmitted, ExecRefs
<1>5. CASE \E c \in Copiers : ReclMark(c) \/ ReclMarkErr(c)
  BY <1>1, <1>2, <1>5 DEF IdIsOwn, ReclMark, ReclMarkErr, MarkSubmitted, ReclRefs
<1> QED
  BY <1>3, <1>4, <1>5, VenueIdFrame

\* The two places that book a fill.
LEMMA Booking ==
  ASSUME RInv, [Next]_vars, NEW c \in Copiers, ExecDryBook(c) \/ ReconBook(c)
  PROVE  Promise!Next \/ UNCHANGED Promise!vars
<1>1. TypeOK /\ ExecRefs /\ ReconRefs
  BY DEF RInv, IInv, Refs
<1>2. BooksMatchVenue'
  BY StepInv DEF RInv, IInv, Books
<1>3. UNCHANGED <<status, stamp, wire, venue, venueId>> /\ NoneDry' = NoneDry
  BY ModeFrame DEF ExecDryBook, ReconBook, venueVars
<1>4. CASE ExecDryBook(c)
  <2>1. exec[c].order \in Orders /\ ~NoneDry
    BY <1>1, <1>4 DEF ExecRefs, ExecDryBook, NoneDry
  <2>2. InsertExecution(exec[c].order, Size) /\ Size \in 0 .. Size
    BY <1>4, OrdersAssumption DEF ExecDryBook
  <2> QED
    BY <1>1, <1>2, <1>3, <2>1, <2>2, BookStep
<1>5. CASE ReconBook(c)
  <2> DEFINE o == recon[c].order
  <2>1. o \in Orders /\ venueId'[o] \in Keys
    BY <1>1, <1>3, <1>5 DEF ReconRefs, ReconBook
  <2>2. InsertExecution(o, recon[c].seen.filled) /\ recon[c].seen.filled \in 0 .. Size
    BY <1>1, <1>5 DEF ReconBook, TypeOK, TaskTypeOK, ReconTasks, Sightings
  <2>3. venueId'[o].order = o
    BY <1>3, <2>1, NoneAssumption DEF RInv, IdIsOwn
  <2> QED
    BY <1>1, <1>2, <1>3, <2>1, <2>2, <2>3, BookStep
<1> QED
  BY <1>4, <1>5

-----------------------------------------------------------------------------
\* Every step of a worker, of the venue and of the user is a step of the
\* promise, or one it does not see.
LEMMA PromiseStep ==
  ASSUME RInv, [Next]_vars
  PROVE  [Promise!Next]_(Promise!vars)
<1>1. TypeOK /\ Refs
  BY DEF RInv, IInv
<1>2. CASE UNCHANGED <<status, stamp, execution, wire, venue>>
  BY <1>2, SeenOfVenue DEF Promise!vars, Fate
<1>3. ASSUME NEW c \in Copiers, ExecClaim(c) PROVE Promise!Next
  BY <1>1, <1>3, ClaimStep
<1>4. ASSUME NEW c \in Copiers, ReconCancel(c) PROVE Promise!Next \/ UNCHANGED Promise!vars
  BY <1>1, <1>4, CancelStep
<1> QED
  BY <1>1, <1>2, <1>3, <1>4, Closing, Marking, Sending, Booking, VenueStep, PromiseFrame DEF RInv

\* CopyOrders implements OrderPromise: whatever the workers of any number of
\* processes do, crash and retry, an order is taken once, only what it was
\* taken with is sent, and its fill is booked once, as the venue settled it.
THEOREM PromiseIsKept == Spec => KeepsThePromise
<1>1. Init => RInv
  BY InitInv DEF RInv, IdIsOwn, Init
<1>2. RInv /\ [Next]_vars => RInv'
  BY StepInv, IdOwnStep DEF RInv
<1>3. RInv /\ [Next]_vars => [Promise!Next]_(Promise!vars)
  BY PromiseStep
<1>4. [Next]_vars => [FALSE]_NoneDry
  BY ModeFrame
<1> QED
  BY <1>1, <1>2, <1>3, <1>4, PromiseInit, PTL DEF Spec, KeepsThePromise, Promise!Spec

-----------------------------------------------------------------------------
\* Where a fill can be found

\* Nothing was ever signed by a wallet newer than the user's present one.
NotNewer(k, w) == k.wallet <= w[UserOf[k.order]]

SignedEarlier ==
  /\ \A c \in Copiers : exec[c].pc \in {"ready", "claimed", "posting", "accepted"} => NotNewer(exec[c].key, wallet)
  /\ \A c \in Copiers : recl[c].pc # "idle" => NotNewer(recl[c].key, wallet)
  /\ \A k \in Posted : NotNewer(k, wallet)

\* What the venue accepted it knows for ever, so it knows every id in a row.
Known ==
  /\ \A c \in Copiers : exec[c].pc = "accepted" => venue[exec[c].key].st # "unknown"
  /\ \A c \in Copiers : recl[c].pc = "accepted" => venue[recl[c].key].st # "unknown"
  /\ \A o \in Orders : venueId[o] # None => venue[venueId[o]].st # "unknown"
  /\ \A o \in Orders : status[o] = "submitted" => venueId[o] # None
  /\ \A k \in Keys : venue[k].st = "unknown" => venue[k].filled = 0

\* Where every process has COPIER_DRY_RUN no row is claimed, so that reclaim finds none.
Unclaimed ==
  /\ \A o \in Orders : status[o] \notin {"dispatched", "submitted"}
  /\ \A c \in Copiers : exec[c].pc \in {"idle", "checks", "closing"} /\ recl[c] = ReclIdle

\* Nothing leaves a fleet that does not post, or does not claim.
Silent ==
  /\ Mute => Posted = {}
  /\ (\A c \in Copiers : mode[c].dry) => Unclaimed
  /\ \A c \in Copiers : exec[c].pc = "closing" => mode[c].dry

\* A row about to be closed is settled and, if filled, booked; or the answer
\* read like "not found".
ClosingIsSure == \A c \in Copiers : recon[c].pc = "closing" =>
  LET k == venueId[recon[c].order] IN
  \/ recon[c].seen.st = "unknown" /\ (k \in Reads404 \/ k.wallet < WalletOf(recon[c].order))
  \/ /\ recon[c].seen.st \in Settled
     /\ recon[c].seen.st = venue[k].st /\ recon[c].seen.filled = venue[k].filled
     /\ recon[c].seen.filled > 0 => execution[recon[c].order] # None

\* A row that was closed with a fill is settled and booked.
ClosedIsTraced == NoneDry => \A o \in Orders : status[o] \in {"filled", "cancelled"} =>
  /\ venueId[o] \in Keys
  /\ venue[venueId[o]].st \in Settled
  /\ venue[venueId[o]].filled > 0 => execution[o] # None

\* What exec has listed and not claimed nobody else has claimed, and what was
\* turned down was never signed: only where one process works on the table.
OneCopier == \A c, d \in Copiers : c = d

ListedIsPending == \A c \in Copiers :
  /\ exec[c].pc \in {"checks", "ready"} => status[exec[c].order] = "pending"
  /\ \A o \in exec[c].batch : status[o] = "pending" /\ (exec[c].pc # "idle" => o # exec[c].order)

SkippedIsUnsigned == NoneDry /\ AllPost => \A o \in Orders : status[o] = "skipped" => stamp[o] = None

TraceInv == RInv /\ SignedEarlier /\ Known /\ Silent /\ ClosingIsSure /\ ClosedIsTraced
AloneInv == TraceInv /\ ListedIsPending /\ SkippedIsUnsigned

-----------------------------------------------------------------------------
\* Wallets are replaced by newer ones.
LEMMA WalletGrows ==
  ASSUME TypeOK, [Next]_vars, NEW o \in Orders
  PROVE  WalletOf(o) \in Nat /\ WalletOf(o)' \in Nat /\ WalletOf(o) <= WalletOf(o)'
<1>1. UserOf[o] \in Users /\ wallet \in [Users -> Nat]
  BY OrdersAssumption DEF TypeOK, SetTypeOK, Wallets
<1>2. ASSUME NEW u \in Users, Reprovision(u) PROVE WalletOf(o)' \in Nat /\ WalletOf(o) <= WalletOf(o)'
  BY <1>1, <1>2 DEF Reprovision, WalletOf
<1> QED
  BY <1>1, <1>2, SetFrame DEF setVars, Revoke, WalletOf

\* A signature is never newer than the wallet its user has by now.
LEMMA NotNewerKept ==
  ASSUME TypeOK, [Next]_vars, NEW k \in Keys, NotNewer(k, wallet)
  PROVE  NotNewer(k, wallet')
<1>1. k.order \in Orders /\ k.wallet \in Nat
  BY DEF Keys, Wallets
<1> QED
  BY <1>1, WalletGrows DEF NotNewer, WalletOf

\* Whoever signs uses the present wallet.
LEMMA SignedNow ==
  ASSUME TypeOK, NEW o \in Orders, NEW s \in Stamps
  PROVE  NotNewer(Signed(o, s), wallet)
  BY OrdersAssumption DEF TypeOK, SetTypeOK, Signed, NotNewer, WalletOf, Wallets

\* The venue forgets nothing.
LEMMA KnownKept ==
  ASSUME TypeOK, ReconRefs, [Next]_vars, NEW k \in Keys, venue[k].st # "unknown"
  PROVE  venue'[k].st # "unknown"
<1>a. venue \in [Keys -> Sightings]
  BY DEF TypeOK, VenueTypeOK
<1>1. ASSUME NEW c \in Copiers, ReconCancel(c) PROVE venue'[k].st # "unknown"
  BY <1>a, <1>1 DEF ReconCancel, Sightings
<1>2. ASSUME NEW j \in Keys, VenueAccept(j) PROVE venue'[k].st # "unknown"
  BY <1>a, <1>2 DEF VenueAccept, Sightings
<1>3. ASSUME NEW j \in Keys, VenueFill(j) PROVE venue'[k].st # "unknown"
  BY <1>a, <1>3 DEF VenueFill, Sightings
<1>4. ASSUME NEW j \in Keys, VenueSettle(j) PROVE venue'[k].st # "unknown"
  BY <1>a, <1>4 DEF VenueSettle, Sightings, Settled
<1> QED
  BY <1>1, <1>2, <1>3, <1>4, VenueFrame

\* What the venue does not know it has not filled.
LEMMA UnknownEmpty ==
  ASSUME TypeOK, ReconRefs, Known, [Next]_vars, NEW k \in Keys, venue'[k].st = "unknown"
  PROVE  venue'[k].filled = 0
<1>a. venue \in [Keys -> Sightings] /\ venue[k].st = "unknown" /\ venue[k].filled = 0
  BY KnownKept DEF TypeOK, VenueTypeOK, Known
<1>1. ASSUME NEW c \in Copiers, ReconCancel(c) PROVE venue'[k].filled = 0
  BY <1>a, <1>1 DEF ReconCancel, Sightings
<1>2. ASSUME NEW j \in Keys, VenueAccept(j) PROVE venue'[k].filled = 0
  BY <1>a, <1>2 DEF VenueAccept, Sightings
<1>3. ASSUME NEW j \in Keys, VenueFill(j) PROVE venue'[k].filled = 0
  BY <1>a, <1>3 DEF VenueFill, Sightings
<1>4. ASSUME NEW j \in Keys, VenueSettle(j) PROVE venue'[k].filled = 0
  BY <1>a, <1>4 DEF VenueSettle, Sightings, Settled
<1> QED
  BY <1>a, <1>1, <1>2, <1>3, <1>4, VenueFrame

-----------------------------------------------------------------------------
\* The steps of exec keep the order of the wallets for what exec holds.
LEMMA ExecEarlier ==
  ASSUME TypeOK, ExecRefs, SignedEarlier, [Next]_vars, NEW d \in Copiers,
         exec'[d].pc \in {"ready", "claimed", "posting", "accepted"}
  PROVE  NotNewer(exec'[d].key, wallet')
<1>a. exec \in [Copiers -> ExecTasks]
  BY DEF TypeOK, TaskTypeOK
<1>b. CASE exec[d].pc \in {"ready", "claimed", "posting", "accepted"} /\ exec'[d].key = exec[d].key
  <2>1. exec[d].key \in Keys /\ NotNewer(exec[d].key, wallet)
    BY <1>b DEF ExecRefs, SignedEarlier
  <2>2. NotNewer(exec[d].key, wallet')
    BY <1>b, <2>1, NotNewerKept DEF NotNewer
  <2> QED
    BY <1>b, <2>2
<1>c. ASSUME ExecReady(d) PROVE NotNewer(exec'[d].key, wallet')
  <2>1. PICK s \in Stamps :
          exec' = [exec EXCEPT ![d].pc = "ready", ![d].key = Signed(exec[d].order, s)]
    BY <1>c DEF ExecReady
  <2>2. exec[d].order \in Orders
    BY <1>c DEF ExecReady, ExecRefs
  <2>3. exec'[d].key = Signed(exec[d].order, s)
    BY <1>a, <2>1 DEF ExecTasks
  <2>4. NotNewer(exec'[d].key, wallet) /\ wallet' = wallet
    BY <1>c, <2>2, <2>3, SignedNow DEF ExecReady, setVars
  <2> QED
    BY <2>4 DEF NotNewer, WalletOf
<1>d. ASSUME ~ExecReady(d)
      PROVE exec[d].pc \in {"ready", "claimed", "posting", "accepted"} /\ exec'[d].key = exec[d].key
  <2>1. CASE UNCHANGED exec
    BY <2>1
  <2>2. ASSUME NEW c \in Copiers, ExecReady(c) PROVE exec[d].pc \in {"ready", "claimed", "posting", "accepted"} /\ exec'[d].key = exec[d].key
    <3>1. c # d
      BY <1>d, <2>2
    <3> QED
      BY <1>a, <2>2, <3>1 DEF ExecReady, ExecTasks
  <2>3. ASSUME NEW c \in Copiers, ExecPull(c)
        PROVE exec[d].pc \in {"ready", "claimed", "posting", "accepted"} /\ exec'[d].key = exec[d].key
    BY <1>a, <2>3 DEF ExecPull, ExecTasks
  <2>4. ASSUME NEW c \in Copiers, ExecTake(c)
        PROVE exec[d].pc \in {"ready", "claimed", "posting", "accepted"} /\ exec'[d].key = exec[d].key
    BY <1>a, <2>4 DEF ExecTake, ExecTasks
  <2>5. ASSUME NEW c \in Copiers, ExecDone(c)
        PROVE exec[d].pc \in {"ready", "claimed", "posting", "accepted"} /\ exec'[d].key = exec[d].key
    BY <1>a, <2>5 DEF ExecDone, ExecIdle, ExecTasks
  <2>6. ASSUME NEW c \in Copiers, Crash(c)
        PROVE exec[d].pc \in {"ready", "claimed", "posting", "accepted"} /\ exec'[d].key = exec[d].key
    BY <1>a, <2>6 DEF Crash, ExecIdle, ExecTasks
  <2>7. ASSUME NEW c \in Copiers, ExecClaim(c)
        PROVE exec[d].pc \in {"ready", "claimed", "posting", "accepted"} /\ exec'[d].key = exec[d].key
    BY <1>a, <2>7 DEF ExecClaim, ExecTasks
  <2>8. ASSUME NEW c \in Copiers, ExecPost(c)
        PROVE exec[d].pc \in {"ready", "claimed", "posting", "accepted"} /\ exec'[d].key = exec[d].key
    BY <1>a, <2>8 DEF ExecPost, ExecTasks
  <2>9. ASSUME NEW c \in Copiers, ExecOk(c)
        PROVE exec[d].pc \in {"ready", "claimed", "posting", "accepted"} /\ exec'[d].key = exec[d].key
    BY <1>a, <2>9 DEF ExecOk, ExecTasks
  <2>10. ASSUME NEW c \in Copiers, ExecErr(c)
        PROVE exec[d].pc \in {"ready", "claimed", "posting", "accepted"} /\ exec'[d].key = exec[d].key
    BY <1>a, <2>10 DEF ExecErr, ExecTasks
  <2>11. ASSUME NEW c \in Copiers, ExecDryBook(c)
        PROVE exec[d].pc \in {"ready", "claimed", "posting", "accepted"} /\ exec'[d].key = exec[d].key
    BY <1>a, <2>11 DEF ExecDryBook, ExecTasks
  <2>12. ASSUME NEW c \in Copiers, ExecMarkErr(c)
        PROVE exec[d].pc \in {"ready", "claimed", "posting", "accepted"} /\ exec'[d].key = exec[d].key
    BY <1>a, <2>12 DEF ExecMarkErr, ExecTasks
  <2> QED
    BY <2>1, <2>2, <2>3, <2>4, <2>5, <2>6, <2>7, <2>8, <2>9, <2>10, <2>11, <2>12, ExecFrame
       DEF ExecSkip, ExecGiveUp, ExecDrySign, ExecMark, ExecFail, ExecDryClose, ExecDbErr
<1> QED
  BY <1>b, <1>c, <1>d

\* The same for what reclaim holds.
LEMMA ReclEarlier ==
  ASSUME TypeOK, ReclRefs, SignedEarlier, [Next]_vars, NEW d \in Copiers, recl'[d].pc # "idle"
  PROVE  NotNewer(recl'[d].key, wallet')
<1>a. recl \in [Copiers -> ReclTasks]
  BY DEF TypeOK, TaskTypeOK
<1>b. CASE recl[d].pc # "idle" /\ recl'[d].key = recl[d].key
  <2>1. recl[d].key \in Keys /\ NotNewer(recl[d].key, wallet)
    BY <1>b DEF ReclRefs, SignedEarlier
  <2>2. NotNewer(recl[d].key, wallet')
    BY <1>b, <2>1, NotNewerKept DEF NotNewer
  <2> QED
    BY <1>b, <2>2
<1>c. ASSUME ReclTake(d) PROVE NotNewer(recl'[d].key, wallet')
  <2>1. PICK o \in recl[d].batch : ReclTake(d)!(o)
    BY <1>c DEF ReclTake
  <2>2. o \in Orders /\ stamp[o] \in Stamps
    BY <1>a DEF ReclTasks, ReclRefs
  <2>3. recl'[d].key = Signed(o, stamp[o])
    BY <1>a, <2>1 DEF ReclTasks, ReclIdle
  <2>4. NotNewer(recl'[d].key, wallet) /\ wallet' = wallet
    BY <2>1, <2>2, <2>3, SignedNow DEF setVars
  <2> QED
    BY <2>4 DEF NotNewer, WalletOf
<1>d. ASSUME ~ReclTake(d) PROVE recl[d].pc # "idle" /\ recl'[d].key = recl[d].key
  <2>1. CASE UNCHANGED recl
    BY <2>1
  <2>2. ASSUME NEW c \in Copiers, ReclTake(c) PROVE recl[d].pc # "idle" /\ recl'[d].key = recl[d].key
    <3>1. c # d
      BY <1>d, <2>2
    <3> QED
      BY <1>a, <2>2, <3>1 DEF ReclTake, ReclTasks
  <2>3. ASSUME NEW c \in Copiers,
           ReclPull(c) \/ ReclOk(c) \/ ReclErr(c) \/ ReclMark(c) \/ ReclFail(c) \/ ReclMarkErr(c)
        \/ ReclDbErr(c) \/ Crash(c)
        PROVE recl[d].pc # "idle" /\ recl'[d].key = recl[d].key
    BY <1>a, <2>3 DEF ReclPull, ReclOk, ReclErr, ReclMark, ReclFail, ReclMarkErr, ReclDbErr, Crash,
       ReclDone, ReclIdle, ReclTasks
  <2> QED
    BY <2>1, <2>2, <2>3, ReclFrame
<1> QED
  BY <1>b, <1>c, <1>d

\* The same for what is on the wire or at the venue.
LEMMA PostedEarlier ==
  ASSUME TypeOK, Refs, SignedEarlier, [Next]_vars, NEW k \in Posted'
  PROVE  NotNewer(k, wallet')
<1>a. k \in Keys
  BY WireType DEF Posted, AtVenue, Refs
<1>b. CASE k \in Posted
  BY <1>a, <1>b, NotNewerKept DEF SignedEarlier
<1>c. ASSUME k \notin Posted, k \in wire' PROVE NotNewer(k, wallet')
  <2>1. k \notin wire
    BY <1>c DEF Posted
  <2>2. ASSUME NEW c \in Copiers, ReclTake(c) PROVE NotNewer(k, wallet')
    <3>1. PICK o \in recl[c].batch : ReclTake(c)!(o)
      BY <2>2 DEF ReclTake
    <3>2. o \in Orders /\ stamp[o] \in Stamps
      BY DEF TypeOK, TaskTypeOK, ReclTasks, Refs, ReclRefs
    <3>3. k = Signed(o, stamp[o]) /\ wallet' = wallet
      BY <1>c, <2>1, <3>1 DEF setVars
    <3> QED
      BY <3>2, <3>3, SignedNow DEF NotNewer, WalletOf
  <2>3. ASSUME NEW c \in Copiers, ExecPost(c) PROVE NotNewer(k, wallet')
    <3>1. k = exec[c].key /\ wallet' = wallet /\ exec[c].pc = "claimed"
      BY <1>c, <2>1, <2>3 DEF ExecPost, setVars
    <3> QED
      BY <3>1 DEF SignedEarlier, NotNewer, WalletOf
  <2> QED
    BY <1>c, <2>1, <2>2, <2>3, WireFrame DEF VenueAccept, VenueRefuse
<1>d. ASSUME k \notin wire' PROVE k \in Posted
  <2>a. venue \in [Keys -> Sightings] /\ venue'[k].st # "unknown"
    BY <1>d DEF Posted, AtVenue, TypeOK, VenueTypeOK
  <2>1. ASSUME NEW c \in Copiers, ReconCancel(c) PROVE venue[k].st # "unknown"
    BY <1>a, <2>a, <2>1 DEF ReconCancel, Sightings
  <2>2. ASSUME NEW j \in Keys, VenueAccept(j) PROVE venue[k].st # "unknown" \/ k \in wire
    BY <1>a, <2>a, <2>2 DEF VenueAccept, Sightings
  <2>3. ASSUME NEW j \in Keys, VenueFill(j) PROVE venue[k].st # "unknown"
    BY <1>a, <2>a, <2>3 DEF VenueFill, Sightings
  <2>4. ASSUME NEW j \in Keys, VenueSettle(j) PROVE venue[k].st # "unknown"
    BY <1>a, <2>a, <2>4 DEF VenueSettle, Sightings
  <2> QED
    BY <1>a, <2>a, <2>1, <2>2, <2>3, <2>4, VenueFrame DEF Posted, AtVenue
<1> QED
  BY <1>b, <1>c, <1>d

\* Every step keeps the order of the wallets.
LEMMA EarlierStep ==
  ASSUME TypeOK, Refs, SignedEarlier, [Next]_vars
  PROVE  SignedEarlier'
<1>1. \A d \in Copiers : exec'[d].pc \in {"ready", "claimed", "posting", "accepted"} => NotNewer(exec'[d].key, wallet')
  BY ExecEarlier DEF Refs
<1>2. \A d \in Copiers : recl'[d].pc # "idle" => NotNewer(recl'[d].key, wallet')
  BY ReclEarlier DEF Refs
<1>3. \A k \in Posted' : NotNewer(k, wallet')
  BY PostedEarlier
<1> QED
  BY <1>1, <1>2, <1>3 DEF SignedEarlier, NotNewer

-----------------------------------------------------------------------------
\* Every step keeps what the venue is known to have.
LEMMA ExecKnown ==
  ASSUME TypeOK, Refs, Known, [Next]_vars, NEW d \in Copiers, exec'[d].pc = "accepted"
  PROVE  venue'[exec'[d].key].st # "unknown"
<1>a. exec \in [Copiers -> ExecTasks]
  BY DEF TypeOK, TaskTypeOK
<1>b. CASE exec[d].pc = "accepted" /\ exec'[d].key = exec[d].key
  <2>1. exec[d].key \in Keys /\ venue[exec[d].key].st # "unknown"
    BY <1>b DEF Refs, ExecRefs, Known
  <2> QED
    BY <1>b, <2>1, KnownKept DEF Refs
<1>c. ASSUME ExecOk(d) PROVE venue'[exec'[d].key].st # "unknown"
  <2>1. exec'[d].key = exec[d].key
    BY <1>a, <1>c DEF ExecOk, ExecTasks
  <2> QED
    BY <1>c, <2>1 DEF ExecOk, venueVars
<1>d. ASSUME ~ExecOk(d) PROVE exec[d].pc = "accepted" /\ exec'[d].key = exec[d].key
  <2>1. CASE UNCHANGED exec
    BY <2>1
  <2>2. ASSUME NEW c \in Copiers, ExecOk(c) PROVE exec[d].pc = "accepted" /\ exec'[d].key = exec[d].key
    <3>1. c # d
      BY <1>d, <2>2
    <3> QED
      BY <1>a, <2>2, <3>1 DEF ExecOk, ExecTasks
  <2>3. ASSUME NEW c \in Copiers, ExecPull(c)
        PROVE exec[d].pc = "accepted" /\ exec'[d].key = exec[d].key
    BY <1>a, <2>3 DEF ExecPull, ExecTasks
  <2>4. ASSUME NEW c \in Copiers, ExecTake(c)
        PROVE exec[d].pc = "accepted" /\ exec'[d].key = exec[d].key
    BY <1>a, <2>4 DEF ExecTake, ExecTasks
  <2>5. ASSUME NEW c \in Copiers, ExecDone(c)
        PROVE exec[d].pc = "accepted" /\ exec'[d].key = exec[d].key
    BY <1>a, <2>5 DEF ExecDone, ExecIdle, ExecTasks
  <2>6. ASSUME NEW c \in Copiers, Crash(c)
        PROVE exec[d].pc = "accepted" /\ exec'[d].key = exec[d].key
    BY <1>a, <2>6 DEF Crash, ExecIdle, ExecTasks
  <2>7. ASSUME NEW c \in Copiers, ExecClaim(c)
        PROVE exec[d].pc = "accepted" /\ exec'[d].key = exec[d].key
    BY <1>a, <2>7 DEF ExecClaim, ExecTasks
  <2>8. ASSUME NEW c \in Copiers, ExecPost(c)
        PROVE exec[d].pc = "accepted" /\ exec'[d].key = exec[d].key
    BY <1>a, <2>8 DEF ExecPost, ExecTasks
  <2>9. ASSUME NEW c \in Copiers, ExecReady(c)
        PROVE exec[d].pc = "accepted" /\ exec'[d].key = exec[d].key
    BY <1>a, <2>9 DEF ExecReady, ExecTasks
  <2>10. ASSUME NEW c \in Copiers, ExecErr(c)
        PROVE exec[d].pc = "accepted" /\ exec'[d].key = exec[d].key
    BY <1>a, <2>10 DEF ExecErr, ExecTasks
  <2>11. ASSUME NEW c \in Copiers, ExecDryBook(c)
        PROVE exec[d].pc = "accepted" /\ exec'[d].key = exec[d].key
    BY <1>a, <2>11 DEF ExecDryBook, ExecTasks
  <2>12. ASSUME NEW c \in Copiers, ExecMarkErr(c)
        PROVE exec[d].pc = "accepted" /\ exec'[d].key = exec[d].key
    BY <1>a, <2>12 DEF ExecMarkErr, ExecTasks
  <2> QED
    BY <2>1, <2>2, <2>3, <2>4, <2>5, <2>6, <2>7, <2>8, <2>9, <2>10, <2>11, <2>12, ExecFrame
       DEF ExecSkip, ExecGiveUp, ExecDrySign, ExecMark, ExecFail, ExecDryClose, ExecDbErr
<1> QED
  BY <1>b, <1>c, <1>d

\* What reclaim has been told is accepted stays known.
LEMMA ReclKnown ==
  ASSUME TypeOK, Refs, Known, [Next]_vars, NEW d \in Copiers, recl'[d].pc = "accepted"
  PROVE  venue'[recl'[d].key].st # "unknown"
<1>a. recl \in [Copiers -> ReclTasks]
  BY DEF TypeOK, TaskTypeOK
<1>b. CASE recl[d].pc = "accepted" /\ recl'[d].key = recl[d].key
  <2>1. recl[d].key \in Keys /\ venue[recl[d].key].st # "unknown"
    BY <1>b DEF Refs, ReclRefs, Known
  <2> QED
    BY <1>b, <2>1, KnownKept DEF Refs
<1>c. ASSUME ReclOk(d) PROVE venue'[recl'[d].key].st # "unknown"
  <2>1. recl'[d].key = recl[d].key
    BY <1>a, <1>c DEF ReclOk, ReclTasks
  <2> QED
    BY <1>c, <2>1 DEF ReclOk, venueVars
<1>d. ASSUME ~ReclOk(d) PROVE recl[d].pc = "accepted" /\ recl'[d].key = recl[d].key
  <2>1. CASE UNCHANGED recl
    BY <2>1
  <2>2. ASSUME NEW c \in Copiers, ReclOk(c) PROVE recl[d].pc = "accepted" /\ recl'[d].key = recl[d].key
    <3>1. c # d
      BY <1>d, <2>2
    <3> QED
      BY <1>a, <2>2, <3>1 DEF ReclOk, ReclTasks
  <2>3. ASSUME NEW c \in Copiers,
           ReclPull(c) \/ ReclTake(c) \/ ReclErr(c) \/ ReclMark(c) \/ ReclFail(c) \/ ReclMarkErr(c)
        \/ ReclDbErr(c) \/ Crash(c)
        PROVE recl[d].pc = "accepted" /\ recl'[d].key = recl[d].key
    BY <1>a, <2>3 DEF ReclPull, ReclTake, ReclErr, ReclMark, ReclFail, ReclMarkErr, ReclDbErr, Crash,
       ReclDone, ReclIdle, ReclTasks
  <2> QED
    BY <2>1, <2>2, <2>3, ReclFrame
<1> QED
  BY <1>b, <1>c, <1>d

\* Who marks a row has the venue's acceptance of the id it writes.
LEMMA IdKnown ==
  ASSUME TypeOK, Refs, IdIsLate, Known, [Next]_vars, NEW o \in Orders
  PROVE  /\ venueId'[o] # None => venue'[venueId'[o]].st # "unknown"
         /\ status'[o] = "submitted" => venueId'[o] # None
<1>a. TypeOK /\ venueId \in [Orders -> Keys \cup {None}] /\ status \in [Orders -> Statuses]
  BY DEF TypeOK, RowsTypeOK
<1>b. ASSUME venueId[o] # None PROVE venueId'[o] # None /\ venue'[venueId'[o]].st # "unknown"
  <2>1. venueId[o] \in Keys /\ venue[venueId[o]].st # "unknown"
    BY <1>a, <1>b DEF Known
  <2> QED
    BY <1>b, <2>1, IdKept, KnownKept DEF Refs
<1>c. ASSUME NEW k \in Keys, venue[k].st # "unknown", NEW p \in Orders, venueId[o] = None,
             MarkSubmitted(p, k), UNCHANGED venue
      PROVE  /\ venueId'[o] # None => venue'[venueId'[o]].st # "unknown"
             /\ status'[o] = "submitted" => venueId'[o] # None
  BY <1>a, <1>c, NoneAssumption DEF MarkSubmitted, Known
<1>d. ASSUME NEW c \in Copiers, venueId[o] = None, ExecMark(c) \/ ExecMarkErr(c)
      PROVE  /\ venueId'[o] # None => venue'[venueId'[o]].st # "unknown"
             /\ status'[o] = "submitted" => venueId'[o] # None
  <2>1. exec[c].key \in Keys /\ venue[exec[c].key].st # "unknown" /\ exec[c].order \in Orders
    BY <1>d DEF ExecMark, ExecMarkErr, Refs, ExecRefs, Known
  <2>2. venue' = venue /\ (MarkSubmitted(exec[c].order, exec[c].key) \/ UNCHANGED <<status, venueId, aged>>)
    BY <1>d DEF ExecMark, ExecMarkErr, venueVars
  <2>3. CASE UNCHANGED <<status, venueId, aged>>
    BY <1>d, <2>3 DEF Known
  <2> QED
    BY <1>c, <1>d, <2>1, <2>2, <2>3
<1>e. ASSUME NEW c \in Copiers, venueId[o] = None, ReclMark(c) \/ ReclMarkErr(c)
      PROVE  /\ venueId'[o] # None => venue'[venueId'[o]].st # "unknown"
             /\ status'[o] = "submitted" => venueId'[o] # None
  <2>1. recl[c].key \in Keys /\ venue[recl[c].key].st # "unknown"
    BY <1>e DEF ReclMark, ReclMarkErr, Refs, ReclRefs, Known
  <2>a. recl[c].key.order \in Orders
    BY <2>1 DEF Keys
  <2>2. venue' = venue /\ (MarkSubmitted(recl[c].key.order, recl[c].key) \/ UNCHANGED <<status, venueId, aged>>)
    BY <1>e DEF ReclMark, ReclMarkErr, venueVars
  <2>3. CASE UNCHANGED <<status, venueId, aged>>
    BY <1>e, <2>3 DEF Known
  <2> QED
    BY <1>c, <1>e, <2>1, <2>a, <2>2, <2>3
<1>f. ASSUME venueId[o] = None, UNCHANGED venueId
      PROVE  status'[o] # "submitted" \/ \E c \in Copiers : ExecMark(c) \/ ExecMarkErr(c) \/ ReclMark(c) \/ ReclMarkErr(c)
  BY <1>a, <1>f, StatusFrame DEF Known, ExecSkip, ExecClaim, ExecDrySign, ExecFail, ExecDryClose, ReclFail,
     ReconClose, WriteStatus
<1> QED
  BY <1>b, <1>d, <1>e, <1>f, VenueIdFrame

\* Every step keeps what is known.
LEMMA KnownStep ==
  ASSUME TypeOK, Refs, IdIsLate, Known, [Next]_vars
  PROVE  Known'
<1>1. \A d \in Copiers : exec'[d].pc = "accepted" => venue'[exec'[d].key].st # "unknown"
  BY ExecKnown
<1>2. \A d \in Copiers : recl'[d].pc = "accepted" => venue'[recl'[d].key].st # "unknown"
  BY ReclKnown
<1>3. \A o \in Orders : venueId'[o] # None => venue'[venueId'[o]].st # "unknown"
  BY IdKnown
<1>4. \A o \in Orders : status'[o] = "submitted" => venueId'[o] # None
  BY IdKnown
<1>5. \A k \in Keys : venue'[k].st = "unknown" => venue'[k].filled = 0
  BY UnknownEmpty DEF Refs
<1> QED
  BY <1>1, <1>2, <1>3, <1>4, <1>5 DEF Known

\* In a fleet in which every process has COPIER_DRY_RUN nobody claims, so nobody reclaims.
LEMMA UnclaimedStep ==
  ASSUME TypeOK, Refs, Unclaimed, \A c \in Copiers : mode[c].dry, [Next]_vars
  PROVE  Unclaimed'
<1>a. /\ exec \in [Copiers -> ExecTasks] /\ recl \in [Copiers -> ReclTasks]
      /\ status \in [Orders -> Statuses]
  BY DEF TypeOK, TaskTypeOK, RowsTypeOK
<1>b. \A c \in Copiers : exec[c].pc \in {"idle", "checks", "closing"}
  BY DEF Unclaimed
<1>c. \A c \in Copiers : recl[c].pc = "idle" /\ recl[c].batch = {}
  BY DEF Unclaimed, ReclIdle
<1>1. ASSUME NEW o \in Orders PROVE status'[o] \notin {"dispatched", "submitted"}
  <2>1. \A c \in Copiers : /\ ~ExecClaim(c) /\ ~ExecMark(c) /\ ~ExecMarkErr(c)
                            /\ ~ReclMark(c) /\ ~ReclMarkErr(c)
    BY DEF Unclaimed, ReclIdle, ExecClaim, ExecMark, ExecMarkErr, ReclMark, ReclMarkErr
  <2> QED
    BY <1>a, <2>1, StatusFrame
       DEF Unclaimed, ExecSkip, ExecDrySign, ExecFail, ExecDryClose, ReclFail, ReconClose, WriteStatus
<1>2. ASSUME NEW d \in Copiers PROVE exec'[d].pc \in {"idle", "checks", "closing"}
  <2>1. \A c \in Copiers : /\ ~ExecReady(c) /\ ~ExecClaim(c) /\ ~ExecPost(c) /\ ~ExecOk(c)
                            /\ ~ExecErr(c) /\ ~ExecMarkErr(c) /\ ~ExecMark(c) /\ ~ExecDrySign(c)
                            /\ ~ExecFail(c) /\ ~ExecGiveUp(c)
    BY DEF Unclaimed, ExecReady, ExecClaim, ExecPost, ExecOk, ExecErr, ExecMarkErr, ExecMark,
           ExecDrySign, ExecFail, ExecGiveUp
  <2>2. ASSUME NEW c \in Copiers, ExecPull(c) PROVE exec'[d].pc \in {"idle", "checks", "closing"}
    BY <1>a, <1>b, <2>2 DEF ExecPull, ExecTasks
  <2>4. ASSUME NEW c \in Copiers, ExecTake(c) PROVE exec'[d].pc \in {"idle", "checks", "closing"}
    BY <1>a, <1>b, <2>4 DEF ExecTake, ExecTasks
  <2>5. ASSUME NEW c \in Copiers, ExecDryBook(c) PROVE exec'[d].pc \in {"idle", "checks", "closing"}
    BY <1>a, <1>b, <2>5 DEF ExecDryBook, ExecTasks
  <2>3. ASSUME NEW c \in Copiers, ExecDone(c) \/ Crash(c)
        PROVE  exec'[d].pc \in {"idle", "checks", "closing"}
    BY <1>a, <1>b, <2>3 DEF ExecDone, Crash, ExecIdle, ExecTasks
  <2> QED
    BY <2>1, <2>2, <2>3, <2>4, <2>5, ExecFrame DEF Unclaimed, ExecSkip, ExecDryClose, ExecDbErr
<1>3. ASSUME NEW d \in Copiers PROVE recl'[d] = ReclIdle
  <2>1. \A c \in Copiers : /\ ~ReclPull(c) /\ ~ReclTake(c) /\ ~ReclOk(c) /\ ~ReclErr(c) /\ ~ReclMark(c)
                            /\ ~ReclMarkErr(c) /\ ~ReclFail(c) /\ ~ReclDbErr(c)
    <3>1. \A c \in Copiers : ~ReclPull(c)
      BY DEF Unclaimed, ReclPull, TypeOK, RowsTypeOK
    <3>2. \A c \in Copiers : ~ReclTake(c)
      BY <1>c DEF ReclTake
    <3> QED
      BY <1>c, <3>1, <3>2 DEF ReclOk, ReclErr, ReclMark, ReclMarkErr, ReclFail, ReclDbErr
  <2>2. ASSUME NEW c \in Copiers, Crash(c) PROVE recl'[d] = ReclIdle
    BY <1>a, <2>2 DEF Crash, Unclaimed
  <2> QED
    BY <2>1, <2>2, ReclFrame DEF Unclaimed, Reclaim
<1> QED
  BY <1>1, <1>2, <1>3 DEF Unclaimed

\* A fleet that cannot send has nothing on its way.
LEMMA PostedNone ==
  ASSUME TypeOK, Silent, Mute, Posted = {}, [Next]_vars
  PROVE  Posted' = {}
<1>0. \A c \in Copiers : (~ExecPost(c) /\ ~ReclTake(c)) \/ UNCHANGED wire
  <2>1. CASE \A c \in Copiers : ~mode[c].post
    BY <2>1 DEF ExecPost, ReclTake
  <2>2. CASE \A c \in Copiers : mode[c].dry
    BY <2>2 DEF ExecPost, ReclTake, Silent, Unclaimed, ReclIdle
  <2> QED
    BY <2>1, <2>2 DEF Mute
<1>1. wire' = {}
  BY <1>0, WireFrame DEF Posted, VenueAccept, VenueRefuse
<1>2. ASSUME NEW k \in Keys, venue[k].st = "unknown" PROVE venue'[k].st = "unknown"
  <2>a. venue \in [Keys -> Sightings]
    BY DEF TypeOK, VenueTypeOK
  <2>1. ASSUME NEW c \in Copiers, ReconCancel(c) PROVE venue'[k].st = "unknown"
    BY <1>2, <2>a, <2>1 DEF ReconCancel, Sightings
  <2>2. ASSUME NEW j \in Keys, VenueAccept(j) PROVE FALSE
    BY <2>2 DEF VenueAccept, Posted
  <2>3. ASSUME NEW j \in Keys, VenueFill(j) PROVE venue'[k].st = "unknown"
    BY <1>2, <2>a, <2>3 DEF VenueFill, Sightings
  <2>4. ASSUME NEW j \in Keys, VenueSettle(j) PROVE venue'[k].st = "unknown"
    BY <1>2, <2>a, <2>4 DEF VenueSettle, Sightings
  <2> QED
    BY <1>2, <2>1, <2>2, <2>3, <2>4, VenueFrame
<1>3. AtVenue' = {}
  BY <1>2 DEF Posted, AtVenue
<1> QED
  BY <1>1, <1>3 DEF Posted

\* Only a dry run closes a row by itself.
LEMMA SilentStep ==
  ASSUME TypeOK, Refs, Silent, [Next]_vars
  PROVE  Silent'
<1>a. exec \in [Copiers -> ExecTasks]
  BY DEF TypeOK, TaskTypeOK
<1>1. ASSUME NEW d \in Copiers PROVE exec'[d].pc = "closing" => mode[d].dry
  <2>1. ASSUME NEW c \in Copiers, ExecPull(c) PROVE exec'[d].pc = "closing" => mode[d].dry
    BY <1>a, <2>1 DEF ExecPull, ExecTasks, Silent
  <2>2. ASSUME NEW c \in Copiers, ExecTake(c) PROVE exec'[d].pc = "closing" => mode[d].dry
    BY <1>a, <2>2 DEF ExecTake, ExecTasks, Silent
  <2>3. ASSUME NEW c \in Copiers, ExecReady(c) PROVE exec'[d].pc = "closing" => mode[d].dry
    BY <1>a, <2>3 DEF ExecReady, ExecTasks, Silent
  <2>4. ASSUME NEW c \in Copiers, ExecClaim(c) PROVE exec'[d].pc = "closing" => mode[d].dry
    BY <1>a, <2>4 DEF ExecClaim, ExecTasks, Silent
  <2>5. ASSUME NEW c \in Copiers, ExecPost(c) PROVE exec'[d].pc = "closing" => mode[d].dry
    BY <1>a, <2>5 DEF ExecPost, ExecTasks, Silent
  <2>6. ASSUME NEW c \in Copiers, ExecOk(c) PROVE exec'[d].pc = "closing" => mode[d].dry
    BY <1>a, <2>6 DEF ExecOk, ExecTasks, Silent
  <2>7. ASSUME NEW c \in Copiers, ExecErr(c) PROVE exec'[d].pc = "closing" => mode[d].dry
    BY <1>a, <2>7 DEF ExecErr, ExecTasks, Silent
  <2>8. ASSUME NEW c \in Copiers, ExecDryBook(c) PROVE exec'[d].pc = "closing" => mode[d].dry
    BY <1>a, <2>8 DEF ExecDryBook, ExecTasks, Silent
  <2>9. ASSUME NEW c \in Copiers, ExecMarkErr(c) PROVE exec'[d].pc = "closing" => mode[d].dry
    BY <1>a, <2>9 DEF ExecMarkErr, ExecTasks, Silent
  <2>10. ASSUME NEW c \in Copiers, ExecDone(c) PROVE exec'[d].pc = "closing" => mode[d].dry
    BY <1>a, <2>10 DEF ExecDone, ExecIdle, ExecTasks, Silent
  <2>11. ASSUME NEW c \in Copiers, Crash(c) PROVE exec'[d].pc = "closing" => mode[d].dry
    BY <1>a, <2>11 DEF Crash, ExecIdle, ExecTasks, Silent
  <2> QED
    BY <2>1, <2>2, <2>3, <2>4, <2>5, <2>6, <2>7, <2>8, <2>9, <2>10, <2>11, ExecFrame
       DEF Silent, ExecSkip, ExecGiveUp, ExecDrySign, ExecMark, ExecFail, ExecDryClose, ExecDbErr
<1> QED
  BY <1>1, PostedNone, UnclaimedStep, ModeFrame DEF Silent, Mute

\* What is about to be closed stays what it was: settled, or of a former wallet.
LEMMA ClosingKept ==
  ASSUME TypeOK, ReconRefs, IdIsLate, ClosingIsSure, [Next]_vars,
         NEW d \in Copiers, recon[d].pc = "closing", recon'[d] = recon[d]
  PROVE  LET k == venueId'[recon'[d].order] IN
         \/ recon'[d].seen.st = "unknown" /\ (k \in Reads404 \/ k.wallet < wallet'[UserOf[recon'[d].order]])
         \/ /\ recon'[d].seen.st \in Settled
            /\ recon'[d].seen.st = venue'[k].st /\ recon'[d].seen.filled = venue'[k].filled
            /\ recon'[d].seen.filled > 0 => execution'[recon'[d].order] # None
<1> DEFINE o == recon[d].order
           k == venueId[o]
<1>1. o \in Orders /\ k \in Keys /\ venueId'[o] = k
  BY IdKept DEF ReconRefs
<1>2. CASE recon[d].seen.st = "unknown" /\ (k \in Reads404 \/ k.wallet < WalletOf(o))
  <2>1. k.wallet \in Nat
    BY <1>1 DEF Keys, Wallets
  <2>2. k.wallet < WalletOf(o) => k.wallet < wallet'[UserOf[o]]
    BY <1>1, <2>1, WalletGrows DEF WalletOf
  <2> QED
    BY <1>1, <1>2, <2>2
<1>3. CASE /\ recon[d].seen.st \in Settled
           /\ recon[d].seen.st = venue[k].st /\ recon[d].seen.filled = venue[k].filled
           /\ recon[d].seen.filled > 0 => execution[o] # None
  BY <1>1, <1>3, SettledKept, ExecutionKept
<1> QED
  BY <1>2, <1>3 DEF ClosingIsSure

\* Every step keeps what reconcile is about to close sure.
LEMMA ClosingStep ==
  ASSUME TypeOK, Refs, IdIsLate, SeenIsSettled, RInv, SignedEarlier, Known, ClosingIsSure, [Next]_vars,
         NEW d \in Copiers, recon'[d].pc = "closing"
  PROVE  LET k == venueId'[recon'[d].order] IN
         \/ recon'[d].seen.st = "unknown" /\ (k \in Reads404 \/ k.wallet < wallet'[UserOf[recon'[d].order]])
         \/ /\ recon'[d].seen.st \in Settled
            /\ recon'[d].seen.st = venue'[k].st /\ recon'[d].seen.filled = venue'[k].filled
            /\ recon'[d].seen.filled > 0 => execution'[recon'[d].order] # None
<1> DEFINE Sure ==
         LET k == venueId'[recon'[d].order] IN
         \/ recon'[d].seen.st = "unknown" /\ (k \in Reads404 \/ k.wallet < wallet'[UserOf[recon'[d].order]])
         \/ /\ recon'[d].seen.st \in Settled
            /\ recon'[d].seen.st = venue'[k].st /\ recon'[d].seen.filled = venue'[k].filled
            /\ recon'[d].seen.filled > 0 => execution'[recon'[d].order] # None
<1>a. recon \in [Copiers -> ReconTasks]
  BY DEF TypeOK, TaskTypeOK
<1>1. CASE recon'[d] = recon[d]
  BY <1>1, ClosingKept DEF Refs
<1>2. ASSUME ReconAsk(d) PROVE Sure
  <2>1. PICK o \in recon[d].batch : ReconAsk(d)!(o)
    BY <1>2 DEF ReconAsk
  <2>2. o \in Orders /\ venueId[o] \in Keys
    BY <1>a DEF ReconTasks, Refs, ReconRefs
  <2> DEFINE k == venueId[o]
             seen == IF WalletOf(o) = k.wallet THEN venue[k] ELSE Unseen
  <2>3. recon'[d].order = o /\ recon'[d].seen = seen /\ Verdict(o, seen) = "closing"
    BY <1>a, <2>1 DEF ReconTasks, ReconIdle
  <2>4. venue' = venue /\ venueId' = venueId /\ wallet' = wallet
    BY <2>1 DEF dbVars, setVars, venueVars
  <2>5. k \in Posted /\ k.order = o /\ venue[k] \in Sightings /\ venue[k].st # "unknown"
    BY <2>2, NoneAssumption DEF RInv, IdIsOwn, Known, Posted, AtVenue, TypeOK, VenueTypeOK
  <2>6. k.wallet <= WalletOf(o) /\ k.wallet \in Nat /\ WalletOf(o) \in Nat
    BY <2>2, <2>5, WalletGrows DEF SignedEarlier, NotNewer, WalletOf, Keys, Wallets
  <2>7. CASE WalletOf(o) = k.wallet
    <3>1. seen = venue[k]
      BY <2>7
    <3>2. venue[k].st = "cancelled" /\ ~(venue[k].filled > 0)
      BY <2>3, <2>5, <3>1 DEF Verdict, Sightings, VenueStates
    <3> QED
      BY <2>3, <2>4, <3>1, <3>2 DEF Settled
  <2>8. CASE WalletOf(o) # k.wallet
    <3>1. seen.st = "unknown"
      BY <2>8 DEF Unseen
    <3>2. k.wallet < wallet'[UserOf[o]]
      BY <2>4, <2>6, <2>8 DEF WalletOf
    <3> QED
      BY <2>3, <2>4, <3>1, <3>2
  <2> QED
    BY <2>7, <2>8
<1>3. ASSUME ReconBook(d) PROVE Sure
  <2> DEFINE o == recon[d].order
             k == venueId[o]
  <2>1. recon'[d].order = o /\ recon'[d].seen = recon[d].seen /\ recon[d].seen \in Sightings
    BY <1>a, <1>3 DEF ReconBook, ReconTasks
  <2>2. o \in Orders /\ k \in Keys /\ venue' = venue /\ venueId' = venueId
    BY <1>3 DEF ReconBook, Refs, ReconRefs, venueVars
  <2>3. recon[d].seen.st \in Settled /\ recon[d].seen.st = venue[k].st /\ recon[d].seen.filled = venue[k].filled
    BY <1>3 DEF ReconBook, SeenIsSettled
  <2>4. execution'[o] # None
    <3>1. execution \in [Orders -> (0 .. Size) \cup {None}] /\ recon[d].seen.filled # None
      BY <2>1, NoneAssumption DEF TypeOK, RowsTypeOK, Sightings
    <3> QED
      BY <1>3, <2>2, <3>1 DEF ReconBook, InsertExecution
  <2> QED
    BY <2>1, <2>2, <2>3, <2>4
<1>4. ASSUME ReconAskErr(d) PROVE Sure
  <2>1. PICK o \in recon[d].batch : ReconAskErr(d)!(o)
    BY <1>4 DEF ReconAskErr
  <2>2. recon'[d].order = o /\ recon'[d].seen = Unseen /\ venueId[o] \in Reads404
    BY <1>a, <2>1 DEF ReconTasks, ReconIdle
  <2>3. venueId' = venueId
    BY <2>1 DEF dbVars
  <2> QED
    BY <2>2, <2>3 DEF Unseen
<1>5. ASSUME NEW c \in Copiers,
             ReconPull(c) \/ ReconClose(c) \/ ReconCancel(c) \/ ReconErr(c) \/ Crash(c)
      PROVE  recon'[d] = recon[d]
  BY <1>a, <1>5 DEF ReconPull, ReconClose, ReconCancel, ReconErr, Crash, ReconDone, ReconIdle, ReconTasks
<1>6. ASSUME NEW c \in Copiers, c # d, ReconAsk(c) \/ ReconBook(c) \/ ReconAskErr(c)
      PROVE  recon'[d] = recon[d]
  BY <1>a, <1>6 DEF ReconAsk, ReconBook, ReconAskErr
<1> QED
  BY <1>1, <1>2, <1>3, <1>4, <1>5, <1>6, ReconFrame

\* Every step keeps the closed rows traced.
LEMMA ClosedStep ==
  ASSUME TypeOK, Refs, IdIsLate, Silent, ClosingIsSure, ClosedIsTraced, [Next]_vars
  PROVE  ClosedIsTraced'
<1> SUFFICES ASSUME NoneDry, NEW o \in Orders, status'[o] \in {"filled", "cancelled"}
             PROVE  /\ venueId'[o] \in Keys
                    /\ venue'[venueId'[o]].st \in Settled
                    /\ venue'[venueId'[o]].filled > 0 => execution'[o] # None
  BY ModeFrame DEF ClosedIsTraced
<1>1. ASSUME venueId[o] \in Keys, venue[venueId[o]].st \in Settled,
             venue[venueId[o]].filled > 0 => execution[o] # None
      PROVE  /\ venueId'[o] \in Keys
             /\ venue'[venueId'[o]].st \in Settled
             /\ venue'[venueId'[o]].filled > 0 => execution'[o] # None
  BY <1>1, IdKept, SettledKept, ExecutionKept
<1>2. CASE status'[o] = status[o]
  BY <1>1, <1>2 DEF ClosedIsTraced
<1>3. ASSUME NEW c \in Copiers, ReconClose(c), recon[c].order = o
      PROVE  /\ venueId[o] \in Keys /\ venue[venueId[o]].st \in Settled
             /\ venue[venueId[o]].filled > 0 => execution[o] # None
  <2>1. recon[c].pc = "closing" /\ venueId[o] \in Keys
    BY <1>3 DEF ReconClose, Refs, ReconRefs
  <2>2. recon[c].seen.st # "unknown"
    BY <1>3 DEF ReconClose, WriteStatus, TypeOK, RowsTypeOK
  <2> QED
    BY <1>3, <2>1, <2>2 DEF ClosingIsSure
<1>d. \A c \in Copiers : ~ExecDryClose(c)
  BY DEF Silent, NoneDry, ExecDryClose
<1>4. status'[o] = status[o] \/ \E c \in Copiers : ReconClose(c) /\ recon[c].order = o
  BY <1>d, StatusFrame DEF TypeOK, RowsTypeOK, ExecSkip, ExecClaim, ExecDrySign, ExecMark,
     ExecFail, ExecMarkErr, ReclMark, ReclMarkErr, ReclFail, ReconClose, WriteStatus, MarkSubmitted
<1> QED
  BY <1>1, <1>2, <1>3, <1>4

-----------------------------------------------------------------------------
\* With one process on the table

\* A row that is no longer pending was not touched while exec had it listed.
LEMMA ListedStep ==
  ASSUME OneCopier, TypeOK, Refs, IdIsLate, ListedIsPending, [Next]_vars
  PROVE  ListedIsPending'
<1> SUFFICES ASSUME NEW c \in Copiers
             PROVE  /\ exec'[c].pc \in {"checks", "ready"} => status'[exec'[c].order] = "pending"
                    /\ \A o \in exec'[c].batch : status'[o] = "pending" /\ (exec'[c].pc # "idle" => o # exec'[c].order)
  BY DEF ListedIsPending
<1> DEFINE Listed ==
         /\ exec'[c].pc \in {"checks", "ready"} => status'[exec'[c].order] = "pending"
         /\ \A o \in exec'[c].batch : status'[o] = "pending" /\ (exec'[c].pc # "idle" => o # exec'[c].order)
<1>a. /\ exec \in [Copiers -> ExecTasks] /\ status \in [Orders -> Statuses]
      /\ exec[c].batch \subseteq Orders
      /\ exec[c].pc # "idle" => exec[c].order \in Orders
      /\ exec[c].pc \in {"checks", "ready"} => status[exec[c].order] = "pending"
      /\ \A o \in exec[c].batch : status[o] = "pending" /\ (exec[c].pc # "idle" => o # exec[c].order)
  BY DEF TypeOK, TaskTypeOK, RowsTypeOK, Refs, ExecRefs, ListedIsPending, ExecTasks
\* The other tasks and the rest of the world leave pending rows alone.
<1>b. ASSUME UNCHANGED exec, \A o \in Orders : status[o] = "pending" => status'[o] = "pending"
      PROVE Listed
  BY <1>a, <1>b
<1>c. ASSUME UNCHANGED exec PROVE \A o \in Orders : status[o] = "pending" => status'[o] = "pending"
  <2> SUFFICES ASSUME NEW o \in Orders, status[o] = "pending" PROVE status'[o] = "pending"
    OBVIOUS
  <2>1. ASSUME NEW d \in Copiers, ReconClose(d) PROVE status'[o] = "pending"
    <3>1. recon[d].order \in Orders /\ venueId[recon[d].order] \in Keys
      BY <2>1 DEF ReconClose, Refs, ReconRefs
    <3>2. recon[d].order # o
      BY <3>1, NoneAssumption DEF IdIsLate
    <3> QED
      BY <1>a, <2>1, <3>1, <3>2 DEF ReconClose, WriteStatus
  <2>2. ASSUME NEW d \in Copiers, ReclMark(d) \/ ReclMarkErr(d) \/ ReclFail(d) PROVE status'[o] = "pending"
    BY <1>a, <2>2 DEF ReclMark, ReclMarkErr, ReclFail, WriteStatus, MarkSubmitted
  <2>3. ASSUME NEW d \in Copiers, ExecClaim(d) \/ ExecMarkErr(d) PROVE FALSE
    BY <1>a, <1>c, <2>3 DEF ExecClaim, ExecMarkErr, ExecTasks
  <2>4. ASSUME NEW d \in Copiers, ExecDone(d), exec[d].pc # "idle" PROVE FALSE
    BY <1>a, <1>c, <2>4 DEF ExecDone, ExecIdle, ExecTasks
  <2> QED
    BY <2>1, <2>2, <2>3, <2>4, StatusFrame DEF ExecSkip, ExecDrySign, ExecMark, ExecFail, ExecDryClose
\* Its own steps.
<1>1. ASSUME ExecDone(c), exec[c].pc # "idle",
             \A o \in Orders : o # exec[c].order => status'[o] = status[o]
      PROVE Listed
  <2>1. exec'[c].pc = "idle" /\ exec'[c].batch = exec[c].batch
    BY <1>a, <1>1 DEF ExecDone, ExecIdle
  <2> QED
    BY <1>a, <1>1, <2>1
<1>2. ASSUME ExecSkip(c) \/ ExecDrySign(c) \/ ExecFail(c) \/ ExecDryClose(c) PROVE Listed
  BY <1>1, <1>2, <1>a DEF ExecSkip, ExecDrySign, ExecFail, ExecDryClose, WriteStatus
<1>3. ASSUME ExecGiveUp(c) \/ ExecDbErr(c) PROVE Listed
  BY <1>1, <1>3 DEF ExecGiveUp, ExecDbErr, dbVars
<1>4. ASSUME ExecMark(c) PROVE Listed
  BY <1>1, <1>4, <1>a DEF ExecMark, MarkSubmitted
<1>5. ASSUME ExecMarkErr(c) PROVE Listed
  <2>1. exec'[c].pc = "failing" /\ exec'[c].batch = exec[c].batch /\ exec'[c].order = exec[c].order
    BY <1>a, <1>5 DEF ExecMarkErr, ExecTasks
  <2>2. \A o \in Orders : o # exec[c].order => status'[o] = status[o]
    BY <1>a, <1>5 DEF ExecMarkErr, MarkSubmitted
  <2> QED
    BY <1>a, <1>5, <2>1, <2>2 DEF ExecMarkErr
<1>6. ASSUME ExecClaim(c) PROVE Listed
  <2>1. exec'[c].pc = "claimed" /\ exec'[c].batch = exec[c].batch /\ exec'[c].order = exec[c].order
    BY <1>a, <1>6 DEF ExecClaim, ExecTasks
  <2>2. \A o \in Orders : o # exec[c].order => status'[o] = status[o]
    BY <1>a, <1>6 DEF ExecClaim, WriteStatus
  <2> QED
    BY <1>a, <1>6, <2>1, <2>2 DEF ExecClaim
<1>7. ASSUME ExecPull(c) PROVE Listed
  <2>1. exec'[c].pc = "idle" /\ exec'[c].batch = {o \in Orders : status[o] = "pending"} /\ status' = status
    BY <1>a, <1>7 DEF ExecPull, ExecTasks, dbVars
  <2> QED
    BY <2>1
<1>8. ASSUME ExecTake(c) PROVE Listed
  <2>1. PICK o \in exec[c].batch : exec' = [exec EXCEPT ![c].pc = "checks", ![c].order = o, ![c].batch = @ \ {o}]
    BY <1>8 DEF ExecTake
  <2>2. exec'[c].pc = "checks" /\ exec'[c].order = o /\ exec'[c].batch = exec[c].batch \ {o} /\ status' = status
    BY <1>a, <1>8, <2>1 DEF ExecTake, ExecTasks, dbVars
  <2> QED
    BY <1>a, <2>2
<1>9. ASSUME ExecReady(c) PROVE Listed
  <2>1. exec'[c].pc = "ready" /\ exec'[c].order = exec[c].order /\ exec'[c].batch = exec[c].batch /\ status' = status
    BY <1>a, <1>9 DEF ExecReady, ExecTasks, dbVars
  <2> QED
    BY <1>a, <1>9, <2>1 DEF ExecReady
<1>10. ASSUME ExecPost(c) \/ ExecOk(c) \/ ExecErr(c) \/ ExecDryBook(c) PROVE Listed
  <2>1. /\ exec'[c].pc \notin {"checks", "ready"} /\ exec'[c].order = exec[c].order
        /\ exec'[c].batch = exec[c].batch /\ status' = status /\ exec[c].pc # "idle"
    BY <1>a, <1>10 DEF ExecPost, ExecOk, ExecErr, ExecDryBook, ExecTasks, dbVars
  <2> QED
    BY <1>a, <2>1
<1>11. ASSUME Crash(c) PROVE Listed
  BY <1>a, <1>11 DEF Crash, ExecIdle
<1> QED
  BY <1>b, <1>c, <1>2, <1>3, <1>4, <1>5, <1>6, <1>7, <1>8, <1>9, <1>10, <1>11, ExecFrame DEF OneCopier

\* A row is turned down before it is claimed, never after.
LEMMA SkippedStep ==
  ASSUME TypeOK, Refs, PendingIsUnstamped, ListedIsPending, SkippedIsUnsigned, [Next]_vars
  PROVE  SkippedIsUnsigned'
<1> SUFFICES ASSUME NoneDry, AllPost, NEW o \in Orders, status'[o] = "skipped" PROVE stamp'[o] = None
  BY ModeFrame DEF SkippedIsUnsigned
<1>1. ASSUME NEW c \in Copiers, ExecSkip(c), exec[c].order = o PROVE stamp[o] = None
  BY <1>1 DEF ExecSkip, ListedIsPending, PendingIsUnstamped
<1>2. ASSUME status[o] # "skipped" PROVE \E c \in Copiers : ExecSkip(c) /\ exec[c].order = o
  BY <1>2, StatusFrame DEF TypeOK, RowsTypeOK, AllPost, NoneDry, ExecSkip, ExecClaim, ExecDrySign, ExecMark,
     ExecFail, ExecDryClose, ExecMarkErr, ReclMark, ReclMarkErr, ReclFail, ReconClose, WriteStatus, MarkSubmitted
<1>3. stamp[o] = None
  BY <1>1, <1>2 DEF SkippedIsUnsigned
<1>4. ASSUME NEW c \in Copiers, ExecClaim(c) PROVE exec[c].order # o
  BY <1>4 DEF ExecClaim, WriteStatus, TypeOK, RowsTypeOK
<1> QED
  BY <1>3, <1>4, StampFrame DEF ExecClaim, TypeOK, RowsTypeOK

-----------------------------------------------------------------------------
\* The first state has no row closed, no order signed and nobody at work.
LEMMA TraceInit == Init => AloneInv
<1> SUFFICES ASSUME Init PROVE AloneInv
  OBVIOUS
<1>1. RInv
  BY InitInv DEF RInv, IdIsOwn, Init
<1>2. Posted = {}
  BY DEF Init, Posted, AtVenue, Unseen
<1>3. SignedEarlier /\ Known /\ Silent /\ ClosingIsSure /\ ClosedIsTraced
  BY <1>2 DEF Init, SignedEarlier, Known, Silent, Unclaimed, ClosingIsSure, ClosedIsTraced, ExecIdle, ReclIdle, ReconIdle, Unseen
<1>4. ListedIsPending /\ SkippedIsUnsigned
  BY DEF Init, ListedIsPending, SkippedIsUnsigned, ExecIdle
<1> QED
  BY <1>1, <1>3, <1>4 DEF AloneInv, TraceInv

\* Every step keeps the invariant, with any number of processes.
LEMMA TraceStep == TraceInv /\ [Next]_vars => TraceInv'
<1> SUFFICES ASSUME TraceInv, [Next]_vars PROVE TraceInv'
  OBVIOUS
<1>1. TypeOK /\ Refs /\ IdIsLate /\ SeenIsSettled /\ RInv
  BY DEF TraceInv, RInv, IInv, Books
<1>2. RInv'
  BY <1>1, StepInv, IdOwnStep DEF RInv
<1>3. ClosingIsSure'
  BY <1>1, ClosingStep DEF TraceInv, ClosingIsSure, WalletOf
<1> QED
  BY <1>1, <1>2, <1>3, EarlierStep, KnownStep, SilentStep, ClosedStep DEF TraceInv

\* With one process every step keeps what exec has listed, too.
LEMMA AloneStep == OneCopier /\ AloneInv /\ [Next]_vars => AloneInv'
<1> SUFFICES ASSUME OneCopier, AloneInv, [Next]_vars PROVE AloneInv'
  OBVIOUS
<1>1. TypeOK /\ Refs /\ IdIsLate /\ PendingIsUnstamped
  BY DEF AloneInv, TraceInv, RInv, IInv, Books, Claims
<1> QED
  BY <1>1, TraceStep, ListedStep, SkippedStep DEF AloneInv

\* So it holds in every state that is reached.
LEMMA Tracing == Spec => []TraceInv
  BY TraceInit, TraceStep, PTL DEF Spec, AloneInv

\* The one process trades or nothing is sent, and nothing but the keys in rows can be filled.
LEMMA FillIsTraced ==
  ASSUME OneCopier, AloneInv PROVE NoLostFill
<1> SUFFICES ASSUME NEW k \in Keys, venue[k].filled > 0, wallet[UserOf[k.order]] = 1
             PROVE  \/ status[k.order] \in {"dispatched", "submitted", "failed"}
                    \/ status[k.order] \in {"filled", "cancelled"} /\ execution[k.order] = venue[k].filled
  BY DEF NoLostFill
<1> DEFINE o == k.order
           v == venueId[o]
<1>1. TypeOK /\ Refs /\ Claims /\ Books /\ IdIsOwn /\ SignedEarlier /\ Known /\ Silent /\ ClosedIsTraced /\ SkippedIsUnsigned
  BY DEF AloneInv, TraceInv, RInv, IInv
<1>2. o \in Orders /\ k.stamp \in Stamps /\ k.wallet \in Nat /\ k.wallet >= 1
  BY DEF Keys, Wallets
<1>3. k \in Posted
  BY <1>1 DEF Known, Posted, AtVenue
<1>4. NoneDry /\ AllPost
  BY <1>1, <1>3 DEF Silent, Mute, NoneDry, AllPost, OneCopier
<1>5. stamp[o] = k.stamp /\ stamp[o] # None
  BY <1>1, <1>2, <1>3, NoneAssumption DEF Claims, PostedSigned
<1>6. status[o] \in Statuses \ {"pending", "skipped"}
  BY <1>1, <1>2, <1>4, <1>5 DEF TypeOK, RowsTypeOK, Claims, PendingIsUnstamped, SkippedIsUnsigned
<1>7. CASE status[o] \in {"filled", "cancelled"}
  <2>1. v \in Keys /\ v \in Posted /\ v.order = o
    BY <1>1, <1>2, <1>4, <1>7, NoneAssumption DEF ClosedIsTraced, IdIsOwn, Known, Posted, AtVenue
  <2>2. v.stamp = k.stamp
    BY <1>1, <1>5, <2>1 DEF Claims, PostedSigned
  <2>3. k.wallet <= 1 /\ v.wallet <= 1
    BY <1>1, <1>3, <2>1 DEF SignedEarlier, NotNewer
  <2>4. v.wallet \in Nat /\ v.wallet >= 1
    BY <2>1 DEF Keys, Wallets
  <2>5. v = k
    BY <1>2, <2>1, <2>2, <2>3, <2>4 DEF Keys
  <2>6. execution[o] # None
    BY <1>1, <1>2, <1>4, <1>7, <2>5 DEF ClosedIsTraced
  <2> QED
    BY <1>1, <1>2, <1>4, <1>7, <2>5, <2>6 DEF Books, BooksMatchVenue
<1> QED
  BY <1>6, <1>7 DEF Statuses

\* Where one copier process works on the table, a fill is never lost: an order
\* of which the venue has filled a part is in flight, flagged as failed or closed
\* with that fill, and reconcile gives up only what the venue does not know,
\* whatever crashes, answers that never came and database errors lie in between
\* (exec.rs claims before it posts, reclaim asks the venue before it gives up,
\* reconcile books before it closes).  With two processes it is false: what one
\* claims and sends the other may turn down (run orders_lost_fill).
THEOREM FillsTraced == ASSUME OneCopier PROVE Spec => []FillsAreTraced
<1>1. AloneInv => OnlyMissingIsGivenUp
  <2> SUFFICES ASSUME AloneInv, NEW c \in Copiers, recon[c].pc = "closing", recon[c].seen.st = "unknown"
               PROVE  LET k == venueId[recon[c].order] IN
                      venue[k].st = "unknown" \/ k \in Reads404 \/ k.wallet # WalletOf(k.order)
    BY DEF OnlyMissingIsGivenUp
  <2> DEFINE k == venueId[recon[c].order]
  <2>1. TypeOK /\ ReconRefs /\ IdIsOwn /\ ClosingIsSure
    BY DEF AloneInv, TraceInv, RInv, IInv, Refs
  <2>2. recon[c].order \in Orders /\ k \in Keys /\ k.order = recon[c].order
    BY <2>1, NoneAssumption DEF ReconRefs, IdIsOwn
  <2>3. k \in Reads404 \/ k.wallet < WalletOf(recon[c].order)
    BY <2>1 DEF ClosingIsSure, Settled
  <2>4. k.wallet \in Nat /\ WalletOf(recon[c].order) \in Nat
    BY <2>1, <2>2, OrdersAssumption DEF Keys, Wallets, TypeOK, SetTypeOK, WalletOf
  <2> QED
    BY <2>2, <2>3, <2>4
<1>2. AloneInv => FillsAreTraced
  BY <1>1, FillIsTraced DEF FillsAreTraced
<1> QED
  BY <1>2, TraceInit, AloneStep, PTL DEF Spec

\* With any number of processes, crashes and races: a fleet without a process
\* under COPIER_DRY_RUN books nothing but the fill of a settled order, to the
\* share, and one in which nobody posts, or nobody claims, sends nothing and
\* leaves no row that looks sent (reconcile_worker.rs:145, exec.rs:425).
THEOREM FleetBooks == Spec => []EachFleetKeepsItsBooks
<1>1. TraceInv => EachFleetKeepsItsBooks
  <2> SUFFICES ASSUME TraceInv PROVE DryLeavesNoTrace
    BY DEF TraceInv, RInv, IInv, Books, EachFleetKeepsItsBooks
  <2> SUFFICES ASSUME Mute, NEW o \in Orders
               PROVE  Posted = {} /\ status[o] # "submitted" /\ venueId[o] = None
    BY DEF DryLeavesNoTrace, TraceInv, Silent
  <2>1. Posted = {}
    BY DEF TraceInv, Silent
  <2>2. venueId[o] = None
    BY <2>1 DEF TraceInv, RInv, IInv, TypeOK, RowsTypeOK, Known, Posted, AtVenue
  <2> QED
    BY <2>1, <2>2 DEF TraceInv, Known
<1> QED
  BY <1>1, Tracing, PTL
=============================================================================
