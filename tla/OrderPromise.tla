---------------------------- MODULE OrderPromise ----------------------------
(***************************************************************************)
(* What channel A promises of a copied order, without workers, timeouts,   *)
(* retries, crashes or a network: an order is taken once; taking it fixes  *)
(* the body that is signed; nothing but that body is ever sent for it; its *)
(* fill is booked once, as the venue settled it; it is called filled only  *)
(* with its fill in the books; and it never becomes open again.            *)
(* CopyOrders implements this specification.                               *)
(***************************************************************************)
EXTENDS Naturals

CONSTANTS
  Orders,
  Stamps,      \* the bodies an order may be signed with
  Keys,        \* what the venue tells orders apart by: order, stamp, wallet
  Size,
  None

VARIABLES
  fate,        \* "open", "taken", or an end: "filled" or "ended"
  body,        \* the body the order was taken with
  sent,        \* what is on its way to the venue or held by it
  final,       \* the size a settled order has filled at the venue
  books,       \* the size booked for an order
  trading      \* whether no process makes fills up: for good

vars == <<fate, body, sent, final, books>>

Ends == {"filled", "ended"}

-----------------------------------------------------------------------------
\* claim_copy_order: of all workers only one takes an order.
Take(o) ==
  /\ fate[o] = "open"
  /\ fate' = [fate EXCEPT ![o] = "taken"]
  /\ \E s \in Stamps : body' = [body EXCEPT ![o] = s]
  /\ UNCHANGED <<sent, final, books>>

\* place_order, the first time and in every retry.
Send(k) ==
  /\ k.stamp = body[k.order]
  /\ sent' = sent \cup {k}
  /\ UNCHANGED <<fate, body, final, books>>

\* The venue refuses a request or never receives it.
Lose(k) ==
  /\ final[k] = None
  /\ sent' = sent \ {k}
  /\ UNCHANGED <<fate, body, final, books>>

\* The venue is done with an order: matched, or cancelled with what it filled.
Settle(k) ==
  /\ k \in sent /\ final[k] = None
  /\ \E n \in 0 .. Size : final' = [final EXCEPT ![k] = n]
  /\ UNCHANGED <<fate, body, sent, books>>

\* The fill goes to the books; in a rehearsal a made-up one does.
Book(o) ==
  /\ books[o] = None
  /\ \E n \in 0 .. Size :
       /\ trading => \E k \in sent : k.order = o /\ final[k] = n
       /\ books' = [books EXCEPT ![o] = n]
  /\ UNCHANGED <<fate, body, sent, final>>

End(o) ==
  /\ \E e \in Ends :
       /\ e = "filled" => books[o] # None
       /\ fate' = [fate EXCEPT ![o] = e]
  /\ UNCHANGED <<body, sent, final, books>>

-----------------------------------------------------------------------------
Init ==
  /\ fate  = [o \in Orders |-> "open"]
  /\ body  = [o \in Orders |-> None]
  /\ sent  = {}
  /\ final = [k \in Keys |-> None]
  /\ books = [o \in Orders |-> None]

Next ==
  \/ \E o \in Orders : Take(o) \/ Book(o) \/ End(o)
  \/ \E k \in Keys : Send(k) \/ Lose(k) \/ Settle(k)

Spec == Init /\ [][Next]_vars /\ [][FALSE]_trading
=============================================================================
