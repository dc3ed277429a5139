----------------------------- MODULE StripeSync -----------------------------
(***************************************************************************)
(* One payment at Stripe with its refunds, and the rows of orders and of   *)
(* order_refunds apps/api keeps for them: the webhook stores what an event *)
(* says, the endpoints and the history jobs what they retrieve.            *)
(*                                                                         *)
(* A row is looked up and then written whatever it has become; nothing     *)
(* compares the age of what is stored with the age of what is known.       *)
(*                                                                         *)
(* Stripe is external: it sends an event for each change, until it is      *)
(* answered and maybe again, in any order.  charge.refunded stands for     *)
(* some refund events delivered again.                                     *)
(***************************************************************************)
EXTENDS Sequences, Mishaps

CONSTANTS
    StripeRefund,      \* refunds of the payment
    Syncer,            \* webhook calls, endpoints and jobs at work
    MaxOrders,         \* bound on the orders made for the payment
    MaxSyncMishaps     \* bound on the kinds of syncMishaps

SyncMishap ==
    {"met",          \* two syncs of one object at a time
     "reordered",    \* an object synced from an older state than before
     "early",        \* a refund synced before there was an order
     "fallback",     \* a charge whose payment could not be retrieved
     "unconfirmed"}  \* a session synced before it had a payment

ASSUME SyncAssumption ==
    /\ "payment" \notin StripeRefund
    /\ MaxOrders \in Nat \ {0} /\ MaxSyncMishaps \in Nat

VARIABLES
    stripe,       \* status of the payment and the refunds, at Stripe
    events,       \* sent by Stripe
    answered,     \* those answered with 200
    orders,       \* orders of the payment, as created: externalId and status
    refundRows,   \* rows of order_refunds
    sync,         \* where each sync is, and what it stores
    latest,       \* history: the latest state of each object a sync began with
    syncMishaps

syncVars == <<stripe, events, answered, orders, refundRows, sync, latest, syncMishaps>>
storedVars == <<orders, refundRows>>

-----------------------------------------------------------------------------
Object == {"payment"} \cup StripeRefund

\* States of a payment and of a refund, from earlier to later.
Age == [open |-> 0, processing |-> 1, canceled |-> 2, paid |-> 2,
        none |-> 0, pending |-> 1, succeeded |-> 2, failed |-> 3]
StripeStatus == DOMAIN Age

\* What an order is stored under: externalId.
Key == {"session", "intent", "charge"}

Event == [type : Key \cup {"refund"}, of : Object, status : StripeStatus]
NoEvent == [type |-> "none", of |-> "payment", status |-> "open"]

OrderRow == [key : Key, status : {"UNPAID", "PAID", "CANCELLED"}]
NoRefund == [status |-> "none", order |-> 0]

\* of and status: the object as received; found: the order, 0 for none;
\* rest: listed refunds to be stored next, with their states; event: the
\* event to be answered.
NoSync == [pc |-> "idle", of |-> "payment", status |-> "open", type |-> "intent", found |-> 0,
           rest |-> {}, event |-> NoEvent]

\* syncFromCheckoutSession: paymentIntentId || session.id.
\* (SessionKey: session.id.)
SessionKey(status) == "session"
KeyOfSession(status) == IF status = "open" THEN "session" ELSE "intent"

KeyOf(s) == IF s.type = "session" THEN KeyOfSession(s.status) ELSE s.type

\* mapPaymentStatus; of a session and of a charge, whether it is paid.
OrderStatusOf(s) ==
    CASE s.status = "paid" -> "PAID"
      [] s.status = "canceled" /\ s.type = "intent" -> "CANCELLED"
      [] OTHER -> "UNPAID"

\* mapRefundStatus
RefundStatusOf(status) == IF status = "succeeded" THEN "SETTLED" ELSE "PENDING"

LastOf(indices) == CHOOSE i \in indices : \A j \in indices : j <= i
NewestOrder(keys) ==
    LET matching == {i \in DOMAIN orders : orders[i].key \in keys}
    IN IF matching = {} THEN 0 ELSE LastOf(matching)

OfSync(h, pc) == sync[h].pc = pc
Proceed(h, s) == sync' = [sync EXCEPT ![h] = s]
Idlers == {h \in Syncer : OfSync(h, "idle")}

Happen(kinds) ==
    /\ Recordable(kinds, syncMishaps, SyncMishap, MaxSyncMishaps)
    /\ syncMishaps' = syncMishaps \cup kinds

-----------------------------------------------------------------------------
SyncInit ==
    /\ stripe = [o \in Object |-> IF o = "payment" THEN "open" ELSE "none"]
    /\ events = {} /\ answered = {}
    /\ orders = <<>>
    /\ refundRows = [r \in StripeRefund |-> NoRefund]
    /\ sync = [h \in Syncer |-> NoSync]
    /\ latest = stripe
    /\ syncMishaps = {}

-----------------------------------------------------------------------------
(* Stripe *)

Change(object, status, types) ==
    /\ stripe' = [stripe EXCEPT ![object] = status]
    /\ events' = events \cup [type : types, of : {object}, status : {status}]
    /\ UNCHANGED <<answered, storedVars, sync, latest, syncMishaps>>

\* The customer confirms, with a method that takes a while.
Confirm == stripe["payment"] = "open" /\ Change("payment", "processing", {"session"})

Pay ==
    \/ /\ stripe["payment"] = "open"
       /\ Change("payment", "paid", {"session", "intent", "charge"})
    \/ /\ stripe["payment"] = "processing"
       /\ Change("payment", "paid", {"intent", "charge"})

CancelPayment == stripe["payment"] = "processing" /\ Change("payment", "canceled", {})

MoveRefund(r) ==
    /\ stripe["payment"] = "paid"
    /\ \E status \in {"pending", "succeeded", "failed"} :
         /\ Age[status] > Age[stripe[r]]
         /\ stripe[r] = "none" => status # "failed"
         /\ Change(r, status, {"refund"})

-----------------------------------------------------------------------------
(* Syncs begin *)

\* The sync s of h goes on to an object, of which it knows a state.
Begin(h, s, accidents) ==
    /\ Proceed(h, s)
    /\ latest' = [latest EXCEPT ![s.of] = IF Age[s.status] > Age[@] THEN s.status ELSE @]
    /\ Happen(accidents
         \cup IfSo("met", \E other \in Syncer \ ({h} \cup Idlers) :
                            sync[other].of = s.of /\ sync[other].pc # "picking")
         \cup IfSo("reordered", Age[s.status] < Age[latest[s.of]]))
    /\ UNCHANGED <<stripe, events, answered, storedVars>>

FirstStep(type) ==
    CASE type = "charge" -> "retrieving" [] type = "refund" -> "linking" [] OTHER -> "finding"

\* StripeEventService.handleEvent
Deliver(h, e) ==
    /\ OfSync(h, "idle")
    /\ Begin(h, [NoSync EXCEPT !.pc = FirstStep(e.type), !.of = e.of, !.status = e.status,
                               !.type = e.type,
                               !.event = IF e \in answered THEN NoEvent ELSE e], {})

\* StripeOrderSyncService.syncSingle, and processPaymentIntentsPage, which
\* takes paid ones only.
SyncOrder(h, type) ==
    /\ OfSync(h, "idle")
    /\ type = "intent" => stripe["payment"] # "open"
    /\ type = "charge" => stripe["payment"] = "paid"
    /\ Begin(h, [NoSync EXCEPT !.pc = FirstStep(type), !.status = stripe["payment"],
                               !.type = type],
             IfSo("unconfirmed", type = "session" /\ stripe["payment"] = "open"))

\* StripeRefundSyncService.syncSingle and processRefundsPage: the answer.
ListRefunds(h) ==
    /\ OfSync(h, "idle")
    /\ \E listed \in SUBSET {r \in StripeRefund : stripe[r] # "none"} :
         /\ listed # {}
         /\ Proceed(h, [NoSync EXCEPT !.pc = "picking",
                                   !.rest = {<<r, stripe[r]>> : r \in listed}])
    /\ UNCHANGED <<stripe, events, answered, storedVars, latest, syncMishaps>>

PickRefund(h) ==
    /\ OfSync(h, "picking")
    /\ \E listed \in sync[h].rest :
         Begin(h, [sync[h] EXCEPT !.pc = "linking", !.of = listed[1], !.status = listed[2],
                                  !.rest = @ \ {listed}], {})

-----------------------------------------------------------------------------
(* Orders *)

\* syncFromCharge
Retrieve(h) ==
    /\ OfSync(h, "retrieving")
    /\ \/ /\ Proceed(h, [sync[h] EXCEPT !.pc = "finding", !.type = "intent",
                                     !.status = stripe["payment"]])
          /\ UNCHANGED syncMishaps
       \/ /\ Proceed(h, [sync[h] EXCEPT !.pc = "finding"])
          /\ Happen({"fallback"})
    /\ UNCHANGED <<stripe, events, answered, storedVars, latest>>

\* findOrderByExternalId, after resolvePurchaserId.
FindOrder(h) ==
    /\ OfSync(h, "finding")
    /\ Proceed(h, [sync[h] EXCEPT !.pc = "storing", !.found = NewestOrder({KeyOf(sync[h])})])
    /\ UNCHANGED <<stripe, events, answered, storedVars, latest, syncMishaps>>

\* What is at the end of a sync: a list goes on, an event is answered.
EndSync(h) ==
    /\ Proceed(h, IF sync[h].rest = {} THEN NoSync
               ELSE [NoSync EXCEPT !.pc = "picking", !.rest = sync[h].rest])
    /\ answered' = answered \cup ({sync[h].event} \ {NoEvent})

\* upsertOrder
StoreOrder(h) ==
    /\ OfSync(h, "storing")
    /\ LET row == [key |-> KeyOf(sync[h]), status |-> OrderStatusOf(sync[h])]
       IN IF sync[h].found # 0 THEN orders' = [orders EXCEPT ![sync[h].found] = row]
          ELSE Len(orders) < MaxOrders /\ orders' = Append(orders, row)
    /\ EndSync(h)
    /\ UNCHANGED <<stripe, events, refundRows, latest, syncMishaps>>

-----------------------------------------------------------------------------
(* Refunds *)

\* findOrderByChargeOrIntent
LinkOrder(h) ==
    /\ OfSync(h, "linking")
    /\ LET found == NewestOrder({"intent", "charge"})
       IN /\ Proceed(h, [sync[h] EXCEPT !.pc = "upserting", !.found = found])
          /\ Happen(IfSo("early", found = 0))
    /\ UNCHANGED <<stripe, events, answered, storedVars, latest>>

UpsertRefund(h) ==
    /\ OfSync(h, "upserting")
    /\ refundRows' = [refundRows EXCEPT ![sync[h].of] =
         [status |-> RefundStatusOf(sync[h].status), order |-> sync[h].found]]
    /\ EndSync(h)
    /\ UNCHANGED <<stripe, events, orders, latest, syncMishaps>>

\* A query throws, or the process dies: an event is not answered, a list
\* goes on with the next refund, or ends.  (SyncFailsSilently: it is.)
SyncFailsSilently(h) ==
    /\ ~OfSync(h, "idle") /\ EndSync(h)
    /\ UNCHANGED <<stripe, events, storedVars, latest, syncMishaps>>
SyncFails(h) ==
    /\ ~OfSync(h, "idle")
    /\ \/ Proceed(h, NoSync)
       \/ /\ sync[h].rest # {} /\ ~OfSync(h, "picking")
          /\ Proceed(h, [NoSync EXCEPT !.pc = "picking", !.rest = sync[h].rest])
    /\ UNCHANGED <<stripe, events, answered, storedVars, latest, syncMishaps>>

-----------------------------------------------------------------------------
SyncNext ==
    \/ Confirm \/ Pay \/ CancelPayment
    \/ \E r \in StripeRefund : MoveRefund(r)
    \/ \E h \in Syncer :
         \/ \E e \in events : Deliver(h, e)
         \/ \E type \in Key : SyncOrder(h, type)
         \/ ListRefunds(h) \/ PickRefund(h)
         \/ Retrieve(h) \/ FindOrder(h) \/ StoreOrder(h)
         \/ LinkOrder(h) \/ UpsertRefund(h)
         \/ SyncFails(h)

SyncSpec == SyncInit /\ [][SyncNext]_syncVars

-----------------------------------------------------------------------------
(* Properties *)

SyncTypeOK ==
    /\ stripe \in [Object -> StripeStatus] /\ latest \in [Object -> StripeStatus]
    /\ answered \subseteq events /\ events \subseteq Event
    /\ \A i \in DOMAIN orders : orders[i] \in OrderRow
    /\ \A r \in StripeRefund :
         /\ refundRows[r].status \in {"none", "PENDING", "SETTLED"}
         /\ refundRows[r].order \in 0 .. Len(orders)
    /\ \A h \in Syncer : sync[h].found \in 0 .. Len(orders)

\* A payment makes one order, in whatever order and however often its
\* events and retrievals are stored, unless two of them met, the payment of
\* a charge could not be retrieved, or a session was stored before it had a
\* payment.  [upsertOrder finds the order and then creates it; the unique
\* index does not reach rows without a channel.]
OneOrderPerPayment ==
    ~Among({"met", "fallback", "unconfirmed"}, syncMishaps) => Len(orders) <= 1

Quiet == Idlers = Syncer /\ events \subseteq answered

\* Once every event has been answered the rows say what Stripe says, and a
\* refund has its order, although queries failed and events came twice;
\* unless syncs met or an older state came after a newer one, and for the
\* order of a refund, unless the refund came before it.  [upsertOrder and
\* upsertRefund write whatever they are given.]
SyncedWhenQuiet ==
    Quiet /\ ~Among({"met", "reordered", "unconfirmed"}, syncMishaps) =>
        /\ stripe["payment"] = "paid" =>
             /\ orders # <<>>
             /\ \A i \in DOMAIN orders : orders[i].status = "PAID"
        /\ \A r \in StripeRefund : stripe[r] # "none" =>
             /\ refundRows[r].status = RefundStatusOf(stripe[r])
             /\ "early" \notin syncMishaps => refundRows[r].order # 0

-----------------------------------------------------------------------------
\* What the code says of itself, and TLC refutes: storing an order is
\* idempotent.  [StripeRepository.upsertOrder, lines 65 and 67.]
OneOrderWhateverMeets ==
    ~Among({"fallback", "unconfirmed"}, syncMishaps) => Len(orders) <= 1
=============================================================================
