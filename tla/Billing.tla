----------------------------- MODULE Billing -----------------------------
(***************************************************************************)
(* Access of one seller to the service: the trial, subscription payments   *)
(* through YooKassa (notification and return page), invoices, a lifetime    *)
(* licence and the check every request makes.  Requests of the seller, of  *)
(* the payment provider and of the administrator run at the same time; a   *)
(* request reads the rows in steps and writes them at its commit.          *)
(***************************************************************************)
EXTENDS BillingAccount, FiniteSets, Sequences, FiniteSetsExt

CONSTANTS Requests,      \* request slots: so many transactions at a time
          MaxPayments,   \* bound: payments the seller starts
          MaxInvoices,   \* bound: invoices issued
          Kinds,         \* contents of an invoice: marketplaces and buyer
          LastDay        \* bound: the last day of the run

ASSUME BillingBounds ==
  /\ MaxPayments \in Nat
  /\ MaxInvoices \in Nat
  /\ LastDay \in Nat \ {0}

VARIABLES
  today,      \* the clock, in days
  hasStore,   \* a WB key or an Ozon connection is saved
  sub,        \* row of subscriptions
  lic,        \* status of the row of licenses
  payment,    \* payments: status of the row of each payment, "none" without a row
  provider,   \* state of each payment at YooKassa
  events,     \* payments whose "payment.succeeded" is in webhook_events
  invoices,   \* billing_invoices by number
  request,    \* what each running request has read and is about to do
  credits,    \* history: how often the notification of each payment was applied
  returned,   \* history: payments applied by the return page
  raced       \* history: a row was written under a request that had read it

rows == <<sub, lic, payment, events, invoices>>
vars == <<today, hasStore, sub, lic, payment, provider, events, invoices,
          request, credits, returned, raced>>

PaymentIds == 1..MaxPayments
Idle == [pc |-> "idle"]
IsIdle(r) == request[r] = Idle

Invoice == [from : Nat, to : Nat, kind : Kinds,
            status : {"issued", "paid", "cancelled"}]

RequestState ==
  {Idle}
  \cup [pc : {"get"}, pay : PaymentIds]
  \cup [pc : {"license"}, op : {"trial", "expire", "hook", "sync", "paid"},
        id : Nat, seen : SubRow]
  \cup [pc : {"commit"}, op : {"trial", "expire", "hook", "sync", "paid"},
        id : Nat, seen : SubRow, lic : LicStatuses]
  \cup [pc : {"lock"}, kind : Kinds, from : Nat]
  \cup [pc : {"locked"}, kind : Kinds, from : Nat, issued : SUBSET Nat]

TypeOK ==
  /\ today \in 1..LastDay
  /\ hasStore \in BOOLEAN
  /\ sub \in SubRow
  /\ lic \in LicStatuses
  /\ payment \in [PaymentIds -> {"none", "pending", "succeeded", "failed"}]
  /\ provider \in [PaymentIds -> {"none", "pending", "succeeded", "canceled"}]
  /\ events \subseteq PaymentIds
  /\ invoices \in Seq(Invoice)
  /\ request \in [Requests -> RequestState]
  /\ credits \in [PaymentIds -> Nat]
  /\ returned \subseteq PaymentIds
  /\ raced \in BOOLEAN

Init ==
  /\ today = 1
  /\ hasStore = FALSE
  /\ sub = NewSubRow
  /\ lic = "none"
  /\ payment = [p \in PaymentIds |-> "none"]
  /\ provider = [p \in PaymentIds |-> "none"]
  /\ events = {}
  /\ invoices = << >>
  /\ request = [r \in Requests |-> Idle]
  /\ credits = [p \in PaymentIds |-> 0]
  /\ returned = {}
  /\ raced = FALSE

-----------------------------------------------------------------------------
(* Shapes of a request.  "license" and "commit": the subscription row was  *)
(* read, then the licence; what is written follows from what was read.     *)

HasRead(r) == request[r].pc \in {"license", "commit", "lock", "locked"}

Wait(r, op, id) ==
  request' = [request EXCEPT ![r] = [pc |-> "license", op |-> op, id |-> id, seen |-> sub]]

Done(r) == request' = [request EXCEPT ![r] = Idle]

\* A commit that changes a row under another request that has already read is a race.
Race(r) == raced' = (raced \/ (rows' # rows /\ \E o \in Requests \ {r} : HasRead(o)))

Unread == UNCHANGED <<today, hasStore, sub, lic, payment, provider, events,
                      invoices, credits, returned, raced>>

-----------------------------------------------------------------------------
(* get_current_user: the lazy trial of an account with a saved store, else *)
(* the check of access.  An account that is let in, or refused for never   *)
(* having started, is not written.                                         *)
VisitStartsTrial(r) ==
  /\ IsIdle(r)
  /\ lic # "lifetime"
  /\ TrialIsDue(sub, hasStore)
  /\ Wait(r, "trial", 0)
  /\ Unread

VisitExpires(r) ==
  /\ IsIdle(r)
  /\ lic # "lifetime"
  /\ ~TrialIsDue(sub, hasStore)
  /\ ~HasAccess(sub, today)
  /\ ~NeverStarted(sub)
  /\ Wait(r, "expire", 0)
  /\ Unread

\* Saving a store.  An Ozon connection is committed before the trial is looked at; a
\* WB key is committed with the trial, which is the same with no death in between.
SaveStore(r) ==
  /\ IsIdle(r)
  /\ ~hasStore
  /\ hasStore' = TRUE
  /\ request' = IF lic # "lifetime" /\ TrialIsDue(sub, TRUE)
                  THEN [request EXCEPT ![r] = [pc |-> "license", op |-> "trial",
                                               id |-> 0, seen |-> sub]]
                  ELSE request
  /\ UNCHANGED <<today, sub, lic, payment, provider, events, invoices, credits, returned, raced>>

\* The licence is read just before it is changed.
ReadLicense(r) ==
  /\ request[r].pc = "license"
  /\ request' = [request EXCEPT ![r] =
       [pc |-> "commit", op |-> @.op, id |-> @.id, seen |-> @.seen, lic |-> lic]]
  /\ Unread

\* What the request made of the rows it read.
NewSub(q) ==
  CASE q.op = "trial"            -> StartTrial(q.seen, today)
    [] q.op = "expire"           -> Expire(q.seen)
    [] q.op \in {"hook", "sync"} -> Activate(q.seen, today)
    [] q.op = "paid"             -> PayInvoice(q.seen, invoices[q.id].to)

NewLicense(q) ==
  UpsertLicense(q.lic, CASE q.op = "trial"  -> "trial"
                         [] q.op = "expire" -> "expired"
                         [] OTHER           -> "active")

WriteAccount(q) ==
  /\ sub' = Flush(sub, q.seen, NewSub(q))
  /\ lic' = FlushLicense(lic, q.lic, NewLicense(q))

CommitAccount(r) ==
  /\ request[r].pc = "commit"
  /\ request[r].op \in {"trial", "expire"}
  /\ WriteAccount(request[r])
  /\ Done(r)
  /\ UNCHANGED <<payment, events, invoices>>
  /\ Race(r)
  /\ UNCHANGED <<today, hasStore, provider, credits, returned>>

-----------------------------------------------------------------------------
(* Payments.  create_checkout asks YooKassa for a payment, then stores it; *)
(* the buyer gets the link after the commit.  A process that dies between  *)
(* leaves a payment nobody can pay.                                        *)
NextPayment == Cardinality({p \in PaymentIds : provider[p] # "none"}) + 1

Checkout ==
  /\ NextPayment \in PaymentIds
  /\ provider' = [provider EXCEPT ![NextPayment] = "pending"]
  /\ payment' = [payment EXCEPT ![NextPayment] = "pending"]
  /\ UNCHANGED <<today, hasStore, sub, lic, events, invoices, request, credits, returned, raced>>

CheckoutDies ==
  /\ NextPayment \in PaymentIds
  /\ provider' = [provider EXCEPT ![NextPayment] = "pending"]
  /\ UNCHANGED <<today, hasStore, sub, lic, payment, events, invoices, request,
                 credits, returned, raced>>

\* The buyer pays by the link, or YooKassa cancels what was not paid.
ProviderSettles(p) ==
  /\ provider[p] = "pending"
  /\ \E s \in {"succeeded", "canceled"} :
       /\ s = "succeeded" => payment[p] # "none"
       /\ provider' = [provider EXCEPT ![p] = s]
  /\ UNCHANGED <<today, hasStore, sub, lic, payment, events, invoices, request,
                 credits, returned, raced>>

\* process_yookassa_webhook: a notification, delivered once or many times.
HookArrives(r, p) ==
  /\ IsIdle(r)
  /\ provider[p] = "succeeded"
  /\ p \notin events
  /\ Wait(r, "hook", p)
  /\ Unread

\* Mutant: no unique constraint.
EventIsRepeated(p) == p \in PaymentIds

\* event_key is unique: the second of two deliveries that overlap is rolled back.
EventIsNew(p) == p \notin events

CommitHook(r) ==
  LET q == request[r] IN
  /\ q.pc = "commit" /\ q.op = "hook"
  /\ IF EventIsNew(q.id)
       THEN /\ events' = events \cup {q.id}
            /\ WriteAccount(q)
            /\ payment' = [payment EXCEPT ![q.id] = IF @ = "none" THEN @ ELSE "succeeded"]
            /\ credits' = [credits EXCEPT ![q.id] = @ + 1]
       ELSE UNCHANGED <<events, sub, lic, payment, credits>>
  /\ Done(r)
  /\ UNCHANGED invoices
  /\ Race(r)
  /\ UNCHANGED <<today, hasStore, provider, returned>>

\* The notification of a cancelled payment; its event key repeats without effect.
HookCancels(p) ==
  /\ provider[p] = "canceled"
  /\ payment[p] \notin {"none", "failed"}
  /\ payment' = [payment EXCEPT ![p] = "failed"]
  /\ UNCHANGED <<today, hasStore, sub, lic, provider, events, invoices, request,
                 credits, returned, raced>>

\* sync_latest_yookassa_payment: the return page picks the newest unsettled payment...
SyncPicks(r) ==
  /\ IsIdle(r)
  /\ \E p \in PaymentIds :
       /\ payment[p] = "pending"
       /\ \A o \in PaymentIds : payment[o] = "pending" => o <= p
       /\ request' = [request EXCEPT ![r] = [pc |-> "get", pay |-> p]]
  /\ Unread

PaidAtProvider(p) == provider[p] = "succeeded"

\* ...asks YooKassa about it, and goes on only when it was paid.
SyncGets(r) ==
  /\ request[r].pc = "get"
  /\ IF PaidAtProvider(request[r].pay)
       THEN Wait(r, "sync", request[r].pay) /\ UNCHANGED payment
       ELSE /\ Done(r)
            /\ payment' = IF provider[request[r].pay] = "canceled"
                            THEN [payment EXCEPT ![request[r].pay] = "failed"]
                            ELSE payment
  /\ UNCHANGED <<today, hasStore, sub, lic, provider, events, invoices, credits, returned, raced>>

CommitSync(r) ==
  LET q == request[r] IN
  /\ q.pc = "commit" /\ q.op = "sync"
  /\ WriteAccount(q)
  /\ payment' = [payment EXCEPT ![q.id] = "succeeded"]
  /\ returned' = returned \cup {q.id}
  /\ Done(r)
  /\ UNCHANGED <<events, invoices>>
  /\ Race(r)
  /\ UNCHANGED <<today, hasStore, provider, credits>>

\* Administrator, script or promo code.
GrantLifetime ==
  /\ lic # "lifetime"
  /\ lic' = "lifetime"
  /\ raced' = (raced \/ \E r \in Requests : HasRead(r))
  /\ UNCHANGED <<today, hasStore, sub, payment, provider, events, invoices,
                 request, credits, returned>>

-----------------------------------------------------------------------------
(* Invoices.  The period is taken from the subscription before the lock.   *)
AskInvoice(r, k) ==
  /\ IsIdle(r)
  /\ lic # "lifetime"
  /\ request' = [request EXCEPT ![r] =
       [pc |-> "lock", kind |-> k, from |-> InvoiceStart(sub, today)]]
  /\ Unread

LockIsFree == \A r \in Requests : request[r].pc # "locked"

Issued == {n \in 1..Len(invoices) : invoices[n].status = "issued"}

\* pg_advisory_xact_lock, then the invoices still to be paid.
LockInvoices(r) ==
  /\ request[r].pc = "lock"
  /\ LockIsFree
  /\ request' = [request EXCEPT ![r] =
       [pc |-> "locked", kind |-> @.kind, from |-> @.from, issued |-> Issued]]
  /\ Unread

SameAs(q, n) ==
  /\ invoices[n].from = q.from
  /\ invoices[n].to = InvoiceEnd(q.from)
  /\ invoices[n].kind = q.kind

\* The newest invoice with the same content is given again, all others are cancelled.
Reusable(q) ==
  LET same == {n \in q.issued : SameAs(q, n)}
  IN IF same = {} THEN {} ELSE {Max(same)}

CancelOthers(q) ==
  [n \in DOMAIN invoices |->
     IF n \in q.issued \ Reusable(q) THEN [invoices[n] EXCEPT !.status = "cancelled"]
     ELSE invoices[n]]

IssueInvoice(r) ==
  LET q == request[r]
      new == [from |-> q.from, to |-> InvoiceEnd(q.from), kind |-> q.kind,
              status |-> "issued"] IN
  /\ q.pc = "locked"
  /\ Reusable(q) = {} => Len(invoices) < MaxInvoices
  /\ invoices' = IF Reusable(q) # {} THEN CancelOthers(q)
                 ELSE Append(CancelOthers(q), new)
  /\ Done(r)
  /\ UNCHANGED <<sub, lic, payment, events>>
  /\ Race(r)
  /\ UNCHANGED <<today, hasStore, provider, credits, returned>>

\* mark_invoice_paid, by the administrator.
AskPaid(r, n) ==
  /\ IsIdle(r)
  /\ invoices[n].status = "issued"
  /\ Wait(r, "paid", n)
  /\ Unread

CommitPaid(r) ==
  LET q == request[r] IN
  /\ q.pc = "commit" /\ q.op = "paid"
  /\ WriteAccount(q)
  /\ invoices' = [invoices EXCEPT ![q.id].status = "paid"]
  /\ Done(r)
  /\ UNCHANGED <<payment, events>>
  /\ Race(r)
  /\ UNCHANGED <<today, hasStore, provider, credits, returned>>

\* A worker dies or the connection drops: the transaction is rolled back.
RequestDies(r) ==
  /\ ~IsIdle(r)
  /\ Done(r)
  /\ Unread

DayPasses ==
  /\ today < LastDay
  /\ today' = today + 1
  /\ UNCHANGED <<hasStore, sub, lic, payment, provider, events, invoices,
                 request, credits, returned, raced>>

-----------------------------------------------------------------------------
Step(r) ==
  \/ ReadLicense(r) \/ CommitAccount(r) \/ CommitHook(r)
  \/ SyncGets(r) \/ CommitSync(r)
  \/ LockInvoices(r) \/ IssueInvoice(r) \/ CommitPaid(r)

Next ==
  \/ \E r \in Requests :
       \/ VisitStartsTrial(r) \/ VisitExpires(r) \/ SaveStore(r)
       \/ \E p \in PaymentIds : HookArrives(r, p)
       \/ SyncPicks(r)
       \/ \E k \in Kinds : AskInvoice(r, k)
       \/ \E n \in DOMAIN invoices : AskPaid(r, n)
       \/ Step(r)
       \/ RequestDies(r)
  \/ Checkout \/ CheckoutDies
  \/ \E p \in PaymentIds : ProviderSettles(p) \/ HookCancels(p)
  \/ GrantLifetime
  \/ DayPasses

Spec == Init /\ [][Next]_vars

-----------------------------------------------------------------------------
(* A notification recorded in webhook_events was applied to the subscription exactly once,
   and one that is not recorded never was, whatever is repeated, overlaps or dies. *)
EventAppliedOnce ==
  \A p \in PaymentIds : credits[p] = IF p \in events THEN 1 ELSE 0

(* No time is given for a payment YooKassa does not report as paid. *)
CreditedMoneyWasPaid ==
  \A p \in PaymentIds :
    credits[p] > 0 \/ p \in returned => provider[p] = "succeeded"

(* The advisory lock works: a seller never has two invoices to pay. *)
OneIssuedInvoice == Cardinality(Issued) <= 1

(* A seller with paid time ahead is let in, in whatever order trial, payments,
   notifications, invoices and visits came, as long as no request was overtaken. *)
PaidSellerIsLetIn == ~raced /\ sub.periodEnd > today => HasAccess(sub, today)

(* As long as no request was overtaken, no step takes paid time or a lifetime licence away. *)
PaidTimeIsKept ==
  [][~raced' => /\ sub'.periodEnd >= sub.periodEnd
                /\ lic = "lifetime" => lic' = "lifetime"]_vars

(* What billing_service and billing_invoice_service keep true at every commit: money is
   credited once and only if it was paid, one invoice is open, paid time opens the door. *)
BillingInv ==
  /\ TypeOK
  /\ EventAppliedOnce /\ CreditedMoneyWasPaid
  /\ OneIssuedInvoice /\ PaidSellerIsLetIn
=============================================================================
