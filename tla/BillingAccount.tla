------------------------- MODULE BillingAccount -------------------------
(***************************************************************************)
(* What the billing code computes from one seller's rows: the row of       *)
(* "subscriptions" and the status of the row of "licenses".  A row is read *)
(* once by a request, changed in memory and flushed at commit; only the    *)
(* columns that changed in memory are written.                             *)
(***************************************************************************)
EXTENDS Integers

CONSTANTS TrialDays,          \* TRIAL_DAYS
          SubscriptionDays,   \* SUBSCRIPTION_DAYS
          MonthDays           \* one calendar month of an invoice

ASSUME BillingAssumption ==
  /\ TrialDays \in Nat \ {0}
  /\ SubscriptionDays \in Nat \ {0}
  /\ MonthDays \in Nat \ {0}

SubStatuses == {"inactive", "trial", "active", "expired"}
LicStatuses == {"none", "trial", "active", "expired", "lifetime"}

\* Days count from 1; 0 stands for an empty column.
SubRow == [status : SubStatuses, trialEnd : Nat, periodEnd : Nat]

NewSubRow == [status |-> "inactive", trialEnd |-> 0, periodEnd |-> 0]

ValidUntil(sub) == IF sub.periodEnd # 0 THEN sub.periodEnd ELSE sub.trialEnd

\* A row whose end is ahead and whose status is not "expired" lets the seller in.
HasAccess(sub, today) ==
  /\ ValidUntil(sub) > today
  /\ sub.status \in {"trial", "active"}

\* An account that never had a trial nor paid is refused and stays as it is.
NeverStarted(sub) == sub.status = "inactive" /\ ValidUntil(sub) = 0

TrialIsDue(sub, hasStore) ==
  /\ hasStore
  /\ sub.trialEnd = 0
  /\ sub.status # "expired"

\* _upsert_license: a lifetime licence that was read is left alone.
UpsertLicense(lic, status) == IF lic = "lifetime" THEN lic ELSE status

StartTrial(sub, today) ==
  [sub EXCEPT !.status = "trial", !.trialEnd = today + TrialDays]

Expire(sub) == [sub EXCEPT !.status = "expired"]

\* A payment goes on from the end of the paid time, or from now when it is over.
ActivateFrom(sub, today) == IF sub.periodEnd > today THEN sub.periodEnd ELSE today

Activate(sub, today) ==
  [sub EXCEPT !.status = "active",
              !.periodEnd = ActivateFrom(sub, today) + SubscriptionDays]

\* Mutant: the end is always that of the invoice.
PayToItsEnd(sub, to) == [sub EXCEPT !.status = "active", !.periodEnd = to]

\* A paid invoice reaches the end of its period and never takes time away.
PayInvoice(sub, to) ==
  [sub EXCEPT !.status = "active",
              !.periodEnd = IF @ = 0 \/ @ < to THEN to ELSE @]

\* The first day of the next invoice; its end is not part of it.
InvoiceStart(sub, today) ==
  IF sub.status = "active" /\ sub.periodEnd > today THEN sub.periodEnd ELSE today

InvoiceEnd(start) == start + MonthDays

\* What a flush leaves in a row: the columns changed since it was read.
Flush(row, seen, new) ==
  [c \in DOMAIN row |-> IF new[c] # seen[c] THEN new[c] ELSE row[c]]

FlushLicense(lic, seen, new) == IF new # seen THEN new ELSE lic
=============================================================================
