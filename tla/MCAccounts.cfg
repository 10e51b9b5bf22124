\* One payment and two invoices in three days; two people who are invited three times;
\* two requests that overlap.
SPECIFICATION MCSpec
CONSTANTS
  r1 = r1  r2 = r2  both = both  e1 = e1  e2 = e2
  Requests = {r1, r2}
  Kinds = {both}
  MaxPayments = 1
  MaxInvoices = 2
  LastDay = 2
  TrialDays = 1
  SubscriptionDays = 1
  MonthDays = 1
  Emails = {e1, e2}
  ShareRequests = {r1, r2}
  MaxInvites = 3
  MaxAudit = 3
SYMMETRY Symmetry
CHECK_DEADLOCK FALSE
INVARIANTS BillingInv AccessInv
PROPERTIES PaidTimeIsKept WithdrawnIsNotAccepted
