------------------------------- MODULE OzonLedger -------------------------------
(******************************************************************************)
(* One day of Ozon's accruals, as ozon_finance.py reads it.  An accrual has a *)
(* total, which is believed, and lines, which tell of what and of which SKU;  *)
(* a line may lack an amount, a SKU or a known type.  A figure that cannot be *)
(* known is Unknown, and a profit is claimed only where everything is known.  *)
(* The other half of the module is what marketplace_finance_service.py shows  *)
(* of such a day.  Accruals come in any order; every order of some of them is *)
(* a day.  A value that may be unknown is a set of at most one number.        *)
(******************************************************************************)
EXTENDS Integers, Sequences, FiniteSets, Functions

CONSTANTS
  Skus, NoSku,
  Accruals,        \* accruals that may come: records, see AccrualAssumption
  SkuCosts,        \* cost price of each SKU, or Unknown
  OzonTaxRate,     \* percent
  OzonExpense,     \* operational expense of the day
  MaxAccruals      \* bound: accruals of the day

Unknown == {}
Charges == {"commission", "logistics", "storage", "other_expenses"}
\* storage stands for acquiring, penalties and ads_spend too.
Fields == Charges \cup {"revenue", "compensation"}
_POSSIBLE_FEE_FIELDS == Fields \ {"revenue", "other_expenses"}
FeeCategories == {"ITEM", "NON_ITEM", "CONTAINER_FEES"}

IsAmount(o) == o \subseteq Int /\ \A x, y \in o : x = y
Amount == {o \in SUBSET Int : IsAmount(o)}

\* The lines of a posting, and those of any other accrual.
PostingLine ==
  [damaged : BOOLEAN, sku : Skus \cup {NoSku}, sells : BOOLEAN, sale : Amount, commission : Amount,
   quantity : {o \in Amount : \A q \in o : q > 0},
   delivery : {"null", "broken", "nothing", "spoiled", "amounts"}, amounts : Seq(Amount), returns : BOOLEAN]
FeeLine ==
  [sku : Skus \cup {NoSku}, type : (Fields \ {"revenue"}) \cup {"ambiguous", "unlisted"},
   amount : Amount, returns : BOOLEAN]

\* The tax is exact: amounts are given in so small a unit that no division leaves a rest.
ASSUME AccrualAssumption ==
  /\ NoSku \notin Skus /\ IsFiniteSet(Skus)
  /\ DOMAIN SkuCosts = Skus /\ \A s \in Skus : IsAmount(SkuCosts[s])
  /\ {OzonTaxRate, OzonExpense, MaxAccruals} \subseteq Nat
  /\ \A a, b \in Accruals : a.id = b.id => a = b
  /\ \A a \in Accruals :
       /\ a.total \in Int /\ a.listed \in BOOLEAN
       /\ a.category \in FeeCategories => a.lines \in Seq(FeeLine)
       /\ a.category = "POSTING" =>
            /\ a.lines \in Seq(PostingLine)
            /\ \A i \in DOMAIN a.lines : \A x \in a.lines[i].sale : (x * OzonTaxRate) % 100 = 0

VARIABLES
  taken,     \* accruals that came
  ledger     \* what normalize_accruals has made of them

ozonVars == <<taken, ledger>>

--------------------------------------------------------------------------------
The(o) == CHOOSE x \in o : TRUE
Sign(f) == IF f \in Charges THEN -1 ELSE 1
SumOf(f) == SumFunctionOnSet(f, DOMAIN f)

\* A sum is unknown when one of its amounts is.
Plus(o, x) == {y + x : y \in o}
Both(a, b) == {x + y : x \in a, y \in b}
Total(f) == IF \E x \in DOMAIN f : f[x] = Unknown THEN Unknown ELSE {SumOf([x \in DOMAIN f |-> The(f[x])])}

\* A row of the day or of a SKU: _empty_daily and _empty_product.
EmptyRow ==
  [money |-> [f \in Fields |-> {0}], unallocated |-> 0, counted |-> {}, gaps |-> {},
   uncertain |-> {}, sold |-> {0}, returned |-> {0}, unitsKnown |-> TRUE,
   classified |-> TRUE, returns |-> FALSE, from |-> {}]
EmptyLedger ==
  [day |-> EmptyRow, sku |-> [s \in Skus |-> EmptyRow], net |-> 0, mismatch |-> {0},
   allocated |-> TRUE, skuUnitsKnown |-> TRUE, unknownSku |-> FALSE, sale |-> FALSE,
   reconciled |-> {}, raw |-> 0, complete |-> TRUE]

Named(n) == {s \in Skus : n.sku[s].from # {}}
\* _product: a row of a SKU exists once an accrual names it.
Touch(n, s, id) == IF s = NoSku THEN n ELSE [n EXCEPT !.sku[s].from = @ \cup {id}]
Incomplete(n) == [n EXCEPT !.complete = FALSE]
Counted(n, a) == [n EXCEPT !.raw = @ + a]

Blank(row, fs) == [row EXCEPT !.money = [f \in Fields |-> IF f \in fs THEN Unknown ELSE @[f]]]

Unclassified(row) == [row EXCEPT !.classified = FALSE]
Doubted(row, fs) == [Unclassified(Blank(row, fs)) EXCEPT !.uncertain = @ \cup fs]
MarkUnknown(n, fs, s, id) ==
  LET d == [n EXCEPT !.day = Unclassified(Blank(@, fs))]
  IN IF s = NoSku
       THEN [d EXCEPT !.allocated = FALSE, !.day.uncertain = @ \cup fs]
       ELSE [Touch(d, s, id) EXCEPT !.sku[s] = Doubted(@, fs \ {"other_expenses"})]

\* A missing detail keeps what is known; without a SKU it is every SKU's so far.
Gapped(row, f) == [Unclassified(row) EXCEPT !.gaps = @ \cup {f}]
MarkGap(n, f, s, id) ==
  LET d == [n EXCEPT !.day = Gapped(@, f)]
  IN IF s = NoSku
       THEN [d EXCEPT !.allocated = FALSE,
               !.sku = [t \in Skus |-> IF t \in Named(n) THEN Unclassified(@[t]) ELSE @[t]]]
       ELSE [Touch(d, s, id) EXCEPT !.sku[s] = Gapped(@, f)]

WithoutUnits(row) == [row EXCEPT !.unitsKnown = FALSE, !.sold = Unknown, !.returned = Unknown]
MarkUnitsUnknown(n, s, id) ==
  LET d == [n EXCEPT !.day = WithoutUnits(@), !.skuUnitsKnown = FALSE]
  IN IF s = NoSku
       THEN [d EXCEPT !.sku = [t \in Skus |-> IF t \in Named(n) THEN WithoutUnits(@[t]) ELSE @[t]]]
       ELSE [Touch(d, s, id) EXCEPT !.sku[s] = WithoutUnits(@)]

Aside(row, a) == [row EXCEPT !.unallocated = @ + a]
Booked(row, f, a) == [row EXCEPT !.money[f] = Plus(@, Sign(f) * a), !.counted = @ \cup {f}]
AddComponent(n, f, a, s, id) ==
  LET d == [n EXCEPT !.day = Booked(@, f, a)]
  IN IF s = NoSku
       THEN [d EXCEPT !.allocated = FALSE, !.day = Aside(@, a)]
       ELSE [Touch(d, s, id) EXCEPT !.sku[s] = Booked(@, f, a)]

MarkReturn(n, s, id) ==
  IF s = NoSku THEN [n EXCEPT !.day.returns = TRUE]
  ELSE [Touch(n, s, id) EXCEPT !.sku[s].returns = TRUE]

\* parse_component: amount is Unknown when it is missing or damaged.
Component(n, f, amount, s, id) ==
  IF amount = Unknown
    THEN MarkGap(Incomplete(n), f, s, id)
    ELSE AddComponent(Counted(n, The(amount)), f, The(amount), s, id)

\* parse_fee and _fee_details: a type is known by its number and its exact name.
AnyFee == {"other_expenses"} \cup _POSSIBLE_FEE_FIELDS
Fee(n, line, id) ==
  LET m == IF line.returns THEN MarkReturn(n, line.sku, id) ELSE n
      a == The(line.amount)
      b == Counted(m, a)
      unclear == [b EXCEPT !.day = Unclassified(@)]
  IN IF line.amount = Unknown THEN MarkUnknown(Incomplete(m), AnyFee, line.sku, id)
     ELSE IF line.type \in Fields THEN AddComponent(b, line.type, a, line.sku, id)
     ELSE IF line.type = "unlisted"
       THEN MarkUnknown(AddComponent(unclear, "other_expenses", a, line.sku, id),
                        _POSSIBLE_FEE_FIELDS, line.sku, id)
     ELSE IF line.sku = NoSku
       THEN [unclear EXCEPT !.day = Aside(@, a), !.allocated = FALSE]
       ELSE [Touch(unclear, line.sku, id) EXCEPT !.day = Aside(@, a), !.sku[line.sku] = Aside(@, a)]

--------------------------------------------------------------------------------
\* A line of a posting whose sale is known: so many sold, or so many returned.
WithUnits(row, line) ==
  IF The(line.sale) > 0 THEN [row EXCEPT !.sold = Plus(@, The(line.quantity))]
  ELSE [row EXCEPT !.returned = Plus(@, The(line.quantity))]
Units(n, line, id) ==
  LET m == Touch([n EXCEPT !.sale = TRUE], line.sku, id)
      b == [m EXCEPT !.day = WithUnits(@, line)]
  IN IF line.quantity = Unknown THEN MarkUnitsUnknown(m, line.sku, id)
     ELSE IF line.sku = NoSku THEN [b EXCEPT !.skuUnitsKnown = FALSE, !.allocated = FALSE]
     ELSE [b EXCEPT !.sku[line.sku] = WithUnits(@, line)]

\* A line without a commission block is no sale.
Sale(n, line, id) ==
  LET m == Component(n, "revenue", line.sale, line.sku, id)
      u == IF line.sale # Unknown THEN Units(m, line, id)
           ELSE MarkUnitsUnknown(MarkUnknown(m, {"cogs"}, line.sku, id), line.sku, id)
  IN IF line.sells THEN Component(u, "commission", line.commission, line.sku, id) ELSE n

Services(n, line, id) ==
  LET after[k \in 0..Len(line.amounts)] ==
        IF k = 0 THEN n ELSE Component(after[k - 1], "logistics", line.amounts[k], line.sku, id)
  IN after[Len(line.amounts)]

\* delivery.total_accrued, or its services one by one when it has no total; a service
\* that is no object makes logistics unknown.
Delivery(n, line, id) ==
  LET m == IF line.returns THEN MarkReturn(n, line.sku, id) ELSE n
      unclear(k) == MarkUnknown(Incomplete(k), {"logistics"}, line.sku, id)
  IN CASE line.delivery = "null" -> n
       [] line.delivery = "broken" -> MarkGap(Incomplete(n), "logistics", line.sku, id)
       [] line.delivery = "nothing" -> unclear(n)
       [] line.delivery = "spoiled" -> Services(unclear(m), line, id)
       [] line.delivery = "amounts" -> Services(m, line, id)

PostingFields == {"revenue", "commission", "logistics", "cogs"}
NoPosting(n, id) == MarkUnitsUnknown(MarkUnknown(Incomplete(n), PostingFields, NoSku, id), NoSku, id)
ProductLine(n, line, id) ==
  IF line.damaged THEN NoPosting(n, id)
  ELSE Delivery(Sale(IF line.sku = NoSku THEN [n EXCEPT !.unknownSku = TRUE] ELSE n, line, id), line, id)

AccrualLine(n, a, i) == IF a.category = "POSTING" THEN ProductLine(n, a.lines[i], a.id) ELSE Fee(n, a.lines[i], a.id)
Lines(n, a) ==
  LET after[k \in 0..Len(a.lines)] == IF k = 0 THEN n ELSE AccrualLine(after[k - 1], a, k)
  IN after[Len(a.lines)]

\* A null delivery is no charge only if the other lines give the total.
IsNull(line) == ~line.damaged /\ line.delivery = "null"
NullDeliveries(n, a) ==
  LET after[k \in 0..Len(a.lines)] ==
        IF k = 0 THEN n
        ELSE IF IsNull(a.lines[k]) THEN MarkGap(after[k - 1], "logistics", a.lines[k].sku, a.id) ELSE after[k - 1]
  IN after[Len(a.lines)]
WithNullDeliveries(n, a) ==
  IF (\E i \in DOMAIN a.lines : IsNull(a.lines[i])) /\ ~(n.complete /\ n.raw = a.total)
    THEN NullDeliveries(Incomplete(n), a) ELSE n

\* _normalize_accrual
Details(n, a) ==
  CASE a.category = "POSTING" /\ a.listed -> WithNullDeliveries(Lines(n, a), a)
    [] a.category = "POSTING" /\ ~a.listed -> NoPosting(n, a.id)
    [] a.category \in FeeCategories /\ a.listed -> Lines(n, a)
    [] a.category \in FeeCategories /\ ~a.listed -> MarkUnknown(Incomplete(n), AnyFee, NoSku, a.id)
    [] OTHER -> MarkUnknown([Incomplete(n) EXCEPT !.day = Aside(@, a.total)],
                            {"revenue"} \cup AnyFee, NoSku, a.id)

\* A mistake: differences of two accruals cancel.
SignedDifference(total, raw) == total - raw
Difference(total, raw) == IF total > raw THEN total - raw ELSE raw - total

Normalised(n, a) ==
  LET m == Details([n EXCEPT !.raw = 0, !.complete = TRUE], a)
  IN [m EXCEPT
        !.net = @ + a.total,
        !.mismatch = IF m.complete THEN Plus(@, Difference(a.total, m.raw)) ELSE Unknown,
        !.reconciled = IF m.complete /\ m.raw = a.total THEN @ \cup {a.id} ELSE @]

--------------------------------------------------------------------------------
\* What the day comes to, after its last accrual.  A field with a missing detail keeps
\* what is known of it, and is unknown when nothing is.
Settled(row) == [f \in Fields |-> IF f \in row.gaps \ row.counted THEN Unknown ELSE row.money[f]]
Balance(money) == Total([f \in Fields |-> {Sign(f) * x : x \in money[f]}])
NetUnits(row) == {x - y : x \in row.sold, y \in row.returned}
Cogs(n, s) ==
  LET net == NetUnits(n.sku[s]) IN IF net = {0} THEN {0} ELSE {q * c : q \in net, c \in SkuCosts[s]}

LackingCost(n) == {s \in Named(n) : NetUnits(n.sku[s]) # Unknown /\ Cogs(n, s) = Unknown}
DayCogs(n) ==
  IF ~n.sale /\ n.day.unitsKnown /\ n.day.returned = {0} THEN {0}
  ELSE IF n.day.unitsKnown /\ n.skuUnitsKnown /\ LackingCost(n) = {}
    THEN {SumOf([s \in Named(n) |-> The(Cogs(n, s))])}
  ELSE Unknown

\* profitability_complete of the day.
DayComplete(n) ==
  /\ n.day.classified /\ n.mismatch = {0}
  /\ n.day.unitsKnown /\ n.skuUnitsKnown
  /\ DayCogs(n) # Unknown /\ Settled(n.day)["compensation"] = {0}

\* A row of a SKU as it is saved: what nobody can tell of the day is blank in each.
SkuRow(n, s) ==
  LET row == n.sku[s]
      uncertain == row.uncertain \cup n.day.uncertain
      blank == n.unknownSku
      sound == row.classified /\ n.allocated /\ row.from # {} /\ row.from \subseteq n.reconciled
  IN [money |-> [f \in Fields |-> IF f \in uncertain THEN Unknown ELSE Settled(row)[f]],
      units |-> IF blank THEN Unknown ELSE NetUnits(row),
      cogs |-> IF blank \/ "cogs" \in uncertain THEN Unknown ELSE Cogs(n, s),
      net |-> IF sound /\ uncertain = {} THEN Balance(Settled(row)) ELSE Unknown,
      returnBlocked |-> (row.returns \/ n.day.returns) /\ ~\E q \in row.returned : q > 0]

\* profitability_complete of a SKU: on its own accruals only.
SkuComplete(n, s) ==
  LET row == SkuRow(n, s)
  IN row.net # Unknown /\ row.cogs # Unknown /\ ~row.returnBlocked /\ row.money["compensation"] = {0}

--------------------------------------------------------------------------------
\* What a report shows of it.  A return lowers the tax.
_derive_ozon_tax(revenue) == {(r * OzonTaxRate) \div 100 : r \in revenue}
ShownCogs(n, s) == IF SkuCosts[s] = Unknown THEN Unknown ELSE SkuRow(n, s).cogs
SkuMargin(n, s) ==
  LET money == SkuRow(n, s).money
  IN {b - c - t : b \in Balance(money), c \in ShownCogs(n, s), t \in _derive_ozon_tax(money["revenue"])}

\* A SKU without a cost adds nothing, one whose units are unknown makes the day's unknown.
KnownCost(n) ==
  IF \E s \in Named(n) : ShownCogs(n, s) = Unknown /\ SkuRow(n, s).units = Unknown THEN Unknown
  ELSE {SumOf([s \in {t \in Named(n) : ShownCogs(n, t) # Unknown} |-> The(ShownCogs(n, s))])}
ShownDayCogs(n) ==
  LET revenue == Settled(n.day)["revenue"]
  IN CASE revenue = Unknown -> Unknown
       [] revenue # Unknown /\ Named(n) # {} -> KnownCost(n)
       [] revenue # Unknown /\ Named(n) = {} -> IF revenue = {0} THEN {0} ELSE Unknown

\* The balance of the day holds its unallocated charges and compensations already.
DayMargin(n) ==
  {n.net - c - t - OzonExpense :
     c \in ShownDayCogs(n), t \in _derive_ozon_tax(Settled(n.day)["revenue"])}

OzonInit == taken = {} /\ ledger = EmptyLedger
Accrue ==
  \E a \in Accruals \ taken :
    /\ Cardinality(taken) < MaxAccruals
    /\ taken' = taken \cup {a}
    /\ ledger' = Normalised(ledger, a)
OzonNext == Accrue
OzonSpec == OzonInit /\ [][OzonNext]_ozonVars

--------------------------------------------------------------------------------
\* The same day read from the accruals themselves, without a ledger.
LineAmount(a, i) ==
  LET l == a.lines[i]
      sale == IF l.sells THEN Both(l.sale, l.commission) ELSE {0}
      delivered == CASE l.delivery = "null" -> {0} [] l.delivery = "amounts" -> Total(l.amounts) [] OTHER -> Unknown
  IN IF a.category # "POSTING" THEN l.amount ELSE IF l.damaged THEN Unknown ELSE Both(sale, delivered)
LinesOf(a) == IF a.listed THEN DOMAIN a.lines ELSE {}
SumOfLines(a, I) == SumOf([i \in I |-> The(LineAmount(a, i))])
Legible(a) ==
  /\ a.category \in FeeCategories \cup {"POSTING"} /\ a.listed
  /\ \A i \in LinesOf(a) : LineAmount(a, i) # Unknown
  /\ (a.category = "POSTING" /\ \E i \in LinesOf(a) : a.lines[i].delivery = "null")
       => a.total = SumOfLines(a, LinesOf(a))
Reconciled(a) == Legible(a) /\ a.total = SumOfLines(a, LinesOf(a))

\* Lines of a SKU whose meaning is known, and its units sold less those returned.
OwnLines(a, s) ==
  {i \in LinesOf(a) : a.lines[i].sku = s /\ (a.category # "POSTING" => a.lines[i].type # "ambiguous")}
UnitsOf(a, s) ==
  SumOf([i \in {j \in OwnLines(a, s) : a.category = "POSTING" /\ a.lines[j].sells} |->
           (IF The(a.lines[i].sale) > 0 THEN 1 ELSE -1) * The(a.lines[i].quantity)])
\* A line without a commission block whose delivery has no services names nobody.
SaysNothing(a, i) ==
  a.category = "POSTING" /\ ~a.lines[i].sells /\ a.lines[i].delivery = "amounts" /\ a.lines[i].amounts = << >>

OzonTypeOK ==
  /\ taken \subseteq Accruals /\ Cardinality(taken) <= MaxAccruals
  /\ \A f \in Fields : IsAmount(ledger.day.money[f]) /\ \A s \in Skus : IsAmount(ledger.sku[s].money[f])
  /\ ledger.net = SumOf([a \in taken |-> a.total])

(* The difference of a day is zero exactly when each of its accruals is, and  *)
(* is unknown when one of them cannot be read: two mistakes never cancel.     *)
MismatchesDoNotCancel ==
  /\ ledger.mismatch = {0} <=> \A a \in taken : Reconciled(a)
  /\ ledger.mismatch = Unknown <=> \E a \in taken : ~Legible(a)

(* Where the day claims a profit, its columns add up to what Ozon paid and    *)
(* its cost of goods is that of the units sold less those that came back.     *)
DayProfitIsCertain ==
  /\ ledger.day.classified /\ ledger.mismatch = {0} => Balance(Settled(ledger.day)) = {ledger.net}
  /\ DayComplete(ledger) =>
       DayCogs(ledger) = {SumOf([s \in Skus |-> SumOf([a \in taken |-> UnitsOf(a, s)])
                                         * (IF SkuCosts[s] = Unknown THEN 0 ELSE The(SkuCosts[s]))])}

(* A SKU that claims a profit owes it to its own lines alone, whatever came   *)
(* to other SKUs of the day; a fee of an ambiguous type stays out of it.      *)
SkuProfitIsItsOwn ==
  \A s \in Named(ledger) : SkuComplete(ledger, s) =>
    /\ \A a \in taken : (\E i \in LinesOf(a) : a.lines[i].sku = s /\ ~SaysNothing(a, i)) => Reconciled(a)
    /\ SkuRow(ledger, s).net = {SumOf([a \in taken |-> SumOfLines(a, OwnLines(a, s))])}
    /\ SkuRow(ledger, s).units = {SumOf([a \in taken |-> UnitsOf(a, s)])}

(* The margins shown agree: that of a reconciled day is the margins of its    *)
(* SKUs, what belongs to no SKU, and its expenses.                            *)
ShownMarginsAgree ==
  ledger.mismatch = {0} /\ DayMargin(ledger) # Unknown
  /\ (\A s \in Named(ledger) : SkuMargin(ledger, s) # Unknown) =>
    DayMargin(ledger) = {SumOf([s \in Named(ledger) |-> The(SkuMargin(ledger, s))])
                         + ledger.day.unallocated - OzonExpense}

\* What is told of the money of a day and of its SKUs.
Told(n) ==
  [day |-> Settled(n.day), mismatch |-> n.mismatch, cogs |-> DayCogs(n), complete |-> DayComplete(n),
   margin |-> DayMargin(n),
   skus |-> [s \in Named(n) |-> <<SkuRow(n, s).money, SkuRow(n, s).net, SkuRow(n, s).cogs,
                                 SkuComplete(n, s), SkuMargin(n, s)>>]]

\* The ledger of the same accruals, read in an order of its own.
InAnotherOrder ==
  LET read[T \in SUBSET taken] ==
        IF T = {} THEN EmptyLedger ELSE LET a == CHOOSE b \in T : TRUE IN Normalised(read[T \ {a}], a)
  IN read[taken]

(* The order in which Ozon lists a day's accruals changes no money of it: it  *)
(* does change which SKUs show their units, once a posting lost its lines.    *)
OrderDoesNotMatter == Told(ledger) = Told(InAnotherOrder)

OzonMoneyInv ==
  /\ OzonTypeOK /\ MismatchesDoNotCancel /\ DayProfitIsCertain
  /\ SkuProfitIsItsOwn /\ ShownMarginsAgree /\ OrderDoesNotMatter
================================================================================
