-------------------------------- MODULE WbClient --------------------------------
(******************************************************************************)
(* The client of Wildberries, wb_client.py: how answers of its HTTP methods   *)
(* become the rows of one call.  A report of sales comes in pages, a funnel   *)
(* in chunks of articles, the spend of a campaign is split among its          *)
(* articles.  A caller gets rows or an exception, and stores the rows as if   *)
(* they were all (sync_sales replaces the period).  The client has no way to  *)
(* tell that a 200 is short: Wildberries may leave out deleted cards, send an *)
(* empty body or break a report off, and untold remembers what it left out.   *)
(******************************************************************************)
EXTENDS Integers, FiniteSets, FiniteSetsExt, Functions

CONSTANTS
  Nms,             \* articles of the seller
  FUNNEL_CHUNK_SIZE,
  FUNNEL_CHUNK_MAX_ATTEMPTS,
  ReportLen,       \* rows of the sales report, by ascending rrdId
  NoDateRows,      \* rows of it without a date
  PageLimit,       \* limit of a page
  Campaigns,       \* campaigns with their articles
  Updates,         \* rows of adv/v1/upd: [id, campaign, sum, within]; sum in units that split evenly
  MaxWbAnswers     \* bound: answers of one call

ASSUME WbClientAssumption ==
  /\ {FUNNEL_CHUNK_SIZE, FUNNEL_CHUNK_MAX_ATTEMPTS, PageLimit} \subseteq Nat \ {0}
  /\ Nms \subseteq Nat \ {0} /\ IsFiniteSet(Nms)
  /\ ReportLen \in Nat /\ NoDateRows \subseteq 1..ReportLen
  /\ \A c \in DOMAIN Campaigns : Campaigns[c] \subseteq Nms
  /\ \A u \in Updates : u.id \in Nat
  /\ \A u, v \in Updates : u.id = v.id => u = v
  /\ \A u \in Updates : /\ u.campaign \in DOMAIN Campaigns /\ u.sum \in Nat
                        /\ LET nms == Campaigns[u.campaign]
                           IN nms # {} => u.sum % Cardinality(nms) = 0

VARIABLES
  call,        \* the call under way, or the last one
  wbAnswers,   \* answers to it so far
  odd,         \* history: an answer to it was neither 200 nor an error
  untold       \* history: articles, rows or charges that answers taken for success left out

wbClientVars == <<call, wbAnswers, odd, untold>>

NoNm == 0
FirstOf(n, s) == {x \in s : Cardinality({y \in s : y < x}) < n}
ReportRows == (1..ReportLen) \ NoDateRows
AdRow(u, nm, spend) == [update |-> u.id, nm |-> nm, spend |-> spend]

--------------------------------------------------------------------------------
Asked(op) == call.op = op /\ call.pc = "ask" /\ wbAnswers < MaxWbAnswers /\ wbAnswers' = wbAnswers + 1
Raised == call' = [call EXCEPT !.pc = "raised"]
AsBefore == UNCHANGED <<odd, untold>>

Begins(c) ==
  /\ call.pc # "ask"
  /\ call' = c
  /\ wbAnswers' = 0 /\ odd' = FALSE /\ untold' = {}

\* left: the articles whose chunks are still to be asked for.
FunnelBegins ==
  \E wait \in BOOLEAN :
    Begins([op |-> "history", pc |-> "ask", wait |-> wait, left |-> Nms, rows |-> {}, tries |-> 0])
\* A day of a year asks for chunks and again when refused; a repair of a day asks once,
\* for all articles, and takes the first thousand.
ProductsBegin ==
  \E whole \in BOOLEAN :
    Begins([op |-> "products", pc |-> "ask", rows |-> {}, tries |-> 0,
            asked |-> IF whole THEN Nms ELSE FirstOf(FUNNEL_CHUNK_SIZE, Nms),
            most |-> IF whole THEN 1 ELSE FUNNEL_CHUNK_MAX_ATTEMPTS])
SalesBegin ==
  \E source \in {"finance_api", "statistics_api"} :
    Begins([op |-> "sales", pc |-> "ask", source |-> source, after |-> 0, rows |-> {}])
AdsBegin ==
  Begins([op |-> "ads", pc |-> "ask", rows |-> {}])

\* _parse_funnel_history_response: entries without an article or a date are dropped.
Parsed(entries) == entries \ {NoNm}

\* fetch_funnel: the next chunk is asked for only after 200, whatever that brought.
HistoryAnswered ==
  /\ Asked("history")
  /\ LET chunk == FirstOf(FUNNEL_CHUNK_SIZE, call.left)
         left == call.left \ chunk
     IN \E entries \in SUBSET (chunk \cup {NoNm}) :
          /\ call' = [call EXCEPT !.rows = @ \cup Parsed(entries), !.left = left, !.tries = 0,
                                  !.pc = IF left = {} THEN "returned" ELSE "ask"]
          /\ untold' = untold \cup (chunk \ entries)
  /\ UNCHANGED odd

\* A mistake: a chunk that was refused too often is left out.
RefusedChunkIsSkipped ==
  /\ Asked("history")
  /\ LET tries == call.tries + 1
         left == call.left \ FirstOf(FUNNEL_CHUNK_SIZE, call.left)
     IN call' = IF tries >= FUNNEL_CHUNK_MAX_ATTEMPTS
                  THEN [call EXCEPT !.left = left, !.tries = 0,
                                    !.pc = IF left = {} THEN "returned" ELSE "ask"]
                  ELSE [call EXCEPT !.tries = tries]
  /\ AsBefore

\* 429 and 5xx: again, unless the caller does not wait or it was the last try.
HistoryRefused ==
  /\ Asked("history")
  /\ LET tries == call.tries + 1 IN
     IF tries >= FUNNEL_CHUNK_MAX_ATTEMPTS \/ ~call.wait
       THEN Raised
       ELSE call' = [call EXCEPT !.tries = tries]
  /\ AsBefore

\* raise_for_status does not raise for 204 or 302: such an answer is asked for
\* again without end, the waiting and the limit of tries notwithstanding.
HistoryAnsweredOddly ==
  /\ Asked("history")
  /\ call' = [call EXCEPT !.tries = @ + 1]
  /\ odd' = TRUE /\ UNCHANGED untold

\* One request of products for one day.
ProductsAnswered ==
  /\ Asked("products")
  /\ \E entries \in SUBSET (call.asked \cup {NoNm}) :
       /\ call' = [call EXCEPT !.rows = Parsed(entries), !.pc = "returned"]
       /\ untold' = call.asked \ entries
  /\ UNCHANGED odd
ProductsRefused ==
  /\ Asked("products")
  /\ LET tries == call.tries + 1 IN
     IF tries >= call.most THEN Raised ELSE call' = [call EXCEPT !.tries = tries]
  /\ AsBefore

\* Any other code than 200, 429 and 5xx, or a body that cannot be read.
CallIsForbidden ==
  /\ \E op \in {"history", "products", "sales"} : Asked(op)
  /\ Raised
  /\ AsBefore

\* A page of sales, empty for a body that is no list.  A full one whose last row has an
\* id asks for the rows after it; anything else is taken for the end of the report.
PageIsLast(page) == Cardinality(page) < PageLimit

SalesPage ==
  /\ Asked("sales")
  /\ \E n \in 0..PageLimit, lastHasId \in BOOLEAN :
       LET page == FirstOf(n, (call.after + 1)..ReportLen)
           after == IF page = {} THEN call.after ELSE Max(page)
       IN /\ call' = [call EXCEPT !.rows = @ \cup (page \ NoDateRows), !.after = after,
                       !.pc = IF PageIsLast(page) \/ ~lastHasId THEN "returned" ELSE "ask"]
          /\ untold' = IF n < PageLimit \/ ~lastHasId THEN (after + 1)..ReportLen ELSE {}
  /\ UNCHANGED odd

\* 204 ends the report of finance-api; the old report cannot read an empty body.
SalesEnd ==
  /\ Asked("sales")
  /\ \/ /\ call.source = "finance_api" /\ call' = [call EXCEPT !.pc = "returned"]
        /\ untold' = (call.after + 1)..ReportLen
     \/ call.source = "statistics_api" /\ Raised /\ UNCHANGED untold
  /\ UNCHANGED odd

\* 429 and 5xx; the client does not try again by itself.
SalesRefused429 ==
  /\ Asked("sales") /\ Raised /\ AsBefore

--------------------------------------------------------------------------------
\* _fetch_campaigns_details: the campaigns of a chunk that was refused, or that
\* the answer left out, are unknown.
ArticlesOf(c, refused) == IF c \in refused THEN {} ELSE Campaigns[c]

\* fetch_ads: a campaign's spend in equal parts, or whole without an article.
Split(u, nms) ==
  IF nms = {} THEN {AdRow(u, NoNm, u.sum)}
  ELSE {AdRow(u, nm, u.sum \div Cardinality(nms)) : nm \in nms}

AdsAnswered ==
  /\ Asked("ads")
  /\ \E refused \in SUBSET DOMAIN Campaigns, charged \in SUBSET Updates :
       /\ call' = [call EXCEPT !.pc = "returned",
                     !.rows = UNION {Split(u, ArticlesOf(u.campaign, refused)) :
                                       u \in {v \in charged : v.within}}]
       /\ untold' = {u.id : u \in Updates \ charged}
  /\ UNCHANGED odd
\* 429 and 5xx raise; any other error is told as a period without advertising,
\* which sync_ads takes for nothing to do.
AdsRefused ==
  /\ Asked("ads")
  /\ call' \in {[call EXCEPT !.pc = "raised"], [call EXCEPT !.pc = "nothing"]}
  /\ AsBefore

--------------------------------------------------------------------------------
WbClientInit ==
  /\ call = [op |-> "none", pc |-> "returned"]
  /\ wbAnswers = 0 /\ odd = FALSE /\ untold = {}

WbClientNext ==
  \/ FunnelBegins \/ ProductsBegin \/ SalesBegin \/ AdsBegin
  \/ HistoryAnswered \/ HistoryRefused \/ HistoryAnsweredOddly
  \/ ProductsAnswered \/ ProductsRefused \/ CallIsForbidden
  \/ SalesPage \/ SalesEnd \/ SalesRefused429
  \/ AdsAnswered \/ AdsRefused
WbClientSpec == WbClientInit /\ [][WbClientNext]_wbClientVars

--------------------------------------------------------------------------------
Returned(op) == call.op = op /\ call.pc = "returned"
RowsOf(u) == {r \in call.rows : r.update = u.id}

(* What a call returns is all that Wildberries told: of the articles asked    *)
(* for only those are missing that a 200 left out, never those of a chunk     *)
(* that was refused, and a report goes on until an answer breaks it off.      *)
ReturnedCallHasAllTold ==
  /\ Returned("history") => call.rows = Nms \ untold
  /\ Returned("products") => call.rows = call.asked \ untold
  /\ Returned("sales") => call.rows = ReportRows \ untold

(* Nothing of a spend is lost or counted twice when it is split, known        *)
(* campaigns or not: the parts the client returns add up to every charge that *)
(* it was told of.  The client divides exactly (a float), so sums are in      *)
(* units that split evenly; raw_ads rounds each part to kopecks afterwards,   *)
(* which is not said here.                                                    *)
SpendIsKept ==
  Returned("ads") =>
    \A u \in Updates :
      SumFunctionOnSet([r \in RowsOf(u) |-> r.spend], RowsOf(u)) =
        IF u.within /\ u.id \notin untold THEN u.sum ELSE 0

(* A chunk is given up after FUNNEL_CHUNK_MAX_ATTEMPTS tries, and at once by  *)
(* a caller that does not wait.                                               *)
TriesAreBounded ==
  call.op \in {"history", "products"} /\ ~odd =>
    /\ call.tries < FUNNEL_CHUNK_MAX_ATTEMPTS
    /\ call.op = "history" /\ ~call.wait => call.tries = 0

WbClientInv == ReturnedCallHasAllTold /\ SpendIsKept /\ TriesAreBounded
================================================================================
