--------------------------- MODULE ReviewReplies ---------------------------
(***************************************************************************)
(* Replies to the reviews of one store.  Synchronisation (by the daily beat *)
(* or from the page) copies the reviews that Wildberries lists as          *)
(* unanswered and asks the AI for suggestions; the seller publishes a      *)
(* reply from the page.  They overlap: each reads a row, waits for a       *)
(* server, and writes the row without looking at it again.                 *)
(***************************************************************************)
EXTENDS Naturals, FiniteSets, FiniteSetsExt

CONSTANTS Feedbacks,       \* reviews at Wildberries
          Syncs,           \* synchronisations that may overlap
          Publishers,      \* requests to publish that may overlap
          TakeLimit,       \* "take": reviews asked for at once
          SuggestLimit,    \* generate_missing_suggestions_limit
          MaxPublications  \* bound: requests to publish

ASSUME ReviewRepliesAssumption ==
  /\ TakeLimit \in Nat \ {0}
  /\ SuggestLimit \in Nat
  /\ MaxPublications \in Nat

VARIABLES
  reply,      \* ai_review_replies by review
  answers,    \* answers Wildberries has accepted
  syncing,    \* what each synchronisation is about
  publishing, \* what each request to publish is about
  published,  \* requests to publish so far
  disturbed   \* history: reviews that two wrote at a time, or answered and not marked

replyVars == <<reply, answers, syncing, publishing, published, disturbed>>

ReplyStatuses == {"absent", "pending", "error", "published"}
NotSyncing == [pc |-> "idle"]
NotPublishing == [pc |-> "idle"]
NoReply == [status |-> "absent", suggested |-> FALSE]

ReplyTypeOK ==
  /\ reply \in [Feedbacks -> [status : ReplyStatuses, suggested : BOOLEAN]]
  /\ answers \in [Feedbacks -> Nat]
  /\ \A s \in Syncs :
       \/ syncing[s] = NotSyncing
       \/ syncing[s] \in [pc : {"upsert", "suggest"}, todo : SUBSET Feedbacks,
                          rows : SUBSET Feedbacks]
       \/ syncing[s] \in [pc : {"write"}, todo : SUBSET Feedbacks, rows : SUBSET Feedbacks,
                          id : Feedbacks, seen : ReplyStatuses]
  /\ \A p \in Publishers :
       \/ publishing[p] = NotPublishing
       \/ publishing[p] \in [pc : {"post", "accepted", "refused"}, id : Feedbacks]
  /\ published \in 0..MaxPublications
  /\ disturbed \subseteq Feedbacks

ReplyInit ==
  /\ reply = [f \in Feedbacks |-> NoReply]
  /\ answers = [f \in Feedbacks |-> 0]
  /\ syncing = [s \in Syncs |-> NotSyncing]
  /\ publishing = [p \in Publishers |-> NotPublishing]
  /\ published = 0
  /\ disturbed = {}

-----------------------------------------------------------------------------
\* Who will write the row of f without reading it again.
SyncHolds(s, f) ==
  \/ syncing[s].pc = "write" /\ syncing[s].id = f
  \/ syncing[s].pc = "suggest" /\ f \in syncing[s].todo
PublisherHolds(p, f) == publishing[p].pc # "idle" /\ publishing[p].id = f

Disturbs(f, others, publishers) ==
  disturbed' = IF \/ \E s \in others : SyncHolds(s, f)
                  \/ \E p \in publishers : PublisherHolds(p, f)
               THEN disturbed \cup {f} ELSE disturbed

\* The first n of a list whose order is left open.
UpTo(n, set) == kSubset(IF n < Cardinality(set) THEN n ELSE Cardinality(set), set)

(* fetch_unanswered_reviews: at most so many, always from the first one. *)
FetchUnanswered(s) ==
  LET unanswered == {f \in Feedbacks : answers[f] = 0} IN
  /\ syncing[s] = NotSyncing
  /\ \E todo \in UpTo(TakeLimit, unanswered) :
       syncing' = [syncing EXCEPT ![s] = [pc |-> "upsert", todo |-> todo, rows |-> {}]]
  /\ UNCHANGED <<reply, answers, publishing, published, disturbed>>

(* _upsert_review_row: reads the row, then inserts or updates it. *)
ReadReview(s, f) ==
  /\ syncing[s].pc = "upsert"
  /\ f \in syncing[s].todo
  /\ syncing' = [syncing EXCEPT ![s] =
       [pc |-> "write", todo |-> @.todo \ {f}, rows |-> @.rows, id |-> f,
        seen |-> reply[f].status]]
  /\ UNCHANGED <<reply, answers, publishing, published, disturbed>>

\* A row inserted meanwhile is taken as it is; an error is given another chance.
Upserted(row, seen) ==
  IF row.status = "absent" THEN [row EXCEPT !.status = "pending"]
  ELSE IF seen = "error" THEN [row EXCEPT !.status = "pending"] ELSE row

WriteReview(s) ==
  LET q == syncing[s] IN
  /\ q.pc = "write"
  /\ reply' = [reply EXCEPT ![q.id] = Upserted(@, q.seen)]
  /\ syncing' = [syncing EXCEPT ![s] =
       [pc |-> "upsert", todo |-> q.todo, rows |-> q.rows \cup {q.id}]]
  /\ IF reply' = reply THEN UNCHANGED disturbed ELSE Disturbs(q.id, Syncs \ {s}, Publishers)
  /\ UNCHANGED <<answers, publishing, published>>

(* sync_review_replies_for_user: the rows that lack a suggestion, up to the limit. *)
Missing(s) == {f \in syncing[s].rows : reply[f].status = "pending" /\ ~reply[f].suggested}

ChooseMissing(s) ==
  /\ syncing[s].pc = "upsert"
  /\ syncing[s].todo = {}
  /\ \E todo \in UpTo(SuggestLimit, Missing(s)) :
       syncing' = [syncing EXCEPT ![s] = [@ EXCEPT !.pc = "suggest", !.todo = todo]]
  /\ UNCHANGED <<reply, answers, publishing, published, disturbed>>

\* The AI answers: only the suggestion is written.  It fails: the status is, too.
Suggest(s, f) ==
  /\ syncing[s].pc = "suggest"
  /\ f \in syncing[s].todo
  /\ \/ reply' = [reply EXCEPT ![f].suggested = TRUE] /\ UNCHANGED disturbed
     \/ /\ reply' = [reply EXCEPT ![f].status = "error"]
        /\ Disturbs(f, Syncs \ {s}, Publishers)
  /\ syncing' = [syncing EXCEPT ![s].todo = @ \ {f}]
  /\ UNCHANGED <<answers, publishing, published>>

\* The synchronisation is over, or its worker dies.
SyncEnds(s) ==
  /\ syncing[s] # NotSyncing
  /\ syncing' = [syncing EXCEPT ![s] = NotSyncing]
  /\ UNCHANGED <<reply, answers, publishing, published, disturbed>>

-----------------------------------------------------------------------------
(* publish_review_reply: reads the row, posts the reply, marks the row. *)
MayBePublished(f) == reply[f].status \notin {"absent", "published"}

Publish(p, f) ==
  /\ publishing[p] = NotPublishing
  /\ published < MaxPublications
  /\ MayBePublished(f)
  /\ publishing' = [publishing EXCEPT ![p] = [pc |-> "post", id |-> f]]
  /\ published' = published + 1
  /\ Disturbs(f, {}, Publishers \ {p})
  /\ UNCHANGED <<reply, answers, syncing>>

\* Wildberries accepts the answer or refuses it.  A second answer may get either.
WbAccepts(p) ==
  /\ publishing[p].pc = "post"
  /\ publishing' = [publishing EXCEPT ![p].pc = "accepted"]
  /\ answers' = [answers EXCEPT ![publishing[p].id] = @ + 1]
  /\ UNCHANGED <<reply, syncing, published, disturbed>>

WbRefuses(p) ==
  /\ publishing[p].pc = "post"
  /\ publishing' = [publishing EXCEPT ![p].pc = "refused"]
  /\ UNCHANGED <<reply, answers, syncing, published, disturbed>>

\* Mutant: any response counts as success.
MarkedPublished(p) == "published"

Marked(p) == IF publishing[p].pc = "accepted" THEN "published" ELSE "error"

MarkReply(p) ==
  LET f == publishing[p].id IN
  /\ publishing[p].pc \in {"accepted", "refused"}
  /\ reply' = [reply EXCEPT ![f].status = Marked(p)]
  /\ publishing' = [publishing EXCEPT ![p] = NotPublishing]
  /\ Disturbs(f, Syncs, Publishers \ {p})
  /\ UNCHANGED <<answers, syncing, published>>

\* The connection breaks or the process dies before the row is marked.
PublisherDies(p) ==
  /\ publishing[p] # NotPublishing
  /\ publishing' = [publishing EXCEPT ![p] = NotPublishing]
  /\ disturbed' = IF publishing[p].pc = "accepted"
                  THEN disturbed \cup {publishing[p].id} ELSE disturbed
  /\ UNCHANGED <<reply, answers, syncing, published>>

-----------------------------------------------------------------------------
ReplyNext ==
  \/ \E s \in Syncs :
       \/ FetchUnanswered(s) \/ WriteReview(s) \/ ChooseMissing(s) \/ SyncEnds(s)
       \/ \E f \in Feedbacks : ReadReview(s, f) \/ Suggest(s, f)
  \/ \E p \in Publishers :
       \/ WbAccepts(p) \/ WbRefuses(p) \/ MarkReply(p) \/ PublisherDies(p)
       \/ \E f \in Feedbacks : Publish(p, f)

ReplySpec == ReplyInit /\ [][ReplyNext]_replyVars

-----------------------------------------------------------------------------
(***************************************************************************)
(* A reply that is shown as published was accepted by Wildberries,         *)
(* whatever other requests and synchronisations wrote into its row.        *)
(***************************************************************************)
PublishedWasAnswered ==
  \A f \in Feedbacks : reply[f].status = "published" => answers[f] > 0

(***************************************************************************)
(* "Keep status if already published/skipped": a review is answered once,  *)
(* and a reply that was published stays so, unless two requests overlap on it,  *)
(* a synchronisation wrote the row under a request, or one died half way.  *)
(***************************************************************************)
AnsweredOnce ==
  \A f \in Feedbacks \ disturbed :
    /\ answers[f] <= 1
    /\ answers[f] = 1 => \/ reply[f].status = "published"
                         \/ \E p \in Publishers : publishing[p] = [pc |-> "accepted", id |-> f]

(***************************************************************************)
(* What the rows of replies keep true under overlapping synchronisations   *)
(* and requests to publish.                                                *)
(***************************************************************************)
RepliesInv == ReplyTypeOK /\ PublishedWasAnswered /\ AnsweredOnce
=============================================================================
