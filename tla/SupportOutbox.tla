-------------------------- MODULE SupportOutbox --------------------------
(***************************************************************************)
(* The support bot, answers to clients: `send` with a key that is to keep  *)
(* an answer from going out twice, and the reminder of `watch` about a     *)
(* promise.  One chat; a request has a key and a text, and a repeated key  *)
(* may come with another text.                                             *)
(***************************************************************************)
EXTENDS Integers, Sequences, FiniteSets

CONSTANTS Keys,
          Texts,
          PartsOf,    \* [Texts -> Nat \ {0}]: what plan_steps makes of a text
          Promises,   \* the texts with a promise marker
          Senders, Reminders,   \* processes that run at once
          MaxSends    \* bound: commands given

ASSUME OutboxAssumption ==
  /\ IsFiniteSet(Keys) /\ Texts # {}
  /\ PartsOf \in [Texts -> Nat \ {0}]
  /\ Promises \subseteq Texts
  /\ MaxSends \in Nat

VARIABLES
  outbox,     \* table outbox by id
  sender, reminder,
  alerted,    \* promise_alerts.json
  sends,      \* bound
  delivered,  \* history: what Telegram took, by key
  reminded,   \* history: how often a row's reminder was printed
  broken      \* history: a reminder overlapped another, or died before it was saved

outVars == <<outbox, sender, reminder, alerted, sends, delivered, reminded, broken>>

RowIds == 1..Cardinality(Keys)
Idle == [pc |-> "idle"]
Statuses == {"pending", "sending", "sent", "unknown", "failed"}
Parts(t) == [n \in 1..PartsOf[t] |-> <<t, n>>]

OutboxRows == [key : Keys, text : Texts, status : Statuses]

SenderState ==
  {Idle}
  \cup [pc : {"claim"}, key : Keys, text : Texts]
  \cup [pc : {"deliver"}, key : Keys, text : Texts, done : Nat]
  \cup [pc : {"finish"}, key : Keys, status : {"sent", "unknown", "failed"}]

ReminderState == {Idle} \cup [pc : {"printed"}, ids : SUBSET RowIds]

OutTypeOK ==
  /\ outbox \in Seq(OutboxRows)
  /\ \A i, j \in DOMAIN outbox : outbox[i].key = outbox[j].key => i = j
  /\ sender \in [Senders -> SenderState]
  /\ \A s \in Senders : sender[s].pc = "deliver" => sender[s].done < PartsOf[sender[s].text]
  /\ reminder \in [Reminders -> ReminderState]
  /\ alerted \subseteq DOMAIN outbox
  /\ sends \in 0..MaxSends
  /\ delivered \in [Keys -> Seq(Texts \X Nat)]
  /\ reminded \in [RowIds -> Nat]
  /\ broken \in BOOLEAN

OutInit ==
  /\ outbox = << >>
  /\ sender = [s \in Senders |-> Idle]
  /\ reminder = [w \in Reminders |-> Idle]
  /\ alerted = {} /\ sends = 0
  /\ delivered = [k \in Keys |-> << >>]
  /\ reminded = [i \in RowIds |-> 0]
  /\ broken = FALSE

RowsOf(k) == {i \in DOMAIN outbox : outbox[i].key = k}
MaySend(i) == outbox[i].status \in {"pending", "failed"}

Sends(s, q) == sender' = [sender EXCEPT ![s] = q]
SetStatus(k, status) ==
  outbox' = [i \in DOMAIN outbox |->
               IF outbox[i].key = k THEN [outbox[i] EXCEPT !.status = status] ELSE outbox[i]]

-----------------------------------------------------------------------------
(* send_message: the row is made if there is none, then read. *)
Open(s, k, t) ==
  /\ sender[s] = Idle
  /\ sends < MaxSends
  /\ sends' = sends + 1
  /\ IF RowsOf(k) = {}
     THEN /\ outbox' = Append(outbox, [key |-> k, text |-> t, status |-> "pending"])
          /\ Sends(s, [pc |-> "claim", key |-> k, text |-> t])
     ELSE /\ UNCHANGED outbox
          /\ Sends(s, IF \A i \in RowsOf(k) : MaySend(i)
                      THEN [pc |-> "claim", key |-> k, text |-> t] ELSE Idle)
  /\ UNCHANGED <<reminder, alerted, delivered, reminded, broken>>

\* claim_outbox: one UPDATE that looks at the status again.
ClaimAsRead(i) == i \in DOMAIN outbox
ClaimFits(i) == MaySend(i)

Claim(s) ==
  LET q == sender[s] IN
  /\ q.pc = "claim"
  /\ IF \A i \in RowsOf(q.key) : ClaimFits(i)
     THEN /\ SetStatus(q.key, "sending")
          /\ Sends(s, [pc |-> "deliver", key |-> q.key, text |-> q.text, done |-> 0])
     ELSE Sends(s, Idle) /\ UNCHANGED outbox
  /\ UNCHANGED <<reminder, alerted, sends, delivered, reminded, broken>>

-----------------------------------------------------------------------------
(* _deliver: one call of Telegram for each part. *)
Takes(q) == delivered' = [delivered EXCEPT ![q.key] = Append(@, <<q.text, q.done + 1>>)]
Finishes(s, q, status) == Sends(s, [pc |-> "finish", key |-> q.key, status |-> status])

PartIsTaken(s) ==
  LET q == sender[s] IN
  /\ q.pc = "deliver"
  /\ Takes(q)
  /\ IF q.done + 1 = PartsOf[q.text] THEN Finishes(s, q, "sent")
     ELSE Sends(s, [q EXCEPT !.done = @ + 1])
  /\ UNCHANGED <<outbox, reminder, alerted, sends, reminded, broken>>

\* A plain refusal allows a retry only if no part has gone.
RefusedAs(q) == IF q.done = 0 THEN "failed" ELSE "unknown"

PartIsRefused(s) ==
  LET q == sender[s] IN
  /\ q.pc = "deliver"
  /\ Finishes(s, q, RefusedAs(q))
  /\ UNCHANGED <<outbox, reminder, alerted, sends, delivered, reminded, broken>>

\* A timeout, a 5xx, an answer that cannot be read: the part may have gone.
PartIsUnclear(s) ==
  LET q == sender[s] IN
  /\ q.pc = "deliver"
  /\ Takes(q) \/ UNCHANGED delivered
  /\ Finishes(s, q, "unknown")
  /\ UNCHANGED <<outbox, reminder, alerted, sends, reminded, broken>>

Finish(s) ==
  /\ sender[s].pc = "finish"
  /\ SetStatus(sender[s].key, sender[s].status)
  /\ Sends(s, Idle)
  /\ UNCHANGED <<reminder, alerted, sends, delivered, reminded, broken>>

SenderDies(s) ==
  /\ sender[s] # Idle
  /\ Sends(s, Idle)
  /\ UNCHANGED <<outbox, reminder, alerted, sends, delivered, reminded, broken>>

-----------------------------------------------------------------------------
(* watch.py: find_overdue_promise and promise_alerts.json. *)
SentRows == {i \in DOMAIN outbox : outbox[i].status = "sent"}

\* last_sent_per_chat; whether an hour has passed is left open.
Overdue ==
  {i \in SentRows : (\A j \in SentRows : j <= i) /\ outbox[i].text \in Promises /\ i \notin alerted}

Remind(w) ==
  /\ reminder[w] = Idle
  /\ \E i \in Overdue :
       /\ reminder' = [reminder EXCEPT ![w] = [pc |-> "printed", ids |-> alerted \cup {i}]]
       /\ reminded[i] < 2   \* bound: printed for ever while two copies overlap
       /\ reminded' = [reminded EXCEPT ![i] = @ + 1]
  /\ broken' = (broken \/ \E o \in Reminders : reminder[o] # Idle)
  /\ UNCHANGED <<outbox, sender, alerted, sends, delivered>>

SaveAlerted(w) ==
  /\ reminder[w] # Idle
  /\ alerted' = reminder[w].ids
  /\ reminder' = [reminder EXCEPT ![w] = Idle]
  /\ UNCHANGED <<outbox, sender, sends, delivered, reminded, broken>>

ReminderDies(w) ==
  /\ reminder[w] # Idle
  /\ reminder' = [reminder EXCEPT ![w] = Idle]
  /\ broken' = TRUE
  /\ UNCHANGED <<outbox, sender, alerted, sends, delivered, reminded>>

OutNext ==
  \/ \E s \in Senders :
       \/ \E k \in Keys, t \in Texts : Open(s, k, t)
       \/ Claim(s) \/ PartIsTaken(s) \/ PartIsRefused(s) \/ PartIsUnclear(s)
       \/ Finish(s) \/ SenderDies(s)
  \/ \E w \in Reminders : Remind(w) \/ SaveAlerted(w) \/ ReminderDies(w)

OutSpec == OutInit /\ [][OutNext]_outVars

-----------------------------------------------------------------------------
(* "одно и то же сообщение не уйдёт дважды": whatever was repeated, overlapped or died,
   the client got the beginning of one text, each part once and in order. *)
AnswerGoesOnce ==
  \A k \in Keys : \E t \in Texts :
    /\ Len(delivered[k]) <= PartsOf[t]
    /\ \A n \in DOMAIN delivered[k] : delivered[k][n] = <<t, n>>

(* The status, on which the retry rests, is true of what the client has: "sent" is the
   whole text, "failed" and "pending" are nothing at all. *)
StatusIsTrue ==
  \A i \in DOMAIN outbox :
    LET got == delivered[outbox[i].key] IN
    /\ outbox[i].status = "sent" => \E t \in Texts : got = Parts(t)
    /\ MaySend(i) => got = << >>

(* "Каждое напоминание печатается один раз": it is printed before it is noted, so it is
   never lost, and is printed again only if a copy died or overlapped. *)
RemindedOnce ==
  /\ \A i \in alerted : reminded[i] > 0
  /\ ~broken => \A i \in RowIds : reminded[i] <= 1

(* What send.py keeps true through repeated, overlapping and dying commands. *)
OutboxInv == OutTypeOK /\ AnswerGoesOnce /\ StatusIsTrue /\ RemindedOnce
=============================================================================
