--------------------------- MODULE AiToolsProofs ---------------------------
(******************************************************************************)
(* The tools around the AI, for any number of workers, requests, reviews and  *)
(* rows: the daily brief, replies to reviews, the index of the offer, tasks   *)
(* from the comparison with competitors.  All four let a request and a task   *)
(* meet over one row, so the argument is the same: as long as nobody was      *)
(* overtaken, what each has read is still in the row it is about to write.    *)
(* The studio, which has the AI draw a product's photos, comes last.          *)
(******************************************************************************)
EXTENDS ReviewReplies, DailyBrief, OfferIndex, AiTasks, Studio, FiniteSetTheorems,
        SequenceTheorems, TLAPS

(* The daily brief.                                                           *)

(* Who is about what: workers and requests hold a record or nothing.          *)
BriefWorkerType ==
  briefWorker \in [BriefWorkers -> {NotBusy} \cup [pc : {"read", "write", "generate", "fail"}, seen : BriefRow]]
BriefRequestType ==
  briefRequest \in [BriefRequests -> {NotBusy} \cup [pc : {"write", "queue"}, seen : BriefRow]]

(* What a task or a request has read is still in the row, and a task that asks *)
(* the AI, or is about to report its failure, finds the row "generating".     *)
ReadIsInTheRow ==
  ~briefRaced =>
    /\ \A w \in BriefWorkers :
         /\ briefWorker[w].pc = "read" => briefWorker[w].seen = brief
         /\ briefWorker[w].pc \in {"generate", "fail"} => brief.status = "generating"
    /\ \A r \in BriefRequests : briefRequest[r].pc = "write" => briefRequest[r].seen = brief

(* A request writes only over a brief that was neither ready nor under way.   *)
WritesOverNoBrief ==
  \A r \in BriefRequests :
    briefRequest[r].pc = "write" => briefRequest[r].seen.status \notin {"ready", "generating"}

ReadyHasText == ~briefRaced /\ brief.status = "ready" => brief.text

BriefIInv == /\ BriefInv /\ BriefWorkerType /\ BriefRequestType
             /\ ReadIsInTheRow /\ WritesOverNoBrief /\ ReadyHasText

(* Before anybody opens the brief there is no row to know about.              *)
LEMMA BriefStart == BriefInit => BriefIInv
<1> SUFFICES ASSUME BriefInit PROVE BriefIInv
  OBVIOUS
<1>1. /\ \A w \in BriefWorkers : briefWorker[w] = NotBusy /\ briefWorker[w].pc = "idle"
      /\ \A r \in BriefRequests : briefRequest[r] = NotBusy /\ briefRequest[r].pc = "idle"
  BY DEF BriefInit, NotBusy
<1>2. NoBrief \in BriefRow /\ brief = NoBrief /\ brief.status = "absent"
  BY DEF BriefInit, NoBrief, BriefRow, BriefStatuses
<1>3. BriefTypeOK
  <2>1. 0 \in 0..MaxBriefTasks /\ 0 \in 0..BriefFaults
    BY DailyBriefAssumption
  <2>2. briefTasks = 0 /\ briefQueued = 0 /\ briefFaults = 0 /\ briefRaced = FALSE
    BY DEF BriefInit
  <2> QED BY <1>1, <1>2, <2>1, <2>2 DEF BriefTypeOK
<1>4. BriefWorkerType /\ BriefRequestType
  BY DEF BriefInit, BriefWorkerType, BriefRequestType
<1>5. GeneratedByOne /\ ReadIsInTheRow /\ WritesOverNoBrief /\ ReadyHasText
  BY <1>1, <1>2 DEF GeneratedByOne, ReadIsInTheRow, WritesOverNoBrief, ReadyHasText
<1> QED BY <1>3, <1>4, <1>5 DEF BriefIInv, BriefInv

(* The row keeps its type whatever is written into it.                        *)
LEMMA BriefRowStep ==
  ASSUME BriefIInv, [BriefNext]_briefVars
  PROVE  brief' \in BriefRow
<1>0. brief \in BriefRow /\ BriefWorkerType /\ BriefRequestType
  BY DEF BriefIInv, BriefInv, BriefTypeOK
<1>1. ASSUME NEW r \in BriefRequests, TriggerWrites(r) PROVE brief' \in BriefRow
  <2>1. briefRequest[r].seen \in BriefRow
    BY <1>0, <1>1 DEF TriggerWrites, BriefRequestType, NotBusy
  <2> QED BY <1>0, <1>1, <2>1 DEF TriggerWrites, ResetTo, BriefRow, BriefStatuses, NoBrief
<1>2. ASSUME NEW w \in BriefWorkers,
             TaskInserts(w) \/ TaskStarts(w) \/ TaskFinishes(w) \/ TaskReports(w)
      PROVE brief' \in BriefRow
  <2>1. \A s \in BriefStatuses : [brief EXCEPT !.status = s] \in BriefRow
    BY <1>0 DEF BriefRow
  <2>2. [NoBrief EXCEPT !.status = "pending"] \in BriefRow /\ Finished(brief) \in BriefRow
    BY DEF NoBrief, Finished, BriefRow, BriefStatuses
  <2> QED BY <1>0, <1>2, <2>1, <2>2
           DEF TaskInserts, TaskStarts, TaskFinishes, TaskReports, BriefStatuses
<1> QED BY <1>0, <1>1, <1>2 DEF BriefNext, briefVars, BeatQueues, Trigger, TriggerQueues,
             TaskReads, TaskSkips, TaskFails, BriefWorkerDies

(* The types of the row, the tasks and the requests after any step.           *)
LEMMA BriefTypeStep ==
  ASSUME BriefIInv, [BriefNext]_briefVars
  PROVE  BriefTypeOK' /\ BriefWorkerType' /\ BriefRequestType'
<1>0. BriefTypeOK /\ BriefWorkerType /\ BriefRequestType /\ brief' \in BriefRow
  BY BriefRowStep DEF BriefIInv, BriefInv
<1>1. /\ briefTasks' \in 0..MaxBriefTasks /\ briefQueued' \in briefTasks'..MaxBriefTasks
      /\ briefFaults' \in 0..BriefFaults /\ briefRaced' \in BOOLEAN
  <2>0. /\ briefTasks \in 0..MaxBriefTasks /\ briefQueued \in briefTasks..MaxBriefTasks
        /\ briefFaults \in 0..BriefFaults /\ briefRaced \in BOOLEAN
        /\ MaxBriefTasks \in Nat /\ BriefFaults \in Nat
    BY <1>0, DailyBriefAssumption DEF BriefTypeOK
  <2>3. \A workers, requests : BriefRace(workers, requests) => briefRaced' \in BOOLEAN
    BY DEF BriefRace
  <2>4. QueueTask => /\ briefTasks' \in 0..MaxBriefTasks
                     /\ briefQueued' \in briefTasks'..MaxBriefTasks
    BY <2>0 DEF QueueTask, MayQueue
  <2>1. CASE BeatQueues \/ \E r \in BriefRequests : Trigger(r) \/ TriggerWrites(r) \/ TriggerQueues(r)
    <3>1. CASE BeatQueues
      BY <2>0, <2>4, <3>1 DEF BeatQueues
    <3>2. ASSUME NEW r \in BriefRequests, Trigger(r) \/ TriggerWrites(r)
          PROVE  UNCHANGED <<briefTasks, briefQueued, briefFaults>> /\ briefRaced' \in BOOLEAN
      BY <2>0, <2>3, <3>2 DEF Trigger, TriggerWrites, NoBrief
    <3>3. ASSUME NEW r \in BriefRequests, TriggerQueues(r)
          PROVE /\ briefTasks' \in 0..MaxBriefTasks /\ briefQueued' \in briefTasks'..MaxBriefTasks
                /\ briefFaults' \in 0..BriefFaults /\ briefRaced' \in BOOLEAN
      BY <2>0, <2>4, <3>3 DEF TriggerQueues
    <3> QED BY <2>0, <2>1, <3>1, <3>2, <3>3
  <2>2. CASE \E w \in BriefWorkers :
               \/ TaskReads(w) \/ TaskInserts(w) \/ TaskSkips(w) \/ TaskStarts(w)
               \/ TaskFinishes(w) \/ TaskFails(w) \/ TaskReports(w) \/ BriefWorkerDies(w)
    <3>1. ASSUME NEW w \in BriefWorkers, TaskReads(w) \/ BriefWorkerDies(w)
          PROVE /\ briefTasks' \in 0..MaxBriefTasks /\ briefQueued' \in briefTasks'..MaxBriefTasks
                /\ briefFaults' \in 0..BriefFaults /\ briefRaced' \in BOOLEAN
      BY <2>0, <3>1 DEF TaskReads, BriefWorkerDies
    <3> QED BY <2>0, <2>2, <2>3, <3>1 DEF TaskInserts, TaskSkips, TaskStarts, TaskFinishes,
                                         TaskFails, TaskReports, NoBrief
  <2> QED BY <2>0, <2>1, <2>2 DEF BriefNext, briefVars
<1>2. BriefWorkerType'
  <2>1. ASSUME NEW w \in BriefWorkers,
               NEW x \in {NotBusy} \cup [pc : {"read", "write", "generate", "fail"}, seen : BriefRow],
               briefWorker' = [briefWorker EXCEPT ![w] = x]
        PROVE BriefWorkerType'
    BY <1>0, <2>1 DEF BriefWorkerType
  <2>2. \A pc \in {"read", "write", "generate", "fail"} :
          /\ [pc |-> pc, seen |-> brief] \in [pc : {"read", "write", "generate", "fail"}, seen : BriefRow]
          /\ [pc |-> pc, seen |-> brief'] \in [pc : {"read", "write", "generate", "fail"}, seen : BriefRow]
    BY <1>0 DEF BriefTypeOK
  <2>3. CASE UNCHANGED briefWorker
    BY <1>0, <2>3 DEF BriefWorkerType
  <2>4. CASE \E w \in BriefWorkers :
               \/ TaskReads(w) \/ TaskInserts(w) \/ TaskSkips(w) \/ TaskStarts(w)
               \/ TaskFinishes(w) \/ TaskFails(w) \/ TaskReports(w) \/ BriefWorkerDies(w)
    BY <2>1, <2>2, <2>4 DEF TaskReads, TaskInserts, TaskSkips, TaskStarts, TaskFinishes, TaskFails,
                           TaskReports, BriefWorkerDies, WorkerIs, WorkerIsFree
  <2> QED BY <2>3, <2>4 DEF BriefNext, briefVars, BeatQueues, Trigger, TriggerWrites, TriggerQueues
<1>3. BriefRequestType'
  <2>1. ASSUME NEW r \in BriefRequests,
               NEW x \in {NotBusy} \cup [pc : {"write", "queue"}, seen : BriefRow],
               briefRequest' = [briefRequest EXCEPT ![r] = x]
        PROVE BriefRequestType'
    BY <1>0, <2>1 DEF BriefRequestType
  <2>2. \A pc \in {"write", "queue"} :
          /\ [pc |-> pc, seen |-> brief] \in [pc : {"write", "queue"}, seen : BriefRow]
          /\ [pc |-> pc, seen |-> brief'] \in [pc : {"write", "queue"}, seen : BriefRow]
    BY <1>0 DEF BriefTypeOK
  <2>3. CASE UNCHANGED briefRequest
    BY <1>0, <2>3 DEF BriefRequestType
  <2>4. CASE \E r \in BriefRequests : Trigger(r) \/ TriggerWrites(r) \/ TriggerQueues(r)
    BY <2>1, <2>2, <2>4 DEF Trigger, TriggerWrites, TriggerQueues
  <2> QED BY <2>3, <2>4 DEF BriefNext, briefVars, BeatQueues, TaskReads, TaskInserts, TaskSkips,
               TaskStarts, TaskFinishes, TaskFails, TaskReports, BriefWorkerDies
<1> QED BY <1>0, <1>1, <1>2, <1>3 DEF BriefTypeOK, BriefWorkerType, BriefRequestType

(* The row changes only where others hold nothing of it, or it was raced.     *)
LEMMA BriefRaceTells ==
  ASSUME NEW workers \in SUBSET BriefWorkers, NEW requests \in SUBSET BriefRequests,
         BriefRace(workers, requests), ~briefRaced'
  PROVE  /\ ~briefRaced
         /\ brief' # brief => /\ \A w \in workers : briefWorker[w] = NotBusy
                              /\ \A r \in requests : briefRequest[r].pc # "write"
BY DEF BriefRace

(* Where the row is not raced, a step of a worker or a request finds it as the *)
(* worker or the request has read it.                                         *)
LEMMA BriefUnraced ==
  ASSUME BriefIInv, [BriefNext]_briefVars, ~briefRaced'
  PROVE  /\ ~briefRaced
         /\ \A r \in BriefRequests : briefRequest[r].pc = "write" => briefRequest[r].seen = brief
         /\ \A w \in BriefWorkers :
              /\ briefWorker[w].pc = "read" => briefWorker[w].seen = brief
              /\ briefWorker[w].pc \in {"generate", "fail"} => brief.status = "generating"
<1>1. ~briefRaced
  BY DEF BriefNext, briefVars, BeatQueues, Trigger, TriggerWrites, TriggerQueues, TaskReads,
         TaskInserts, TaskSkips, TaskStarts, TaskFinishes, TaskFails, TaskReports,
         BriefWorkerDies, BriefRace, NoBrief
<1> QED BY <1>1 DEF BriefIInv, ReadIsInTheRow

(* A ready brief is written by nobody.                                        *)
LEMMA ReadyStep ==
  ASSUME BriefIInv, [BriefNext]_briefVars, ~briefRaced', brief.status = "ready"
  PROVE  brief' = brief /\ brief.text
<1>0. brief.text
  BY BriefUnraced DEF BriefIInv, ReadyHasText
<1>1. ASSUME NEW r \in BriefRequests, TriggerWrites(r) PROVE brief' = brief
  BY <1>1, BriefUnraced DEF TriggerWrites, BriefIInv, WritesOverNoBrief
<1>2. ASSUME NEW w \in BriefWorkers, TaskInserts(w) PROVE brief' = brief
  BY <1>2, BriefUnraced DEF TaskInserts, NoBrief
<1>3. ASSUME NEW w \in BriefWorkers, TaskStarts(w) PROVE brief' = brief
  BY <1>3, BriefUnraced DEF TaskStarts, ToBeGenerated
<1>4. ASSUME NEW w \in BriefWorkers, TaskFinishes(w) \/ TaskReports(w) PROVE brief' = brief
  BY <1>4, BriefUnraced DEF TaskFinishes, TaskReports
<1> QED BY <1>0, <1>1, <1>2, <1>3, <1>4 DEF BriefNext, briefVars, BeatQueues, Trigger,
             TriggerQueues, TaskReads, TaskSkips, TaskFails, BriefWorkerDies

(* What a task or a request has read is still in the row after any step.      *)
LEMMA BriefKnowledgeStep ==
  ASSUME BriefIInv, [BriefNext]_briefVars
  PROVE  ReadIsInTheRow' /\ WritesOverNoBrief' /\ ReadyHasText' /\ GeneratedByOne'
<1>0. /\ BriefWorkerType /\ BriefRequestType /\ BriefWorkerType' /\ BriefRequestType'
      /\ brief \in BriefRow /\ brief' \in BriefRow
  BY BriefTypeStep DEF BriefIInv, BriefInv, BriefTypeOK
<1>1. WritesOverNoBrief'
  <2>1. ASSUME NEW r \in BriefRequests, Trigger(r) PROVE WritesOverNoBrief'
    BY <1>0, <2>1 DEF Trigger, BriefIInv, WritesOverNoBrief, BriefRequestType
  <2>2. ASSUME NEW r \in BriefRequests, TriggerWrites(r) PROVE WritesOverNoBrief'
    BY <1>0, <2>2 DEF TriggerWrites, NoBrief, NotBusy, BriefIInv, WritesOverNoBrief, BriefRequestType
  <2>3. ASSUME NEW r \in BriefRequests, TriggerQueues(r) PROVE WritesOverNoBrief'
    BY <1>0, <2>3 DEF TriggerQueues, NotBusy, BriefIInv, WritesOverNoBrief, BriefRequestType
  <2>4. CASE UNCHANGED briefRequest
    BY <2>4 DEF BriefIInv, WritesOverNoBrief
  <2> QED BY <2>1, <2>2, <2>3, <2>4 DEF BriefNext, briefVars, BeatQueues, TaskReads, TaskInserts,
               TaskSkips, TaskStarts, TaskFinishes, TaskFails, TaskReports, BriefWorkerDies
<1> SUFFICES ASSUME ~briefRaced' PROVE ReadIsInTheRow' /\ ReadyHasText' /\ GeneratedByOne'
  BY <1>1 DEF ReadIsInTheRow, ReadyHasText, GeneratedByOne
<1> DEFINE Knows(w) == /\ briefWorker[w].pc = "read" => briefWorker[w].seen = brief
                       /\ briefWorker[w].pc \in {"generate", "fail"} => brief.status = "generating"
           Sees(r) == briefRequest[r].pc = "write" => briefRequest[r].seen = brief
           Generates(w) == briefWorker[w].pc = "generate"
           Goal == /\ \A w \in BriefWorkers : Knows(w)'
                   /\ \A r \in BriefRequests : Sees(r)'
                   /\ \A v, w \in BriefWorkers : Generates(v)' /\ Generates(w)' => v = w
                   /\ brief'.status = "ready" => brief'.text
<1>2. /\ \A w \in BriefWorkers : Knows(w)
      /\ \A r \in BriefRequests : Sees(r)
      /\ \A v, w \in BriefWorkers : Generates(v) /\ Generates(w) => v = w
      /\ brief.status = "ready" => brief.text
      /\ ~briefRaced
  BY BriefUnraced DEF BriefIInv, BriefInv, GeneratedByOne, ReadyHasText
<1>3. brief.status = "ready" => brief' = brief /\ brief.text
  BY ReadyStep
\* What is left of the others when one worker, or one request, goes on.
<1>4. ASSUME NEW w \in BriefWorkers,
             \A v \in BriefWorkers \ {w} : briefWorker'[v] = briefWorker[v],
             UNCHANGED briefRequest, BriefRace(BriefWorkers \ {w}, BriefRequests) \/ UNCHANGED brief
      PROVE /\ \A v \in BriefWorkers \ {w} : Knows(v)' /\ (Generates(v)' => Generates(v))
            /\ \A v \in BriefWorkers \ {w} : brief' # brief => ~Generates(v)'
            /\ \A r \in BriefRequests : Sees(r)'
  <2>1. brief' # brief => /\ \A v \in BriefWorkers \ {w} : briefWorker[v] = NotBusy
                          /\ \A r \in BriefRequests : briefRequest[r].pc # "write"
    BY <1>4 DEF BriefRace
  <2>2. NotBusy.pc = "idle"
    BY DEF NotBusy
  <2> QED BY <1>2, <1>4, <2>1, <2>2
<1>5. ASSUME NEW r \in BriefRequests,
             \A q \in BriefRequests \ {r} : briefRequest'[q] = briefRequest[q],
             UNCHANGED briefWorker, BriefRace(BriefWorkers, BriefRequests \ {r}) \/ UNCHANGED brief
      PROVE /\ \A v \in BriefWorkers : Knows(v)' /\ (Generates(v)' => Generates(v))
            /\ \A q \in BriefRequests \ {r} : Sees(q)'
  <2>1. brief' # brief => /\ \A v \in BriefWorkers : briefWorker[v] = NotBusy
                          /\ \A q \in BriefRequests \ {r} : briefRequest[q].pc # "write"
    BY <1>5 DEF BriefRace
  <2>2. NotBusy.pc = "idle"
    BY DEF NotBusy
  <2> QED BY <1>2, <1>5, <2>1, <2>2
<1>6. ASSUME UNCHANGED <<brief, briefWorker, briefRequest>> PROVE Goal
  BY <1>2, <1>6
<1>7. ASSUME NEW r \in BriefRequests, Trigger(r) \/ TriggerQueues(r) PROVE Goal
  <2>1. /\ \A q \in BriefRequests \ {r} : briefRequest'[q] = briefRequest[q]
        /\ UNCHANGED <<brief, briefWorker>> /\ Sees(r)'
    BY <1>0, <1>7 DEF Trigger, TriggerQueues, BriefRequestType, NotBusy
  <2> QED BY <1>2, <1>5, <2>1
<1>8. ASSUME NEW r \in BriefRequests, TriggerWrites(r) PROVE Goal
  <2>1. /\ \A q \in BriefRequests \ {r} : briefRequest'[q] = briefRequest[q]
        /\ UNCHANGED briefWorker /\ BriefRace(BriefWorkers, BriefRequests \ {r})
        /\ Sees(r)'
    BY <1>0, <1>8 DEF TriggerWrites, BriefRequestType, NotBusy, NoBrief
  <2>2. brief'.status = "ready" => brief'.text
    BY <1>0, <1>2, <1>3, <1>8 DEF TriggerWrites, ResetTo, NoBrief, BriefRow
  <2> QED BY <1>2, <1>5, <2>1, <2>2
<1>9. ASSUME NEW w \in BriefWorkers, TaskReads(w) \/ TaskSkips(w) \/ TaskFails(w) \/ BriefWorkerDies(w)
      PROVE Goal
  <2>1. /\ \A v \in BriefWorkers \ {w} : briefWorker'[v] = briefWorker[v]
        /\ UNCHANGED <<brief, briefRequest>> /\ Knows(w)' /\ ~Generates(w)'
    BY <1>0, <1>2, <1>9 DEF TaskReads, TaskSkips, TaskFails, BriefWorkerDies, WorkerIs, WorkerIsFree,
                           NotBusy, BriefWorkerType
  <2> QED BY <1>2, <1>4, <2>1
<1>10. ASSUME NEW w \in BriefWorkers, TaskInserts(w) PROVE Goal
  <2>1. /\ \A v \in BriefWorkers \ {w} : briefWorker'[v] = briefWorker[v]
        /\ BriefRace(BriefWorkers \ {w}, BriefRequests)
        /\ UNCHANGED briefRequest /\ Knows(w)' /\ ~Generates(w)' /\ brief'.status # "ready"
    BY <1>0, <1>2, <1>10 DEF TaskInserts, WorkerIs, NoBrief, BriefWorkerType
  <2> QED BY <1>2, <1>4, <2>1
<1>11. ASSUME NEW w \in BriefWorkers, TaskStarts(w) PROVE Goal
  <2>1. brief'.status = "generating" /\ brief' # brief
    BY <1>0, <1>2, <1>11 DEF TaskStarts, ToBeGenerated, BriefRow
  <2>2. /\ \A v \in BriefWorkers \ {w} : briefWorker'[v] = briefWorker[v]
        /\ BriefRace(BriefWorkers \ {w}, BriefRequests)
        /\ UNCHANGED briefRequest /\ Knows(w)'
    BY <1>0, <1>11, <2>1 DEF TaskStarts, WorkerIs, BriefWorkerType
  <2> QED BY <1>2, <1>4, <2>1, <2>2
<1>12. ASSUME NEW w \in BriefWorkers, TaskFinishes(w) \/ TaskReports(w) PROVE Goal
  <2>1. brief' # brief /\ (brief'.status = "ready" => brief'.text)
    BY <1>0, <1>2, <1>12 DEF TaskFinishes, TaskReports, Finished, BriefRow
  <2>2. /\ \A v \in BriefWorkers \ {w} : briefWorker'[v] = briefWorker[v]
        /\ BriefRace(BriefWorkers \ {w}, BriefRequests)
        /\ UNCHANGED briefRequest /\ Knows(w)' /\ ~Generates(w)'
    BY <1>0, <1>12 DEF TaskFinishes, TaskReports, WorkerIsFree, BriefWorkerType, NotBusy
  <2> QED BY <1>2, <1>4, <2>1, <2>2
<1>13. Goal
  BY <1>6, <1>7, <1>8, <1>9, <1>10, <1>11, <1>12 DEF BriefNext, briefVars, BeatQueues
<1> QED BY <1>13 DEF ReadIsInTheRow, ReadyHasText, GeneratedByOne

(* All of it together, at every moment.                                       *)
LEMMA BriefAlways == BriefSpec => []BriefIInv
<1>1. BriefIInv /\ [BriefNext]_briefVars => BriefIInv'
  BY BriefTypeStep, BriefKnowledgeStep DEF BriefIInv, BriefInv
<1> QED BY <1>1, BriefStart, PTL DEF BriefSpec

(* For any number of tasks and requests, a brief that is ready has a text and a *)
(* moment, unless two of them overtook each other in between.                 *)
THEOREM BriefHolds == BriefSpec => []BriefInv
BY BriefAlways, PTL DEF BriefIInv

(* A ready brief of the day is never taken away, whoever asks and retries, as *)
(* long as nobody overtook anybody.                                           *)
THEOREM ReadyBriefIsKept == BriefSpec => ReadyIsKept
<1>1. BriefIInv /\ [BriefNext]_briefVars =>
        [~briefRaced' /\ brief.status = "ready" => brief' = brief /\ brief.text]_briefVars
  BY ReadyStep
<1> QED BY <1>1, BriefAlways, PTL DEF BriefSpec, ReadyIsKept

-----------------------------------------------------------------------------
(* Replies to reviews.                                                        *)

SyncState ==
  {NotSyncing} \cup [pc : {"upsert", "suggest"}, todo : SUBSET Feedbacks, rows : SUBSET Feedbacks]
               \cup [pc : {"write"}, todo : SUBSET Feedbacks, rows : SUBSET Feedbacks,
                     id : Feedbacks, seen : ReplyStatuses]
PublisherState == {NotPublishing} \cup [pc : {"post", "accepted", "refused"}, id : Feedbacks]
RepliesShape == syncing \in [Syncs -> SyncState] /\ publishing \in [Publishers -> PublisherState]

(* A request whose answer was accepted has put it there, and one that still   *)
(* waits, or was refused, finds no answer, unless two disturbed the review.   *)
RequestsKnowTheAnswers ==
  \A p \in Publishers :
    /\ publishing[p].pc = "accepted" => answers[publishing[p].id] > 0
    /\ publishing[p].pc \in {"post", "refused"} /\ publishing[p].id \notin disturbed
         => answers[publishing[p].id] = 0

OneRequestPerReview ==
  \A f \in Feedbacks \ disturbed : \A p, q \in Publishers :
    PublisherHolds(p, f) /\ PublisherHolds(q, f) => p = q

(* A synchronisation is about to change the status of no published review.    *)
SyncSparesPublished ==
  \A s \in Syncs : \A f \in Feedbacks \ disturbed :
    \/ syncing[s].pc = "write" /\ syncing[s].id = f /\ syncing[s].seen = "error"
    \/ syncing[s].pc = "suggest" /\ f \in syncing[s].todo
    => reply[f].status # "published"

RepliesIInv == /\ RepliesInv /\ RepliesShape /\ RequestsKnowTheAnswers
               /\ OneRequestPerReview /\ SyncSparesPublished

(* A review fetch or a publication is about something or about nothing.       *)
LEMMA RepliesShapes ==
  ASSUME RepliesShape
  PROVE  /\ \A s \in Syncs :
              /\ syncing[s] \in SyncState
              /\ syncing[s] # NotSyncing /\ syncing[s].pc # "write" =>
                   syncing[s] \in [pc : {"upsert", "suggest"}, todo : SUBSET Feedbacks, rows : SUBSET Feedbacks]
              /\ syncing[s].pc = "write" =>
                   syncing[s] \in [pc : {"write"}, todo : SUBSET Feedbacks, rows : SUBSET Feedbacks,
                                   id : Feedbacks, seen : ReplyStatuses]
         /\ \A p \in Publishers :
              /\ publishing[p] \in PublisherState
              /\ publishing[p] # NotPublishing =>
                   publishing[p] \in [pc : {"post", "accepted", "refused"}, id : Feedbacks]
         /\ NotSyncing.pc = "idle" /\ NotPublishing.pc = "idle"
BY DEF RepliesShape, SyncState, PublisherState, NotSyncing, NotPublishing

(* Before the first fetch there are no reviews, and nobody is about one.      *)
LEMMA RepliesStart == ReplyInit => RepliesIInv
<1> SUFFICES ASSUME ReplyInit PROVE RepliesIInv
  OBVIOUS
<1>1. /\ \A s \in Syncs : syncing[s] = NotSyncing /\ syncing[s].pc = "idle"
      /\ \A p \in Publishers : publishing[p] = NotPublishing /\ publishing[p].pc = "idle"
      /\ \A f \in Feedbacks : answers[f] = 0 /\ reply[f].status = "absent"
  BY DEF ReplyInit, NotSyncing, NotPublishing, NoReply
<1>2. RepliesShape
  BY DEF ReplyInit, RepliesShape, SyncState, PublisherState
<1>3. ReplyTypeOK
  <2>1. reply \in [Feedbacks -> [status : ReplyStatuses, suggested : BOOLEAN]]
    BY DEF ReplyInit, NoReply, ReplyStatuses
  <2>2. published \in 0..MaxPublications
    BY ReviewRepliesAssumption DEF ReplyInit
  <2> QED BY <1>1, <2>1, <2>2 DEF ReplyInit, ReplyTypeOK
<1>4. /\ PublishedWasAnswered /\ AnsweredOnce /\ RequestsKnowTheAnswers /\ OneRequestPerReview
      /\ SyncSparesPublished
  BY <1>1 DEF PublishedWasAnswered, AnsweredOnce, RequestsKnowTheAnswers, OneRequestPerReview,
             PublisherHolds, SyncSparesPublished
<1> QED BY <1>2, <1>3, <1>4 DEF RepliesIInv, RepliesInv

(* The types alone: what a request and a synchronisation write.               *)
LEMMA RepliesTypeStep ==
  ASSUME ReplyTypeOK, RepliesShape, [ReplyNext]_replyVars
  PROVE  ReplyTypeOK' /\ RepliesShape'
<1>0. /\ reply \in [Feedbacks -> [status : ReplyStatuses, suggested : BOOLEAN]]
      /\ answers \in [Feedbacks -> Nat] /\ published \in 0..MaxPublications
      /\ disturbed \subseteq Feedbacks /\ MaxPublications \in Nat
      /\ syncing \in [Syncs -> SyncState] /\ publishing \in [Publishers -> PublisherState]
  BY ReviewRepliesAssumption DEF ReplyTypeOK, RepliesShape
<1> DEFINE Plain == [pc : {"upsert", "suggest"}, todo : SUBSET Feedbacks, rows : SUBSET Feedbacks]
           Goal == /\ reply' \in [Feedbacks -> [status : ReplyStatuses, suggested : BOOLEAN]]
                   /\ answers' \in [Feedbacks -> Nat] /\ published' \in 0..MaxPublications
                   /\ disturbed' \subseteq Feedbacks
                   /\ syncing' \in [Syncs -> SyncState] /\ publishing' \in [Publishers -> PublisherState]
<1>1. /\ \A n \in Nat, set \in SUBSET Feedbacks : UpTo(n, set) \subseteq SUBSET Feedbacks
      /\ \A f \in Feedbacks : \A others, publishers :
           Disturbs(f, others, publishers) => disturbed' \subseteq Feedbacks
  BY <1>0 DEF UpTo, kSubset, Disturbs
<1>2. ASSUME NEW s \in Syncs, NEW x \in SyncState, syncing' = [syncing EXCEPT ![s] = x]
      PROVE  syncing' \in [Syncs -> SyncState]
  BY <1>0, <1>2
<1>3. ASSUME NEW p \in Publishers, NEW x \in PublisherState, publishing' = [publishing EXCEPT ![p] = x]
      PROVE  publishing' \in [Publishers -> PublisherState]
  BY <1>0, <1>3
<1>4. ASSUME NEW s \in Syncs, FetchUnanswered(s) PROVE Goal
  <2>1. PICK todo \in SUBSET Feedbacks :
          syncing' = [syncing EXCEPT ![s] = [pc |-> "upsert", todo |-> todo, rows |-> {}]]
    BY <1>1, <1>4, ReviewRepliesAssumption DEF FetchUnanswered
  <2>2. [pc |-> "upsert", todo |-> todo, rows |-> {}] \in SyncState
    BY DEF SyncState
  <2> QED BY <1>0, <1>2, <1>4, <2>1, <2>2 DEF FetchUnanswered
<1>5. ASSUME NEW s \in Syncs, NEW f \in Feedbacks, ReadReview(s, f) PROVE Goal
  <2>1. syncing[s] \in Plain
    BY <1>5, RepliesShapes DEF ReadReview
  <2>2. [pc |-> "write", todo |-> syncing[s].todo \ {f}, rows |-> syncing[s].rows, id |-> f,
         seen |-> reply[f].status] \in SyncState
    BY <1>0, <2>1 DEF SyncState
  <2> QED BY <1>0, <1>2, <1>5, <2>2 DEF ReadReview
<1>6. ASSUME NEW s \in Syncs, WriteReview(s) PROVE Goal
  <2>1. syncing[s].id \in Feedbacks /\ syncing[s].todo \subseteq Feedbacks /\ syncing[s].rows \subseteq Feedbacks
    BY <1>6, RepliesShapes DEF WriteReview
  <2>2. [pc |-> "upsert", todo |-> syncing[s].todo, rows |-> syncing[s].rows \cup {syncing[s].id}] \in SyncState
    BY <2>1 DEF SyncState
  <2>3. \A row \in [status : ReplyStatuses, suggested : BOOLEAN] : \A seen :
          Upserted(row, seen) \in [status : ReplyStatuses, suggested : BOOLEAN]
    BY DEF Upserted, ReplyStatuses
  <2>4. reply' \in [Feedbacks -> [status : ReplyStatuses, suggested : BOOLEAN]]
    BY <1>0, <1>6, <2>1, <2>3 DEF WriteReview
  <2> QED BY <1>0, <1>1, <1>2, <1>6, <2>1, <2>2, <2>4 DEF WriteReview
<1>7. ASSUME NEW s \in Syncs, ChooseMissing(s) PROVE Goal
  <2>1. syncing[s] \in Plain
    BY <1>7, RepliesShapes DEF ChooseMissing
  <2>2. PICK todo \in SUBSET Feedbacks :
          syncing' = [syncing EXCEPT ![s] = [@ EXCEPT !.pc = "suggest", !.todo = todo]]
    <3>1. Missing(s) \in SUBSET Feedbacks
      BY <2>1 DEF Missing
    <3> QED BY <1>1, <1>7, <3>1, ReviewRepliesAssumption DEF ChooseMissing
  <2>3. [syncing[s] EXCEPT !.pc = "suggest", !.todo = todo] \in SyncState
    BY <2>1 DEF SyncState
  <2> QED BY <1>0, <1>2, <1>7, <2>2, <2>3 DEF ChooseMissing
<1>8. ASSUME NEW s \in Syncs, NEW f \in Feedbacks, Suggest(s, f) PROVE Goal
  <2>1. syncing[s] \in Plain
    BY <1>8, RepliesShapes DEF Suggest
  <2>2. [syncing[s] EXCEPT !.todo = @ \ {f}] \in SyncState
    BY <2>1 DEF SyncState
  <2>3. reply' \in [Feedbacks -> [status : ReplyStatuses, suggested : BOOLEAN]]
    BY <1>0, <1>8 DEF Suggest, ReplyStatuses
  <2>4. syncing' = [syncing EXCEPT ![s] = [syncing[s] EXCEPT !.todo = @ \ {f}]]
    BY <1>8 DEF Suggest
  <2> QED BY <1>0, <1>1, <1>2, <1>8, <2>2, <2>3, <2>4 DEF Suggest
<1>9. ASSUME NEW s \in Syncs, SyncEnds(s) PROVE Goal
  BY <1>0, <1>2, <1>9 DEF SyncEnds, SyncState
<1>10. ASSUME NEW p \in Publishers, NEW f \in Feedbacks, Publish(p, f) PROVE Goal
  <2>1. [pc |-> "post", id |-> f] \in PublisherState
    BY DEF PublisherState
  <2> QED BY <1>0, <1>1, <1>3, <1>10, <2>1 DEF Publish
<1>11. ASSUME NEW p \in Publishers, publishing[p] # NotPublishing,
              WbAccepts(p) \/ WbRefuses(p) \/ MarkReply(p) \/ PublisherDies(p)
       PROVE Goal
  <2>1. publishing[p] \in [pc : {"post", "accepted", "refused"}, id : Feedbacks]
    BY <1>11, RepliesShapes
  <2>2. /\ [publishing[p] EXCEPT !.pc = "accepted"] \in PublisherState
        /\ [publishing[p] EXCEPT !.pc = "refused"] \in PublisherState /\ NotPublishing \in PublisherState
    BY <2>1 DEF PublisherState
  <2>3. CASE WbAccepts(p)
    BY <1>0, <1>3, <2>1, <2>2, <2>3 DEF WbAccepts
  <2>4. CASE WbRefuses(p)
    BY <1>0, <1>3, <2>2, <2>4 DEF WbRefuses
  <2>5. CASE MarkReply(p)
    BY <1>0, <1>1, <1>3, <2>1, <2>2, <2>5 DEF MarkReply, Marked, ReplyStatuses
  <2>6. CASE PublisherDies(p)
    BY <1>0, <1>3, <2>1, <2>2, <2>6 DEF PublisherDies
  <2> QED BY <1>11, <2>3, <2>4, <2>5, <2>6
<1>12. Goal
  <2>1. CASE UNCHANGED replyVars
    BY <1>0, <2>1 DEF replyVars
  <2>2. \A p \in Publishers : WbAccepts(p) \/ WbRefuses(p) \/ MarkReply(p) \/ PublisherDies(p)
          => publishing[p] # NotPublishing
    BY DEF WbAccepts, WbRefuses, MarkReply, PublisherDies, NotPublishing
  <2> QED BY <1>4, <1>5, <1>6, <1>7, <1>8, <1>9, <1>10, <1>11, <2>1, <2>2 DEF ReplyNext
<1> QED BY <1>12 DEF ReplyTypeOK, RepliesShape, SyncState, PublisherState

(* What a step of a synchronisation may do to the rows and the histories.     *)
LEMMA SyncWrites ==
  ASSUME RepliesIInv, NEW s \in Syncs,
         \/ FetchUnanswered(s) \/ WriteReview(s) \/ ChooseMissing(s) \/ SyncEnds(s)
         \/ \E f \in Feedbacks : ReadReview(s, f) \/ Suggest(s, f)
  PROVE  /\ UNCHANGED <<answers, publishing>> /\ disturbed \subseteq disturbed'
         /\ \A f \in Feedbacks :
              /\ reply'[f].status = "published" => reply[f].status = "published"
              /\ reply'[f].status # reply[f].status /\ f \notin disturbed' =>
                   /\ reply[f].status # "published"
                   /\ \A p \in Publishers : ~PublisherHolds(p, f)
<1>0. /\ reply \in [Feedbacks -> [status : ReplyStatuses, suggested : BOOLEAN]]
      /\ SyncSparesPublished
  BY DEF RepliesIInv, RepliesInv, ReplyTypeOK
<1> DEFINE Goal == /\ UNCHANGED <<answers, publishing>> /\ disturbed \subseteq disturbed'
                   /\ \A f \in Feedbacks :
                        /\ reply'[f].status = "published" => reply[f].status = "published"
                        /\ reply'[f].status # reply[f].status /\ f \notin disturbed' =>
                             /\ reply[f].status # "published"
                             /\ \A p \in Publishers : ~PublisherHolds(p, f)
<1>1. ASSUME UNCHANGED <<reply, answers, publishing, disturbed>> PROVE Goal
  BY <1>1
<1>2. CASE FetchUnanswered(s) \/ ChooseMissing(s) \/ SyncEnds(s) \/ \E f \in Feedbacks : ReadReview(s, f)
  BY <1>1, <1>2 DEF FetchUnanswered, ChooseMissing, SyncEnds, ReadReview
<1>3. CASE WriteReview(s)
  <2> DEFINE g == syncing[s].id
  <2>1. g \in Feedbacks
    BY <1>3, RepliesShapes DEF WriteReview, RepliesIInv
  <2>2. /\ reply'[g] = Upserted(reply[g], syncing[s].seen)
        /\ \A f \in Feedbacks \ {g} : reply'[f] = reply[f]
    BY <1>0, <1>3, <2>1 DEF WriteReview
  <2>3. /\ reply'[g].status = "published" => reply[g].status = "published"
        /\ reply'[g].status # reply[g].status =>
             reply[g].status = "absent" \/ syncing[s].seen = "error"
    BY <1>0, <2>1, <2>2 DEF Upserted
  <2>4. /\ disturbed \subseteq disturbed'
        /\ reply' # reply /\ g \notin disturbed' => \A p \in Publishers : ~PublisherHolds(p, g)
    BY <1>3 DEF WriteReview, Disturbs
  <2>5. reply'[g].status # reply[g].status /\ g \notin disturbed => reply[g].status # "published"
    BY <1>0, <1>3, <2>1, <2>3 DEF WriteReview, SyncSparesPublished
  <2> QED BY <1>3, <2>1, <2>2, <2>3, <2>4, <2>5 DEF WriteReview
<1>4. ASSUME NEW g \in Feedbacks, Suggest(s, g) PROVE Goal
  <2>1. CASE reply' = [reply EXCEPT ![g].suggested = TRUE] /\ UNCHANGED disturbed
    <3>1. \A f \in Feedbacks : reply'[f].status = reply[f].status
      BY <1>0, <2>1
    <3> QED BY <1>4, <2>1, <3>1 DEF Suggest
  <2>2. CASE reply' = [reply EXCEPT ![g].status = "error"] /\ Disturbs(g, Syncs \ {s}, Publishers)
    <3>1. reply'[g].status = "error" /\ \A f \in Feedbacks \ {g} : reply'[f] = reply[f]
      BY <1>0, <2>2
    <3>2. /\ disturbed \subseteq disturbed'
          /\ g \notin disturbed' => \A p \in Publishers : ~PublisherHolds(p, g)
      BY <2>2 DEF Disturbs
    <3>3. g \notin disturbed => reply[g].status # "published"
      BY <1>0, <1>4 DEF Suggest, SyncSparesPublished
    <3> QED BY <1>4, <3>1, <3>2, <3>3 DEF Suggest
  <2> QED BY <1>4, <2>1, <2>2 DEF Suggest
<1> QED BY <1>2, <1>3, <1>4

(* What a fetch of reviews may do to a reply that was published.              *)
LEMMA SyncKeepsReplies ==
  ASSUME RepliesIInv, RepliesShape', NEW s \in Syncs,
         \/ FetchUnanswered(s) \/ WriteReview(s) \/ ChooseMissing(s) \/ SyncEnds(s)
         \/ \E f \in Feedbacks : ReadReview(s, f) \/ Suggest(s, f)
  PROVE  /\ PublishedWasAnswered' /\ AnsweredOnce' /\ RequestsKnowTheAnswers'
         /\ OneRequestPerReview' /\ SyncSparesPublished'
<1>0. /\ reply \in [Feedbacks -> [status : ReplyStatuses, suggested : BOOLEAN]]
      /\ RepliesShape /\ syncing \in [Syncs -> SyncState] /\ SyncSparesPublished
      /\ PublishedWasAnswered /\ AnsweredOnce /\ RequestsKnowTheAnswers /\ OneRequestPerReview
      /\ UNCHANGED <<answers, publishing>> /\ disturbed \subseteq disturbed'
      /\ \A f \in Feedbacks :
           /\ reply'[f].status = "published" => reply[f].status = "published"
           /\ reply'[f].status # reply[f].status /\ f \notin disturbed' =>
                /\ reply[f].status # "published"
                /\ \A p \in Publishers : ~PublisherHolds(p, f)
  BY SyncWrites DEF RepliesIInv, RepliesInv, ReplyTypeOK, RepliesShape
<1>1. PublishedWasAnswered' /\ RequestsKnowTheAnswers' /\ OneRequestPerReview'
  BY <1>0 DEF PublishedWasAnswered, RequestsKnowTheAnswers, OneRequestPerReview, PublisherHolds
<1>2. AnsweredOnce'
  BY <1>0 DEF AnsweredOnce
<1>3. SyncSparesPublished'
  <2> DEFINE MayChange(r, f) == \/ syncing[r].pc = "write" /\ syncing[r].id = f /\ syncing[r].seen = "error"
                                \/ syncing[r].pc = "suggest" /\ f \in syncing[r].todo
  <2>1. \A r \in Syncs \ {s} : syncing'[r] = syncing[r]
    BY <1>0 DEF FetchUnanswered, WriteReview, ChooseMissing, SyncEnds, ReadReview, Suggest
  <2>2. ASSUME NEW f \in Feedbacks \ disturbed', MayChange(s, f)' PROVE reply[f].status # "published"
    <3>1. CASE FetchUnanswered(s) \/ WriteReview(s) \/ SyncEnds(s)
      <4>1. CASE FetchUnanswered(s) \/ SyncEnds(s)
        <5>1. CASE FetchUnanswered(s)
          <6>1. syncing'[s].pc = "upsert"
            BY <1>0, <5>1 DEF FetchUnanswered
          <6> QED BY <2>2, <6>1
        <5>2. CASE SyncEnds(s)
          BY <1>0, <2>2, <5>2 DEF SyncEnds, NotSyncing
        <5> QED BY <4>1, <5>1, <5>2
      <4>2. CASE WriteReview(s)
        <5>1. syncing'[s].pc = "upsert"
          BY <1>0, <4>2 DEF WriteReview
        <5> QED BY <2>2, <5>1
      <4> QED BY <3>1, <4>1, <4>2
    <3>2. CASE ChooseMissing(s)
      <4>1. PICK todo \in UpTo(SuggestLimit, Missing(s)) :
              syncing' = [syncing EXCEPT ![s] = [@ EXCEPT !.pc = "suggest", !.todo = todo]]
        BY <3>2 DEF ChooseMissing
      <4>2. syncing[s] \in [pc : {"upsert", "suggest"}, todo : SUBSET Feedbacks, rows : SUBSET Feedbacks]
        BY <1>0, <3>2, RepliesShapes DEF ChooseMissing, NotSyncing
      <4>3. syncing'[s].pc = "suggest" /\ syncing'[s].todo = todo
        BY <1>0, <4>1, <4>2
      <4>4. todo \subseteq Missing(s)
        BY <4>1 DEF UpTo, kSubset
      <4> QED BY <2>2, <4>3, <4>4 DEF Missing
    <3>3. ASSUME NEW g \in Feedbacks, ReadReview(s, g) PROVE reply[f].status # "published"
      <4>1. syncing'[s].pc = "write" /\ syncing'[s].id = g /\ syncing'[s].seen = reply[g].status
        BY <1>0, <3>3 DEF ReadReview
      <4> QED BY <2>2, <4>1
    <3>4. ASSUME NEW g \in Feedbacks, Suggest(s, g) PROVE reply[f].status # "published"
      <4>1. syncing[s] \in [pc : {"upsert", "suggest"}, todo : SUBSET Feedbacks, rows : SUBSET Feedbacks]
        BY <1>0, <3>4, RepliesShapes DEF Suggest, NotSyncing
      <4>2. syncing'[s].pc = "suggest" /\ syncing'[s].todo = syncing[s].todo \ {g} /\ syncing[s].pc = "suggest"
        BY <1>0, <3>4, <4>1 DEF Suggest
      <4> QED BY <1>0, <2>2, <4>2 DEF SyncSparesPublished
    <3> QED BY <3>1, <3>2, <3>3, <3>4
  <2>3. ASSUME NEW r \in Syncs, NEW f \in Feedbacks \ disturbed', MayChange(r, f)'
        PROVE  reply'[f].status # "published"
    <3>1. CASE r = s
      BY <1>0, <2>2, <2>3, <3>1
    <3>2. CASE r # s
      <4>1. MayChange(r, f) /\ f \in Feedbacks \ disturbed
        BY <1>0, <2>1, <2>3, <3>2
      <4>2. reply[f].status # "published"
        BY <1>0, <4>1 DEF SyncSparesPublished
      <4> QED BY <1>0, <4>2
    <3> QED BY <3>1, <3>2
  <2> QED BY <2>3 DEF SyncSparesPublished
<1> QED BY <1>1, <1>2, <1>3

(* What a publication may do to the replies, its own and those of others.     *)
LEMMA PublisherKeepsReplies ==
  ASSUME RepliesIInv, RepliesShape', NEW p \in Publishers,
         \/ WbAccepts(p) \/ WbRefuses(p) \/ MarkReply(p) \/ PublisherDies(p)
         \/ \E f \in Feedbacks : Publish(p, f)
  PROVE  /\ PublishedWasAnswered' /\ AnsweredOnce' /\ RequestsKnowTheAnswers'
         /\ OneRequestPerReview' /\ SyncSparesPublished'
<1>0. /\ reply \in [Feedbacks -> [status : ReplyStatuses, suggested : BOOLEAN]]
      /\ answers \in [Feedbacks -> Nat] /\ publishing \in [Publishers -> PublisherState]
      /\ RepliesShape /\ SyncSparesPublished
      /\ PublishedWasAnswered /\ AnsweredOnce /\ RequestsKnowTheAnswers /\ OneRequestPerReview
      /\ UNCHANGED syncing /\ NotPublishing.pc = "idle"
  BY RepliesShapes DEF RepliesIInv, RepliesInv, ReplyTypeOK, RepliesShape, WbAccepts, WbRefuses,
                       MarkReply, PublisherDies, Publish
<1>1. \A q \in Publishers \ {p} : publishing'[q] = publishing[q]
  BY <1>0 DEF WbAccepts, WbRefuses, MarkReply, PublisherDies, Publish
<1>2. publishing[p].pc # "idle" =>
        /\ publishing[p] \in [pc : {"post", "accepted", "refused"}, id : Feedbacks]
        /\ publishing[p].id \in Feedbacks
  BY <1>0, RepliesShapes
<1> DEFINE f == publishing[p].id
           Keeps == /\ PublishedWasAnswered' /\ AnsweredOnce' /\ RequestsKnowTheAnswers'
                    /\ OneRequestPerReview' /\ SyncSparesPublished'
<1>3. \A q \in Publishers : \A g :
        publishing[q] = [pc |-> "accepted", id |-> g] => publishing[q].pc = "accepted" /\ publishing[q].id = g
  OBVIOUS
<1>4. ASSUME NEW g \in Feedbacks, Publish(p, g) PROVE Keeps
  <2>1. /\ publishing'[p].pc = "post" /\ publishing'[p].id = g
        /\ UNCHANGED <<reply, answers>> /\ disturbed \subseteq disturbed'
        /\ g \notin disturbed' => \A q \in Publishers \ {p} : ~PublisherHolds(q, g)
        /\ publishing[p] = NotPublishing /\ reply[g].status # "published"
    BY <1>0, <1>4 DEF Publish, Disturbs, MayBePublished
  <2>2. g \notin disturbed' => answers[g] = 0
    <3>1. ASSUME g \notin disturbed', answers[g] = 1 PROVE FALSE
      <4>1. PICK q \in Publishers : publishing[q] = [pc |-> "accepted", id |-> g]
        BY <1>0, <2>1, <3>1 DEF AnsweredOnce
      <4>2. PublisherHolds(q, g) /\ q # p
        BY <1>0, <2>1, <4>1 DEF PublisherHolds
      <4> QED BY <2>1, <3>1, <4>2
    <3>2. g \notin disturbed' => answers[g] <= 1 /\ answers[g] \in Nat
      BY <1>0, <2>1 DEF AnsweredOnce
    <3> QED BY <3>1, <3>2
  <2>3. RequestsKnowTheAnswers' /\ OneRequestPerReview'
    BY <1>0, <1>1, <2>1, <2>2 DEF RequestsKnowTheAnswers, OneRequestPerReview, PublisherHolds
  <2>4. AnsweredOnce'
    <3>1. \A q \in Publishers, h \in Feedbacks :
            publishing[q] = [pc |-> "accepted", id |-> h] => publishing'[q] = publishing[q]
      BY <1>0, <1>1, <1>3, <2>1
    <3> QED BY <1>0, <2>1, <3>1 DEF AnsweredOnce
  <2>5. PublishedWasAnswered' /\ SyncSparesPublished'
    BY <1>0, <2>1 DEF PublishedWasAnswered, SyncSparesPublished
  <2> QED BY <2>3, <2>4, <2>5
<1>5. CASE WbAccepts(p)
  <2>1. /\ publishing[p].pc = "post" /\ f \in Feedbacks /\ UNCHANGED <<reply, disturbed>>
        /\ publishing'[p] = [pc |-> "accepted", id |-> f]
        /\ answers'[f] = answers[f] + 1 /\ \A g \in Feedbacks \ {f} : answers'[g] = answers[g]
    BY <1>0, <1>2, <1>5 DEF WbAccepts
  <2>2. RequestsKnowTheAnswers' /\ OneRequestPerReview'
    BY <1>0, <1>1, <1>2, <2>1, RepliesShapes
       DEF RequestsKnowTheAnswers, OneRequestPerReview, PublisherHolds
  <2>3. AnsweredOnce'
    <3>1. \A q \in Publishers, g \in Feedbacks :
            publishing[q] = [pc |-> "accepted", id |-> g] => publishing'[q] = publishing[q]
      BY <1>1, <1>3, <2>1
    <3> QED BY <1>0, <2>1, <3>1 DEF AnsweredOnce, RequestsKnowTheAnswers
  <2>4. PublishedWasAnswered' /\ SyncSparesPublished'
    BY <1>0, <2>1 DEF PublishedWasAnswered, SyncSparesPublished
  <2> QED BY <2>2, <2>3, <2>4
<1>6. CASE WbRefuses(p)
  <2>1. /\ publishing[p].pc = "post" /\ f \in Feedbacks /\ UNCHANGED <<reply, disturbed, answers>>
        /\ publishing'[p] = [pc |-> "refused", id |-> f]
    BY <1>0, <1>2, <1>6 DEF WbRefuses
  <2>2. RequestsKnowTheAnswers' /\ OneRequestPerReview'
    BY <1>0, <1>1, <2>1 DEF RequestsKnowTheAnswers, OneRequestPerReview, PublisherHolds
  <2>3. AnsweredOnce'
    <3>1. \A q \in Publishers, g \in Feedbacks :
            publishing[q] = [pc |-> "accepted", id |-> g] => publishing'[q] = publishing[q]
      BY <1>1, <1>3, <2>1
    <3> QED BY <1>0, <2>1, <3>1 DEF AnsweredOnce
  <2>4. PublishedWasAnswered' /\ SyncSparesPublished'
    BY <1>0, <2>1 DEF PublishedWasAnswered, SyncSparesPublished
  <2> QED BY <2>2, <2>3, <2>4
<1>7. CASE MarkReply(p)
  <2>1. /\ publishing[p].pc \in {"accepted", "refused"} /\ f \in Feedbacks /\ UNCHANGED answers
        /\ publishing'[p] = NotPublishing /\ disturbed \subseteq disturbed'
        /\ reply'[f].status = Marked(p) /\ \A g \in Feedbacks \ {f} : reply'[g] = reply[g]
        /\ f \notin disturbed' => /\ \A s \in Syncs : ~SyncHolds(s, f)
                                  /\ f \notin disturbed
    BY <1>0, <1>2, <1>7 DEF MarkReply, Disturbs
  <2>2. RequestsKnowTheAnswers' /\ OneRequestPerReview'
    BY <1>0, <1>1, <2>1 DEF RequestsKnowTheAnswers, OneRequestPerReview, PublisherHolds
  <2>3. AnsweredOnce'
    <3>1. \A q \in Publishers \ {p}, g \in Feedbacks :
            publishing[q] = [pc |-> "accepted", id |-> g] => publishing'[q] = publishing[q]
      BY <1>1
    <3>2. ASSUME f \notin disturbed' PROVE answers[f] <= 1 /\ (answers[f] = 1 => reply'[f].status = "published")
      <4>1. answers[f] <= 1 /\ answers[f] \in Nat
        BY <1>0, <2>1, <3>2 DEF AnsweredOnce
      <4>2. answers[f] = 1 => publishing[p].pc = "accepted"
        BY <1>0, <2>1, <3>2 DEF RequestsKnowTheAnswers
      <4> QED BY <2>1, <4>1, <4>2 DEF Marked
    <3> QED BY <1>0, <1>3, <2>1, <3>1, <3>2 DEF AnsweredOnce
  <2>4. PublishedWasAnswered'
    BY <1>0, <2>1 DEF PublishedWasAnswered, RequestsKnowTheAnswers, Marked
  <2>5. SyncSparesPublished'
    BY <1>0, <2>1 DEF SyncSparesPublished, SyncHolds
  <2> QED BY <2>2, <2>3, <2>4, <2>5
<1>8. CASE PublisherDies(p)
  <2>1. /\ publishing[p].pc # "idle" /\ f \in Feedbacks /\ UNCHANGED <<reply, answers>>
        /\ publishing'[p] = NotPublishing /\ disturbed \subseteq disturbed'
        /\ publishing[p].pc = "accepted" => f \in disturbed'
    BY <1>0, <1>2, <1>8, RepliesShapes DEF PublisherDies
  <2>2. RequestsKnowTheAnswers' /\ OneRequestPerReview'
    BY <1>0, <1>1, <2>1 DEF RequestsKnowTheAnswers, OneRequestPerReview, PublisherHolds
  <2>3. AnsweredOnce'
    BY <1>0, <1>1, <1>3, <2>1 DEF AnsweredOnce
  <2>4. PublishedWasAnswered' /\ SyncSparesPublished'
    BY <1>0, <2>1 DEF PublishedWasAnswered, SyncSparesPublished
  <2> QED BY <2>2, <2>3, <2>4
<1> QED BY <1>4, <1>5, <1>6, <1>7, <1>8

(* For any set of reviews and any number of fetches and publications, a reply is *)
(* published at most once and what was published stays, unless two disturbed it. *)
THEOREM RepliesHold == ReplySpec => []RepliesInv
<1>1. RepliesIInv /\ [ReplyNext]_replyVars => RepliesIInv'
  <2> SUFFICES ASSUME RepliesIInv, [ReplyNext]_replyVars PROVE RepliesIInv'
    OBVIOUS
  <2>1. ReplyTypeOK' /\ RepliesShape'
    BY RepliesTypeStep DEF RepliesIInv, RepliesInv
  <2>2. CASE UNCHANGED replyVars
    BY <2>1, <2>2 DEF replyVars, RepliesIInv, RepliesInv, PublishedWasAnswered, AnsweredOnce,
         RequestsKnowTheAnswers, OneRequestPerReview, PublisherHolds, SyncSparesPublished
  <2>3. CASE ReplyNext
    BY <2>1, <2>3, SyncKeepsReplies, PublisherKeepsReplies DEF ReplyNext, RepliesIInv, RepliesInv
  <2> QED BY <2>2, <2>3
<1>2. RepliesIInv => RepliesInv
  BY DEF RepliesIInv
<1> QED BY <1>1, <1>2, RepliesStart, PTL DEF ReplySpec

-----------------------------------------------------------------------------
(* The index of the offer.                                                    *)

IndexerRecord == [pc : Asking \cup Working, version : Versions, text : Versions,
                  prev : MaybeVersion, lock : BOOLEAN]
OfferShape == indexer \in [Indexers -> {AtRest} \cup IndexerRecord]

IsWorking(i) == indexer[i].pc \in Working

(* One is at the index at a time, unless the history says two were.           *)
AloneAtTheIndex ==
  ~mixed => /\ \A i, j \in Indexers : IsWorking(i) /\ IsWorking(j) => i = j
            /\ upload # AtRest => \A i \in Indexers : ~IsWorking(i)

(* Until its own points are deleted nothing is missing, and from their upsert *)
(* on they are there to be announced.                                         *)
SaysWhatIsThere(i) ==
  indexer[i].pc \in {"drop", "ready", "remark"} => indexer[i].version \in points
IsLate(i) == indexer[i].pc \in {"upsert", "drop", "ready", "fail"}
PointsFollowTheWork ==
  ~mixed => /\ \A i \in Indexers : SaysWhatIsThere(i)
            /\ (\A i \in Indexers : ~IsLate(i)) /\ index.status = "ready" =>
                 index.active \in points

(* The lock is set while a question that went on has not been answered, and   *)
(* there is one such question, as long as none went on without it; a task has *)
(* no lock.                                                                   *)
HoldsLock(a) == indexer[a].pc # "idle" /\ indexer[a].lock
IsPast(a) == indexer[a].pc \in {"recheck", "embed", "upsert", "drop"}
LockIsHeldByOne ==
  /\ ~unlocked => /\ \A a, b \in Askers : HoldsLock(a) /\ HoldsLock(b) => a = b
                  /\ \A a \in Askers : HoldsLock(a) => offerLock
  /\ \A a \in Askers : IsPast(a) => HoldsLock(a)
  /\ \A w \in OfferWorkers : ~HoldsLock(w)

(* A question that has yet to find its text asks for the newest file, and     *)
(* whoever is about to write points has the text of the version it writes.    *)
TextIsOfItsVersion ==
  ~crossed => /\ \A a \in Askers : indexer[a].pc \in Asking => indexer[a].version = newest
              /\ \A i \in Indexers : indexer[i].pc \in {"embed", "upsert"} =>
                   indexer[i].text = indexer[i].version
              /\ \A v \in Versions : texts[v] \subseteq {v}

OfferIInv == /\ OfferTypeOK /\ OfferShape /\ AloneAtTheIndex /\ PointsFollowTheWork
             /\ LockIsHeldByOne /\ TextIsOfItsVersion

(* An indexer is about something or at rest.                                  *)
LEMMA IndexerShapes ==
  ASSUME OfferShape
  PROVE  /\ \A i \in Indexers : /\ indexer[i] \in {AtRest} \cup IndexerRecord
                                /\ indexer[i].pc # "idle" => indexer[i] \in IndexerRecord
                                /\ indexer[i].pc = "idle" => indexer[i] = AtRest
                                /\ indexer[i] # AtRest => indexer[i].pc # "idle"
         /\ AtRest.pc = "idle" /\ "idle" \notin Working
         /\ Askers \subseteq Indexers /\ OfferWorkers \subseteq Indexers
BY DEF OfferShape, IndexerRecord, AtRest, Asking, Working, Indexers

(* Before the first index there is nothing to hold or to serve.               *)
LEMMA OfferStart == OfferInit => OfferIInv
<1> SUFFICES ASSUME OfferInit PROVE OfferIInv
  OBVIOUS
<1>1. /\ \A i \in Indexers : indexer[i] = AtRest /\ indexer[i].pc = "idle"
      /\ upload = AtRest /\ index \in IndexState /\ index.status = "idle"
  BY DEF OfferInit, AtRest, IndexState, MaybeVersion
<1>2. OfferTypeOK
  <2>1. uploads \in 0..MaxUploads /\ asks \in 0..MaxAsks /\ offerFaults \in 0..OfferFaults
    BY OfferIndexAssumption DEF OfferInit
  <2> QED BY <1>1, <2>1 DEF OfferInit, OfferTypeOK
<1>3. OfferShape
  BY DEF OfferInit, OfferShape
<1>4. Askers \subseteq Indexers /\ OfferWorkers \subseteq Indexers
  BY DEF Indexers
<1>5. AloneAtTheIndex /\ PointsFollowTheWork
  BY <1>1 DEF AloneAtTheIndex, PointsFollowTheWork, SaysWhatIsThere, IsWorking, Working
<1>6. LockIsHeldByOne
  BY <1>1, <1>4 DEF LockIsHeldByOne, HoldsLock, IsPast
<1>7. TextIsOfItsVersion
  BY <1>1, <1>4 DEF TextIsOfItsVersion, Asking, OfferInit
<1> QED BY <1>2, <1>3, <1>5, <1>6, <1>7 DEF OfferIInv

(* How an indexer goes on: the others stay where they are.                    *)
LEMMA IndexerMoves ==
  ASSUME OfferShape, NEW i \in Indexers, NEW x, indexer' = [indexer EXCEPT ![i] = x]
  PROVE  indexer'[i] = x /\ \A j \in Indexers \ {i} : indexer'[j] = indexer[j]
BY DEF OfferShape

(* From where to where the one who moves goes, and what it takes along.       *)
Moves(i, from, to) == /\ indexer[i].pc \in from /\ indexer'[i].pc \in to
                      /\ indexer'[i] \in {AtRest} \cup IndexerRecord
                      /\ \A j \in Indexers \ {i} : indexer'[j] = indexer[j]
TakesAlong(i) == /\ indexer'[i].version = indexer[i].version
                 /\ indexer'[i].text = indexer[i].text /\ indexer'[i].lock = indexer[i].lock
Leaves(i) == indexer'[i] = AtRest

(* A step that only goes on to the next takes everything along.               *)
LEMMA GoesToMoves ==
  ASSUME OfferShape, NEW i \in Indexers, NEW from \in Asking \cup Working,
         NEW to \in Asking \cup Working, At(i, from), GoesTo(i, to)
  PROVE  Moves(i, {from}, {to}) /\ TakesAlong(i)
<1>1. indexer[i] \in IndexerRecord
  BY IndexerShapes DEF At, Asking, Working
<1>2. indexer' = [indexer EXCEPT ![i] = [indexer[i] EXCEPT !.pc = to]]
  BY DEF GoesTo
<1>3. indexer'[i] = [indexer[i] EXCEPT !.pc = to] /\ \A j \in Indexers \ {i} : indexer'[j] = indexer[j]
  BY <1>2, IndexerMoves
<1>4. [indexer[i] EXCEPT !.pc = to] \in IndexerRecord
  BY <1>1 DEF IndexerRecord
<1> QED BY <1>1, <1>3, <1>4 DEF Moves, TakesAlong, IndexerRecord, At

(* The one that is through rests.                                             *)
LEMMA RestsMoves ==
  ASSUME OfferShape, NEW i \in Indexers, Rests(i)
  PROVE  /\ Leaves(i) /\ indexer'[i].pc = "idle"
         /\ \A j \in Indexers \ {i} : indexer'[j] = indexer[j]
<1>1. indexer' = [indexer EXCEPT ![i] = AtRest]
  BY DEF Rests
<1>2. indexer'[i] = AtRest /\ \A j \in Indexers \ {i} : indexer'[j] = indexer[j]
  BY <1>1, IndexerMoves
<1> QED BY <1>2 DEF Leaves, AtRest

(* How a question comes and goes on until it may work.                        *)
LEMMA AskerMoves ==
  ASSUME OfferShape, newest \in Versions, index.active \in MaybeVersion, NEW a \in Askers
  PROVE  /\ AskFindsPoints(a) =>
              Moves(a, {"idle"}, {"remark"}) /\ indexer'[a].version = newest /\ ~indexer'[a].lock
         /\ AskFindsNone(a) =>
              Moves(a, {"idle"}, {"lock"}) /\ indexer'[a].version = newest /\ ~indexer'[a].lock
         /\ TakeLock(a) \/ WaitRunsOut(a) =>
              /\ Moves(a, {"lock", "wait"}, {"recheck"})
              /\ indexer'[a].lock /\ indexer'[a].version = indexer[a].version
         /\ LockIsHeld(a) => Moves(a, {"lock"}, {"wait"}) /\ TakesAlong(a)
         /\ WaitIsOver(a) => Moves(a, {"wait"}, {"idle"}) /\ Leaves(a)
         /\ Recheck(a) =>
              /\ Moves(a, {"recheck"}, {"remark", "embed"})
              /\ indexer'[a].lock = indexer[a].lock /\ indexer'[a].version = indexer[a].version
              /\ \/ indexer'[a].pc = "remark" /\ indexer[a].version \in points
                 \/ indexer'[a].pc = "embed" /\ indexer'[a].text = newest
<1>0. a \in Indexers /\ AtRest.pc = "idle"
  BY DEF Indexers, AtRest
<1>1. ASSUME NEW pc \in {"lock", "remark"}, AskerGoes(a, pc)
      PROVE  Moves(a, {"idle"}, {pc}) /\ indexer'[a].version = newest /\ ~indexer'[a].lock
  <2> DEFINE x == [pc |-> pc, version |-> newest, text |-> newest, prev |-> NoVersion, lock |-> FALSE]
  <2>1. x \in IndexerRecord
    BY DEF IndexerRecord, Asking, Working, MaybeVersion
  <2>2. indexer[a] = AtRest /\ indexer' = [indexer EXCEPT ![a] = x]
    BY <1>1 DEF AskerGoes
  <2>3. indexer'[a] = x /\ \A j \in Indexers \ {a} : indexer'[j] = indexer[j]
    BY <1>0, <2>2, IndexerMoves
  <2> QED BY <1>0, <2>1, <2>2, <2>3 DEF Moves
<1>2. ASSUME TakeLock(a) \/ WaitRunsOut(a)
      PROVE  /\ Moves(a, {"lock", "wait"}, {"recheck"})
             /\ indexer'[a].lock /\ indexer'[a].version = indexer[a].version
  <2>1. indexer[a].pc \in {"lock", "wait"} /\ indexer[a] \in IndexerRecord
    BY <1>0, <1>2, IndexerShapes DEF TakeLock, WaitRunsOut, At
  <2>2. indexer' = [indexer EXCEPT ![a] = [indexer[a] EXCEPT !.pc = "recheck", !.lock = TRUE]]
    BY <1>2 DEF TakeLock, WaitRunsOut
  <2>3. /\ indexer'[a] = [indexer[a] EXCEPT !.pc = "recheck", !.lock = TRUE]
        /\ \A j \in Indexers \ {a} : indexer'[j] = indexer[j]
    BY <1>0, <2>2, IndexerMoves
  <2>4. [indexer[a] EXCEPT !.pc = "recheck", !.lock = TRUE] \in IndexerRecord
    BY <2>1 DEF IndexerRecord, Asking
  <2> QED BY <2>1, <2>3, <2>4 DEF Moves, IndexerRecord
<1>3. LockIsHeld(a) => Moves(a, {"lock"}, {"wait"}) /\ TakesAlong(a)
  BY <1>0, GoesToMoves DEF LockIsHeld, Asking
<1>4. WaitIsOver(a) => Moves(a, {"wait"}, {"idle"}) /\ Leaves(a)
  BY <1>0, RestsMoves DEF WaitIsOver, At, Moves, Leaves
<1>5. ASSUME Recheck(a)
      PROVE  /\ Moves(a, {"recheck"}, {"remark", "embed"})
             /\ indexer'[a].lock = indexer[a].lock /\ indexer'[a].version = indexer[a].version
             /\ \/ indexer'[a].pc = "remark" /\ indexer[a].version \in points
                \/ indexer'[a].pc = "embed" /\ indexer'[a].text = newest
  <2>1. indexer[a].pc = "recheck" /\ indexer[a] \in IndexerRecord
    BY <1>0, <1>5, IndexerShapes DEF Recheck, At
  <2>2. CASE indexer[a].version \in points /\ GoesTo(a, "remark")
    <3>1. Moves(a, {"recheck"}, {"remark"}) /\ TakesAlong(a)
      BY <1>0, <2>1, <2>2, GoesToMoves DEF At, Asking, Working
    <3> QED BY <2>2, <3>1 DEF Moves, TakesAlong
  <2>3. CASE indexer' = [indexer EXCEPT ![a].pc = "embed", ![a].text = newest, ![a].prev = index.active]
    <3> DEFINE x == [indexer[a] EXCEPT !.pc = "embed", !.text = newest, !.prev = index.active]
    <3>1. indexer' = [indexer EXCEPT ![a] = x]
      BY <2>3
    <3>2. indexer'[a] = x /\ \A j \in Indexers \ {a} : indexer'[j] = indexer[j]
      BY <1>0, <3>1, IndexerMoves
    <3>3. /\ x \in IndexerRecord /\ x.pc = "embed" /\ x.text = newest
          /\ x.lock = indexer[a].lock /\ x.version = indexer[a].version
      BY <2>1 DEF IndexerRecord, Working
    <3> QED BY <2>1, <3>2, <3>3 DEF Moves
  <2> QED BY <1>5, <2>2, <2>3 DEF Recheck
<1> QED BY <1>1, <1>2, <1>3, <1>4, <1>5 DEF AskFindsPoints, AskFindsNone

(* How whoever works goes on.                                                 *)
LEMMA WorkerMoves ==
  ASSUME OfferShape, index \in IndexState, NEW i \in Indexers
  PROVE  /\ DeleteOwn(i) => Moves(i, {"embed"}, {"upsert"}) /\ TakesAlong(i)
         /\ Upsert(i) => Moves(i, {"upsert"}, {"drop"}) /\ TakesAlong(i)
         /\ DropOld(i) => Moves(i, {"drop"}, {"ready"}) /\ TakesAlong(i)
         /\ MarkReady(i) => Moves(i, {"ready", "remark"}, {"idle"}) /\ Leaves(i)
         /\ MarkFailed(i) => Moves(i, {"fail"}, {"idle"}) /\ Leaves(i)
         /\ IndexingFails(i) =>
              Moves(i, {"embed", "upsert", "drop", "ready"}, {"fail"}) /\ TakesAlong(i)
         /\ IndexerDies(i) => /\ indexer[i].pc # "idle" /\ Leaves(i) /\ indexer'[i].pc = "idle"
                              /\ \A j \in Indexers \ {i} : indexer'[j] = indexer[j]
<1>1. DeleteOwn(i) => Moves(i, {"embed"}, {"upsert"}) /\ TakesAlong(i)
  BY GoesToMoves DEF DeleteOwn, Working
<1>2. Upsert(i) => Moves(i, {"upsert"}, {"drop"}) /\ TakesAlong(i)
  BY GoesToMoves DEF Upsert, Working
<1>3. DropOld(i) => Moves(i, {"drop"}, {"ready"}) /\ TakesAlong(i)
  BY GoesToMoves DEF DropOld, Working
<1>4. MarkReady(i) => Moves(i, {"ready", "remark"}, {"idle"}) /\ Leaves(i)
  BY RestsMoves DEF MarkReady, At, Moves, Leaves
<1>5. MarkFailed(i) => Moves(i, {"fail"}, {"idle"}) /\ Leaves(i)
  BY RestsMoves DEF MarkFailed, At, Moves, Leaves
<1>6. ASSUME IndexingFails(i)
      PROVE  Moves(i, {"embed", "upsert", "drop", "ready"}, {"fail"}) /\ TakesAlong(i)
  <2>1. indexer[i].pc \in {"embed", "upsert", "drop", "ready"} /\ indexer[i] \in IndexerRecord
    BY <1>6, IndexerShapes DEF IndexingFails
  <2>2. index'.active \in MaybeVersion
    BY <1>6, <2>1 DEF IndexingFails, ReadyState, IndexState, IndexerRecord, MaybeVersion
  <2> DEFINE x == [indexer[i] EXCEPT !.pc = "fail", !.prev = index'.active]
  <2>3. indexer' = [indexer EXCEPT ![i] = x]
    BY <1>6 DEF IndexingFails
  <2>4. indexer'[i] = x /\ \A j \in Indexers \ {i} : indexer'[j] = indexer[j]
    BY <2>3, IndexerMoves
  <2>5. /\ x \in IndexerRecord /\ x.pc = "fail" /\ x.version = indexer[i].version
        /\ x.text = indexer[i].text /\ x.lock = indexer[i].lock
    BY <2>1, <2>2 DEF IndexerRecord, Working
  <2> QED BY <2>1, <2>4, <2>5 DEF Moves, TakesAlong
<1>7. IndexerDies(i) => /\ indexer[i].pc # "idle" /\ Leaves(i) /\ indexer'[i].pc = "idle"
                        /\ \A j \in Indexers \ {i} : indexer'[j] = indexer[j]
  BY RestsMoves, IndexerShapes DEF IndexerDies
<1> QED BY <1>1, <1>2, <1>3, <1>4, <1>5, <1>6, <1>7

(* A task is taken by a worker that rests.                                    *)
LEMMA TaskMoves ==
  ASSUME OfferShape, index.active \in MaybeVersion, NEW w \in OfferWorkers, NEW v \in Versions,
         TakeTask(w, v)
  PROVE  /\ Moves(w, {"idle"}, {"embed"}) /\ ~indexer'[w].lock
         /\ indexer'[w].text = indexer'[w].version
<1> DEFINE x == [pc |-> "embed", version |-> v, text |-> v, prev |-> index.active, lock |-> FALSE]
<1>1. w \in Indexers /\ x \in IndexerRecord
  BY DEF Indexers, IndexerRecord, Working
<1>2. indexer[w] = AtRest /\ indexer' = [indexer EXCEPT ![w] = x]
  BY DEF TakeTask
<1>3. indexer'[w] = x /\ \A j \in Indexers \ {w} : indexer'[j] = indexer[j]
  BY <1>1, <1>2, IndexerMoves
<1> QED BY <1>1, <1>2, <1>3 DEF Moves, AtRest

(* What each action writes has its type.                                      *)
LEMMA OfferTypeStep ==
  ASSUME OfferTypeOK, OfferShape, [OfferNext]_offerVars
  PROVE  OfferTypeOK' /\ OfferShape'
<1>0. /\ texts \in [Versions -> SUBSET Versions] /\ index \in IndexState /\ newest \in Versions
      /\ offerTasks \subseteq Versions /\ offerLock \in BOOLEAN
      /\ uploads \in 0..MaxUploads /\ asks \in 0..MaxAsks /\ offerFaults \in 0..OfferFaults
      /\ {MaxUploads, MaxAsks, OfferFaults} \subseteq Nat
      /\ unlocked \in BOOLEAN /\ crossed \in BOOLEAN /\ mixed \in BOOLEAN
      /\ indexer \in [Indexers -> {AtRest} \cup IndexerRecord]
      /\ upload = AtRest \/ upload \in [pc : {"mark"}, version : Versions, prev : MaybeVersion]
      /\ index.active \in MaybeVersion
  BY OfferIndexAssumption DEF OfferTypeOK, OfferShape, IndexState
<1> DEFINE Counts == uploads' \in 0..MaxUploads /\ asks' \in 0..MaxAsks /\ offerFaults' \in 0..OfferFaults
           Flags == /\ offerLock' \in BOOLEAN /\ unlocked' \in BOOLEAN
                    /\ crossed' \in BOOLEAN /\ mixed' \in BOOLEAN
           Data == /\ texts' \in [Versions -> SUBSET Versions] /\ index' \in IndexState
                   /\ newest' \in Versions /\ offerTasks' \subseteq Versions
                   /\ upload' = AtRest \/ upload' \in [pc : {"mark"}, version : Versions, prev : MaybeVersion]
           Rows == indexer' \in [Indexers -> {AtRest} \cup IndexerRecord]
           Goal == Counts /\ Flags /\ Data /\ Rows
<1>1. /\ OfferFault \/ UNCHANGED offerFaults => offerFaults' \in 0..OfferFaults
      /\ \A i : Meets(i) => mixed' \in BOOLEAN
      /\ MeetsAny(Indexers) => mixed' \in BOOLEAN
      /\ \A i : Releases(i) => offerLock' \in BOOLEAN /\ offerFaults' \in 0..OfferFaults
      /\ NoAnswer => offerLock' \in BOOLEAN /\ offerFaults' \in 0..OfferFaults
      /\ GoesOnUnlocked => unlocked' \in BOOLEAN
      /\ asks < MaxAsks /\ asks' = asks + 1 => asks' \in 0..MaxAsks
      /\ uploads < MaxUploads /\ uploads' = uploads + 1 => uploads' \in 0..MaxUploads
  <2>1. OfferFault \/ UNCHANGED offerFaults => offerFaults' \in 0..OfferFaults
    BY <1>0 DEF OfferFault
  <2>2. \A others : MeetsAny(others) => mixed' \in BOOLEAN
    BY DEF MeetsAny
  <2>3. \A i : Releases(i) => offerLock' \in BOOLEAN /\ offerFaults' \in 0..OfferFaults
    BY <1>0, <2>1 DEF Releases, Released
  <2>4. NoAnswer => offerLock' \in BOOLEAN /\ offerFaults' \in 0..OfferFaults
    BY <1>0, <2>1 DEF NoAnswer
  <2>5. GoesOnUnlocked => unlocked' \in BOOLEAN
    BY DEF GoesOnUnlocked
  <2> QED BY <1>0, <2>1, <2>2, <2>3, <2>4, <2>5 DEF Meets
<1>2. ASSUME NEW i \in Indexers, NEW from, NEW to, Moves(i, from, to), indexer' = [indexer EXCEPT ![i] = indexer'[i]]
      PROVE  Rows
  <2>1. indexer'[i] \in {AtRest} \cup IndexerRecord
    BY <1>2 DEF Moves
  <2> QED BY <1>0, <1>2, <2>1
<1>3. ASSUME NEW i \in Indexers, NEW x, indexer' = [indexer EXCEPT ![i] = x]
      PROVE  indexer' = [indexer EXCEPT ![i] = indexer'[i]]
  BY <1>0, <1>3
<1>4. ASSUME NEW i \in Indexers, indexer[i].pc # "idle"
      PROVE  indexer[i].version \in Versions /\ indexer[i].text \in Versions /\ indexer[i].prev \in MaybeVersion
  BY <1>4, IndexerShapes DEF IndexerRecord
<1>5. ASSUME NEW versions, Deletes(versions)
      PROVE  texts' \in [Versions -> SUBSET Versions] /\ offerFaults' \in 0..OfferFaults
  BY <1>0, <1>1, <1>5 DEF Deletes
<1>6. ASSUME NEW v \in Versions, Upload(v) PROVE Goal
  BY <1>0, <1>1, <1>6 DEF Upload
<1>7. ASSUME MarkIndexing PROVE Goal
  <2>1. upload \in [pc : {"mark"}, version : Versions, prev : MaybeVersion]
    BY <1>0, <1>7 DEF MarkIndexing
  <2>2. [status |-> "indexing", active |-> upload.prev] \in IndexState
    BY <2>1 DEF IndexState
  <2> QED BY <1>0, <1>1, <1>7, <2>1, <2>2 DEF MarkIndexing
<1>8. ASSUME NEW v \in Versions, NEW w \in OfferWorkers, TakeTask(w, v) PROVE Goal
  <2>1. w \in Indexers
    BY IndexerShapes
  <2>2. Rows
    BY <1>0, <1>2, <1>3, <1>8, <2>1, TaskMoves DEF TakeTask
  <2> QED BY <1>0, <1>1, <1>8, <2>2 DEF TakeTask, offerCounts
<1>9. ASSUME NEW a \in Askers, AskFindsPoints(a) \/ AskFindsNone(a) PROVE Goal
  <2>1. a \in Indexers
    BY IndexerShapes
  <2>2. \E x : indexer' = [indexer EXCEPT ![a] = x]
    BY <1>9 DEF AskFindsPoints, AskFindsNone, AskerGoes
  <2>3. Rows
    BY <1>0, <1>2, <1>3, <1>9, <2>1, <2>2, AskerMoves
  <2>4. offerFaults' \in 0..OfferFaults
    BY <1>0, <1>1, <1>9 DEF AskFindsPoints, AskFindsNone, FindsNone
  <2> QED BY <1>0, <1>1, <1>9, <2>3, <2>4 DEF AskFindsPoints, AskFindsNone, AskerGoes
<1>10. ASSUME NEW a \in Askers, TakeLock(a) \/ WaitRunsOut(a) PROVE Goal
  <2>1. a \in Indexers
    BY IndexerShapes
  <2>2. \E x : indexer' = [indexer EXCEPT ![a] = x]
    BY <1>10 DEF TakeLock, WaitRunsOut
  <2>3. Rows
    BY <1>0, <1>2, <1>3, <1>10, <2>1, <2>2, AskerMoves
  <2>4. offerLock' \in BOOLEAN /\ offerFaults' \in 0..OfferFaults
    BY <1>0, <1>1, <1>10 DEF TakeLock, WaitRunsOut
  <2> QED BY <1>0, <1>1, <1>10, <2>3, <2>4 DEF TakeLock, WaitRunsOut
<1>11. ASSUME NEW a \in Askers, LockIsHeld(a) \/ WaitIsOver(a) PROVE Goal
  <2>1. a \in Indexers
    BY IndexerShapes
  <2>2. \E x : indexer' = [indexer EXCEPT ![a] = x]
    BY <1>11 DEF LockIsHeld, WaitIsOver, GoesTo, Rests
  <2>3. Rows
    BY <1>0, <1>2, <1>3, <1>11, <2>1, <2>2, AskerMoves
  <2> QED BY <1>0, <1>11, <2>3 DEF LockIsHeld, WaitIsOver, offerCounts
<1>12. ASSUME LockExpires PROVE Goal
  BY <1>0, <1>12 DEF LockExpires, offerCounts
<1>13. ASSUME NEW a \in Askers, Recheck(a) PROVE Goal
  <2>1. a \in Indexers
    BY IndexerShapes
  <2>2. \E x : indexer' = [indexer EXCEPT ![a] = x]
    BY <1>13 DEF Recheck, GoesTo
  <2>3. Rows
    BY <1>0, <1>2, <1>3, <1>13, <2>1, <2>2, AskerMoves
  <2>4. offerFaults' \in 0..OfferFaults
    BY <1>0, <1>1, <1>13 DEF Recheck, FindsNone
  <2> QED BY <1>0, <1>1, <1>13, <2>3, <2>4 DEF Recheck
<1>14. ASSUME NEW i \in Indexers, DeleteOwn(i) \/ Upsert(i) \/ DropOld(i) PROVE Goal
  <2>1. indexer[i].version \in Versions /\ indexer[i].text \in Versions
    BY <1>4, <1>14 DEF DeleteOwn, Upsert, DropOld, At
  <2>2. \E x : indexer' = [indexer EXCEPT ![i] = x]
    BY <1>14 DEF DeleteOwn, Upsert, DropOld, GoesTo
  <2>3. Rows
    BY <1>0, <1>2, <1>3, <1>14, <2>2, WorkerMoves
  <2>4. texts' \in [Versions -> SUBSET Versions] /\ offerFaults' \in 0..OfferFaults
    BY <1>0, <1>5, <1>14, <2>1 DEF DeleteOwn, Upsert, DropOld, offerCounts
  <2> QED BY <1>0, <1>14, <2>3, <2>4 DEF DeleteOwn, Upsert, DropOld, offerCounts
<1>15. ASSUME NEW i \in Indexers, MarkReady(i) \/ MarkFailed(i) PROVE Goal
  <2>1. indexer[i].version \in MaybeVersion /\ indexer[i].prev \in MaybeVersion
    BY <1>4, <1>15 DEF MarkReady, MarkFailed, At, MaybeVersion
  <2>2. index' \in IndexState
    BY <1>15, <2>1 DEF MarkReady, MarkFailed, ReadyState, IndexState
  <2>3. \E x : indexer' = [indexer EXCEPT ![i] = x]
    BY <1>15 DEF MarkReady, MarkFailed, Rests
  <2>4. Rows
    BY <1>0, <1>2, <1>3, <1>15, <2>3, WorkerMoves
  <2> QED BY <1>0, <1>1, <1>15, <2>2, <2>4 DEF MarkReady, MarkFailed
<1>16. ASSUME NEW i \in Indexers, IndexingFails(i) PROVE Goal
  <2>1. indexer[i].version \in MaybeVersion
    BY <1>4, <1>16 DEF IndexingFails, At, MaybeVersion
  <2>2. index' \in IndexState
    BY <1>0, <1>16, <2>1 DEF IndexingFails, ReadyState, IndexState
  <2>3. \E x : indexer' = [indexer EXCEPT ![i] = x]
    BY <1>16 DEF IndexingFails
  <2>4. Rows
    BY <1>0, <1>2, <1>3, <1>16, <2>3, WorkerMoves
  <2> QED BY <1>0, <1>1, <1>16, <2>2, <2>4 DEF IndexingFails
<1>17. ASSUME NEW i \in Indexers, IndexerDies(i) PROVE Goal
  <2>1. Rows
    BY <1>0, <1>17 DEF IndexerDies, Rests
  <2> QED BY <1>0, <1>1, <1>17, <2>1 DEF IndexerDies, Released
<1>18. Goal
  <2>1. CASE UNCHANGED offerVars
    BY <1>0, <2>1 DEF offerVars, offerCounts
  <2> QED BY <1>6, <1>7, <1>8, <1>9, <1>10, <1>11, <1>12, <1>13, <1>14, <1>15, <1>16, <1>17, <2>1
           DEF OfferNext
<1>19. OfferShape'
  BY <1>18 DEF OfferShape
<1> QED BY <1>18, <1>19 DEF OfferTypeOK, OfferShape, IndexerRecord

(* Nobody but the one who enters is at the index, unless the history says so. *)
LEMMA EntersAlone ==
  ASSUME NEW i \in Indexers, Meets(i), OfferShape
  PROVE  /\ ~mixed' => /\ ~mixed /\ upload = AtRest
                       /\ \A j \in Indexers \ {i} : ~IsWorking(j)
BY IndexerShapes DEF Meets, MeetsAny, IsWorking

(* Of which kind a step is: outside the index, into it, at it or away from it. *)
LEMMA OfferSteps ==
  ASSUME OfferTypeOK, OfferShape, OfferNext
  PROVE  \/ MarkIndexing
         \/ LockExpires
         \/ \E v \in Versions : Upload(v)
         \/ \E v \in Versions, w \in OfferWorkers : TakeTask(w, v)
         \/ \E a \in Askers : AskFindsPoints(a) \/ Recheck(a)
         \/ \E a \in Askers : AskFindsNone(a) \/ TakeLock(a) \/ LockIsHeld(a) \/ WaitIsOver(a) \/ WaitRunsOut(a)
         \/ \E i \in Indexers : DeleteOwn(i) \/ Upsert(i) \/ DropOld(i) \/ MarkReady(i)
                                \/ IndexingFails(i) \/ MarkFailed(i)
         \/ \E i \in Indexers : IndexerDies(i)
BY DEF OfferNext

(* The one who is at the index may go on with it: nobody else comes in.       *)
LEMMA AloneStep ==
  ASSUME OfferTypeOK, OfferShape, AloneAtTheIndex, [OfferNext]_offerVars
  PROVE  AloneAtTheIndex'
<1>0. /\ Askers \subseteq Indexers /\ OfferWorkers \subseteq Indexers
      /\ index \in IndexState /\ index.active \in MaybeVersion /\ newest \in Versions
  BY IndexerShapes DEF OfferTypeOK, IndexState
<1>1. ASSUME ~mixed' => ~mixed, upload' = upload \/ upload' = AtRest,
             \A j \in Indexers : IsWorking(j)' => IsWorking(j)
      PROVE  AloneAtTheIndex'
  BY <1>1 DEF AloneAtTheIndex
<1>2. ASSUME NEW i \in Indexers, Meets(i), UNCHANGED upload,
             \A j \in Indexers \ {i} : indexer'[j] = indexer[j]
      PROVE  AloneAtTheIndex'
  BY <1>2, EntersAlone DEF AloneAtTheIndex, IsWorking
<1>3. CASE UNCHANGED offerVars
  BY <1>1, <1>3 DEF offerVars, IsWorking
<1>4. ASSUME NEW v \in Versions, Upload(v) PROVE AloneAtTheIndex'
  <2>1. ~mixed' => ~mixed /\ \A j \in Indexers : ~IsWorking(j)
    BY <1>4, IndexerShapes DEF Upload, MeetsAny, IsWorking
  <2>2. UNCHANGED indexer
    BY <1>4 DEF Upload
  <2> QED BY <2>1, <2>2 DEF AloneAtTheIndex, IsWorking
<1>5. CASE MarkIndexing \/ LockExpires
  <2>1. UNCHANGED <<mixed, indexer>> /\ (upload' = upload \/ upload' = AtRest)
    BY <1>5 DEF MarkIndexing, LockExpires
  <2> QED BY <1>1, <2>1 DEF IsWorking
<1>6. ASSUME NEW v \in Versions, NEW w \in OfferWorkers, TakeTask(w, v) PROVE AloneAtTheIndex'
  <2>1. \A j \in Indexers \ {w} : indexer'[j] = indexer[j]
    BY <1>0, <1>6, TaskMoves DEF Moves
  <2> QED BY <1>0, <1>2, <1>6, <2>1 DEF TakeTask
<1>7. ASSUME NEW a \in Askers, AskFindsPoints(a) \/ Recheck(a) PROVE AloneAtTheIndex'
  <2>1. \A j \in Indexers \ {a} : indexer'[j] = indexer[j]
    BY <1>0, <1>7, AskerMoves DEF Moves
  <2> QED BY <1>0, <1>2, <1>7, <2>1 DEF AskFindsPoints, AskerGoes, Recheck
<1>8. ASSUME NEW a \in Askers,
             AskFindsNone(a) \/ TakeLock(a) \/ LockIsHeld(a) \/ WaitIsOver(a) \/ WaitRunsOut(a)
      PROVE  AloneAtTheIndex'
  <2>1. \A j \in Indexers : IsWorking(j)' => IsWorking(j)
    BY <1>0, <1>8, AskerMoves DEF Moves, IsWorking, Working
  <2>2. UNCHANGED <<mixed, upload>>
    BY <1>8 DEF AskFindsNone, AskerGoes, TakeLock, LockIsHeld, WaitIsOver, WaitRunsOut
  <2> QED BY <1>1, <2>1, <2>2
<1>9. ASSUME NEW i \in Indexers, \/ DeleteOwn(i) \/ Upsert(i) \/ DropOld(i) \/ MarkReady(i)
                                 \/ IndexingFails(i) \/ MarkFailed(i)
      PROVE  AloneAtTheIndex'
  <2>1. UNCHANGED <<mixed, upload>>
    BY <1>9 DEF DeleteOwn, Upsert, DropOld, MarkReady, IndexingFails, MarkFailed
  <2>2. IsWorking(i) /\ \A j \in Indexers \ {i} : indexer'[j] = indexer[j]
    BY <1>0, <1>9, WorkerMoves DEF Moves, IsWorking, Working
  <2> QED BY <1>1, <2>1, <2>2 DEF IsWorking
<1>10. ASSUME NEW i \in Indexers, IndexerDies(i) PROVE AloneAtTheIndex'
  <2>1. (~mixed' => ~mixed) /\ UNCHANGED upload
    BY <1>10 DEF IndexerDies
  <2>2. \A j \in Indexers : IsWorking(j)' => IsWorking(j)
    BY <1>0, <1>10, WorkerMoves DEF IsWorking, Working
  <2> QED BY <1>1, <2>1, <2>2
<1> QED BY <1>3, <1>4, <1>5, <1>6, <1>7, <1>8, <1>9, <1>10, OfferSteps

(* Whoever is past the lock holds it, and nobody sets it meanwhile, unless it  *)
(* went on without one.                                                       *)
LEMMA LockStep ==
  ASSUME OfferTypeOK, OfferShape, LockIsHeldByOne, [OfferNext]_offerVars
  PROVE  LockIsHeldByOne'
<1>0. /\ Askers \subseteq Indexers /\ OfferWorkers \subseteq Indexers /\ Askers \cap OfferWorkers = {}
      /\ index \in IndexState /\ index.active \in MaybeVersion /\ newest \in Versions
      /\ Indexers = Askers \cup OfferWorkers /\ AtRest.pc = "idle"
      /\ unlocked \in BOOLEAN /\ offerLock \in BOOLEAN
  BY OfferIndexAssumption, IndexerShapes DEF OfferTypeOK, IndexState, Indexers
\* Nobody comes to hold a lock, and the lock stays.
<1>1. ASSUME ~unlocked' => ~unlocked, UNCHANGED offerLock,
             \A i \in Indexers : HoldsLock(i)' => HoldsLock(i),
             \A a \in Askers : IsPast(a)' => HoldsLock(a)'
      PROVE  LockIsHeldByOne'
  BY <1>0, <1>1 DEF LockIsHeldByOne
\* One moves and is past the lock only if it holds it as it did.
<1>2. ASSUME NEW i \in Indexers, UNCHANGED <<offerLock, unlocked>>,
             \A j \in Indexers \ {i} : indexer'[j] = indexer[j],
             HoldsLock(i)' => HoldsLock(i), i \in Askers /\ IsPast(i)' => HoldsLock(i)'
      PROVE  LockIsHeldByOne'
  <2>1. \A j \in Indexers \ {i} : HoldsLock(j)' = HoldsLock(j) /\ IsPast(j)' = IsPast(j)
    BY <1>2 DEF HoldsLock, IsPast
  <2> QED BY <1>0, <1>1, <1>2, <2>1 DEF LockIsHeldByOne
\* One goes, and the lock goes with it or stays.
<1>3. ASSUME NEW i \in Indexers, Leaves(i), indexer[i].pc # "idle", UNCHANGED unlocked,
             \A j \in Indexers \ {i} : indexer'[j] = indexer[j],
             offerLock' = offerLock \/ offerLock' = Released(i)
      PROVE  LockIsHeldByOne'
  <2>1. ~HoldsLock(i)' /\ ~IsPast(i)'
    BY <1>0, <1>3 DEF HoldsLock, IsPast, Leaves
  <2>2. CASE UNCHANGED offerLock
    BY <1>2, <1>3, <2>1, <2>2
  <2>3. CASE offerLock' # offerLock
    <3>1. HoldsLock(i) /\ i \in Askers
      BY <1>0, <1>3, <2>3 DEF Released, HoldsLock, LockIsHeldByOne
    <3>2. \A j \in Indexers \ {i} : HoldsLock(j)' = HoldsLock(j) /\ IsPast(j)' = IsPast(j)
      BY <1>3 DEF HoldsLock, IsPast
    <3>3. ~unlocked' => \A a \in Askers : ~HoldsLock(a)'
      BY <1>0, <1>3, <2>1, <3>1, <3>2 DEF LockIsHeldByOne
    <3> QED BY <1>0, <2>1, <3>2, <3>3 DEF LockIsHeldByOne
  <2> QED BY <2>2, <2>3
<1>4. CASE UNCHANGED offerVars
  BY <1>1, <1>4 DEF offerVars, HoldsLock, IsPast, LockIsHeldByOne
<1>5. ASSUME MarkIndexing \/ \E v \in Versions : Upload(v) PROVE LockIsHeldByOne'
  BY <1>1, <1>5 DEF MarkIndexing, Upload, HoldsLock, IsPast, LockIsHeldByOne
<1>6. CASE LockExpires
  <2>1. /\ UNCHANGED indexer
        /\ unlocked' = (unlocked \/ \E a \in Askers : indexer[a] # AtRest /\ indexer[a].lock)
    BY <1>6 DEF LockExpires
  <2>2. ~unlocked' => ~unlocked /\ \A a \in Askers : ~HoldsLock(a)
    BY <1>0, <2>1, IndexerShapes DEF HoldsLock
  <2> QED BY <2>1, <2>2 DEF LockIsHeldByOne, HoldsLock, IsPast
<1>7. ASSUME NEW v \in Versions, NEW w \in OfferWorkers, TakeTask(w, v) PROVE LockIsHeldByOne'
  <2>1. ~HoldsLock(w)' /\ \A j \in Indexers \ {w} : indexer'[j] = indexer[j]
    BY <1>0, <1>7, TaskMoves DEF Moves, HoldsLock
  <2> QED BY <1>0, <1>2, <1>7, <2>1 DEF TakeTask
<1>8. ASSUME NEW a \in Askers, AskFindsPoints(a) \/ AskFindsNone(a) PROVE LockIsHeldByOne'
  <2>1. /\ ~HoldsLock(a)' /\ ~IsPast(a)'
        /\ \A j \in Indexers \ {a} : indexer'[j] = indexer[j]
    BY <1>0, <1>8, AskerMoves DEF Moves, HoldsLock, IsPast
  <2>2. UNCHANGED <<offerLock, unlocked>>
    BY <1>8 DEF AskFindsPoints, AskFindsNone, AskerGoes
  <2> QED BY <1>0, <1>2, <2>1, <2>2
<1>9. ASSUME NEW a \in Askers, TakeLock(a) \/ WaitRunsOut(a) PROVE LockIsHeldByOne'
  <2>1. /\ HoldsLock(a)' /\ \A j \in Indexers \ {a} : indexer'[j] = indexer[j]
    BY <1>0, <1>9, AskerMoves DEF Moves, HoldsLock
  <2>2. unlocked' = (unlocked \/ offerLock \/ ~offerLock')
    BY <1>9 DEF TakeLock, WaitRunsOut, GoesOnUnlocked
  <2>3. ~unlocked' => ~unlocked /\ ~offerLock /\ offerLock'
    BY <2>2
  <2>4. \A j \in Indexers \ {a} : HoldsLock(j)' = HoldsLock(j) /\ IsPast(j)' = IsPast(j)
    BY <2>1 DEF HoldsLock, IsPast
  <2>5. ~unlocked' => \A b \in Askers \ {a} : ~HoldsLock(b)'
    BY <1>0, <2>3, <2>4 DEF LockIsHeldByOne
  <2> QED BY <1>0, <2>1, <2>3, <2>4, <2>5 DEF LockIsHeldByOne
<1>10. ASSUME NEW a \in Askers, LockIsHeld(a) \/ WaitIsOver(a) PROVE LockIsHeldByOne'
  <2>1. /\ HoldsLock(a)' => HoldsLock(a)
        /\ ~IsPast(a)' /\ \A j \in Indexers \ {a} : indexer'[j] = indexer[j]
    BY <1>0, <1>10, AskerMoves DEF Moves, HoldsLock, TakesAlong, IsPast
  <2> QED BY <1>0, <1>2, <1>10, <2>1 DEF LockIsHeld, WaitIsOver
<1>11. ASSUME NEW a \in Askers, Recheck(a) PROVE LockIsHeldByOne'
  <2>1. /\ indexer[a].pc = "recheck" /\ indexer'[a].lock = indexer[a].lock
        /\ indexer'[a].pc # "idle" /\ \A j \in Indexers \ {a} : indexer'[j] = indexer[j]
    BY <1>0, <1>11, AskerMoves DEF Moves
  <2>2. HoldsLock(a)
    BY <2>1 DEF LockIsHeldByOne, IsPast
  <2> QED BY <1>0, <1>2, <1>11, <2>1, <2>2 DEF Recheck, HoldsLock
<1>12. ASSUME NEW i \in Indexers, DeleteOwn(i) \/ Upsert(i) \/ DropOld(i) \/ IndexingFails(i)
       PROVE  LockIsHeldByOne'
  <2>1. /\ IsPast(i) \/ ~IsPast(i)'
        /\ indexer[i].pc # "idle" /\ indexer'[i].pc # "idle"
        /\ TakesAlong(i) /\ \A j \in Indexers \ {i} : indexer'[j] = indexer[j]
    BY <1>0, <1>12, WorkerMoves DEF Moves, IsPast
  <2>2. HoldsLock(i)' = HoldsLock(i)
    BY <2>1 DEF HoldsLock, TakesAlong
  <2>3. UNCHANGED <<offerLock, unlocked>>
    BY <1>12 DEF DeleteOwn, Upsert, DropOld, IndexingFails
  <2>4. i \in Askers /\ IsPast(i)' => HoldsLock(i)'
    BY <2>1, <2>2 DEF LockIsHeldByOne
  <2> QED BY <1>2, <2>1, <2>2, <2>3, <2>4
<1>13. ASSUME NEW i \in Indexers, MarkReady(i) \/ MarkFailed(i) \/ IndexerDies(i) PROVE LockIsHeldByOne'
  <2>1. /\ indexer[i].pc # "idle" /\ Leaves(i) /\ \A j \in Indexers \ {i} : indexer'[j] = indexer[j]
    BY <1>0, <1>13, WorkerMoves DEF Moves
  <2>2. UNCHANGED unlocked /\ (offerLock' = offerLock \/ offerLock' = Released(i))
    BY <1>13 DEF MarkReady, MarkFailed, IndexerDies, Releases
  <2> QED BY <1>3, <2>1, <2>2
<1> QED BY <1>4, <1>5, <1>6, <1>7, <1>8, <1>9, <1>10, <1>11, <1>12, <1>13, OfferSteps

(* The points of a "ready" state are there except while one is between the    *)
(* deletion of its own points and the state it writes.                        *)
LEMMA PointsStep ==
  ASSUME OfferTypeOK, OfferShape, AloneAtTheIndex, PointsFollowTheWork, [OfferNext]_offerVars
  PROVE  PointsFollowTheWork'
<1> DEFINE Fine == index.status = "ready" => index.active \in points
<1>0. /\ Askers \subseteq Indexers /\ OfferWorkers \subseteq Indexers
      /\ index \in IndexState /\ index.active \in MaybeVersion /\ newest \in Versions
      /\ texts \in [Versions -> SUBSET Versions]
      /\ \A i \in Indexers : ~IsWorking(i) => ~IsLate(i) /\ SaysWhatIsThere(i)
      /\ \A i \in Indexers : ~IsWorking(i)' => ~IsLate(i)' /\ SaysWhatIsThere(i)'
      /\ ~mixed => (\A i \in Indexers : SaysWhatIsThere(i)) /\ ((\A i \in Indexers : ~IsLate(i)) => Fine)
      /\ ~mixed => \A i, j \in Indexers : IsWorking(i) /\ IsWorking(j) => i = j
  <2>1. /\ \A i \in Indexers : ~IsWorking(i) => ~IsLate(i) /\ SaysWhatIsThere(i)
        /\ \A i \in Indexers : ~IsWorking(i)' => ~IsLate(i)' /\ SaysWhatIsThere(i)'
    BY DEF IsWorking, Working, IsLate, SaysWhatIsThere
  <2> QED BY <2>1, IndexerShapes DEF OfferTypeOK, IndexState, PointsFollowTheWork, AloneAtTheIndex
<1>1. UNCHANGED texts => UNCHANGED points
  BY DEF points
\* The steps of those who are not at the index.
<1>2. ASSUME ~mixed' => ~mixed, UNCHANGED points, UNCHANGED index \/ index'.status = "indexing",
             \A i \in Indexers : indexer'[i] = indexer[i] \/ (~IsWorking(i) /\ ~IsWorking(i)')
      PROVE  PointsFollowTheWork'
  <2>1. \A i \in Indexers : (SaysWhatIsThere(i) => SaysWhatIsThere(i)') /\ IsLate(i)' = IsLate(i)
    BY <1>0, <1>2 DEF SaysWhatIsThere, IsLate
  <2> QED BY <1>0, <1>2, <2>1 DEF PointsFollowTheWork
\* The steps of the one who is, or comes in.
<1>3. ASSUME NEW i \in Indexers, \A j \in Indexers \ {i} : indexer'[j] = indexer[j],
             ~mixed' => ~mixed /\ \A j \in Indexers \ {i} : ~IsWorking(j),
             ~mixed' => SaysWhatIsThere(i)' /\ (IsLate(i)' \/ Fine')
      PROVE  PointsFollowTheWork'
  <2>1. ~mixed' => \A j \in Indexers \ {i} : ~IsLate(j)' /\ SaysWhatIsThere(j)'
    BY <1>0, <1>3 DEF IsWorking
  <2> QED BY <1>3, <2>1 DEF PointsFollowTheWork
<1>4. ASSUME NEW i \in Indexers, ~mixed, ~IsLate(i), \A j \in Indexers \ {i} : ~IsWorking(j) PROVE Fine
  BY <1>0, <1>4
<1>5. ASSUME NEW i \in Indexers, IsWorking(i), ~mixed
      PROVE  SaysWhatIsThere(i) /\ \A j \in Indexers \ {i} : ~IsWorking(j)
  BY <1>0, <1>5
<1>6. ASSUME UNCHANGED offerVars \/ MarkIndexing \/ LockExpires \/ \E v \in Versions : Upload(v)
      PROVE  PointsFollowTheWork'
  <2>1. UNCHANGED <<texts, indexer>>
    BY <1>6 DEF MarkIndexing, LockExpires, Upload, offerVars
  <2>2. ~mixed' => ~mixed
    BY <1>6 DEF MarkIndexing, LockExpires, Upload, MeetsAny, offerVars
  <2>3. UNCHANGED index \/ index'.status = "indexing"
    <3>1. CASE MarkIndexing
      BY <3>1 DEF MarkIndexing
    <3>2. CASE UNCHANGED offerVars \/ LockExpires \/ \E v \in Versions : Upload(v)
      BY <3>2 DEF LockExpires, Upload, offerVars
    <3> QED BY <1>6, <3>1, <3>2
  <2> QED BY <1>1, <1>2, <2>1, <2>2, <2>3
<1>7. ASSUME NEW v \in Versions, NEW w \in OfferWorkers, TakeTask(w, v) PROVE PointsFollowTheWork'
  <2>1. Moves(w, {"idle"}, {"embed"}) /\ UNCHANGED <<points, index>> /\ Meets(w) /\ w \in Indexers
    BY <1>0, <1>1, <1>7, TaskMoves DEF TakeTask
  <2>2. ~mixed' => ~mixed /\ \A j \in Indexers \ {w} : ~IsWorking(j)
    BY <2>1, EntersAlone
  <2>3. ~IsLate(w) /\ SaysWhatIsThere(w)'
    BY <2>1 DEF Moves, IsLate, SaysWhatIsThere
  <2>4. ~mixed' => Fine'
    BY <1>4, <2>1, <2>2, <2>3
  <2> QED BY <1>3, <2>1, <2>2, <2>3, <2>4 DEF Moves
<1>8. ASSUME NEW a \in Askers, AskFindsPoints(a) \/ Recheck(a) PROVE PointsFollowTheWork'
  <2>1. a \in Indexers /\ UNCHANGED <<points, index>> /\ Meets(a)
    BY <1>0, <1>1, <1>8 DEF AskFindsPoints, AskerGoes, Recheck
  <2>2. ~mixed' => ~mixed /\ \A j \in Indexers \ {a} : ~IsWorking(j)
    BY <2>1, EntersAlone
  <2>3. /\ \A j \in Indexers \ {a} : indexer'[j] = indexer[j]
        /\ ~IsLate(a)
    BY <1>0, <1>8, AskerMoves DEF Moves, IsLate
  <2>4. SaysWhatIsThere(a)'
    <3>1. CASE AskFindsPoints(a)
      BY <1>0, <2>1, <3>1, AskerMoves DEF AskFindsPoints, SaysWhatIsThere
    <3>2. CASE Recheck(a)
      BY <1>0, <2>1, <3>2, AskerMoves DEF SaysWhatIsThere
    <3> QED BY <1>8, <3>1, <3>2
  <2>5. ~mixed' => Fine'
    BY <1>4, <2>1, <2>2, <2>3
  <2> QED BY <1>3, <2>1, <2>2, <2>3, <2>4, <2>5
<1>9. ASSUME NEW a \in Askers,
             AskFindsNone(a) \/ TakeLock(a) \/ LockIsHeld(a) \/ WaitIsOver(a) \/ WaitRunsOut(a)
      PROVE  PointsFollowTheWork'
  <2>1. UNCHANGED <<mixed, points, index>>
    BY <1>1, <1>9 DEF AskFindsNone, AskerGoes, TakeLock, LockIsHeld, WaitIsOver, WaitRunsOut
  <2>2. \A j \in Indexers : indexer'[j] = indexer[j] \/ (~IsWorking(j) /\ ~IsWorking(j)')
    BY <1>0, <1>9, AskerMoves DEF Moves, IsWorking, Working
  <2> QED BY <1>2, <2>1, <2>2
<1>10. ASSUME NEW i \in Indexers, DeleteOwn(i) \/ Upsert(i) \/ DropOld(i) PROVE PointsFollowTheWork'
  <2>1. /\ UNCHANGED <<index, mixed>> /\ indexer[i] \in IndexerRecord
    BY <1>10, IndexerShapes DEF DeleteOwn, Upsert, DropOld, At
  <2>2. /\ IsWorking(i) /\ IsLate(i)' /\ TakesAlong(i)
        /\ \A j \in Indexers \ {i} : indexer'[j] = indexer[j]
    BY <1>0, <1>10, WorkerMoves DEF Moves, IsWorking, Working, IsLate
  <2>3. ~mixed' => ~mixed /\ SaysWhatIsThere(i) /\ \A j \in Indexers \ {i} : ~IsWorking(j)
    BY <1>5, <2>1, <2>2
  <2>4. ~mixed => SaysWhatIsThere(i)'
    <3>1. CASE DeleteOwn(i)
      BY <1>0, <3>1, WorkerMoves DEF Moves, SaysWhatIsThere
    <3>2. CASE Upsert(i)
      <4>1. indexer[i].version \in points'
        BY <1>0, <2>1, <3>2 DEF Upsert, points, IndexerRecord
      <4> QED BY <2>2, <4>1 DEF SaysWhatIsThere, TakesAlong
    <3>3. CASE DropOld(i)
      <4>1. indexer[i].version \in points => indexer[i].version \in points'
        BY <1>0, <2>1, <3>3 DEF DropOld, Deletes, OldVersion, points, IndexerRecord
      <4>2. ~mixed => indexer[i].version \in points
        BY <2>1, <2>3, <3>3 DEF SaysWhatIsThere, DropOld, At
      <4> QED BY <2>2, <4>1, <4>2 DEF SaysWhatIsThere, TakesAlong
    <3> QED BY <1>10, <3>1, <3>2, <3>3
  <2> QED BY <1>3, <2>1, <2>2, <2>3, <2>4
<1>11. ASSUME NEW i \in Indexers, IndexingFails(i) PROVE PointsFollowTheWork'
  <2>1. /\ IsWorking(i) /\ IsLate(i)' /\ SaysWhatIsThere(i)'
        /\ \A j \in Indexers \ {i} : indexer'[j] = indexer[j]
    BY <1>0, <1>11, WorkerMoves DEF Moves, IsWorking, Working, IsLate, SaysWhatIsThere
  <2>2. UNCHANGED mixed
    BY <1>11 DEF IndexingFails
  <2>3. ~mixed' => ~mixed /\ \A j \in Indexers \ {i} : ~IsWorking(j)
    BY <1>5, <2>1, <2>2
  <2> QED BY <1>3, <2>1, <2>3
<1>12. ASSUME NEW i \in Indexers, MarkReady(i) \/ MarkFailed(i) PROVE PointsFollowTheWork'
  <2>1. UNCHANGED <<mixed, points>>
    BY <1>1, <1>12 DEF MarkReady, MarkFailed
  <2>2. /\ IsWorking(i) /\ indexer'[i].pc = "idle"
        /\ \A j \in Indexers \ {i} : indexer'[j] = indexer[j]
    BY <1>0, <1>12, WorkerMoves DEF Moves, IsWorking, Working
  <2>3. ~mixed' => ~mixed /\ SaysWhatIsThere(i) /\ \A j \in Indexers \ {i} : ~IsWorking(j)
    BY <1>5, <2>1, <2>2
  <2>4. ~mixed => Fine'
    <3>1. CASE MarkReady(i)
      <4>1. index'.active = indexer[i].version /\ indexer[i].pc \in {"ready", "remark"}
        BY <3>1 DEF MarkReady, ReadyState, At
      <4> QED BY <2>1, <2>3, <4>1 DEF SaysWhatIsThere
    <3>2. CASE MarkFailed(i)
      BY <3>2 DEF MarkFailed
    <3> QED BY <1>12, <3>1, <3>2
  <2>5. SaysWhatIsThere(i)'
    BY <2>2 DEF SaysWhatIsThere
  <2> QED BY <1>3, <2>1, <2>2, <2>3, <2>4, <2>5
<1>13. ASSUME NEW i \in Indexers, IndexerDies(i) PROVE PointsFollowTheWork'
  <2>1. UNCHANGED <<points, index>> /\ mixed' = (mixed \/ IsWorking(i))
    BY <1>1, <1>13 DEF IndexerDies, IsWorking
  <2>2. indexer'[i].pc = "idle" /\ \A j \in Indexers \ {i} : indexer'[j] = indexer[j]
    BY <1>0, <1>13, WorkerMoves
  <2>3. CASE IsWorking(i)
    BY <2>1, <2>3 DEF PointsFollowTheWork
  <2>4. CASE ~IsWorking(i)
    <3>1. \A j \in Indexers : indexer'[j] = indexer[j] \/ (~IsWorking(j) /\ ~IsWorking(j)')
      BY <2>2, <2>4 DEF IsWorking, Working
    <3> QED BY <1>2, <2>1, <3>1
  <2> QED BY <2>3, <2>4
<1> QED BY <1>6, <1>7, <1>8, <1>9, <1>10, <1>11, <1>12, <1>13, OfferSteps

(* What a question indexes is the file its version was made of, as long as no *)
(* other came between the two looks at the directory.                         *)
LEMMA TextStep ==
  ASSUME OfferTypeOK, OfferShape, TextIsOfItsVersion, [OfferNext]_offerVars
  PROVE  TextIsOfItsVersion'
<1> DEFINE Knows(i) == /\ i \in Askers /\ indexer[i].pc \in Asking => indexer[i].version = newest
                       /\ indexer[i].pc \in {"embed", "upsert"} => indexer[i].text = indexer[i].version
           Own == \A v \in Versions : texts[v] \subseteq {v}
<1>0. /\ Askers \subseteq Indexers /\ OfferWorkers \subseteq Indexers
      /\ index \in IndexState /\ index.active \in MaybeVersion /\ newest \in Versions
      /\ texts \in [Versions -> SUBSET Versions]
      /\ ~crossed => Own /\ \A i \in Indexers : Knows(i)
      /\ Askers \cap OfferWorkers = {} /\ "idle" \notin Asking /\ AtRest.pc = "idle"
  BY IndexerShapes, OfferIndexAssumption DEF OfferTypeOK, IndexState, TextIsOfItsVersion, Asking
<1>1. (~crossed' => Own' /\ \A i \in Indexers : Knows(i)') => TextIsOfItsVersion'
  BY <1>0 DEF TextIsOfItsVersion
\* One moves, and no file comes.
<1>2. ASSUME NEW i \in Indexers, UNCHANGED <<crossed, newest>>,
             \A j \in Indexers \ {i} : indexer'[j] = indexer[j],
             ~crossed => Knows(i)' /\ Own'
      PROVE  TextIsOfItsVersion'
  <2>1. ~crossed => \A j \in Indexers \ {i} : Knows(j)'
    BY <1>0, <1>2
  <2> QED BY <1>1, <1>2, <2>1
<1>3. ASSUME NEW versions, Deletes(versions), ~crossed PROVE Own'
  BY <1>0, <1>3 DEF Deletes
<1>4. ASSUME UNCHANGED offerVars \/ MarkIndexing \/ LockExpires PROVE TextIsOfItsVersion'
  BY <1>4 DEF MarkIndexing, LockExpires, offerVars, TextIsOfItsVersion
<1>5. ASSUME NEW v \in Versions, Upload(v) PROVE TextIsOfItsVersion'
  <2>1. UNCHANGED <<texts, indexer>> /\ newest' = v
    BY <1>5 DEF Upload
  <2>2. ~crossed' => ~crossed /\ \A a \in Askers : indexer[a].pc \in Asking => indexer[a].version = v
    BY <1>5 DEF Upload
  <2> QED BY <2>1, <2>2 DEF TextIsOfItsVersion
<1>6. ASSUME NEW v \in Versions, NEW w \in OfferWorkers, TakeTask(w, v) PROVE TextIsOfItsVersion'
  <2>1. Moves(w, {"idle"}, {"embed"}) /\ indexer'[w].text = indexer'[w].version
    BY <1>0, <1>6, TaskMoves
  <2>2. UNCHANGED <<crossed, newest, texts>>
    BY <1>6 DEF TakeTask
  <2> QED BY <1>0, <1>2, <2>1, <2>2 DEF Moves, Asking
<1>7. ASSUME NEW a \in Askers,
             \/ AskFindsPoints(a) \/ AskFindsNone(a) \/ TakeLock(a) \/ LockIsHeld(a)
             \/ WaitIsOver(a) \/ WaitRunsOut(a) \/ Recheck(a)
      PROVE  TextIsOfItsVersion'
  <2>1. UNCHANGED <<crossed, newest, texts>>
    BY <1>7 DEF AskFindsPoints, AskFindsNone, AskerGoes, TakeLock, LockIsHeld, WaitIsOver,
                WaitRunsOut, Recheck
  <2>2. /\ a \in Indexers /\ \A j \in Indexers \ {a} : indexer'[j] = indexer[j]
        /\ \/ indexer'[a].pc \in {"remark", "idle"}
           \/ indexer'[a].version = newest /\ indexer'[a].pc = "lock"
           \/ /\ indexer'[a].version = indexer[a].version /\ indexer[a].pc \in Asking
              /\ \/ indexer'[a].pc \in {"recheck", "wait"}
                 \/ indexer'[a].pc = "embed" /\ indexer'[a].text = newest
    <3>1. CASE AskFindsPoints(a) \/ AskFindsNone(a)
      BY <1>0, <3>1, AskerMoves DEF Moves
    <3>2. CASE TakeLock(a) \/ WaitRunsOut(a)
      BY <1>0, <3>2, AskerMoves DEF Moves, Asking
    <3>3. CASE LockIsHeld(a) \/ WaitIsOver(a)
      BY <1>0, <3>3, AskerMoves DEF Moves, TakesAlong, Asking
    <3>4. CASE Recheck(a)
      BY <1>0, <3>4, AskerMoves DEF Moves, Asking
    <3> QED BY <1>7, <3>1, <3>2, <3>3, <3>4
  <2>3. ~crossed => Knows(a)'
    BY <1>0, <2>1, <2>2 DEF Asking
  <2> QED BY <1>0, <1>2, <2>1, <2>2, <2>3
<1>8. ASSUME NEW i \in Indexers, DeleteOwn(i) \/ Upsert(i) \/ DropOld(i) PROVE TextIsOfItsVersion'
  <2>1. UNCHANGED <<crossed, newest>> /\ indexer[i] \in IndexerRecord
    BY <1>8, IndexerShapes DEF DeleteOwn, Upsert, DropOld, At
  <2>2. /\ \A j \in Indexers \ {i} : indexer'[j] = indexer[j]
        /\ TakesAlong(i) /\ indexer'[i].pc \notin Asking
        /\ indexer'[i].pc = "upsert" => indexer[i].pc = "embed"
        /\ indexer'[i].pc # "embed"
    BY <1>0, <1>8, WorkerMoves DEF Moves, Asking
  <2>3. ~crossed => Knows(i)'
    BY <1>0, <2>2 DEF TakesAlong
  <2>4. ~crossed => Own'
    <3>1. CASE DeleteOwn(i) \/ DropOld(i)
      BY <1>3, <3>1 DEF DeleteOwn, DropOld
    <3>2. CASE Upsert(i)
      <4>1. PICK others \in {{}, texts[indexer[i].version]} :
              texts' = [texts EXCEPT ![indexer[i].version] = others \cup {indexer[i].text}]
        BY <3>2 DEF Upsert
      <4>2. ~crossed => indexer[i].text = indexer[i].version
        BY <1>0, <3>2 DEF Upsert, At
      <4>3. indexer[i].version \in Versions
        BY <2>1 DEF IndexerRecord
      <4> QED BY <1>0, <4>1, <4>2, <4>3
    <3> QED BY <1>8, <3>1, <3>2
  <2> QED BY <1>2, <2>1, <2>2, <2>3, <2>4
<1>9. ASSUME NEW i \in Indexers,
             MarkReady(i) \/ IndexingFails(i) \/ MarkFailed(i) \/ IndexerDies(i)
      PROVE  TextIsOfItsVersion'
  <2>1. UNCHANGED <<crossed, newest, texts>>
    BY <1>9 DEF MarkReady, IndexingFails, MarkFailed, IndexerDies
  <2>2. /\ \A j \in Indexers \ {i} : indexer'[j] = indexer[j]
        /\ indexer'[i].pc \in {"idle", "fail"}
    BY <1>0, <1>9, WorkerMoves DEF Moves
  <2> QED BY <1>0, <1>2, <2>1, <2>2 DEF Asking
<1> QED BY <1>4, <1>5, <1>6, <1>7, <1>8, <1>9, OfferSteps

(* The state, the lock and the points of the index agree: "ready" has its     *)
(* points once nobody is at work, one question indexes at a time unless one   *)
(* went on without the lock, and points are of their version's text unless a  *)
(* file came between a question's two looks for the newest.                   *)
THEOREM OfferHolds == OfferSpec => []OfferInv
<1>1. OfferIInv /\ [OfferNext]_offerVars => OfferIInv'
  BY OfferTypeStep, AloneStep, PointsStep, LockStep, TextStep DEF OfferIInv
<1>2. OfferIInv => OfferInv
  <2> SUFFICES ASSUME OfferIInv PROVE OfferInv
    OBVIOUS
  <2>1. ReadyHasPoints
    BY IndexerShapes DEF OfferIInv, PointsFollowTheWork, IsLate, ReadyHasPoints
  <2>2. OneQuestionIndexes
    BY DEF OfferIInv, LockIsHeldByOne, IsPast, OneQuestionIndexes
  <2>3. VersionHasItsText
    BY DEF OfferIInv, TextIsOfItsVersion, VersionHasItsText
  <2> QED BY <2>1, <2>2, <2>3 DEF OfferIInv, OfferInv
<1> QED BY <1>1, <1>2, OfferStart, PTL DEF OfferSpec

-----------------------------------------------------------------------------
(* Tasks from the comparison with competitors.                                *)

FetcherRecord == [pc : FetcherSteps, day : ReportDays, weak : BOOLEAN, seen : BOOLEAN]
FetcherShape == /\ fetcher \in [Importers -> {AtEase} \cup FetcherRecord]
                /\ \A u \in Uploaders : fetcher[u].pc \in {"idle", "metrics"}

(* An analysis on its way through the rule has seen the task that is open.    *)
AnalysisSeesTask ==
  \A w \in Fetchers :
    fetcher[w].pc \in AtTheRule /\ HasOpen(aiTasks) => fetcher[w].seen

(* A pointer is to a batch that is there, and a fetch that confirms its       *)
(* import finds one.                                                          *)
BatchIsImported ==
  /\ \A d \in ReportDays : reports[d].batch \in 0..Len(imports)
  /\ \A w \in Fetchers : fetcher[w].pc = "confirm" => reports[fetcher[w].day].batch # 0

(* Reports are of days that have come, one of them is the latest, and a fetch *)
(* is about a report that is there.                                           *)
ReportsAreOfThePast ==
  /\ \A d \in Known : d <= reportDay
  /\ Known # {} => \E d \in Known : \A e \in Known : e <= d
  /\ \A w \in Importers : fetcher[w].pc # "idle" => fetcher[w].day \in Known

TasksIInv == ReportsAreOfThePast /\ TasksInv /\ FetcherShape /\ AnalysisSeesTask /\ BatchIsImported

AiRows == RowsOf({"open", "closed"})
ImportRow == [day : ReportDays, weak : BOOLEAN]

(* A fetch is about something or at ease.                                     *)
LEMMA FetcherShapes ==
  ASSUME FetcherShape
  PROVE  /\ \A w \in Importers : /\ fetcher[w] \in {AtEase} \cup FetcherRecord
                                 /\ fetcher[w].pc # "idle" => fetcher[w] \in FetcherRecord
                                 /\ fetcher[w] # AtEase => fetcher[w] \in FetcherRecord /\ fetcher[w].pc # "idle"
         /\ AtEase.pc = "idle" /\ "idle" \notin FetcherSteps
         /\ Importers = Fetchers \cup Uploaders /\ Fetchers \cap Uploaders = {}
         /\ \A u \in Uploaders : fetcher[u].pc \in {"idle", "metrics"}
BY AiTasksAssumption DEF FetcherShape, FetcherRecord, AtEase, FetcherSteps, Importers

(* The seller closes rows: they stay what they are, and none is open.         *)
LEMMA ClosedRows ==
  ASSUME NEW rows \in Seq(AiRows)
  PROVE  /\ Closed(rows) \in Seq(AiRows) /\ Len(Closed(rows)) = Len(rows) /\ ~HasOpen(Closed(rows))
<1>1. rows \in [1..Len(rows) -> AiRows] /\ Len(rows) \in Nat /\ DOMAIN rows = 1..Len(rows)
  OBVIOUS
<1>2. \A n \in 1..Len(rows) : [rows[n] EXCEPT !.status = "closed"] \in AiRows
                              /\ [rows[n] EXCEPT !.status = "closed"].status = "closed"
  BY <1>1 DEF AiRows, RowsOf
<1>3. Closed(rows) = [n \in 1..Len(rows) |-> [rows[n] EXCEPT !.status = "closed"]]
  BY <1>1 DEF Closed
<1>4. Closed(rows) \in [1..Len(rows) -> AiRows]
  BY <1>2, <1>3
<1>5. Closed(rows) \in Seq(AiRows)
  BY <1>1, <1>4, SeqDef
<1>6. DOMAIN Closed(rows) = 1..Len(rows) /\ Len(Closed(rows)) = Len(rows)
  BY <1>1, <1>4, <1>5, LenProperties
<1>7. ~HasOpen(Closed(rows))
  BY <1>2, <1>3, <1>6 DEF HasOpen, OpenRow
<1> QED BY <1>5, <1>6, <1>7

(* A row that is added is an open row, and there is one more.                 *)
LEMMA AddedRow ==
  ASSUME NEW rows \in Seq(AiRows), NEW day \in 0..LastReportDay
  PROVE  /\ Append(rows, [status |-> "open", day |-> day]) \in Seq(AiRows)
         /\ Len(Append(rows, [status |-> "open", day |-> day])) = Len(rows) + 1
         /\ HasOpen(Append(rows, [status |-> "open", day |-> day]))
<1> DEFINE row == [status |-> "open", day |-> day]
<1>1. row \in AiRows /\ row.status = "open"
  BY DEF AiRows, RowsOf
<1> HIDE DEF row
<1>2. /\ Append(rows, row) \in Seq(AiRows) /\ Len(Append(rows, row)) = Len(rows) + 1
      /\ Append(rows, row)[Len(rows) + 1] = row /\ Len(rows) + 1 \in DOMAIN Append(rows, row)
  BY <1>1
<1>3. HasOpen(Append(rows, row))
  BY <1>1, <1>2 DEF HasOpen, OpenRow
<1> QED BY <1>2, <1>3 DEF row

(* Among the reports that are there, one is the latest.                       *)
LEMMA LatestKnown ==
  ASSUME ReportsAreOfThePast, Known # {}
  PROVE  LatestDay \in Known /\ LatestDay \in ReportDays
<1>1. \E d \in Known : \A e \in Known : e <= d
  BY DEF ReportsAreOfThePast
<1>2. LatestDay \in Known
  BY <1>1 DEF LatestDay
<1> QED BY <1>2 DEF Known

(* Before the first report there are no tasks and no fetches.                 *)
LEMMA TasksStart == AiInit => TasksIInv
<1> SUFFICES ASSUME AiInit PROVE TasksIInv
  OBVIOUS
<1>1. /\ \A w \in Importers : fetcher[w] = AtEase /\ fetcher[w].pc = "idle"
      /\ Importers = Fetchers \cup Uploaders
      /\ 1 \in ReportDays /\ 0 \in 0..MaxImports /\ 0 \in 0..AiFaults
      /\ MaxTasks >= 0 /\ MaxHypotheses >= 0 /\ MaxImports >= 0
  BY AiTasksAssumption DEF AiInit, AtEase, ReportDays, Importers
<1>2. /\ reports \in [ReportDays -> [status : ReportStatuses, batch : 0..MaxImports]]
      /\ \A d \in ReportDays : reports[d].status = "absent" /\ reports[d].batch = 0
  BY <1>1 DEF AiInit, ReportStatuses
<1>3. /\ imports \in Seq(ImportRow) /\ aiTasks \in Seq(AiRows) /\ hypotheses \in Seq(AiRows)
      /\ Len(imports) = 0 /\ Len(aiTasks) = 0 /\ Len(hypotheses) = 0
      /\ aiTasks = << >> /\ imports = << >>
  BY DEF AiInit
<1>4. AiTypeOK
  BY <1>1, <1>2, <1>3 DEF AiInit, AiTypeOK, AccessStates, AiRows, ImportRow
<1>5. FetcherShape
  BY <1>1 DEF AiInit, FetcherShape
<1>6. Known = {}
  BY <1>2 DEF Known
<1>7. WeakLeavesTask /\ ReadyHasMetrics /\ AnalysisSeesTask /\ BatchIsImported /\ ReportsAreOfThePast
  BY <1>1, <1>2, <1>3, <1>6 DEF WeakLeavesTask, ReadyHasMetrics, AnalysisSeesTask, AtTheRule, BatchIsImported,
                               ReportsAreOfThePast
<1>8. PointerIsNewest
  BY <1>3 DEF PointerIsNewest
<1> QED BY <1>8, <1>4, <1>5, <1>7 DEF TasksIInv, TasksInv

(* What a fetch or an upload writes about itself.                             *)
LEMMA FetcherWrites ==
  ASSUME FetcherShape, NEW w \in Importers
  PROVE  /\ \A x \in {AtEase} \cup FetcherRecord :
              fetcher' = [fetcher EXCEPT ![w] = x] /\ (w \in Fetchers \/ x.pc \in {"idle", "metrics"}) =>
                /\ FetcherShape' /\ fetcher'[w] = x
                /\ \A v \in Importers \ {w} : fetcher'[v] = fetcher[v]
         /\ IsDone(w) => /\ FetcherShape' /\ fetcher'[w] = AtEase
                         /\ \A v \in Importers \ {w} : fetcher'[v] = fetcher[v]
         /\ \A pc \in FetcherSteps : w \in Fetchers /\ GoesOn(w, pc) /\ fetcher[w].pc # "idle" =>
              /\ FetcherShape' /\ fetcher'[w].pc = pc /\ fetcher'[w].day = fetcher[w].day
              /\ fetcher'[w].weak = fetcher[w].weak /\ fetcher'[w].seen = fetcher[w].seen
              /\ \A v \in Importers \ {w} : fetcher'[v] = fetcher[v]
<1>1. ASSUME NEW x \in {AtEase} \cup FetcherRecord, fetcher' = [fetcher EXCEPT ![w] = x],
             w \in Fetchers \/ x.pc \in {"idle", "metrics"}
      PROVE  /\ FetcherShape' /\ fetcher'[w] = x
             /\ \A v \in Importers \ {w} : fetcher'[v] = fetcher[v]
  <2>1. /\ fetcher' \in [Importers -> {AtEase} \cup FetcherRecord] /\ fetcher'[w] = x
        /\ \A v \in Importers \ {w} : fetcher'[v] = fetcher[v]
    BY <1>1 DEF FetcherShape
  <2>2. \A u \in Uploaders : fetcher'[u].pc \in {"idle", "metrics"}
    BY <1>1, <2>1, FetcherShapes
  <2> QED BY <2>1, <2>2 DEF FetcherShape, FetcherRecord
<1>2. IsDone(w) => /\ FetcherShape' /\ fetcher'[w] = AtEase
                   /\ \A v \in Importers \ {w} : fetcher'[v] = fetcher[v]
  BY <1>1, FetcherShapes DEF IsDone
<1>3. ASSUME NEW pc \in FetcherSteps, w \in Fetchers, GoesOn(w, pc), fetcher[w].pc # "idle"
      PROVE  /\ FetcherShape' /\ fetcher'[w].pc = pc /\ fetcher'[w].day = fetcher[w].day
             /\ fetcher'[w].weak = fetcher[w].weak /\ fetcher'[w].seen = fetcher[w].seen
             /\ \A v \in Importers \ {w} : fetcher'[v] = fetcher[v]
  <2>1. fetcher[w] \in FetcherRecord
    BY <1>3, FetcherShapes
  <2>2. fetcher' = [fetcher EXCEPT ![w] = [fetcher[w] EXCEPT !.pc = pc]]
    BY <1>3 DEF GoesOn
  <2>3. [fetcher[w] EXCEPT !.pc = pc] \in FetcherRecord
    BY <2>1 DEF FetcherRecord
  <2>4. /\ FetcherShape' /\ fetcher'[w] = [fetcher[w] EXCEPT !.pc = pc]
        /\ \A v \in Importers \ {w} : fetcher'[v] = fetcher[v]
    BY <1>1, <1>3, <2>2, <2>3
  <2> QED BY <2>1, <2>4 DEF FetcherRecord
<1> QED BY <1>1, <1>2, <1>3

(* A fetch or an upload begins, and where it stands then.                     *)
LEMMA FetchBegins ==
  ASSUME FetcherShape, NEW w \in Importers, NEW step \in {"browse", "analyse", "metrics"},
         NEW day \in ReportDays, w \in Fetchers \/ step = "metrics",
         fetcher' = [fetcher EXCEPT ![w] = [pc |-> step, day |-> day, weak |-> FALSE, seen |-> FALSE]]
  PROVE  /\ FetcherShape' /\ fetcher'[w].pc = step /\ fetcher'[w].day = day
         /\ \A v \in Importers \ {w} : fetcher'[v] = fetcher[v]
<1> DEFINE x == [pc |-> step, day |-> day, weak |-> FALSE, seen |-> FALSE]
<1>1. x \in FetcherRecord /\ x.pc = step /\ x.day = day
  BY DEF FetcherRecord, FetcherSteps
<1>2. fetcher' = [fetcher EXCEPT ![w] = x] /\ (w \in Fetchers \/ x.pc \in {"idle", "metrics"})
  BY <1>1
<1> HIDE DEF x
<1>3. /\ FetcherShape' /\ fetcher'[w] = x
      /\ \A v \in Importers \ {w} : fetcher'[v] = fetcher[v]
  BY <1>1, <1>2, FetcherWrites
<1> QED BY <1>1, <1>3

(* What an analysis notes about itself: only a weak report goes on to the rule. *)
LEMMA AnalyseWrites ==
  ASSUME FetcherShape, NEW w \in Fetchers, Analyse(w)
  PROVE  /\ FetcherShape' /\ fetcher'[w].pc \in {"find", "finish"} /\ fetcher'[w].day = fetcher[w].day
         /\ fetcher'[w].pc = "finish" => ~fetcher'[w].weak
         /\ fetcher'[w].seen = HasOpen(aiTasks)
         /\ \A v \in Importers \ {w} : fetcher'[v] = fetcher[v]
<1> DEFINE batch == reports[fetcher[w].day].batch
           weak == batch # 0 /\ imports[batch].weak
           next == IF weak THEN "find" ELSE "finish"
           x == [fetcher[w] EXCEPT !.pc = next, !.weak = weak, !.seen = HasOpen(aiTasks)]
<1>1. fetcher[w] \in FetcherRecord /\ w \in Importers
  BY FetcherShapes DEF Analyse
<1>2. fetcher' = [fetcher EXCEPT ![w] = x]
  BY DEF Analyse
<1>3. weak \in BOOLEAN /\ HasOpen(aiTasks) \in BOOLEAN /\ next \in {"find", "finish"}
      /\ (next = "finish" => ~weak)
  BY DEF HasOpen
<1> HIDE DEF weak, next
<1>4. /\ x \in FetcherRecord /\ x.pc = next /\ x.weak = weak /\ x.seen = HasOpen(aiTasks)
      /\ x.day = fetcher[w].day
  BY <1>1, <1>3 DEF FetcherRecord, FetcherSteps
<1> HIDE DEF x
<1>5. /\ FetcherShape' /\ fetcher'[w] = x
      /\ \A v \in Importers \ {w} : fetcher'[v] = fetcher[v]
  BY <1>1, <1>2, <1>4, FetcherWrites
<1> QED BY <1>3, <1>4, <1>5

(* A task that is inserted is seen by every analysis at the rule.             *)
LEMMA InsertWatched ==
  ASSUME FetcherShape, NEW w \in Fetchers, fetcher[w].pc \in AtTheRule, NEW rows, HasOpen(rows),
         fetcher' = [Watching(rows) EXCEPT ![w].pc = "hypothesis"]
  PROVE  /\ FetcherShape' /\ fetcher'[w].pc = "hypothesis" /\ fetcher'[w].seen
         /\ fetcher'[w].day = fetcher[w].day
         /\ \A v \in Importers \ {w} :
              /\ fetcher'[v] = fetcher[v] \/ fetcher[v].pc \in AtTheRule
              /\ fetcher[v].pc \in AtTheRule => fetcher'[v].seen
              /\ fetcher'[v].pc = fetcher[v].pc
              /\ fetcher[v].pc # "idle" => fetcher'[v].day = fetcher[v].day
<1>0. "idle" \notin AtTheRule /\ "metrics" \notin AtTheRule /\ w \in Importers
      /\ \A v \in Importers : fetcher[v].pc \in AtTheRule => fetcher[v] \in FetcherRecord
      /\ Importers = Fetchers \cup Uploaders
  BY FetcherShapes DEF AtTheRule
<1>1. \A v \in Importers : Watching(rows)[v] =
        IF fetcher[v].pc \in AtTheRule THEN [fetcher[v] EXCEPT !.seen = TRUE] ELSE fetcher[v]
  BY DEF Watching
<1>2. \A v \in Importers :
        /\ Watching(rows)[v] = fetcher[v] \/ fetcher[v].pc \in AtTheRule
        /\ fetcher[v].pc \in AtTheRule => Watching(rows)[v] \in FetcherRecord /\ Watching(rows)[v].seen
        /\ Watching(rows)[v].pc = fetcher[v].pc
        /\ fetcher[v].pc # "idle" => Watching(rows)[v].day = fetcher[v].day
  BY <1>0, <1>1 DEF FetcherRecord
<1>3. Watching(rows) \in [Importers -> {AtEase} \cup FetcherRecord]
  <2>1. \A v \in Importers : Watching(rows)[v] \in {AtEase} \cup FetcherRecord
    BY <1>2, FetcherShapes
  <2>2. Watching(rows) = [v \in Importers |-> Watching(rows)[v]]
    BY DEF Watching
  <2> QED BY <2>1, <2>2
<1>4. fetcher' = [Watching(rows) EXCEPT ![w] = [Watching(rows)[w] EXCEPT !.pc = "hypothesis"]]
  OBVIOUS
<1>5. /\ fetcher'[w] = [Watching(rows)[w] EXCEPT !.pc = "hypothesis"]
      /\ \A v \in Importers \ {w} : fetcher'[v] = Watching(rows)[v]
      /\ DOMAIN fetcher' = Importers
      /\ fetcher' = [v \in Importers |-> fetcher'[v]]
  BY <1>0, <1>3, <1>4
<1>6. /\ fetcher'[w] \in FetcherRecord /\ fetcher'[w].pc = "hypothesis" /\ fetcher'[w].seen
      /\ fetcher'[w].day = fetcher[w].day
  BY <1>0, <1>2, <1>5 DEF FetcherRecord, FetcherSteps
<1>7. FetcherShape'
  <2>1. \A v \in Importers : fetcher'[v] \in {AtEase} \cup FetcherRecord
    BY <1>3, <1>5, <1>6
  <2>2. fetcher' \in [Importers -> {AtEase} \cup FetcherRecord]
    BY <1>5, <2>1
  <2>3. \A u \in Uploaders : fetcher'[u].pc \in {"idle", "metrics"}
    BY <1>0, <1>2, <1>5, FetcherShapes
  <2> QED BY <2>2, <2>3 DEF FetcherShape, FetcherRecord
<1> QED BY <1>2, <1>5, <1>6, <1>7

(* What a step leaves of the rows of the reports.                             *)
ReportRow == [status : ReportStatuses, batch : 0..MaxImports]

(* A status is written into one row and leaves its metrics.                   *)
LEMMA ReportStatusWritten ==
  ASSUME reports \in [ReportDays -> ReportRow], NEW d \in ReportDays, NEW s \in ReportStatuses,
         reports' = [reports EXCEPT ![d].status = s]
  PROVE  /\ reports' \in [ReportDays -> ReportRow]
         /\ reports'[d].status = s /\ reports'[d].batch = reports[d].batch
         /\ \A e \in ReportDays \ {d} : reports'[e] = reports[e]
BY DEF ReportRow

(* The types of what is counted, written and queued.                          *)
LEMMA AiTypeStep ==
  ASSUME AiTypeOK, FetcherShape, ReportsAreOfThePast, [AiNext]_aiVars
  PROVE  AiTypeOK' /\ FetcherShape'
<1> DEFINE Small == /\ reportDay' \in ReportDays /\ access' \in AccessStates /\ refreshTask' \in BOOLEAN
                    /\ wanted' \in 0..MaxImports /\ aiFaults' \in 0..AiFaults /\ cutShort' \subseteq ReportDays
           Rows == /\ aiTasks' \in Seq(AiRows) /\ Len(aiTasks') <= MaxTasks
                   /\ hypotheses' \in Seq(AiRows) /\ Len(hypotheses') <= MaxHypotheses
           Data == /\ reports' \in [ReportDays -> ReportRow]
                   /\ imports' \in Seq(ImportRow) /\ Len(imports') <= MaxImports
           Goal == Small /\ Rows /\ Data /\ FetcherShape'
<1>0. /\ reportDay \in ReportDays /\ access \in AccessStates /\ refreshTask \in BOOLEAN
      /\ wanted \in 0..MaxImports /\ aiFaults \in 0..AiFaults /\ cutShort \subseteq ReportDays
      /\ aiTasks \in Seq(AiRows) /\ Len(aiTasks) <= MaxTasks
      /\ hypotheses \in Seq(AiRows) /\ Len(hypotheses) <= MaxHypotheses
      /\ reports \in [ReportDays -> ReportRow]
      /\ imports \in Seq(ImportRow) /\ Len(imports) <= MaxImports /\ FetcherShape
      /\ LastReportDay \in Nat \ {0} /\ {MaxImports, MaxTasks, MaxHypotheses, AiFaults} \subseteq Nat
      /\ {"running", "ready", "error", "stale"} \subseteq ReportStatuses
      /\ Importers = Fetchers \cup Uploaders /\ {"browse", "analyse"} \subseteq FetcherSteps
  BY AiTasksAssumption DEF Importers, FetcherSteps, AiTypeOK, AiRows, ImportRow, ReportRow, ReportStatuses
<1>1. ASSUME NEW w \in Importers, fetcher[w].pc # "idle"
      PROVE  fetcher[w] \in FetcherRecord /\ fetcher[w].day \in ReportDays
  BY <1>0, <1>1, FetcherShapes DEF FetcherRecord
<1>2. ASSUME NEW w \in Fetchers, BeginFetch(w) PROVE reports' \in [ReportDays -> ReportRow] /\ FetcherShape'
  BY <1>0, <1>2, ReportStatusWritten, FetchBegins DEF BeginFetch
<1>3. ASSUME NEW w \in Fetchers, FetchTaken(w) PROVE Goal
  BY <1>0, <1>2, <1>3 DEF FetchTaken
<1>4. ASSUME BeatFindsOld PROVE Goal
  BY <1>0, <1>4, LatestKnown, ReportStatusWritten DEF BeatFindsOld, FetcherShape
<1>5. ASSUME NEW w \in Fetchers, BeatFetches(w) PROVE Goal
  <2>1. reports' \in [ReportDays -> ReportRow] /\ FetcherShape'
    <3>1. CASE BeginFetch(w)
      BY <1>2, <3>1
    <3>2. CASE /\ Known # {} /\ UNCHANGED reports
               /\ fetcher' = [fetcher EXCEPT ![w] =
                    [pc |-> "analyse", day |-> LatestDay, weak |-> FALSE, seen |-> FALSE]]
      BY <1>0, <3>2, LatestKnown, FetchBegins
    <3> QED BY <1>5, <3>1, <3>2 DEF BeatFetches
  <2> QED BY <1>0, <1>5, <2>1 DEF BeatFetches
<1>6. ASSUME NEW w \in Fetchers, BrowserRefused(w) \/ ReopenRequired(w) PROVE Goal
  <2>1. fetcher[w].pc # "idle"
    BY <1>6 DEF BrowserRefused, ReopenRequired
  <2>2. reports' \in [ReportDays -> ReportRow]
    BY <1>0, <1>1, <1>6, <2>1, ReportStatusWritten DEF BrowserRefused, ReopenRequired
  <2>3. FetcherShape'
    BY <1>0, <1>6, FetcherWrites DEF BrowserRefused, ReopenRequired
  <2> QED BY <1>0, <1>6, <2>2, <2>3 DEF BrowserRefused, ReopenRequired, AccessStates
<1>7. ASSUME NEW w \in Fetchers, BrowserFetched(w) PROVE Goal
  <2>1. fetcher[w].pc # "idle"
    BY <1>7 DEF BrowserFetched
  <2>2. reports' \in [ReportDays -> ReportRow]
    BY <1>0, <1>1, <1>7, <2>1, ReportStatusWritten DEF BrowserFetched
  <2>3. FetcherShape'
    BY <1>0, <1>7, <2>1, FetcherWrites DEF BrowserFetched, FetcherSteps
  <2> QED BY <1>0, <1>7, <2>2, <2>3 DEF BrowserFetched
<1>8. ASSUME NEW w \in Fetchers, ImportMarksReady(w) \/ FetchConfirms(w) PROVE Goal
  <2>1. fetcher[w].pc # "idle"
    BY <1>8 DEF ImportMarksReady, FetchConfirms
  <2>2. reports' \in [ReportDays -> ReportRow]
    BY <1>0, <1>1, <1>8, <2>1, ReportStatusWritten DEF ImportMarksReady, FetchConfirms, ReadyStatus
  <2>3. FetcherShape'
    BY <1>0, <1>8, <2>1, FetcherWrites DEF ImportMarksReady, FetchConfirms, FetcherSteps
  <2> QED BY <1>0, <1>8, <2>2, <2>3 DEF ImportMarksReady, FetchConfirms
<1>18. ASSUME NEW u \in Uploaders, UploadMarksReady(u) PROVE Goal
  <2>1. PICK d \in 1..reportDay :
          /\ reports' = [reports EXCEPT ![d].status = ReadyStatus]
          /\ fetcher' = [fetcher EXCEPT ![u] =
               [pc |-> "metrics", day |-> d, weak |-> FALSE, seen |-> FALSE]]
    BY <1>18 DEF UploadMarksReady
  <2>2. d \in ReportDays
    BY <1>0 DEF ReportDays
  <2>3. reports' \in [ReportDays -> ReportRow]
    BY <1>0, <2>1, <2>2, ReportStatusWritten DEF ReadyStatus
  <2>4. FetcherShape'
    BY <1>0, <2>1, <2>2, FetchBegins
  <2> QED BY <1>0, <1>18, <2>3, <2>4 DEF UploadMarksReady
<1>9. ASSUME NEW w \in Importers, NEW weak \in BOOLEAN, ImportWritesMetrics(w, weak) PROVE Goal
  <2>1. fetcher[w].pc # "idle" /\ fetcher[w].day \in ReportDays
    BY <1>1, <1>9 DEF ImportWritesMetrics
  <2>2. Len(imports) + 1 \in 0..MaxImports /\ imports' \in Seq(ImportRow) /\ Len(imports') <= MaxImports
    <3>1. [day |-> fetcher[w].day, weak |-> weak] \in ImportRow
      BY <2>1 DEF ImportRow
    <3> QED BY <1>0, <1>9, <3>1 DEF ImportWritesMetrics
  <2>3. PointsTo(reports[fetcher[w].day], Len(imports) + 1) \in ReportRow
    BY <1>0, <2>1, <2>2 DEF PointsTo, ReportRow
  <2>4. reports' \in [ReportDays -> ReportRow]
    BY <1>0, <1>9, <2>1, <2>3 DEF ImportWritesMetrics
  <2>5. FetcherShape'
    <3>1. CASE w \in Fetchers
      BY <1>0, <1>9, <2>1, <3>1, FetcherWrites DEF ImportWritesMetrics, FetcherSteps
    <3>2. CASE w \notin Fetchers
      BY <1>0, <1>9, <3>2, FetcherWrites DEF ImportWritesMetrics
    <3> QED BY <3>1, <3>2
  <2> QED BY <1>0, <1>9, <2>2, <2>4, <2>5 DEF ImportWritesMetrics
<1>10. ASSUME NEW w \in Fetchers, Analyse(w) PROVE Goal
  <2>1. FetcherShape'
    BY <1>0, <1>10, AnalyseWrites
  <2> QED BY <1>0, <1>10, <2>1 DEF Analyse
<1>11. ASSUME NEW w \in Fetchers, FindTask(w) \/ FindHypothesis(w) PROVE Goal
  <2>1. fetcher[w].pc # "idle" /\ \E pc \in FetcherSteps : GoesOn(w, pc)
    BY <1>11 DEF FindTask, FindHypothesis, FetcherSteps
  <2>2. FetcherShape'
    BY <1>0, <2>1, FetcherWrites
  <2> QED BY <1>0, <1>11, <2>2 DEF FindTask, FindHypothesis
<1>12. ASSUME NEW w \in Fetchers, InsertTask(w) PROVE Goal
  <2> DEFINE day == IF fetcher[w].pc = "insert" THEN fetcher[w].day ELSE 0
  <2>1. fetcher[w].pc # "idle" /\ fetcher[w].pc \in AtTheRule /\ day \in 0..LastReportDay
    BY <1>0, <1>1, <1>12 DEF InsertTask, ReportDays, AtTheRule
  <2>2. CASE /\ Len(aiTasks) < MaxTasks /\ aiTasks' = Append(aiTasks, [status |-> "open", day |-> day])
             /\ fetcher' = [Watching(aiTasks') EXCEPT ![w].pc = "hypothesis"]
    <3>1. aiTasks' \in Seq(AiRows) /\ Len(aiTasks') <= MaxTasks
      BY <1>0, <2>1, <2>2, AddedRow
    <3>2. HasOpen(aiTasks')
      BY <1>0, <2>1, <2>2, AddedRow
    <3>3. FetcherShape'
      BY <1>0, <2>1, <2>2, <3>2, InsertWatched
    <3> QED BY <1>0, <1>12, <3>1, <3>3 DEF InsertTask
  <2>3. CASE GoesOn(w, IfTaken(fetcher[w].pc)) /\ UNCHANGED aiTasks
    <3>1. FetcherShape'
      BY <1>0, <2>1, <2>3, FetcherWrites DEF IfTaken, FetcherSteps
    <3> QED BY <1>0, <1>12, <2>3, <3>1 DEF InsertTask
  <2> QED BY <1>12, <2>2, <2>3 DEF InsertTask
<1>13. ASSUME NEW w \in Fetchers, InsertHypothesis(w) PROVE Goal
  <2>1. fetcher[w].pc # "idle" /\ fetcher[w].day \in 0..LastReportDay
    BY <1>0, <1>1, <1>13 DEF InsertHypothesis, ReportDays
  <2>2. hypotheses' \in Seq(AiRows) /\ Len(hypotheses') <= MaxHypotheses
    <3>1. CASE UNCHANGED hypotheses
      BY <1>0, <3>1
    <3>2. CASE /\ Len(hypotheses) < MaxHypotheses
               /\ hypotheses' = Append(hypotheses, [status |-> "open", day |-> fetcher[w].day])
      BY <1>0, <2>1, <3>2, AddedRow
    <3> QED BY <1>13, <3>1, <3>2 DEF InsertHypothesis
  <2>3. FetcherShape'
    BY <1>0, <1>13, <2>1, FetcherWrites DEF InsertHypothesis, FetcherSteps
  <2> QED BY <1>0, <1>13, <2>2, <2>3 DEF InsertHypothesis
<1>14. ASSUME NEW w \in Importers, ImportBringsNothing(w) \/ FetcherDies(w) PROVE Goal
  <2>1. FetcherShape'
    BY <1>0, <1>14, FetcherWrites DEF ImportBringsNothing, FetcherDies
  <2>2. cutShort' \subseteq ReportDays
    BY <1>0, <1>1, <1>14 DEF ImportBringsNothing, FetcherDies, CutsShort
  <2> QED BY <1>0, <1>14, <2>1, <2>2 DEF ImportBringsNothing, FetcherDies
<1>19. ASSUME NEW w \in Fetchers, FetchEnds(w) PROVE Goal
  <2>1. FetcherShape'
    BY <1>0, <1>19, FetcherWrites DEF FetchEnds
  <2> QED BY <1>0, <1>19, <2>1 DEF FetchEnds, AccessStates
<1>15. ASSUME CloseTask \/ FinishHypothesis PROVE Goal
  BY <1>0, <1>15, ClosedRows DEF CloseTask, FinishHypothesis, FetcherShape
<1>16. ASSUME ExecuteRefresh \/ AskForRefresh \/ CloseRefresh \/ LogIn \/ NextDay \/ UNCHANGED aiVars PROVE Goal
  <2>1. UNCHANGED <<fetcher, reports, imports, aiTasks, hypotheses, aiFaults, cutShort>>
    BY <1>16 DEF ExecuteRefresh, AskForRefresh, CloseRefresh, LogIn, NextDay, aiVars
  <2>2. wanted' \in 0..MaxImports
    BY <1>0, <1>16 DEF ExecuteRefresh, AskForRefresh, CloseRefresh, LogIn, NextDay, aiVars
  <2>3. reportDay' \in ReportDays
    BY <1>0, <1>16 DEF ExecuteRefresh, AskForRefresh, CloseRefresh, LogIn, NextDay, aiVars, ReportDays
  <2>4. refreshTask' \in BOOLEAN /\ access' \in AccessStates
    BY <1>0, <1>16 DEF ExecuteRefresh, AskForRefresh, CloseRefresh, LogIn, NextDay, aiVars, AccessStates
  <2> QED BY <1>0, <2>1, <2>2, <2>3, <2>4 DEF FetcherShape
<1>17. Goal
  BY <1>3, <1>4, <1>5, <1>6, <1>7, <1>8, <1>9, <1>10, <1>11, <1>12, <1>13, <1>14, <1>15, <1>16, <1>18, <1>19 DEF AiNext
<1> QED
  <2>1. \A w \in Importers :
          \/ fetcher'[w] = AtEase
          \/ fetcher'[w] \in [pc : IF w \in Fetchers THEN FetcherSteps ELSE {"metrics"},
                             day : ReportDays, weak : BOOLEAN, seen : BOOLEAN]
    BY <1>0, <1>17, FetcherShapes DEF FetcherShape, FetcherRecord, AtEase
  <2> QED BY <1>17, <2>1 DEF AiTypeOK, AiRows, ImportRow, ReportRow, FetcherShape

(* The calendar and the rows: what a step makes known stays known, and a row  *)
(* that is ready has metrics, or a fetch that is about to write them.         *)
LEMMA ReportsStep ==
  ASSUME TasksIInv, [AiNext]_aiVars
  PROVE  ReportsAreOfThePast' /\ BatchIsImported' /\ ReadyHasMetrics' /\ PointerIsNewest'
<1> DEFINE Between(d) == \E v \in Importers : fetcher[v].pc = "metrics" /\ fetcher[v].day = d
           Has(d) == /\ d \notin cutShort /\ reports[d].status = "ready" /\ ~Between(d)
                     => reports[d].batch \in DOMAIN imports
           Confirms == \A w \in Fetchers : fetcher[w].pc = "confirm" => reports[fetcher[w].day].batch # 0
           Past == /\ \A d \in Known : d <= reportDay
                   /\ Known # {} => \E d \in Known : \A e \in Known : e <= d
                   /\ \A w \in Importers : fetcher[w].pc # "idle" => fetcher[w].day \in Known
           Goal == /\ Past' /\ Confirms' /\ PointerIsNewest'
                   /\ \A d \in ReportDays : reports'[d].batch \in 0..Len(imports') /\ Has(d)'
<1>0. /\ reports \in [ReportDays -> ReportRow] /\ reportDay \in ReportDays /\ ReportDays \subseteq Nat
      /\ imports \in Seq(ImportRow) /\ DOMAIN imports = 1..Len(imports) /\ Len(imports) \in Nat
      /\ FetcherShape /\ FetcherShape' /\ ReportsAreOfThePast
      /\ {"running", "ready", "error", "stale"} \subseteq ReportStatuses
      /\ AtEase.pc = "idle" /\ Importers = Fetchers \cup Uploaders /\ Fetchers \cap Uploaders = {}
      /\ \A n \in DOMAIN imports : imports[n].day \in ReportDays
  <2>1. imports \in Seq(ImportRow)
    BY DEF TasksIInv, TasksInv, AiTypeOK, ImportRow
  <2>2. \A n \in DOMAIN imports : imports[n].day \in ReportDays
    <3>1. \A n \in DOMAIN imports : imports[n] \in ImportRow
      BY <2>1
    <3> QED BY <3>1 DEF ImportRow
  <2> QED BY <2>1, <2>2, AiTypeStep, FetcherShapes
          DEF TasksIInv, TasksInv, AiTypeOK, ReportRow, ReportStatuses, ReportDays
<1>1. /\ Past /\ Confirms /\ PointerIsNewest
      /\ \A d \in ReportDays : reports[d].batch \in 0..Len(imports) /\ Has(d)
  BY DEF TasksIInv, TasksInv, ReportsAreOfThePast, BatchIsImported, ReadyHasMetrics
<1> DEFINE Same(v) == /\ fetcher'[v].pc = "metrics" <=> fetcher[v].pc = "metrics"
                      /\ fetcher'[v].pc = "metrics" => fetcher'[v].day = fetcher[v].day
           Confirming(v) == fetcher'[v].pc = "confirm" => fetcher[v].pc = "confirm" /\ fetcher'[v].day = fetcher[v].day
\* A status is written into the row of a day that has come: the days stay in order.
<1>2. ASSUME NEW d \in ReportDays, d <= reportDay, NEW s \in {"running", "ready", "error", "stale"},
             reports' = [reports EXCEPT ![d].status = s], UNCHANGED <<imports, reportDay>>,
             \A v \in Importers : fetcher'[v].pc # "idle" => fetcher'[v].day \in Known \cup {d},
             \A v \in Fetchers : Confirming(v)
      PROVE  /\ Past' /\ Confirms' /\ PointerIsNewest'
             /\ \A e \in ReportDays : reports'[e].batch = reports[e].batch
             /\ \A e \in ReportDays \ {d} : reports'[e] = reports[e]
             /\ reports'[d].status = s
  <2>1. d \in ReportDays /\ d <= reportDay
    BY <1>2
  <2>2. /\ \A e \in ReportDays : reports'[e].batch = reports[e].batch
        /\ \A e \in ReportDays \ {d} : reports'[e] = reports[e]
        /\ reports'[d].status = s
    BY <1>0, <1>2, <2>1, ReportStatusWritten
  <2>3. Known' = Known \cup {d}
    BY <2>1, <2>2 DEF Known
  <2>4. Past'
    <3>1. /\ \A e \in Known' : e <= reportDay' /\ e \in Nat
          /\ \A e \in Known : e \in Nat
          /\ d \in Nat
      BY <1>0, <1>1, <1>2, <2>1, <2>3 DEF Known
    <3>2. \E g \in Known' : \A e \in Known' : e <= g
      <4>1. CASE Known = {}
        BY <2>3, <3>1, <4>1
      <4>2. CASE Known # {}
        <5>1. PICK g \in Known : \A e \in Known : e <= g
          BY <1>1, <4>2
        <5>2. CASE d <= g
          BY <2>3, <5>1, <5>2
        <5>3. CASE g <= d
          <6>1. \A e \in Known : e <= d
            BY <3>1, <5>1, <5>3
          <6> QED BY <2>3, <3>1, <6>1
        <5> QED BY <3>1, <5>1, <5>2, <5>3
      <4> QED BY <4>1, <4>2
    <3>3. \A w \in Importers : fetcher'[w].pc # "idle" => fetcher'[w].day \in Known'
      BY <1>2, <2>3
    <3> QED BY <3>1, <3>2, <3>3
  <2>5. Confirms'
    <3>1. \A w \in Fetchers : fetcher[w].pc = "confirm" => fetcher[w].day \in ReportDays
      BY <1>0, <1>1 DEF Known
    <3> QED BY <1>1, <1>2, <2>2, <3>1
  <2>6. PointerIsNewest'
    BY <1>0, <1>1, <1>2, <2>2 DEF PointerIsNewest
  <2> QED BY <2>2, <2>4, <2>5, <2>6
\* Neither "absent" nor "ready" is written, and imports stay where they are.
<1>17. ASSUME NEW d \in ReportDays, d <= reportDay, NEW s \in {"running", "error", "stale"},
              reports' = [reports EXCEPT ![d].status = s], UNCHANGED <<imports, reportDay, cutShort>>,
              \A v \in Importers : Same(v) /\ (fetcher'[v].pc # "idle" => fetcher'[v].day \in Known \cup {d}),
              \A v \in Fetchers : Confirming(v)
       PROVE  Goal
  <2>1. /\ Past' /\ Confirms' /\ PointerIsNewest'
        /\ \A e \in ReportDays : reports'[e].batch = reports[e].batch
        /\ \A e \in ReportDays \ {d} : reports'[e] = reports[e]
        /\ reports'[d].status = s
    BY <1>2, <1>17
  <2>2. \A e \in ReportDays : Between(e)' = Between(e)
    BY <1>17
  <2>3. \A e \in ReportDays : reports'[e].batch \in 0..Len(imports') /\ Has(e)'
    BY <1>1, <1>17, <2>1, <2>2
  <2> QED BY <2>1, <2>3
\* "ready" is written, by one who is between the two commits or has imported.
<1>18. ASSUME NEW w \in Importers, NEW d \in ReportDays, d <= reportDay,
              reports' = [reports EXCEPT ![d].status = "ready"], UNCHANGED <<imports, reportDay, cutShort>>,
              \A v \in Importers \ {w} : fetcher'[v] = fetcher[v],
              fetcher'[w].day = d, fetcher'[w].pc # "confirm", fetcher[w].pc # "metrics",
              fetcher'[w].pc = "metrics" \/ reports[d].batch # 0
       PROVE  Goal
  <2>1. \A v \in Importers : fetcher'[v].pc # "idle" => fetcher'[v].day \in Known \cup {d}
    BY <1>1, <1>18
  <2>2. \A v \in Fetchers : Confirming(v)
    BY <1>0, <1>18
  <2>3. /\ Past' /\ Confirms' /\ PointerIsNewest'
        /\ \A e \in ReportDays : reports'[e].batch = reports[e].batch
        /\ \A e \in ReportDays \ {d} : reports'[e] = reports[e]
        /\ reports'[d].status = "ready"
    BY <1>2, <1>18, <2>1, <2>2
  <2>4. \A e \in ReportDays : Between(e) => Between(e)'
    BY <1>18
  <2>5. Has(d)'
    <3>1. CASE fetcher'[w].pc = "metrics"
      BY <1>18, <3>1
    <3>2. CASE reports[d].batch # 0
      BY <1>0, <1>1, <1>18, <2>3, <3>2
    <3> QED BY <1>18, <3>1, <3>2
  <2>6. \A e \in ReportDays \ {d} : Has(e)'
    BY <1>1, <1>18, <2>3, <2>4
  <2> QED BY <1>1, <1>18, <2>3, <2>5, <2>6
<1>3. ASSUME UNCHANGED <<reports, imports>>, reportDay' \in {reportDay, reportDay + 1},
             cutShort \subseteq cutShort',
             \A d \in ReportDays : Between(d) =>
               Between(d)' \/ d \in cutShort' \/ reports[d].batch \in DOMAIN imports,
             \A v \in Importers : fetcher'[v].pc # "idle" => fetcher'[v].day \in Known,
             \A v \in Fetchers : Confirming(v)
      PROVE  Goal
  <2>1. Known' = Known /\ Known \subseteq Nat
    BY <1>0, <1>3 DEF Known
  <2>2. Past'
    <3>1. \A d \in Known' : d <= reportDay'
      BY <1>0, <1>1, <1>3, <2>1
    <3> QED BY <1>1, <1>3, <2>1, <3>1
  <2>3. \A d \in ReportDays : Has(d)'
    BY <1>1, <1>3
  <2>4. Confirms'
    BY <1>1, <1>3
  <2>5. PointerIsNewest'
    BY <1>1, <1>3 DEF PointerIsNewest
  <2> QED BY <1>1, <1>3, <2>2, <2>3, <2>4, <2>5
\* The steps of one fetch.
<1>4. ASSUME NEW w \in Fetchers, BeginFetch(w), UNCHANGED <<imports, reportDay, cutShort>>,
             fetcher[w].pc = "idle"
      PROVE  Goal
  <2>1. /\ reports' = [reports EXCEPT ![reportDay].status = "running"]
        /\ fetcher'[w].pc = "browse" /\ fetcher'[w].day = reportDay
        /\ \A v \in Importers \ {w} : fetcher'[v] = fetcher[v]
    BY <1>0, <1>4, FetchBegins DEF BeginFetch
  <2>2. \A v \in Importers : Same(v) /\ (fetcher'[v].pc # "idle" => fetcher'[v].day \in Known \cup {reportDay})
    BY <1>1, <1>4, <2>1
  <2>3. (\A v \in Fetchers : Confirming(v)) /\ reportDay <= reportDay
    BY <1>0, <2>1
  <2> QED BY <1>0, <1>17, <1>4, <2>1, <2>2, <2>3
<1>5. ASSUME NEW w \in Fetchers, FetchTaken(w) PROVE Goal
  BY <1>0, <1>4, <1>5 DEF FetchTaken
<1>6. ASSUME NEW w \in Fetchers, BeatFetches(w) PROVE Goal
  <2>1. UNCHANGED <<imports, reportDay, cutShort>> /\ fetcher[w].pc = "idle"
    BY <1>0, <1>6 DEF BeatFetches
  <2>2. CASE BeginFetch(w)
    BY <1>4, <2>1, <2>2
  <2>3. CASE /\ Known # {} /\ UNCHANGED reports
             /\ fetcher' = [fetcher EXCEPT ![w] =
                  [pc |-> "analyse", day |-> LatestDay, weak |-> FALSE, seen |-> FALSE]]
    <3>1. /\ fetcher'[w].pc = "analyse" /\ fetcher'[w].day \in Known
          /\ \A v \in Importers \ {w} : fetcher'[v] = fetcher[v]
      BY <1>0, <2>3, LatestKnown, FetchBegins
    <3>2. \A v \in Importers : Same(v) /\ (fetcher'[v].pc # "idle" => fetcher'[v].day \in Known)
      BY <1>1, <2>1, <3>1
    <3>3. /\ \A v \in Fetchers : Confirming(v)
          /\ \A e \in ReportDays : Between(e) => Between(e)'
      BY <1>0, <3>1, <3>2
    <3> QED BY <1>3, <2>1, <2>3, <3>2, <3>3
  <2> QED BY <1>6, <2>2, <2>3 DEF BeatFetches
<1>7. ASSUME BeatFindsOld PROVE Goal
  <2>1. /\ LatestDay \in Known /\ LatestDay \in ReportDays /\ LatestDay <= reportDay
        /\ reports' = [reports EXCEPT ![LatestDay].status = "stale"]
        /\ UNCHANGED <<imports, reportDay, cutShort, fetcher>>
    BY <1>0, <1>1, <1>7, LatestKnown DEF BeatFindsOld
  <2>2. \A v \in Importers : Same(v) /\ (fetcher'[v].pc # "idle" => fetcher'[v].day \in Known \cup {LatestDay})
    BY <1>1, <2>1
  <2>3. \A v \in Fetchers : Confirming(v)
    BY <2>1
  <2> QED BY <1>17, <2>1, <2>2, <2>3
<1>8. ASSUME NEW w \in Fetchers, BrowserRefused(w) \/ ReopenRequired(w) \/ BrowserFetched(w) PROVE Goal
  <2>1. /\ fetcher[w].pc = "browse" /\ UNCHANGED <<imports, reportDay, cutShort>>
        /\ fetcher[w].day \in Known /\ fetcher[w].day \in ReportDays /\ fetcher[w].day <= reportDay
    BY <1>0, <1>1, <1>8 DEF BrowserRefused, ReopenRequired, BrowserFetched, Known
  <2>2. /\ \A v \in Importers \ {w} : fetcher'[v] = fetcher[v]
        /\ \/ fetcher'[w].pc = "idle"
           \/ fetcher'[w].pc = "import" /\ fetcher'[w].day = fetcher[w].day
    BY <1>0, <1>8, <2>1, FetcherWrites DEF BrowserRefused, ReopenRequired, BrowserFetched, FetcherSteps
  <2>3. \A v \in Importers : Same(v) /\ (fetcher'[v].pc # "idle" => fetcher'[v].day \in Known)
    BY <1>1, <2>1, <2>2
  <2>6. /\ \A v \in Fetchers : Confirming(v)
        /\ \A e \in ReportDays : Between(e) => Between(e)'
    BY <1>0, <2>2, <2>3
  <2>4. CASE UNCHANGED reports
    BY <1>3, <2>1, <2>3, <2>4, <2>6
  <2>5. ASSUME NEW s \in {"error", "stale"}, reports' = [reports EXCEPT ![fetcher[w].day].status = s]
        PROVE  Goal
    BY <1>17, <2>1, <2>3, <2>5, <2>6
  <2> QED BY <1>8, <2>4, <2>5 DEF BrowserRefused, ReopenRequired, BrowserFetched
<1>9. ASSUME NEW w \in Fetchers, ImportMarksReady(w) PROVE Goal
  <2>1. /\ fetcher[w].pc = "import" /\ fetcher[w].day \in ReportDays /\ fetcher[w].day <= reportDay
        /\ UNCHANGED <<imports, reportDay, cutShort>> /\ w \in Importers
        /\ reports' = [reports EXCEPT ![fetcher[w].day].status = "ready"]
    BY <1>0, <1>1, <1>9 DEF ImportMarksReady, ReadyStatus, Known
  <2>2. /\ fetcher'[w].pc = "metrics" /\ fetcher'[w].day = fetcher[w].day
        /\ \A v \in Importers \ {w} : fetcher'[v] = fetcher[v]
    BY <1>0, <1>9, <2>1, FetcherWrites DEF ImportMarksReady, FetcherSteps
  <2> QED BY <1>18, <2>1, <2>2
<1>19. ASSUME NEW w \in Fetchers, FetchConfirms(w) PROVE Goal
  <2>1. /\ fetcher[w].pc = "confirm" /\ fetcher[w].day \in ReportDays /\ fetcher[w].day <= reportDay
        /\ UNCHANGED <<imports, reportDay, cutShort>> /\ w \in Importers
        /\ reports' = [reports EXCEPT ![fetcher[w].day].status = "ready"]
        /\ reports[fetcher[w].day].batch # 0
    BY <1>0, <1>1, <1>19 DEF FetchConfirms, Known
  <2>2. /\ fetcher'[w].pc = "analyse" /\ fetcher'[w].day = fetcher[w].day
        /\ \A v \in Importers \ {w} : fetcher'[v] = fetcher[v]
    BY <1>0, <1>19, <2>1, FetcherWrites DEF FetchConfirms, FetcherSteps
  <2> QED BY <1>18, <2>1, <2>2
<1>20. ASSUME NEW u \in Uploaders, UploadMarksReady(u) PROVE Goal
  <2>1. PICK d \in 1..reportDay :
          /\ reports' = [reports EXCEPT ![d].status = "ready"]
          /\ fetcher' = [fetcher EXCEPT ![u] =
               [pc |-> "metrics", day |-> d, weak |-> FALSE, seen |-> FALSE]]
    BY <1>20 DEF UploadMarksReady, ReadyStatus
  <2>2. d \in ReportDays /\ d <= reportDay /\ u \in Importers
    BY <1>0, AiTasksAssumption DEF ReportDays
  <2>3. fetcher[u].pc = "idle" /\ UNCHANGED <<imports, reportDay, cutShort>>
    BY <1>0, <1>20 DEF UploadMarksReady
  <2>4. /\ fetcher'[u].pc = "metrics" /\ fetcher'[u].day = d
        /\ \A v \in Importers \ {u} : fetcher'[v] = fetcher[v]
    BY <1>0, <2>1, <2>2, FetchBegins
  <2> QED BY <1>18, <2>1, <2>2, <2>3, <2>4
<1>10. ASSUME NEW w \in Importers, NEW weak \in BOOLEAN, ImportWritesMetrics(w, weak) PROVE Goal
  <2> DEFINE d == fetcher[w].day
             new == [day |-> d, weak |-> weak]
  <2>1. /\ fetcher[w].pc = "metrics" /\ d \in Known /\ d \in ReportDays
        /\ UNCHANGED reportDay /\ cutShort' = cutShort \ {d} /\ imports' = Append(imports, new)
        /\ new \in ImportRow /\ new.day = d
    BY <1>1, <1>10 DEF ImportWritesMetrics, Known, ImportRow
  <2>2. /\ \A v \in Importers \ {w} : fetcher'[v] = fetcher[v]
        /\ \/ fetcher'[w].pc = "confirm" /\ fetcher'[w].day = d
           \/ fetcher'[w].pc = "idle"
    <3>1. CASE w \in Fetchers
      BY <1>0, <1>10, <2>1, <3>1, FetcherWrites DEF ImportWritesMetrics, FetcherSteps
    <3>2. CASE w \notin Fetchers
      BY <1>0, <1>10, <3>2, FetcherWrites DEF ImportWritesMetrics
    <3> QED BY <3>1, <3>2
  <2> HIDE DEF new
  <2>3. /\ Len(imports') = Len(imports) + 1 /\ DOMAIN imports' = 1..Len(imports')
        /\ imports'[Len(imports) + 1] = new
        /\ \A n \in DOMAIN imports : imports'[n] = imports[n]
    BY <1>0, <2>1
  <2>4. /\ \A e \in ReportDays \ {d} : reports'[e] = reports[e]
        /\ reports'[d].batch = Len(imports) + 1 /\ reports'[d].status = reports[d].status
    BY <1>0, <1>10, <2>1 DEF ImportWritesMetrics, PointsTo, ReportRow
  <2>5. Known' = Known
    BY <2>1, <2>4 DEF Known
  <2>6. Past'
    BY <1>1, <2>1, <2>2, <2>5
  <2>7. \A e \in ReportDays \ {d} : Between(e) => Between(e)'
    BY <2>1, <2>2
  <2>8. ASSUME NEW e \in ReportDays PROVE reports'[e].batch \in 0..Len(imports') /\ Has(e)'
    <3>1. CASE e = d
      <4>1. reports'[d].batch \in 0..Len(imports') /\ reports'[d].batch \in DOMAIN imports'
        BY <1>0, <2>3, <2>4
      <4> QED BY <3>1, <4>1
    <3>2. CASE e # d
      <4>1. reports'[e] = reports[e] /\ reports[e].batch \in 0..Len(imports)
        BY <1>1, <2>4, <3>2
      <4>2. reports'[e].batch \in 0..Len(imports') /\ DOMAIN imports \subseteq DOMAIN imports'
        BY <1>0, <2>3, <4>1
      <4>3. Between(e) => Between(e)'
        BY <2>7, <3>2
      <4>4. e \in cutShort => e \in cutShort'
        BY <2>1, <3>2
      <4> QED BY <1>1, <4>1, <4>2, <4>3, <4>4
    <3> QED BY <3>1, <3>2
  <2>9. Confirms'
    <3>1. \A v \in Fetchers : fetcher[v].pc = "confirm" => fetcher[v].day \in ReportDays
      BY <1>0, <1>1 DEF Known
    <3>2. Len(imports) + 1 # 0
      BY <1>0
    <3> QED BY <1>0, <1>1, <2>2, <2>4, <3>1, <3>2
  <2>10. PointerIsNewest'
    <3> SUFFICES ASSUME NEW n \in DOMAIN imports'
                 PROVE  LET batch == reports'[imports'[n].day].batch IN
                        batch \in n..Len(imports') /\ imports'[batch].day = imports'[n].day
      BY DEF PointerIsNewest
    <3>1. CASE n \in DOMAIN imports /\ imports[n].day # d
      <4> DEFINE batch == reports[imports[n].day].batch
      <4>1. batch \in n..Len(imports) /\ imports[batch].day = imports[n].day
        BY <1>1, <3>1 DEF PointerIsNewest
      <4>2. reports'[imports'[n].day].batch = batch /\ imports'[n] = imports[n]
        BY <1>0, <2>3, <2>4, <3>1
      <4>3. batch \in DOMAIN imports /\ n \in Nat /\ batch \in n..Len(imports')
        BY <1>0, <2>3, <3>1, <4>1
      <4> QED BY <2>3, <4>1, <4>2, <4>3
    <3>2. CASE imports'[n].day = d
      BY <1>0, <2>1, <2>3, <2>4, <3>2
    <3>3. n \in DOMAIN imports \/ n = Len(imports) + 1
      BY <1>0, <2>3
    <3> QED BY <2>1, <2>3, <3>1, <3>2, <3>3
  <2> QED BY <2>6, <2>8, <2>9, <2>10
<1>11. ASSUME NEW w \in Fetchers, UNCHANGED <<reports, imports, reportDay, cutShort>>,
              fetcher[w].pc # "metrics", fetcher'[w].pc # "confirm",
              fetcher'[w].pc = "idle" \/ fetcher'[w].day \in Known,
              \A v \in Importers \ {w} : fetcher'[v] = fetcher[v]
       PROVE  Goal
  <2>1. \A d \in ReportDays : Between(d) => Between(d)'
    BY <1>11
  <2>2. \A v \in Importers : fetcher'[v].pc # "idle" => fetcher'[v].day \in Known
    BY <1>1, <1>11
  <2>3. \A v \in Fetchers : Confirming(v)
    BY <1>0, <1>11
  <2> QED BY <1>3, <1>11, <2>1, <2>2, <2>3
<1>12. ASSUME NEW w \in Fetchers,
              \/ Analyse(w) \/ FindTask(w) \/ FindHypothesis(w) \/ InsertHypothesis(w) \/ FetchEnds(w)
              \/ (InsertTask(w) /\ UNCHANGED aiTasks)
       PROVE  Goal
  <2>1. /\ UNCHANGED <<reports, imports, reportDay, cutShort>> /\ w \in Importers
        /\ fetcher[w].pc \notin {"metrics", "idle"} /\ fetcher[w].day \in Known
    BY <1>0, <1>1, <1>12 DEF Analyse, FindTask, FindHypothesis, InsertHypothesis, FetchEnds, InsertTask
  <2>2. CASE Analyse(w)
    BY <1>0, <1>11, <2>1, <2>2, AnalyseWrites
  <2>3. CASE FetchEnds(w)
    BY <1>0, <1>11, <2>1, <2>3, FetcherWrites DEF FetchEnds
  <2>4. CASE \E pc \in FetcherSteps \ {"confirm"} : GoesOn(w, pc)
    BY <1>0, <1>11, <2>1, <2>4, FetcherWrites
  <2>5. CASE InsertTask(w) /\ UNCHANGED aiTasks
    <3>2. CASE GoesOn(w, IfTaken(fetcher[w].pc))
      BY <2>4, <3>2 DEF IfTaken, FetcherSteps
    <3>3. CASE \E day : aiTasks' = Append(aiTasks, [status |-> "open", day |-> day])
      BY <1>0, <2>5, <3>3 DEF TasksIInv, TasksInv, AiTypeOK
    <3> QED BY <2>5, <3>2, <3>3 DEF InsertTask
  <2> QED BY <1>12, <2>2, <2>3, <2>4, <2>5
  DEF FindTask, FindHypothesis, InsertHypothesis, FetcherSteps
<1>13. ASSUME NEW w \in Fetchers, InsertTask(w), aiTasks' # aiTasks PROVE Goal
  <2>1. PICK day \in 0..LastReportDay :
          /\ aiTasks' = Append(aiTasks, [status |-> "open", day |-> day])
          /\ fetcher' = [Watching(aiTasks') EXCEPT ![w].pc = "hypothesis"]
    <3>1. fetcher[w] \in FetcherRecord \/ fetcher[w].pc \notin {"insert", "retry"}
      BY <1>0, FetcherShapes
    <3>2. fetcher[w].pc = "insert" => fetcher[w].day \in 0..LastReportDay
      BY <3>1 DEF FetcherRecord, ReportDays
    <3>3. (IF fetcher[w].pc = "insert" THEN fetcher[w].day ELSE 0) \in 0..LastReportDay
      BY <3>2, AiTasksAssumption
    <3> QED BY <1>13, <3>3 DEF InsertTask
  <2>2. /\ HasOpen(aiTasks') /\ fetcher[w].pc \in AtTheRule /\ w \in Importers
        /\ fetcher[w].pc \notin {"metrics", "idle"}
        /\ UNCHANGED <<reports, imports, reportDay, cutShort>>
    <3>1. aiTasks \in Seq(AiRows)
      BY DEF TasksIInv, TasksInv, AiTypeOK, AiRows
    <3> QED BY <1>0, <1>13, <2>1, <3>1, AddedRow DEF InsertTask, AtTheRule
  <2>3. /\ fetcher'[w].pc = "hypothesis" /\ fetcher'[w].day = fetcher[w].day
        /\ \A v \in Importers \ {w} :
             /\ fetcher'[v].pc = fetcher[v].pc
             /\ fetcher[v].pc # "idle" => fetcher'[v].day = fetcher[v].day
    BY <1>0, <2>1, <2>2, InsertWatched
  <2>4. \A e \in ReportDays : Between(e) => Between(e)'
    BY <2>2, <2>3
  <2>5. \A v \in Importers : fetcher'[v].pc # "idle" => fetcher'[v].day \in Known
    BY <1>1, <2>2, <2>3
  <2>6. \A v \in Fetchers : Confirming(v)
    BY <1>0, <2>3
  <2> QED BY <1>3, <2>2, <2>4, <2>5, <2>6
<1>14. ASSUME NEW w \in Importers, ImportBringsNothing(w) \/ FetcherDies(w) PROVE Goal
  <2>1. /\ UNCHANGED <<reports, imports, reportDay>> /\ cutShort \subseteq cutShort'
        /\ fetcher[w].pc = "metrics" =>
             fetcher[w].day \in cutShort' \/ reports[fetcher[w].day].batch # 0
    BY <1>14 DEF ImportBringsNothing, FetcherDies, CutsShort
  <2>2. fetcher'[w].pc = "idle" /\ \A v \in Importers \ {w} : fetcher'[v] = fetcher[v]
    BY <1>0, <1>14, FetcherWrites DEF ImportBringsNothing, FetcherDies
  <2>3. \A e \in ReportDays : reports[e].batch # 0 => reports[e].batch \in DOMAIN imports
    BY <1>0, <1>1
  <2>4. \A e \in ReportDays : Between(e) =>
          Between(e)' \/ e \in cutShort' \/ reports[e].batch \in DOMAIN imports
    BY <2>1, <2>2, <2>3
  <2>5. /\ \A v \in Importers : fetcher'[v].pc # "idle" => fetcher'[v].day \in Known
        /\ \A v \in Fetchers : Confirming(v)
    BY <1>0, <1>1, <2>2
  <2> QED BY <1>3, <2>1, <2>4, <2>5
<1>15. ASSUME \/ CloseTask \/ FinishHypothesis \/ ExecuteRefresh \/ AskForRefresh \/ CloseRefresh
              \/ LogIn \/ NextDay \/ UNCHANGED aiVars
       PROVE  Goal
  <2>1. UNCHANGED <<reports, imports, fetcher, cutShort>> /\ reportDay' \in {reportDay, reportDay + 1}
    BY <1>15 DEF CloseTask, FinishHypothesis, ExecuteRefresh, AskForRefresh, CloseRefresh, LogIn,
                 NextDay, aiVars
  <2>2. /\ \A e \in ReportDays : Between(e) => Between(e)'
        /\ \A v \in Fetchers : Confirming(v)
    BY <2>1
  <2> QED BY <1>1, <1>3, <2>1, <2>2
<1>16. Goal
  <2>1. CASE AiNext
    BY <2>1, <1>5, <1>6, <1>7, <1>8, <1>9, <1>10, <1>12, <1>13, <1>14, <1>15, <1>19, <1>20 DEF AiNext
  <2> QED BY <2>1, <1>15
<1> QED BY <1>16 DEF ReportsAreOfThePast, BatchIsImported, ReadyHasMetrics

(* Only a row that fits is inserted, so a task that is open when an analysis  *)
(* of weak metrics leaves the rule was open while that analysis was under way. *)
LEMMA AnalysesStep ==
  ASSUME TasksIInv, [AiNext]_aiVars
  PROVE  WeakLeavesTask' /\ AnalysisSeesTask'
<1> DEFINE Looking(v) == fetcher[v].pc \in AtTheRule /\ HasOpen(aiTasks) => fetcher[v].seen
           Left(v) == fetcher[v].pc \in {"hypothesis", "propose", "finish"} /\ fetcher[v].weak
                        => fetcher[v].seen
           Goal == \A v \in Fetchers : Looking(v)' /\ Left(v)'
<1>0. /\ FetcherShape /\ FetcherShape' /\ ReportsAreOfThePast /\ aiTasks \in Seq(AiRows)
      /\ hypotheses \in Seq(AiRows) /\ AtEase.pc = "idle"
      /\ \A v \in Fetchers : Looking(v) /\ Left(v)
      /\ Importers = Fetchers \cup Uploaders /\ Fetchers \cap Uploaders = {}
  BY AiTypeStep, FetcherShapes DEF TasksIInv, TasksInv, AiTypeOK, AiRows, AtEase, WeakLeavesTask, AnalysisSeesTask
<1>1. ASSUME NEW w \in Importers, \A v \in Importers \ {w} : fetcher'[v] = fetcher[v],
             UNCHANGED aiTasks, w \in Fetchers => Looking(w)' /\ Left(w)'
      PROVE  Goal
  BY <1>0, <1>1
<1>2. ASSUME UNCHANGED fetcher, HasOpen(aiTasks') => HasOpen(aiTasks)
      PROVE  Goal
  BY <1>0, <1>2
<1>3. ASSUME NEW w \in Fetchers, FetchTaken(w) \/ BeatFetches(w) PROVE Goal
  <2>1. /\ \A v \in Importers \ {w} : fetcher'[v] = fetcher[v]
        /\ fetcher'[w].pc \in {"browse", "analyse"}
    <3>1. ASSUME NEW d \in ReportDays, NEW step \in {"browse", "analyse"},
                 fetcher' = [fetcher EXCEPT ![w] = [pc |-> step, day |-> d, weak |-> FALSE, seen |-> FALSE]]
          PROVE  /\ \A v \in Importers \ {w} : fetcher'[v] = fetcher[v]
                 /\ fetcher'[w].pc \in {"browse", "analyse"}
      BY <1>0, <3>1, FetchBegins
    <3>2. reportDay \in ReportDays
      BY DEF TasksIInv, TasksInv, AiTypeOK
    <3>3. CASE BeginFetch(w)
      BY <3>1, <3>2, <3>3 DEF BeginFetch
    <3>4. CASE /\ Known # {}
               /\ fetcher' = [fetcher EXCEPT ![w] =
                    [pc |-> "analyse", day |-> LatestDay, weak |-> FALSE, seen |-> FALSE]]
      BY <1>0, <3>1, <3>4, LatestKnown
    <3> QED BY <1>3, <3>3, <3>4 DEF FetchTaken, BeatFetches
  <2> QED BY <1>0, <1>1, <1>3, <2>1 DEF FetchTaken, BeatFetches, AtTheRule
<1>4. ASSUME NEW w \in Fetchers,
             \/ BrowserRefused(w) \/ ReopenRequired(w) \/ BrowserFetched(w) \/ ImportMarksReady(w)
             \/ FetchConfirms(w) \/ FetchEnds(w)
      PROVE  Goal
  <2>1. /\ \A v \in Importers \ {w} : fetcher'[v] = fetcher[v]
        /\ fetcher'[w].pc \in {"idle", "import", "metrics", "analyse"}
    <3>1. CASE IsDone(w)
      BY <1>0, <3>1, FetcherWrites
    <3>2. ASSUME NEW pc \in {"import", "metrics", "analyse"}, GoesOn(w, pc), fetcher[w].pc # "idle"
          PROVE  /\ \A v \in Importers \ {w} : fetcher'[v] = fetcher[v]
                 /\ fetcher'[w].pc = pc
      BY <1>0, <3>2, FetcherWrites DEF FetcherSteps
    <3> QED BY <1>4, <3>1, <3>2 DEF BrowserRefused, ReopenRequired, BrowserFetched, ImportMarksReady,
                                  FetchConfirms, FetchEnds
  <2>2. UNCHANGED aiTasks /\ w \in Importers
    BY <1>0, <1>4 DEF BrowserRefused, ReopenRequired, BrowserFetched, ImportMarksReady, FetchConfirms,
                      FetchEnds
  <2> QED BY <1>1, <2>1, <2>2 DEF AtTheRule
<1>11. ASSUME NEW w \in Importers, NEW weak \in BOOLEAN,
              ImportWritesMetrics(w, weak) \/ ImportBringsNothing(w) \/ FetcherDies(w)
       PROVE  Goal
  <2>1. /\ \A v \in Importers \ {w} : fetcher'[v] = fetcher[v]
        /\ fetcher'[w].pc \in {"idle", "confirm"}
    <3>1. CASE IsDone(w)
      BY <1>0, <3>1, FetcherWrites
    <3>2. CASE w \in Fetchers /\ GoesOn(w, "confirm") /\ fetcher[w].pc # "idle"
      BY <1>0, <3>2, FetcherWrites DEF FetcherSteps
    <3> QED BY <1>11, <3>1, <3>2 DEF ImportWritesMetrics, ImportBringsNothing, FetcherDies
  <2>2. UNCHANGED aiTasks
    BY <1>11 DEF ImportWritesMetrics, ImportBringsNothing, FetcherDies
  <2> QED BY <1>1, <2>1, <2>2 DEF AtTheRule
<1>12. ASSUME NEW u \in Uploaders, UploadMarksReady(u) PROVE Goal
  <2>1. u \in Importers /\ u \notin Fetchers /\ UNCHANGED aiTasks
    BY <1>0, <1>12 DEF UploadMarksReady
  <2>2. \A v \in Importers \ {u} : fetcher'[v] = fetcher[v]
    BY <1>0, <1>12, <2>1 DEF UploadMarksReady, FetcherShape
  <2> QED BY <1>1, <2>1, <2>2
<1>5. ASSUME NEW w \in Fetchers, Analyse(w) PROVE Goal
  BY <1>0, <1>1, <1>5, AnalyseWrites DEF Analyse, AtTheRule
<1>6. ASSUME NEW w \in Fetchers, FindTask(w) PROVE Goal
  <2>1. /\ fetcher'[w].weak = fetcher[w].weak /\ fetcher'[w].seen = fetcher[w].seen
        /\ \A v \in Importers \ {w} : fetcher'[v] = fetcher[v]
        /\ fetcher'[w].pc \in {"hypothesis", "insert", "retry"}
        /\ fetcher'[w].pc = "hypothesis" => HasOpen(aiTasks)
    BY <1>0, <1>6, FetcherWrites DEF FindTask, FetcherSteps
  <2>2. fetcher[w].pc \in {"find", "again"} /\ UNCHANGED aiTasks
    BY <1>6 DEF FindTask
  <2>3. Looking(w)' /\ Left(w)'
    BY <1>0, <2>1, <2>2 DEF AtTheRule
  <2> QED BY <1>0, <1>1, <2>1, <2>2, <2>3
<1>7. ASSUME NEW w \in Fetchers, FindHypothesis(w) \/ InsertHypothesis(w) PROVE Goal
  <2>1. /\ fetcher'[w].weak = fetcher[w].weak /\ fetcher'[w].seen = fetcher[w].seen
        /\ \A v \in Importers \ {w} : fetcher'[v] = fetcher[v]
        /\ fetcher'[w].pc \in {"propose", "finish"}
    BY <1>0, <1>7, FetcherWrites DEF FindHypothesis, InsertHypothesis, FetcherSteps
  <2>2. fetcher[w].pc \in {"hypothesis", "propose"} /\ UNCHANGED aiTasks
    BY <1>7 DEF FindHypothesis, InsertHypothesis
  <2>3. Looking(w)' /\ Left(w)'
    BY <1>0, <2>1, <2>2 DEF AtTheRule
  <2> QED BY <1>0, <1>1, <2>1, <2>2, <2>3
<1>8. ASSUME NEW w \in Fetchers, InsertTask(w) PROVE Goal
  <2> DEFINE day == IF fetcher[w].pc = "insert" THEN fetcher[w].day ELSE 0
  <2>1. /\ fetcher[w].pc \in {"insert", "retry"} /\ fetcher[w].pc \in AtTheRule
        /\ fetcher[w] \in FetcherRecord /\ w \in Importers
    BY <1>0, <1>8, FetcherShapes DEF InsertTask, AtTheRule
  <2>2. CASE /\ aiTasks' = Append(aiTasks, [status |-> "open", day |-> day])
             /\ fetcher' = [Watching(aiTasks') EXCEPT ![w].pc = "hypothesis"]
    <3>1. day \in 0..LastReportDay
      BY <2>1, AiTasksAssumption DEF FetcherRecord, ReportDays
    <3>2. HasOpen(aiTasks')
      BY <1>0, <2>2, <3>1, AddedRow
    <3>3. /\ fetcher'[w].seen
          /\ \A v \in Importers \ {w} :
               /\ fetcher'[v] = fetcher[v] \/ fetcher[v].pc \in AtTheRule
               /\ fetcher[v].pc \in AtTheRule => fetcher'[v].seen
               /\ fetcher'[v].pc = fetcher[v].pc
      BY <1>0, <2>1, <2>2, <3>2, InsertWatched
    <3> QED BY <1>0, <3>3
  <2>3. CASE GoesOn(w, IfTaken(fetcher[w].pc)) /\ UNCHANGED aiTasks /\ ~Fits(aiTasks, day)
    <3>1. /\ fetcher'[w].weak = fetcher[w].weak /\ fetcher'[w].seen = fetcher[w].seen
          /\ \A v \in Importers \ {w} : fetcher'[v] = fetcher[v]
          /\ fetcher'[w].pc = IfTaken(fetcher[w].pc)
      BY <1>0, <2>1, <2>3, FetcherWrites DEF IfTaken, FetcherSteps
    <3>2. fetcher[w].pc = "retry" => HasOpen(aiTasks)
      BY <2>3 DEF Fits
    <3>3. Looking(w)' /\ Left(w)'
      BY <1>0, <2>1, <2>3, <3>1, <3>2 DEF IfTaken, AtTheRule
    <3> QED BY <2>1, <1>1, <2>3, <3>1, <3>3
  <2> QED BY <1>8, <2>2, <2>3 DEF InsertTask
<1>9. ASSUME \/ BeatFindsOld \/ CloseTask \/ FinishHypothesis \/ ExecuteRefresh \/ AskForRefresh
             \/ CloseRefresh \/ LogIn \/ NextDay \/ UNCHANGED aiVars
      PROVE  Goal
  <2>1. UNCHANGED fetcher /\ aiTasks' \in {aiTasks, Closed(aiTasks)}
    BY <1>9 DEF BeatFindsOld, CloseTask, FinishHypothesis, ExecuteRefresh, AskForRefresh, CloseRefresh,
                LogIn, NextDay, aiVars
  <2>2. HasOpen(aiTasks') => HasOpen(aiTasks)
    BY <1>0, <2>1, ClosedRows
  <2> QED BY <1>2, <2>1, <2>2
<1>10. Goal
  <2>1. CASE AiNext
    BY <2>1, <1>3, <1>4, <1>5, <1>6, <1>7, <1>8, <1>9, <1>11, <1>12 DEF AiNext
  <2> QED BY <2>1, <1>9
<1> QED BY <1>10 DEF WeakLeavesTask, AnalysisSeesTask

(* Whatever the beat, the fetches, the uploads and the seller do in between,  *)
(* an analysis of weak metrics has left the seller a task, a ready report has *)
(* its metrics unless an import of its day was cut short, and the last batch  *)
(* of a day is the one that is read.                                          *)
THEOREM TasksHold == AiSpec => []TasksInv
<1>1. TasksIInv /\ [AiNext]_aiVars => TasksIInv'
  <2> SUFFICES ASSUME TasksIInv, [AiNext]_aiVars PROVE TasksIInv'
    OBVIOUS
  <2>1. AiTypeOK' /\ FetcherShape'
    BY AiTypeStep DEF TasksIInv, TasksInv
  <2>2. ReportsAreOfThePast' /\ BatchIsImported' /\ ReadyHasMetrics' /\ PointerIsNewest'
    BY ReportsStep
  <2>3. WeakLeavesTask' /\ AnalysisSeesTask'
    BY AnalysesStep
  <2> QED BY <2>1, <2>2, <2>3 DEF TasksIInv, TasksInv
<1> QED BY TasksStart, <1>1, PTL DEF AiSpec, TasksIInv

--------------------------------------------------------------------------------
(* Product photos, for any number of runs, workers, requests, repeated        *)
(* messages and faults. What carries the proof is which tasks are under way:  *)
(* a run has one, until a message of it is repeated or a chain outlives a     *)
(* stop, and what is about to finish a run, or is about a series, finds its   *)
(* main frames.                                                               *)

AskingTasks == {"structure_main", "images_main", "content_structure", "content_images"}
ContentTasks == {"content_structure", "content_images", "content_done"}
Work == [msg : TaskMessages, had : Nat]
Live(r) == run[r].status \in {"created", "running"}
AsksFor(w, r) == worker[w] # Free /\ worker[w].msg.run = r

(* What a request holds: the run it has read, and the run it has made.  A run *)
(* that a request to start has stopped is at work no more, or orphaned.       *)
RequestKnows(c) ==
  /\ click[c].run = 0 \/ run[click[c].run].status # "absent"
  /\ click[c].pc \in {"drop", "stop", "content"} => click[c].run # 0
  /\ click[c].pc \in {"create", "adopt"} /\ click[c].run # 0 /\ Live(click[c].run) => click[c].run \in orphaned
  /\ click[c].made # 0 => click[c].pc = "adopt" /\ run[click[c].made].status # "absent"
  /\ click[c].pc = "adopt" => click[c].made # 0
  /\ click[c].pc = "content" => click[c].frame \in FrameIds

JobKnowsItsRun ==
  /\ job.run = 0 \/ run[job.run].status # "absent"
  /\ \A c \in Clicks : click[c] # NoClick => RequestKnows(c)

(* Runs are numbered as they are made.                                        *)
RunsAreNumbered ==
  \E n \in 0..Cardinality(Runs) : \A r \in Runs : run[r].status # "absent" <=> r <= n

(* A series is made only for a run with its main frames.                      *)
SeriesHasFrames ==
  \A r \in Runs : (\E k \in ContentKeys : run[r].step[k] # "absent") => run[r].frames >= MainCount

(* A task in the queue is of a run that was made; what is about to finish a   *)
(* run, or is about a series, has frames and is about the chosen one.         *)
MessageFits(m) ==
  /\ run[m.run].status # "absent"
  /\ m.task \in ContentTasks \cup {"step_done"} => run[m.run].frames >= MainCount
  /\ m.task \in ContentTasks => run[m.run].chosen \in FrameIds
  /\ m.task = "content_images" =>
       m.chosen \in FrameIds /\ (m.run \in overtaken \/ m.chosen = run[m.run].chosen)

(* So is what a worker asks for; a series is asked for when there is none.    *)
WorkFits(u) ==
  /\ u.msg.task \in AskingTasks
  /\ run[u.msg.run].status # "absent"
  /\ u.msg.task \in ContentTasks \/ u.had >= MainCount => run[u.msg.run].frames >= MainCount
  /\ u.msg.task \in ContentTasks =>
       /\ u.msg.chosen \in FrameIds /\ run[u.msg.run].chosen \in FrameIds
       /\ u.msg.run \in overtaken \/ u.msg.chosen = run[u.msg.run].chosen
  /\ u.msg.task = "content_images" /\ u.msg.run \notin overtaken =>
       \A f \in FrameIds : run[u.msg.run].series[f] = 0

TasksFit ==
  /\ \A m \in queue : MessageFits(m)
  /\ \A w \in Workers : worker[w] # Free => WorkFits(worker[w])

(* Unless tasks of it overlapped, a run has one task.                         *)
OneTaskPerRun ==
  \A r \in Runs \ overtaken :
    /\ \A m, n \in queue : m.run = r /\ n.run = r => m = n
    /\ \A v, w \in Workers : AsksFor(v, r) /\ AsksFor(w, r) => v = w
    /\ \A m \in queue, w \in Workers : ~(m.run = r /\ AsksFor(w, r))

StudioIInv ==
  /\ StudioInv /\ JobKnowsItsRun /\ RunsAreNumbered /\ SeriesHasFrames
  /\ TasksFit /\ OneTaskPerRun

(* What follows what.                                                         *)
LEMMA Follows ==
  /\ FollowedBy["run_created"] = "structure_main" /\ FollowedBy["structure_main"] = "images_main"
  /\ FollowedBy["images_main"] = "step_done" /\ FollowedBy["content_structure"] = "content_images"
  /\ FollowedBy["content_images"] = "content_done"
  /\ {"run_created", "step_done", "content_done"} \cup AskingTasks = Tasks
  /\ AskingTasks \subseteq StepKeys
BY DEF FollowedBy, Tasks, AskingTasks, StepKeys, MainKeys, ContentKeys

(* A worker that asks is not free.                                            *)
LEMMA WorkIsNotFree ==
  ASSUME NEW m \in TaskMessages, NEW h \in Nat, NEW u, u = [msg |-> m, had |-> h]
  PROVE  u \in Work /\ u # Free /\ u.msg = m /\ u.had = h
<1>1. u \in Work /\ u.msg = m /\ u.had = h
  BY DEF Work
<1>2. DOMAIN u = {"msg", "had"} /\ DOMAIN Free = {"task"}
  BY DEF Free
<1>3. "task" \notin {"msg", "had"}
  OBVIOUS
<1> QED BY <1>1, <1>2, <1>3

(* A run is written and the others are not.                                   *)
LEMMA RowWritten ==
  ASSUME run \in [Runs -> RunRows], NEW r \in Runs, NEW x \in RunRows, run' = [run EXCEPT ![r] = x]
  PROVE  run' \in [Runs -> RunRows] /\ run'[r] = x /\ \A s \in Runs \ {r} : run'[s] = run[s]
OBVIOUS

(* What every task and every stop leaves of a run.                            *)
RowKept(r) ==
  /\ run' \in [Runs -> RunRows] /\ \A s \in Runs \ {r} : run'[s] = run[s]
  /\ run'[r].chosen = run[r].chosen
  /\ run'[r].status = "absent" <=> run[r].status = "absent"
  /\ run'[r].status \in {"created", "running"} => run[r].status \in {"created", "running"}
  /\ run[r].frames >= MainCount => run'[r].frames >= MainCount
  /\ run'[r].status = "completed" => run[r].status = "completed" \/ run'[r].frames >= MainCount
  /\ \A k \in ContentKeys : run'[r].step[k] # "absent" =>
        run[r].step[k] # "absent" \/ run'[r].frames >= MainCount
  /\ run'[r].step["content_images"] = "done" =>
        \/ r \in overtaken
        \/ run[r].step["content_images"] = "done" /\ run'[r].series = run[r].series
        \/ \A f \in FrameIds : run'[r].series[f] = IF f = run'[r].chosen THEN SeriesCount ELSE 0

(* What is known of every task and every row.                                 *)
LEMMA StudioBasics ==
  ASSUME StudioIInv
  PROVE  /\ StudioTypeOK /\ run \in [Runs -> RunRows] /\ worker \in [Workers -> {Free} \cup Work]
         /\ queue \subseteq TaskMessages
         /\ \A m \in queue : m \in TaskMessages /\ m.run \in Runs /\ m.task \in Tasks
                             /\ run[m.run] \in RunRows /\ MessageFits(m)
         /\ \A w \in Workers : worker[w] # Free =>
               /\ worker[w] \in Work /\ worker[w].msg \in TaskMessages /\ worker[w].had \in Nat
               /\ worker[w].msg.run \in Runs /\ run[worker[w].msg.run] \in RunRows
               /\ worker[w].msg.task \in AskingTasks /\ worker[w].msg.task \in Tasks /\ WorkFits(worker[w])
         /\ MainCount \in Nat \ {0} /\ SeriesCount \in Nat \ {0} /\ NoFrame \notin FrameIds
<1>1. StudioTypeOK /\ run \in [Runs -> RunRows] /\ worker \in [Workers -> {Free} \cup Work] /\ queue \subseteq TaskMessages
  BY DEF StudioIInv, StudioInv, StudioTypeOK, Work
<1>2. \A m \in queue : m \in TaskMessages /\ m.run \in Runs /\ m.task \in Tasks
                       /\ run[m.run] \in RunRows /\ MessageFits(m)
  BY <1>1 DEF StudioIInv, TasksFit, TaskMessages
<1>3. ASSUME NEW w \in Workers, worker[w] # Free
      PROVE  /\ worker[w] \in Work /\ worker[w].msg \in TaskMessages /\ worker[w].had \in Nat
             /\ worker[w].msg.run \in Runs /\ run[worker[w].msg.run] \in RunRows
             /\ worker[w].msg.task \in AskingTasks /\ worker[w].msg.task \in Tasks /\ WorkFits(worker[w])
  <2>1. worker[w] \in Work
    BY <1>1, <1>3
  <2>2. worker[w].msg \in TaskMessages /\ worker[w].had \in Nat
    BY <2>1 DEF Work
  <2>3. worker[w].msg.run \in Runs /\ worker[w].msg.task \in Tasks
    BY <2>2 DEF TaskMessages
  <2>4. WorkFits(worker[w])
    BY <1>3 DEF StudioIInv, TasksFit
  <2> QED BY <1>1, <2>1, <2>2, <2>3, <2>4 DEF WorkFits
<1> QED BY <1>1, <1>2, <1>3, StudioAssumption DEF NoFrame, FrameIds

(* So does a step that writes no run.                                         *)
LEMMA RowUntouched ==
  ASSUME StudioIInv, NEW r \in Runs, UNCHANGED run
  PROVE  RowKept(r)
BY StudioBasics DEF RowKept

(* A step of a run gets a status, and nothing else changes.                   *)
LEMMA StepWritten ==
  ASSUME run \in [Runs -> RunRows], NEW r \in Runs, NEW k \in StepKeys, NEW s \in StepStatus, SetStep(r, k, s)
  PROVE  /\ run' \in [Runs -> RunRows] /\ \A o \in Runs \ {r} : run'[o] = run[o]
         /\ run'[r].step[k] = s /\ \A j \in StepKeys \ {k} : run'[r].step[j] = run[r].step[j]
         /\ run'[r].status = run[r].status /\ run'[r].chosen = run[r].chosen /\ run'[r].prompts = run[r].prompts
         /\ run'[r].frames = run[r].frames /\ run'[r].series = run[r].series
<1> DEFINE x == run[r]
           y == [x EXCEPT !.step = [x.step EXCEPT ![k] = s]]
<1>1. x \in RunRows
  OBVIOUS
<1>2. run' = [run EXCEPT ![r] = y]
  BY DEF SetStep
<1>3. /\ y \in RunRows /\ y.step[k] = s /\ \A j \in StepKeys \ {k} : y.step[j] = x.step[j]
      /\ y.status = x.status /\ y.chosen = x.chosen /\ y.prompts = x.prompts
      /\ y.frames = x.frames /\ y.series = x.series
  BY <1>1 DEF RunRows
<1> HIDE DEF y
<1> QED BY <1>2, <1>3, RowWritten

(* How a task that is taken leaves the queue and the workers.                 *)
Ended(m) == queue' = queue \ {m} /\ worker' = worker
Passed(m, n) ==
  /\ queue' = (queue \ {m}) \cup {n} /\ worker' = worker
  /\ n \in TaskMessages /\ n.run = m.run /\ MessageFits(n)'
AskedFor(w, m, u) ==
  /\ queue' = queue \ {m} /\ worker' = [worker EXCEPT ![w] = u]
  /\ u \in Work /\ u # Free /\ u.msg.run = m.run /\ WorkFits(u)'
Outcome(w, m) == Ended(m) \/ (\E n : Passed(m, n)) \/ (\E u : AskedFor(w, m, u))

(* A chain is passed on by one message of the same run.                       *)
LEMMA PassesOn ==
  ASSUME StudioIInv, NEW m \in queue, NEW c \in FrameIds \cup {NoFrame}, NEW t \in Tasks, FollowedBy[m.task] = t,
         Passes(m, c)
  PROVE  \E n \in TaskMessages : /\ queue' = (queue \ {m}) \cup {n} /\ worker' = worker
                                 /\ n.run = m.run /\ n.chosen = c /\ n.task = t
<1> DEFINE n == [m EXCEPT !.task = t, !.chosen = c]
<1>1. queue' = (queue \ {m}) \cup {n} /\ worker' = worker
  BY DEF Passes
<1>2. n \in TaskMessages /\ n.run = m.run /\ n.chosen = c /\ n.task = t
  <2>1. m \in TaskMessages
    BY StudioBasics
  <2> QED BY <2>1 DEF TaskMessages
<1> QED BY <1>1, <1>2

(* A worker that asks does so for the run of the task it took.                *)
LEMMA AsksOpenAI ==
  ASSUME StudioIInv, NEW w \in Workers, NEW m \in queue, NEW c \in FrameIds \cup {NoFrame}, NEW h \in Nat,
         Asks(w, m, c, h)
  PROVE  \E u \in Work : /\ queue' = queue \ {m} /\ worker' = [worker EXCEPT ![w] = u] /\ u # Free
                         /\ u.msg.run = m.run /\ u.msg.task = m.task /\ u.msg.chosen = c /\ u.had = h
<1> DEFINE n == [m EXCEPT !.chosen = c]
           u == [msg |-> n, had |-> h]
<1>1. queue' = queue \ {m} /\ worker' = [worker EXCEPT ![w] = u]
  BY DEF Asks
<1>2. n \in TaskMessages /\ n.run = m.run /\ n.chosen = c /\ n.task = m.task
  <2>1. m \in TaskMessages
    BY StudioBasics
  <2> QED BY <2>1 DEF TaskMessages
<1> HIDE DEF n
<1>3. u \in Work /\ u # Free /\ u.msg = n /\ u.had = h
  BY <1>2, WorkIsNotFree
<1> HIDE DEF u
<1> QED BY <1>1, <1>2, <1>3

(* apply_run_created                                                          *)
LEMMA RunCreatedKeeps ==
  ASSUME StudioIInv, NEW w \in Workers, NEW m \in queue, RunCreated(w, m)
  PROVE  RowKept(m.run) /\ Outcome(w, m)
<1> DEFINE r == m.run
           x == run[r]
           y == [x EXCEPT !.status = IF x.status = "created" THEN "running" ELSE x.status,
                          !.step = [k \in StepKeys |-> IF k \in MainKeys /\ x.step[k] = "absent" THEN "pending"
                                                       ELSE x.step[k]]]
<1>0. r \in Runs /\ x \in RunRows /\ run \in [Runs -> RunRows] /\ x.status # "absent" /\ m.task = "run_created"
  BY StudioBasics DEF MessageFits, RunCreated
<1>1. RowKept(r)
  <2>1. CASE x.status = "completed"
    BY <1>0, <2>1, RowUntouched DEF RunCreated
  <2>2. CASE x.status # "completed"
    <3>1. run' = [run EXCEPT ![r] = y]
      BY <1>0, <2>2 DEF RunCreated
    <3>2. y \in RunRows
      BY <1>0 DEF RunRows, RunStatus, StepStatus
    <3>3. /\ y.chosen = x.chosen /\ y.frames = x.frames /\ y.series = x.series
          /\ \A k \in ContentKeys : y.step[k] = x.step[k]
          /\ y.status = IF x.status = "created" THEN "running" ELSE x.status
      BY <1>0 DEF RunRows, StepKeys, MainKeys, ContentKeys
    <3> HIDE DEF y
    <3>4. run' \in [Runs -> RunRows] /\ run'[r] = y /\ \A s \in Runs \ {r} : run'[s] = run[s]
      BY <1>0, <3>1, <3>2, RowWritten
    <3>5. "content_images" \in ContentKeys
      BY DEF ContentKeys
    <3> QED BY <1>0, <3>3, <3>4, <3>5 DEF RowKept
  <2> QED BY <2>1, <2>2
<1>2. Outcome(w, m)
  <2>1. Passes(m, NoFrame) /\ FollowedBy[m.task] = "structure_main" /\ "structure_main" \in Tasks
    BY <1>0, Follows DEF RunCreated, AskingTasks
  <2>2. PICK n \in TaskMessages : /\ queue' = (queue \ {m}) \cup {n} /\ worker' = worker
                                  /\ n.run = m.run /\ n.chosen = NoFrame /\ n.task = "structure_main"
    BY <2>1, PassesOn
  <2>3. MessageFits(n)'
    BY <1>0, <1>1, <2>2 DEF MessageFits, RowKept, ContentTasks
  <2> QED BY <2>2, <2>3 DEF Outcome, Passed
<1> QED BY <1>1, <1>2

(* apply_structure_main_step                                                  *)
LEMMA StructureKeeps ==
  ASSUME StudioIInv, NEW w \in Workers, NEW m \in queue, StructureBegins(w, m)
  PROVE  RowKept(m.run) /\ Outcome(w, m)
<1> DEFINE r == m.run
<1>0. /\ r \in Runs /\ run \in [Runs -> RunRows] /\ run[r].status # "absent" /\ m.task = "structure_main"
      /\ MainCount > 0 /\ 0 \in Nat /\ NoFrame \in FrameIds \cup {NoFrame}
  BY StudioBasics DEF MessageFits, StructureBegins
<1>1. RowKept(r)
  <2>1. CASE UNCHANGED run
    BY <1>0, <2>1, RowUntouched
  <2>2. CASE SetStep(r, "structure_main", "running")
    <3>1. "structure_main" \in StepKeys \ ContentKeys /\ "running" \in StepStatus /\ "content_images" \in ContentKeys
          /\ ContentKeys \subseteq StepKeys
      BY DEF StepKeys, MainKeys, ContentKeys, StepStatus
    <3>2. /\ run' \in [Runs -> RunRows] /\ \A o \in Runs \ {r} : run'[o] = run[o]
          /\ \A j \in ContentKeys : run'[r].step[j] = run[r].step[j]
          /\ run'[r].status = run[r].status /\ run'[r].chosen = run[r].chosen
          /\ run'[r].frames = run[r].frames /\ run'[r].series = run[r].series
      BY <1>0, <2>2, <3>1, StepWritten
    <3> QED BY <1>0, <3>1, <3>2 DEF RowKept
  <2> QED BY <2>1, <2>2 DEF StructureBegins
<1>2. Outcome(w, m)
  <2>1. CASE Ends(m)
    BY <2>1 DEF Ends, Outcome, Ended
  <2>2. CASE Passes(m, NoFrame)
    <3>1. FollowedBy[m.task] = "images_main" /\ "images_main" \in Tasks
      BY <1>0, Follows DEF AskingTasks
    <3>2. PICK n \in TaskMessages : /\ queue' = (queue \ {m}) \cup {n} /\ worker' = worker
                                    /\ n.run = m.run /\ n.chosen = NoFrame /\ n.task = "images_main"
      BY <1>0, <2>2, <3>1, PassesOn
    <3>3. MessageFits(n)'
      BY <1>0, <1>1, <3>2 DEF MessageFits, RowKept, ContentTasks
    <3> QED BY <3>2, <3>3 DEF Outcome, Passed
  <2>3. CASE Asks(w, m, NoFrame, 0)
    <3>1. PICK u \in Work : /\ queue' = queue \ {m} /\ worker' = [worker EXCEPT ![w] = u] /\ u # Free
                            /\ u.msg.run = r /\ u.msg.task = "structure_main" /\ u.had = 0
      BY <1>0, <2>3, AsksOpenAI
    <3>2. WorkFits(u)'
      BY <1>0, <1>1, <3>1, StudioBasics DEF WorkFits, RowKept, ContentTasks, AskingTasks
    <3> QED BY <3>1, <3>2 DEF Outcome, AskedFor
  <2> QED BY <2>1, <2>2, <2>3 DEF StructureBegins
<1> QED BY <1>1, <1>2

(* apply_images_main_step: a part of the frames is wiped, all of them are not. *)
LEMMA ImagesKeep ==
  ASSUME StudioIInv, NEW w \in Workers, NEW m \in queue, ImagesBegin(w, m)
  PROVE  RowKept(m.run) /\ Outcome(w, m)
<1> DEFINE r == m.run
           x == run[r]
           left == IF x.frames < MainCount THEN 0 ELSE x.frames
           y == [x EXCEPT !.step = [x.step EXCEPT !["images_main"] = "running"], !.frames = left]
<1>0. /\ r \in Runs /\ run \in [Runs -> RunRows] /\ x \in RunRows /\ x.status # "absent" /\ m.task = "images_main"
      /\ MainCount \in Nat /\ x.frames \in Nat /\ NoFrame \in FrameIds \cup {NoFrame}
      /\ MainCount > 0
  BY StudioBasics DEF MessageFits, ImagesBegin, RunRows
<1>1. CASE AllFrames(x) /\ Passes(m, NoFrame) /\ UNCHANGED run
  <2>1. RowKept(r)
    BY <1>0, <1>1, RowUntouched
  <2>2. FollowedBy[m.task] = "step_done" /\ "step_done" \in Tasks
    BY <1>0, Follows
  <2>3. PICK n \in TaskMessages : /\ queue' = (queue \ {m}) \cup {n} /\ worker' = worker
                                  /\ n.run = m.run /\ n.chosen = NoFrame /\ n.task = "step_done"
    BY <1>0, <1>1, <2>2, PassesOn
  <2>4. MessageFits(n)'
    BY <1>0, <1>1, <2>3 DEF MessageFits, ContentTasks, AllFrames
  <2> QED BY <2>1, <2>3, <2>4 DEF Outcome, Passed
<1>2. CASE Ends(m) /\ UNCHANGED run
  BY <1>0, <1>2, RowUntouched DEF Ends, Outcome, Ended
<1>3. CASE /\ run' = [run EXCEPT ![m.run].step["images_main"] = "running", ![m.run].frames = left]
           /\ Asks(w, m, NoFrame, left)
  <2>1. run' = [run EXCEPT ![r] = y]
    BY <1>0, <1>3
  <2>2. left \in Nat /\ (left >= MainCount => left = x.frames) /\ (x.frames >= MainCount => left >= MainCount)
    BY <1>0
  <2> HIDE DEF left
  <2>3. "images_main" \in StepKeys \ ContentKeys /\ "running" \in StepStatus /\ "content_images" \in ContentKeys
        /\ ContentKeys \subseteq StepKeys
    BY DEF StepKeys, MainKeys, ContentKeys, StepStatus
  <2>4. /\ y \in RunRows /\ y.chosen = x.chosen /\ y.frames = left /\ y.series = x.series /\ y.status = x.status
        /\ \A k \in ContentKeys : y.step[k] = x.step[k]
    BY <1>0, <2>2, <2>3 DEF RunRows
  <2> HIDE DEF y
  <2>5. run' \in [Runs -> RunRows] /\ run'[r] = y /\ \A s \in Runs \ {r} : run'[s] = run[s]
    BY <1>0, <2>1, <2>4, RowWritten
  <2>6. RowKept(r)
    BY <1>0, <2>2, <2>3, <2>4, <2>5 DEF RowKept
  <2>7. PICK u \in Work : /\ queue' = queue \ {m} /\ worker' = [worker EXCEPT ![w] = u] /\ u # Free
                          /\ u.msg.run = r /\ u.msg.task = "images_main" /\ u.had = left
    BY <1>0, <1>3, <2>2, AsksOpenAI
  <2>8. WorkFits(u)'
    BY <1>0, <2>2, <2>4, <2>5, <2>7 DEF WorkFits, ContentTasks, AskingTasks
  <2> QED BY <2>6, <2>7, <2>8 DEF Outcome, AskedFor
<1> QED BY <1>1, <1>2, <1>3 DEF ImagesBegin

(* apply_step_done: the run that is completed has its frames.                 *)
LEMMA StepDoneKeeps ==
  ASSUME StudioIInv, NEW w \in Workers, NEW m \in queue, StepDone(w, m)
  PROVE  RowKept(m.run) /\ Outcome(w, m)
<1> DEFINE r == m.run
           x == run[r]
           y == [x EXCEPT !.step = [x.step EXCEPT !["pg32_stub"] = "done"], !.status = "completed"]
<1>0. /\ r \in Runs /\ run \in [Runs -> RunRows] /\ x \in RunRows /\ x.status # "absent" /\ x.frames >= MainCount
  BY StudioBasics DEF MessageFits, StepDone
<1>1. run' = [run EXCEPT ![r] = y]
  BY <1>0 DEF StepDone
<1>2. "pg32_stub" \in StepKeys \ ContentKeys /\ "done" \in StepStatus /\ "content_images" \in ContentKeys
      /\ ContentKeys \subseteq StepKeys /\ "completed" \in RunStatus
  BY DEF StepKeys, MainKeys, ContentKeys, StepStatus, RunStatus
<1>3. /\ y \in RunRows /\ y.chosen = x.chosen /\ y.frames = x.frames /\ y.series = x.series /\ y.status = "completed"
      /\ \A k \in ContentKeys : y.step[k] = x.step[k]
  BY <1>0, <1>2 DEF RunRows
<1> HIDE DEF y
<1>4. run' \in [Runs -> RunRows] /\ run'[r] = y /\ \A s \in Runs \ {r} : run'[s] = run[s]
  BY <1>0, <1>1, <1>3, RowWritten
<1>5. RowKept(r)
  BY <1>0, <1>2, <1>3, <1>4 DEF RowKept
<1>6. Outcome(w, m)
  BY DEF StepDone, Ends, Outcome, Ended
<1> QED BY <1>5, <1>6

(* apply_content_structure_step: the answer will be about the chosen frame.   *)
LEMMA ContentStructureKeeps ==
  ASSUME StudioIInv, NEW w \in Workers, NEW m \in queue, ContentStructureBegins(w, m), UNCHANGED overtaken
  PROVE  RowKept(m.run) /\ Outcome(w, m)
<1> DEFINE r == m.run
           x == run[r]
<1>0. /\ r \in Runs /\ run \in [Runs -> RunRows] /\ x.status # "absent" /\ m.task = "content_structure"
      /\ x.frames >= MainCount /\ x.chosen \in FrameIds /\ 0 \in Nat
  BY StudioBasics DEF MessageFits, ContentStructureBegins, ContentTasks
<1>1. CASE Passes(m, x.chosen) /\ UNCHANGED run
  <2>1. RowKept(r)
    BY <1>0, <1>1, RowUntouched
  <2>2. FollowedBy[m.task] = "content_images" /\ "content_images" \in Tasks
    BY <1>0, Follows DEF AskingTasks
  <2>3. PICK n \in TaskMessages : /\ queue' = (queue \ {m}) \cup {n} /\ worker' = worker
                                  /\ n.run = m.run /\ n.chosen = x.chosen /\ n.task = "content_images"
    BY <1>0, <1>1, <2>2, PassesOn
  <2>4. MessageFits(n)'
    BY <1>0, <1>1, <2>3 DEF MessageFits, ContentTasks
  <2> QED BY <2>1, <2>3, <2>4 DEF Outcome, Passed
<1>2. CASE Ends(m) /\ UNCHANGED run
  BY <1>0, <1>2, RowUntouched DEF Ends, Outcome, Ended
<1>3. CASE SetStep(r, "content_structure", "running") /\ Asks(w, m, x.chosen, 0)
  <2>1. "content_structure" \in ContentKeys /\ "running" \in StepStatus
        /\ "content_images" \in ContentKeys \ {"content_structure"} /\ ContentKeys \subseteq StepKeys
    BY DEF StepKeys, ContentKeys, StepStatus
  <2>2. /\ run' \in [Runs -> RunRows] /\ \A o \in Runs \ {r} : run'[o] = run[o]
        /\ run'[r].step["content_images"] = run[r].step["content_images"]
        /\ run'[r].status = run[r].status /\ run'[r].chosen = run[r].chosen
        /\ run'[r].frames = run[r].frames /\ run'[r].series = run[r].series
    BY <1>0, <1>3, <2>1, StepWritten
  <2>3. RowKept(r)
    BY <1>0, <2>2 DEF RowKept
  <2>4. PICK u \in Work : /\ queue' = queue \ {m} /\ worker' = [worker EXCEPT ![w] = u] /\ u # Free
                          /\ u.msg.run = r /\ u.msg.task = "content_structure" /\ u.msg.chosen = x.chosen
    BY <1>0, <1>3, AsksOpenAI
  <2>5. WorkFits(u)'
    BY <1>0, <2>2, <2>4 DEF WorkFits, ContentTasks, AskingTasks
  <2> QED BY <2>3, <2>4, <2>5 DEF Outcome, AskedFor
<1> QED BY <1>1, <1>2, <1>3 DEF ContentStructureBegins

(* apply_content_images_step: what was made before is wiped before the call.  *)
LEMMA ContentImagesKeep ==
  ASSUME StudioIInv, NEW w \in Workers, NEW m \in queue, ContentImagesBegin(w, m), UNCHANGED overtaken
  PROVE  RowKept(m.run) /\ Outcome(w, m)
<1> DEFINE r == m.run
           x == run[r]
           y == [x EXCEPT !.step = [x.step EXCEPT !["content_images"] = "running"],
                          !.series = [g \in FrameIds |-> 0]]
<1>0. /\ r \in Runs /\ run \in [Runs -> RunRows] /\ x \in RunRows /\ x.status # "absent" /\ m.task = "content_images"
      /\ x.frames >= MainCount /\ x.chosen \in FrameIds /\ m.chosen \in FrameIds
      /\ (r \in overtaken \/ m.chosen = x.chosen) /\ 0 \in Nat
  BY StudioBasics DEF MessageFits, ContentImagesBegin, ContentTasks
<1>1. CASE Passes(m, m.chosen) /\ UNCHANGED run
  <2>1. RowKept(r)
    BY <1>0, <1>1, RowUntouched
  <2>2. FollowedBy[m.task] = "content_done" /\ "content_done" \in Tasks
    BY <1>0, Follows
  <2>3. PICK n \in TaskMessages : /\ queue' = (queue \ {m}) \cup {n} /\ worker' = worker
                                  /\ n.run = m.run /\ n.task = "content_done"
    BY <1>0, <1>1, <2>2, PassesOn
  <2>4. MessageFits(n)'
    BY <1>0, <1>1, <2>3 DEF MessageFits, ContentTasks
  <2> QED BY <2>1, <2>3, <2>4 DEF Outcome, Passed
<1>2. CASE Ends(m) /\ UNCHANGED run
  BY <1>0, <1>2, RowUntouched DEF Ends, Outcome, Ended
<1>3. CASE /\ run' = [run EXCEPT ![m.run].step["content_images"] = "running", ![m.run].series = Wiped(@, m.chosen)]
           /\ Asks(w, m, m.chosen, 0)
  <2>1. run' = [run EXCEPT ![r] = y]
    BY <1>0, <1>3 DEF Wiped
  <2>2. "content_images" \in ContentKeys /\ "running" \in StepStatus /\ ContentKeys \subseteq StepKeys
    BY DEF StepKeys, ContentKeys, StepStatus
  <2>3. /\ y \in RunRows /\ y.chosen = x.chosen /\ y.frames = x.frames /\ y.status = x.status
        /\ y.step["content_images"] = "running" /\ \A f \in FrameIds : y.series[f] = 0
    BY <1>0, <2>2 DEF RunRows
  <2> HIDE DEF y
  <2>4. run' \in [Runs -> RunRows] /\ run'[r] = y /\ \A s \in Runs \ {r} : run'[s] = run[s]
    BY <1>0, <2>1, <2>3, RowWritten
  <2>5. RowKept(r)
    BY <1>0, <2>3, <2>4 DEF RowKept
  <2>6. PICK u \in Work : /\ queue' = queue \ {m} /\ worker' = [worker EXCEPT ![w] = u] /\ u # Free
                          /\ u.msg.run = r /\ u.msg.task = "content_images" /\ u.msg.chosen = m.chosen
    BY <1>0, <1>3, AsksOpenAI
  <2>7. WorkFits(u)'
    BY <1>0, <2>3, <2>4, <2>6 DEF WorkFits, ContentTasks, AskingTasks
  <2> QED BY <2>5, <2>6, <2>7 DEF Outcome, AskedFor
<1> QED BY <1>1, <1>2, <1>3 DEF ContentImagesBegin

(* apply_content_done                                                         *)
LEMMA ContentDoneKeeps ==
  ASSUME StudioIInv, NEW w \in Workers, NEW m \in queue, ContentDone(w, m)
  PROVE  RowKept(m.run) /\ Outcome(w, m)
<1> DEFINE r == m.run
           x == run[r]
           y == [x EXCEPT !.status = "completed"]
<1>0. /\ r \in Runs /\ run \in [Runs -> RunRows] /\ x \in RunRows /\ x.status # "absent" /\ x.frames >= MainCount
  BY StudioBasics DEF MessageFits, ContentDone, ContentTasks
<1>1. RowKept(r)
  <2>1. CASE UNCHANGED run
    BY <1>0, <2>1, RowUntouched
  <2>2. CASE run' = [run EXCEPT ![r].status = "completed"]
    <3>1. run' = [run EXCEPT ![r] = y]
      BY <2>2
    <3>2. y \in RunRows /\ y.status = "completed" /\ y.chosen = x.chosen /\ y.frames = x.frames
          /\ y.series = x.series /\ y.step = x.step
      BY <1>0 DEF RunRows, RunStatus
    <3> HIDE DEF y
    <3>3. run' \in [Runs -> RunRows] /\ run'[r] = y /\ \A s \in Runs \ {r} : run'[s] = run[s]
      BY <1>0, <3>1, <3>2, RowWritten
    <3> QED BY <1>0, <3>2, <3>3 DEF RowKept
  <2> QED BY <2>1, <2>2 DEF ContentDone
<1>2. Outcome(w, m)
  BY DEF ContentDone, Ends, Outcome, Ended
<1> QED BY <1>1, <1>2

(* The answer of OpenAI is written, and the chain goes on.                    *)
LEMMA AnswerKeeps ==
  ASSUME StudioIInv, NEW w \in Workers, Succeeds(w)
  PROVE  /\ RowKept(worker[w].msg.run)
         /\ \E n \in TaskMessages : queue' = queue \cup {n} /\ n.run = worker[w].msg.run /\ MessageFits(n)'
<1> DEFINE u == worker[w]
           m == u.msg
           r == m.run
           x == run[r]
           t == FollowedBy[m.task]
           follows == [m EXCEPT !.task = t]
           z == Answered(x, m, u.had)
           y == [z EXCEPT !.step = [z.step EXCEPT ![m.task] = "done"]]
<1>0. /\ m \in TaskMessages /\ r \in Runs /\ x \in RunRows /\ run \in [Runs -> RunRows] /\ u.had \in Nat
      /\ m.task \in AskingTasks /\ WorkFits(u) /\ x.status # "absent"
      /\ MainCount \in Nat /\ MainCount > 0 /\ SeriesCount \in Nat
      /\ UNCHANGED overtaken
  BY StudioBasics DEF Succeeds, WorkFits, backend, studioHistory
<1>1. queue' = queue \cup {follows} /\ run' = [run EXCEPT ![r] = y]
  BY DEF Succeeds
<1>2. m.task \in StepKeys /\ "done" \in StepStatus /\ t \in Tasks
  BY <1>0, Follows DEF AskingTasks, StepStatus
<1>3. PICK n \in TaskMessages : queue' = queue \cup {n} /\ n.run = r /\ n.task = t /\ n.chosen = m.chosen
  <2>1. follows \in TaskMessages /\ follows.run = r /\ follows.task = t /\ follows.chosen = m.chosen
    BY <1>0, <1>2 DEF TaskMessages
  <2> HIDE DEF follows
  <2> QED BY <1>1, <2>1
<1>4. /\ "content_images" \in ContentKeys /\ "content_structure" \in ContentKeys /\ ContentKeys \subseteq StepKeys
      /\ ContentKeys = {"content_structure", "content_images"}
      /\ "structure_main" \notin ContentKeys /\ "images_main" \notin ContentKeys
  BY DEF StepKeys, ContentKeys
<1> SUFFICES RowKept(r) /\ MessageFits(n)'
  BY <1>3
<1>5. CASE m.task = "structure_main"
  <2>1. y = [x EXCEPT !.step = [x.step EXCEPT ![m.task] = "done"]]
    BY <1>5 DEF Answered
  <2> HIDE DEF y, z
  <2>2. /\ y \in RunRows /\ y.status = x.status /\ y.chosen = x.chosen /\ y.frames = x.frames /\ y.series = x.series
        /\ \A k \in ContentKeys : y.step[k] = x.step[k]
    BY <1>0, <1>2, <1>4, <1>5, <2>1 DEF RunRows
  <2>3. run' \in [Runs -> RunRows] /\ run'[r] = y /\ \A s \in Runs \ {r} : run'[s] = run[s]
    BY <1>0, <1>1, <2>2, RowWritten
  <2>4. RowKept(r)
    BY <1>0, <1>4, <2>2, <2>3 DEF RowKept
  <2>5. t = "images_main"
    BY <1>5, Follows
  <2> HIDE DEF t
  <2>6. MessageFits(n)'
    BY <1>0, <1>3, <2>2, <2>3, <2>5 DEF MessageFits, ContentTasks
  <2> QED BY <2>4, <2>6
<1>6. CASE m.task = "images_main"
  <2> DEFINE more == IF u.had < MainCount THEN x.frames + MainCount ELSE x.frames
  <2>1. y = [x EXCEPT !.step = [x.step EXCEPT ![m.task] = "done"], !.frames = more]
    BY <1>0, <1>6 DEF Answered, RunRows
  <2> HIDE DEF y, z
  <2>2. more \in Nat /\ more >= MainCount
    <3>1. u.had >= MainCount => x.frames >= MainCount
      BY <1>0 DEF WorkFits
    <3>2. x.frames \in Nat
      BY <1>0 DEF RunRows
    <3> QED BY <1>0, <3>1, <3>2
  <2> HIDE DEF more
  <2>3. /\ y \in RunRows /\ y.status = x.status /\ y.chosen = x.chosen /\ y.frames = more /\ y.series = x.series
        /\ \A k \in ContentKeys : y.step[k] = x.step[k]
    BY <1>0, <1>2, <1>4, <1>6, <2>1, <2>2 DEF RunRows
  <2>4. run' \in [Runs -> RunRows] /\ run'[r] = y /\ \A s \in Runs \ {r} : run'[s] = run[s]
    BY <1>0, <1>1, <2>3, RowWritten
  <2>5. RowKept(r)
    BY <1>0, <1>4, <2>2, <2>3, <2>4 DEF RowKept
  <2>6. t = "step_done"
    BY <1>6, Follows
  <2> HIDE DEF t
  <2>7. MessageFits(n)'
    BY <1>0, <1>3, <2>2, <2>3, <2>4, <2>6 DEF MessageFits, ContentTasks
  <2> QED BY <2>5, <2>7
<1>7. CASE m.task = "content_structure"
  <2>1. y = [x EXCEPT !.step = [x.step EXCEPT ![m.task] = "done"], !.prompts = m.chosen]
    BY <1>0, <1>7 DEF Answered, RunRows
  <2> HIDE DEF y, z
  <2>2. x.frames >= MainCount /\ m.chosen \in FrameIds /\ x.chosen \in FrameIds /\ (r \in overtaken \/ m.chosen = x.chosen)
    BY <1>0, <1>7 DEF WorkFits, ContentTasks
  <2>3. /\ y \in RunRows /\ y.status = x.status /\ y.chosen = x.chosen /\ y.frames = x.frames /\ y.series = x.series
        /\ y.step["content_images"] = x.step["content_images"]
    BY <1>0, <1>2, <1>4, <1>7, <2>1, <2>2 DEF RunRows
  <2>4. run' \in [Runs -> RunRows] /\ run'[r] = y /\ \A s \in Runs \ {r} : run'[s] = run[s]
    BY <1>0, <1>1, <2>3, RowWritten
  <2>5. RowKept(r)
    BY <1>0, <1>4, <2>2, <2>3, <2>4 DEF RowKept
  <2>6. t = "content_images"
    BY <1>7, Follows
  <2> HIDE DEF t
  <2>7. MessageFits(n)'
    BY <1>0, <1>3, <2>2, <2>3, <2>4, <2>6 DEF MessageFits, ContentTasks
  <2> QED BY <2>5, <2>7
<1>8. CASE m.task = "content_images"
  <2> DEFINE more == [x.series EXCEPT ![m.chosen] = x.series[m.chosen] + SeriesCount]
  <2>1. y = [x EXCEPT !.step = [x.step EXCEPT ![m.task] = "done"], !.series = more]
    BY <1>0, <1>8 DEF Answered, RunRows
  <2> HIDE DEF y, z
  <2>2. x.frames >= MainCount /\ m.chosen \in FrameIds /\ x.chosen \in FrameIds /\ (r \in overtaken \/ m.chosen = x.chosen)
    BY <1>0, <1>8 DEF WorkFits, ContentTasks
  <2>3. /\ more \in [FrameIds -> Nat]
        /\ r \in overtaken \/ \A f \in FrameIds : more[f] = IF f = x.chosen THEN SeriesCount ELSE 0
    <3>1. x.series \in [FrameIds -> Nat]
      BY <1>0 DEF RunRows
    <3>2. r \in overtaken \/ \A f \in FrameIds : x.series[f] = 0
      BY <1>0, <1>8 DEF WorkFits
    <3> QED BY <1>0, <2>2, <3>1, <3>2
  <2> HIDE DEF more
  <2>4. /\ y \in RunRows /\ y.status = x.status /\ y.chosen = x.chosen /\ y.frames = x.frames /\ y.series = more
    BY <1>0, <1>2, <1>4, <1>8, <2>1, <2>3 DEF RunRows
  <2>5. run' \in [Runs -> RunRows] /\ run'[r] = y /\ \A s \in Runs \ {r} : run'[s] = run[s]
    BY <1>0, <1>1, <2>4, RowWritten
  <2>6. RowKept(r)
    BY <1>0, <1>4, <2>2, <2>3, <2>4, <2>5 DEF RowKept
  <2>7. t = "content_done"
    BY <1>8, Follows
  <2> HIDE DEF t
  <2>8. MessageFits(n)'
    BY <1>0, <1>3, <2>2, <2>4, <2>5, <2>7 DEF MessageFits, ContentTasks
  <2> QED BY <2>6, <2>8
<1> QED BY <1>0, <1>5, <1>6, <1>7, <1>8 DEF AskingTasks

(* OpenAI refuses: what was made before is kept, and the run has failed.      *)
LEMMA FailureKeeps ==
  ASSUME StudioIInv, NEW w \in Workers, OpenAIFails(w)
  PROVE  RowKept(worker[w].msg.run)
<1> DEFINE u == worker[w]
           m == u.msg
           r == m.run
           x == run[r]
<1>0. /\ m \in TaskMessages /\ r \in Runs /\ x \in RunRows /\ run \in [Runs -> RunRows] /\ u.had \in Nat
      /\ m.task \in AskingTasks /\ WorkFits(u) /\ x.status # "absent"
      /\ MainCount \in Nat \ {0} /\ SeriesCount \in Nat \ {0}
  BY StudioBasics DEF OpenAIFails, WorkFits
<1>1. PICK n \in MayBeMade(m.task, u.had) :
        run' = [run EXCEPT ![r] = [Partly(x, m, n) EXCEPT !.step[m.task] = "failed", !.status = "failed"]]
  BY DEF OpenAIFails
<1>2. n \in Nat
  BY <1>0, <1>1 DEF MayBeMade
<1> DEFINE z == Partly(x, m, n)
           y == [z EXCEPT !.step = [z.step EXCEPT ![m.task] = "failed"], !.status = "failed"]
<1>3. /\ z \in RunRows /\ z.step = x.step /\ z.chosen = x.chosen /\ z.frames >= x.frames /\ x.frames \in Nat
      /\ m.task # "content_images" => z.series = x.series
  <2>1. x.frames \in Nat /\ x.frames + n \in Nat /\ x.frames + n >= x.frames
    BY <1>0, <1>2 DEF RunRows
  <2>2. CASE m.task = "images_main"
    <3>1. z = [x EXCEPT !.frames = x.frames + n]
      BY <1>0, <2>2 DEF Partly, RunRows
    <3> HIDE DEF z
    <3> QED BY <1>0, <2>1, <3>1 DEF RunRows
  <2>3. CASE m.task = "content_images"
    <3> DEFINE more == [x.series EXCEPT ![m.chosen] = x.series[m.chosen] + n]
    <3>1. more \in [FrameIds -> Nat]
      <4>1. x.series \in [FrameIds -> Nat] /\ m.chosen \in FrameIds
        BY <1>0, <2>3 DEF RunRows, WorkFits, ContentTasks
      <4> QED BY <1>2, <4>1
    <3>2. z = [x EXCEPT !.series = more]
      BY <1>0, <2>3 DEF Partly, RunRows
    <3> HIDE DEF z, more
    <3> QED BY <1>0, <2>1, <2>3, <3>1, <3>2 DEF RunRows
  <2>4. CASE m.task \notin {"images_main", "content_images"}
    <3>1. z = x
      BY <2>4 DEF Partly
    <3> HIDE DEF z
    <3> QED BY <1>0, <2>1, <3>1
  <2> QED BY <2>2, <2>3, <2>4
<1>4. run' = [run EXCEPT ![r] = y]
  BY <1>1
<1>5. m.task \in StepKeys /\ "failed" \in StepStatus /\ "failed" \in RunStatus
  BY <1>0, Follows DEF AskingTasks, StepStatus, RunStatus
<1> HIDE DEF z
<1>6. /\ y \in RunRows /\ y.chosen = x.chosen /\ y.frames = z.frames /\ y.series = z.series /\ y.status = "failed"
      /\ \A k \in StepKeys \ {m.task} : y.step[k] = x.step[k]
      /\ y.step[m.task] = "failed"
  BY <1>3, <1>5 DEF RunRows
<1> HIDE DEF y
<1>7. run' \in [Runs -> RunRows] /\ run'[r] = y /\ \A s \in Runs \ {r} : run'[s] = run[s]
  BY <1>0, <1>4, <1>6, RowWritten
<1>8. m.task \in ContentKeys => x.frames >= MainCount
  BY <1>0 DEF WorkFits, ContentTasks, ContentKeys
<1>9. ContentKeys \subseteq StepKeys /\ "content_images" \in ContentKeys
  BY DEF StepKeys, ContentKeys
<1>10. x.frames >= MainCount => y.frames >= MainCount
  BY <1>0, <1>3, <1>6 DEF RunRows
<1> QED BY <1>0, <1>3, <1>6, <1>7, <1>8, <1>9, <1>10 DEF RowKept

(* What is true of the runs stays true when a run is kept.                    *)
LEMMA RowsKept ==
  ASSUME StudioIInv, NEW r \in Runs, RowKept(r), overtaken \subseteq overtaken'
  PROVE  /\ CompletedHasFrames' /\ SeriesIsWhole' /\ RunsAreNumbered' /\ SeriesHasFrames'
         /\ \A s \in Runs : /\ run'[s].status = "absent" <=> run[s].status = "absent"
                            /\ run'[s].chosen = run[s].chosen
                            /\ run[s].frames >= MainCount => run'[s].frames >= MainCount
                            /\ run'[s].status \in {"created", "running"} => run[s].status \in {"created", "running"}
<1>0. /\ CompletedHasFrames /\ SeriesIsWhole /\ RunsAreNumbered /\ SeriesHasFrames
      /\ run \in [Runs -> RunRows]
  BY StudioBasics DEF StudioIInv, StudioInv
<1>1. \A s \in Runs : /\ run'[s].status = "absent" <=> run[s].status = "absent"
                      /\ run'[s].chosen = run[s].chosen
                      /\ run[s].frames >= MainCount => run'[s].frames >= MainCount
                      /\ run'[s].status \in {"created", "running"} => run[s].status \in {"created", "running"}
  BY DEF RowKept
<1>2. CompletedHasFrames'
  BY <1>0 DEF RowKept, CompletedHasFrames
<1>3. SeriesIsWhole'
  <2> SUFFICES ASSUME NEW s \in Runs, s \notin overtaken', run'[s].step["content_images"] = "done", NEW f \in FrameIds
               PROVE  run'[s].series[f] = IF f = run'[s].chosen THEN SeriesCount ELSE 0
    BY DEF SeriesIsWhole
  <2>1. s \notin overtaken
    OBVIOUS
  <2>2. CASE s # r
    BY <1>0, <2>1, <2>2 DEF RowKept, SeriesIsWhole
  <2>3. CASE s = r
    <3>1. CASE run[r].step["content_images"] = "done" /\ run'[r].series = run[r].series
      <4>1. run[r].series[f] = IF f = run[r].chosen THEN SeriesCount ELSE 0
        BY <1>0, <2>1, <2>3, <3>1 DEF SeriesIsWhole
      <4> QED BY <1>1, <2>3, <3>1, <4>1
    <3>2. CASE \A g \in FrameIds : run'[r].series[g] = IF g = run'[r].chosen THEN SeriesCount ELSE 0
      BY <2>3, <3>2
    <3> QED BY <2>1, <2>3, <3>1, <3>2 DEF RowKept
  <2> QED BY <2>2, <2>3
<1>4. RunsAreNumbered'
  BY <1>0, <1>1 DEF RunsAreNumbered
<1>5. SeriesHasFrames'
  BY <1>0, <1>1 DEF RowKept, SeriesHasFrames
<1> QED BY <1>1, <1>2, <1>3, <1>4, <1>5

(* Tasks that are under way still fit, but those of a series the run of which *)
(* another task may have changed.                                             *)
LEMMA OldTasksFit ==
  ASSUME StudioIInv, NEW r \in Runs, RowKept(r), overtaken \subseteq overtaken'
  PROVE  /\ \A m \in queue : MessageFits(m)'
         /\ \A u \in Work : WorkFits(u) /\ (u.msg.run # r \/ r \in overtaken' \/ u.msg.task # "content_images")
                              => WorkFits(u)'
<1>1. \A s \in Runs : /\ run'[s].status = "absent" <=> run[s].status = "absent"
                      /\ run'[s].chosen = run[s].chosen
                      /\ run[s].frames >= MainCount => run'[s].frames >= MainCount
  BY RowsKept
<1>2. \A m \in queue : MessageFits(m)'
  BY <1>1, StudioBasics DEF MessageFits
<1>3. ASSUME NEW u \in Work, WorkFits(u), u.msg.run # r \/ r \in overtaken' \/ u.msg.task # "content_images"
      PROVE  WorkFits(u)'
  <2>1. u.msg.run \in Runs
    BY DEF Work, TaskMessages
  <2>2. u.msg.task = "content_images" /\ u.msg.run \notin overtaken' =>
          \A f \in FrameIds : run'[u.msg.run].series[f] = 0
    BY <1>3, <2>1 DEF WorkFits, RowKept
  <2> QED BY <1>1, <1>3, <2>1, <2>2 DEF WorkFits
<1> QED BY <1>2, <1>3

(* What a request is about.                                                   *)
LEMMA ClickShapes ==
  ASSUME StudioIInv
  PROVE  /\ job \in JobRows /\ (job.run = 0 \/ job.run \in Runs) /\ 0 \notin Runs /\ NoClick.pc = "none"
         /\ click \in [Clicks -> ClickRows \cup {NoClick}]
         /\ \A c \in Clicks : click[c] # NoClick =>
               /\ click[c] \in ClickRows /\ RequestKnows(c)
               /\ click[c].run = 0 \/ click[c].run \in Runs
               /\ click[c].made = 0 \/ click[c].made \in Runs
         /\ \A c \in Clicks : click[c].pc # "none" => click[c] # NoClick
<1>1. job \in JobRows /\ click \in [Clicks -> ClickRows \cup {NoClick}] /\ NoClick.pc = "none"
  BY DEF StudioIInv, StudioInv, StudioTypeOK, NoClick
<1>2. (job.run = 0 \/ job.run \in Runs) /\ 0 \notin Runs
  <2>1. 0 \notin 1..Cardinality(Runs)
    BY StudioAssumption, FS_CardinalityType
  <2> QED BY <1>1, <2>1, StudioAssumption DEF JobRows
<1>3. \A c \in Clicks : click[c] # NoClick =>
        /\ click[c] \in ClickRows /\ RequestKnows(c)
        /\ click[c].run = 0 \/ click[c].run \in Runs
        /\ click[c].made = 0 \/ click[c].made \in Runs
  <2> SUFFICES ASSUME NEW c \in Clicks, click[c] # NoClick
               PROVE  /\ click[c] \in ClickRows /\ RequestKnows(c)
                      /\ click[c].run = 0 \/ click[c].run \in Runs
                      /\ click[c].made = 0 \/ click[c].made \in Runs
    OBVIOUS
  <2>1. click[c] \in ClickRows /\ RequestKnows(c)
    BY <1>1 DEF StudioIInv, JobKnowsItsRun
  <2> QED BY <2>1 DEF ClickRows
<1> QED BY <1>1, <1>2, <1>3

(* The job and what was read of it, when no row of a run begins or goes.      *)
LEMMA JobIsKept ==
  ASSUME StudioIInv, UNCHANGED <<job, click>>, orphaned \subseteq orphaned',
         \A s \in Runs : /\ run'[s].status = "absent" <=> run[s].status = "absent"
                         /\ run'[s].status \in {"created", "running"} => run[s].status \in {"created", "running"}
  PROVE  JobKnowsItsRun' /\ OneLiveRun'
<1>1. ASSUME NEW c \in Clicks, click[c] # NoClick PROVE RequestKnows(c)'
  BY <1>1, ClickShapes DEF RequestKnows, Live
<1>2. OneLiveRun'
  BY DEF StudioIInv, StudioInv, OneLiveRun
<1> QED BY <1>1, <1>2, ClickShapes DEF StudioIInv, JobKnowsItsRun

(* A task that was taken leaves everything in order.                          *)
LEMMA TaskGoes ==
  ASSUME StudioIInv, NEW w \in Workers, NEW m \in queue, worker[w] = Free, UNCHANGED backend,
         RowKept(m.run), Outcome(w, m)
  PROVE  StudioIInv'
<1> DEFINE r == m.run
<1>0. /\ StudioTypeOK /\ r \in Runs /\ run' \in [Runs -> RunRows] /\ worker \in [Workers -> {Free} \cup Work]
      /\ queue \subseteq TaskMessages /\ OneTaskPerRun
      /\ UNCHANGED <<job, click, chains, stops, studioFaults, stopped, overtaken, orphaned>>
  BY StudioBasics DEF RowKept, backend, bounds, studioHistory, StudioIInv
<1>1. \A v \in Workers : r \notin overtaken => ~AsksFor(v, r)
  BY <1>0 DEF OneTaskPerRun
<1>2. \A v \in Workers : worker[v] # Free => worker[v] \in Work /\ WorkFits(worker[v]) /\ worker[v].msg.run \in Runs
  BY StudioBasics
<1>3. \A k \in queue : MessageFits(k)'
  BY <1>0, OldTasksFit
<1>4. ASSUME NEW u \in Work, NEW v \in Workers, worker[v] = u, u # Free PROVE WorkFits(u)'
  <2>1. WorkFits(u) /\ (u.msg.run # r \/ r \in overtaken)
    BY <1>1, <1>2, <1>4 DEF AsksFor
  <2> QED BY <1>0, <2>1, OldTasksFit
<1>5. TasksFit' /\ OneTaskPerRun' /\ queue' \subseteq TaskMessages /\ worker' \in [Workers -> {Free} \cup Work]
  <2>1. CASE Ended(m)
    <3>1. TasksFit'
      BY <1>2, <1>3, <1>4, <2>1 DEF Ended, TasksFit
    <3>2. OneTaskPerRun'
      BY <1>0, <2>1 DEF Ended, OneTaskPerRun, AsksFor
    <3> QED BY <1>0, <2>1, <3>1, <3>2 DEF Ended
  <2>2. ASSUME NEW n, Passed(m, n)
        PROVE  TasksFit' /\ OneTaskPerRun' /\ queue' \subseteq TaskMessages /\ worker' \in [Workers -> {Free} \cup Work]
    <3>1. TasksFit'
      BY <1>2, <1>3, <1>4, <2>2 DEF Passed, TasksFit
    <3>2. OneTaskPerRun'
      BY <1>0, <2>2 DEF Passed, OneTaskPerRun, AsksFor
    <3> QED BY <1>0, <2>2, <3>1, <3>2 DEF Passed
  <2>3. ASSUME NEW u, AskedFor(w, m, u)
        PROVE  TasksFit' /\ OneTaskPerRun' /\ queue' \subseteq TaskMessages /\ worker' \in [Workers -> {Free} \cup Work]
    <3>0. worker' \in [Workers -> {Free} \cup Work] /\ worker'[w] = u /\ \A v \in Workers \ {w} : worker'[v] = worker[v]
      BY <1>0, <2>3 DEF AskedFor
    <3>1. TasksFit'
      BY <1>2, <1>3, <1>4, <2>3, <3>0 DEF AskedFor, TasksFit
    <3>2. OneTaskPerRun'
      BY <1>0, <2>3, <3>0 DEF AskedFor, OneTaskPerRun, AsksFor
    <3> QED BY <1>0, <2>3, <3>0, <3>1, <3>2 DEF AskedFor
  <2> QED BY <2>1, <2>2, <2>3 DEF Outcome
<1>6. StudioTypeOK'
  BY <1>0, <1>5 DEF StudioTypeOK, Work
<1>7. /\ CompletedHasFrames' /\ SeriesIsWhole' /\ RunsAreNumbered' /\ SeriesHasFrames'
      /\ \A s \in Runs : /\ run'[s].status = "absent" <=> run[s].status = "absent"
                         /\ run'[s].status \in {"created", "running"} => run[s].status \in {"created", "running"}
  BY <1>0, RowsKept
<1>8. JobKnowsItsRun' /\ OneLiveRun'
  BY <1>0, <1>7, JobIsKept
<1> QED BY <1>5, <1>6, <1>7, <1>8 DEF StudioIInv, StudioInv

(* A worker that is done leaves everything in order, and may pass a task on.  *)
LEMMA WorkEnds ==
  ASSUME StudioIInv, NEW w \in Workers, worker[w] # Free, IsFree(w), RowKept(worker[w].msg.run),
         \/ UNCHANGED queue
         \/ \E n \in TaskMessages : queue' = queue \cup {n} /\ n.run = worker[w].msg.run /\ MessageFits(n)',
         UNCHANGED <<job, click, chains, stops, stopped, overtaken, orphaned>>, studioFaults' \in 0..StudioFaults
  PROVE  StudioIInv'
<1> DEFINE r == worker[w].msg.run
<1>0. /\ StudioTypeOK /\ r \in Runs /\ run' \in [Runs -> RunRows] /\ worker \in [Workers -> {Free} \cup Work]
      /\ queue \subseteq TaskMessages /\ OneTaskPerRun /\ AsksFor(w, r)
      /\ worker' = [worker EXCEPT ![w] = Free]
  BY StudioBasics DEF RowKept, StudioIInv, AsksFor, IsFree
<1>1. \A v \in Workers \ {w} : r \notin overtaken => ~AsksFor(v, r)
  BY <1>0 DEF OneTaskPerRun
<1>2. \A v \in Workers : worker[v] # Free => worker[v] \in Work /\ WorkFits(worker[v]) /\ worker[v].msg.run \in Runs
  BY StudioBasics
<1>3. \A k \in queue : MessageFits(k)'
  BY <1>0, OldTasksFit
<1>4. ASSUME NEW u \in Work, NEW v \in Workers \ {w}, worker[v] = u, u # Free PROVE WorkFits(u)'
  <2>1. WorkFits(u) /\ (u.msg.run # r \/ r \in overtaken)
    BY <1>1, <1>2, <1>4 DEF AsksFor
  <2> QED BY <1>0, <2>1, OldTasksFit
<1>5. worker' \in [Workers -> {Free} \cup Work] /\ worker'[w] = Free /\ \A v \in Workers \ {w} : worker'[v] = worker[v]
  BY <1>0
<1>6. \A v \in Workers : worker'[v] # Free => v # w /\ worker'[v] = worker[v]
  BY <1>5
<1>7. \A n \in queue' : n \in queue \/ (n \in TaskMessages /\ n.run = r /\ MessageFits(n)' /\ queue' = queue \cup {n})
  OBVIOUS
<1>8. TasksFit'
  <2>1. \A v \in Workers : worker'[v] # Free => WorkFits(worker[v])'
    <3> SUFFICES ASSUME NEW v \in Workers, worker'[v] # Free, NEW u \in Work, u = worker[v] PROVE WorkFits(u)'
      BY <1>2, <1>6 DEF WorkFits
    <3> QED BY <1>4, <1>6
  <2> QED BY <1>3, <1>7, <2>1 DEF TasksFit
<1>9. OneTaskPerRun'
  <2> SUFFICES ASSUME NEW s \in Runs, s \notin overtaken
               PROVE  /\ \A m, n \in queue' : m.run = s /\ n.run = s => m = n
                      /\ \A v, o \in Workers : AsksFor(v, s)' /\ AsksFor(o, s)' => v = o
                      /\ \A m \in queue', v \in Workers : ~(m.run = s /\ AsksFor(v, s)')
    BY DEF OneTaskPerRun
  <2>1. \A v \in Workers : AsksFor(v, s)' => AsksFor(v, s) /\ v # w
    BY <1>6 DEF AsksFor
  <2>2. CASE s = r
    BY <1>0, <1>1, <1>7, <2>1, <2>2 DEF OneTaskPerRun
  <2>3. CASE s # r
    BY <1>0, <1>7, <2>1, <2>3 DEF OneTaskPerRun
  <2> QED BY <2>2, <2>3
<1>10. StudioTypeOK'
  BY <1>0, <1>5, <1>7 DEF StudioTypeOK, Work
<1>11. /\ CompletedHasFrames' /\ SeriesIsWhole' /\ RunsAreNumbered' /\ SeriesHasFrames'
       /\ \A s \in Runs : /\ run'[s].status = "absent" <=> run[s].status = "absent"
                          /\ run'[s].status \in {"created", "running"} => run[s].status \in {"created", "running"}
  BY <1>0, RowsKept
<1>12. JobKnowsItsRun' /\ OneLiveRun'
  BY <1>0, <1>11, JobIsKept
<1> QED BY <1>8, <1>9, <1>10, <1>11, <1>12 DEF StudioIInv, StudioInv

(* What a worker does.                                                        *)
LEMMA WorkerKeeps ==
  ASSUME StudioIInv, NEW w \in Workers,
         \/ \E m \in queue : TaskIsTaken(w, m)
         \/ Succeeds(w) \/ OpenAIFails(w) \/ AnswerIsLost(w) \/ StudioWorkerDies(w)
  PROVE  StudioIInv'
<1>0. StudioTypeOK /\ StudioFaults \in Nat /\ studioFaults \in 0..StudioFaults
  BY StudioBasics, StudioAssumption DEF StudioTypeOK
<1>1. ASSUME NEW m \in queue, TaskIsTaken(w, m) PROVE StudioIInv'
  <2>1. worker[w] = Free /\ UNCHANGED backend /\ UNCHANGED overtaken
    BY <1>1 DEF TaskIsTaken, backend, studioHistory
  <2>2. RowKept(m.run) /\ Outcome(w, m)
    BY <1>1, <2>1, RunCreatedKeeps, StructureKeeps, ImagesKeep, StepDoneKeeps, ContentStructureKeeps,
       ContentImagesKeep, ContentDoneKeeps DEF TaskIsTaken
  <2> QED BY <2>1, <2>2, TaskGoes
<1>2. CASE Succeeds(w)
  <2>1. /\ worker[w] # Free /\ IsFree(w)
        /\ UNCHANGED <<job, click, chains, stops, studioFaults, stopped, overtaken, orphaned>>
    BY <1>2 DEF Succeeds, backend, bounds, studioHistory
  <2>2. /\ RowKept(worker[w].msg.run)
        /\ \E n \in TaskMessages : queue' = queue \cup {n} /\ n.run = worker[w].msg.run /\ MessageFits(n)'
    BY <1>2, AnswerKeeps
  <2> QED BY <1>0, <2>1, <2>2, WorkEnds
<1>3. CASE OpenAIFails(w)
  <2>1. /\ worker[w] # Free /\ IsFree(w) /\ UNCHANGED queue
        /\ UNCHANGED <<job, click, chains, stops, studioFaults, stopped, overtaken, orphaned>>
    BY <1>3 DEF OpenAIFails, backend, bounds, studioHistory
  <2> QED BY <1>0, <1>3, <2>1, FailureKeeps, WorkEnds
<1>4. CASE StudioWorkerDies(w)
  <2>1. /\ worker[w] # Free /\ IsFree(w) /\ UNCHANGED <<run, queue>> /\ studioFaults' \in 0..StudioFaults
        /\ UNCHANGED <<job, click, chains, stops, stopped, overtaken, orphaned>>
    BY <1>0, <1>4 DEF StudioWorkerDies, StudioFault, studioHistory
  <2>2. RowKept(worker[w].msg.run)
    BY <2>1, StudioBasics, RowUntouched
  <2> QED BY <2>1, <2>2, WorkEnds
<1>5. CASE AnswerIsLost(w)
  <2>1. /\ worker[w] # Free /\ IsFree(w) /\ UNCHANGED run /\ studioFaults' \in 0..StudioFaults
        /\ UNCHANGED <<job, click, chains, stops, stopped, overtaken, orphaned>>
        /\ queue' = queue \cup {worker[w].msg}
    BY <1>0, <1>5 DEF AnswerIsLost, StudioFault, studioHistory
  <2>2. RowKept(worker[w].msg.run)
    BY <2>1, StudioBasics, RowUntouched
  <2>3. PICK n \in TaskMessages : n = worker[w].msg
    BY <2>1, StudioBasics
  <2>4. MessageFits(n)'
    BY <2>1, <2>3, StudioBasics DEF WorkFits, MessageFits, ContentTasks, AskingTasks
  <2> QED BY <2>1, <2>2, <2>3, <2>4, WorkEnds
<1> QED BY <1>1, <1>2, <1>3, <1>4, <1>5

(* The broker repeats a message: from now on tasks of the run overlap.        *)
LEMMA RepeatedKeeps ==
  ASSUME StudioIInv, NEW m \in queue, Repeated(m)
  PROVE  StudioIInv'
<1> DEFINE again == [m EXCEPT !.chain = chains + 1]
<1>0. /\ StudioTypeOK /\ m \in TaskMessages /\ m.run \in Runs /\ MessageFits(m)
      /\ run' = run /\ worker' = worker /\ UNCHANGED <<job, click, stops, stopped, orphaned>>
      /\ overtaken' = overtaken \cup {m.run} /\ chains' = chains + 1 /\ chains < MaxChains
      /\ studioFaults < StudioFaults /\ studioFaults' = studioFaults + 1
      /\ queue' = queue \cup {again}
  BY StudioBasics DEF Repeated, StudioFault
<1>1. /\ StudioFaults \in Nat /\ MaxChains \in Nat /\ studioFaults \in 0..StudioFaults /\ chains \in 0..MaxChains
      /\ overtaken \subseteq Runs
  BY <1>0, StudioAssumption DEF StudioTypeOK
<1>2. chains' \in 0..MaxChains /\ chains + 1 \in 1..MaxChains /\ studioFaults' \in 0..StudioFaults /\ overtaken' \subseteq Runs
  BY <1>0, <1>1
<1>a. /\ again \in TaskMessages /\ again.run = m.run /\ again.task = m.task /\ again.chosen = m.chosen
  BY <1>0, <1>2 DEF TaskMessages
<1>3. PICK n \in TaskMessages : n = again /\ n.run = m.run /\ n.task = m.task /\ n.chosen = m.chosen
  <2> HIDE DEF again
  <2> QED BY <1>a
<1> HIDE DEF again
<1>4. RowKept(m.run)
  BY <1>0, RowUntouched
<1>5. StudioTypeOK'
  BY <1>0, <1>2, <1>3 DEF StudioTypeOK
<1>6. /\ CompletedHasFrames' /\ SeriesIsWhole' /\ RunsAreNumbered' /\ SeriesHasFrames'
  BY <1>0, <1>4, RowsKept
<1>7. JobKnowsItsRun' /\ OneLiveRun'
  BY <1>0, JobIsKept
<1>8. TasksFit'
  <2>1. MessageFits(n)'
    BY <1>0, <1>3 DEF MessageFits
  <2>2. \A v \in Workers : worker[v] # Free => WorkFits(worker[v])'
    <3> SUFFICES ASSUME NEW v \in Workers, worker[v] # Free PROVE WorkFits(worker[v])'
      OBVIOUS
    <3>1. WorkFits(worker[v])
      BY StudioBasics
    <3> QED BY <1>0, <3>1 DEF WorkFits
  <2>3. \A k \in queue : MessageFits(k)'
    BY <1>0, <1>4, OldTasksFit
  <2> QED BY <1>0, <1>3, <2>1, <2>2, <2>3 DEF TasksFit
<1>9. OneTaskPerRun'
  <2> SUFFICES ASSUME NEW s \in Runs, s \notin overtaken'
               PROVE  /\ \A k, l \in queue' : k.run = s /\ l.run = s => k = l
                      /\ \A v, o \in Workers : AsksFor(v, s)' /\ AsksFor(o, s)' => v = o
                      /\ \A k \in queue', v \in Workers : ~(k.run = s /\ AsksFor(v, s)')
    BY DEF OneTaskPerRun
  <2>1. s # m.run /\ s \notin overtaken
    BY <1>0
  <2>2. \A v \in Workers : AsksFor(v, s)' <=> AsksFor(v, s)
    BY <1>0 DEF AsksFor
  <2>3. \A k \in queue' : k.run = s => k \in queue
    BY <1>0, <1>3, <2>1
  <2>4. OneTaskPerRun
    BY DEF StudioIInv
  <2> QED BY <2>1, <2>2, <2>3, <2>4 DEF OneTaskPerRun
<1> QED BY <1>5, <1>6, <1>7, <1>8, <1>9 DEF StudioIInv, StudioInv

(* A step that touches no run and no task.                                    *)
LEMMA RunsUntouched ==
  ASSUME StudioIInv, UNCHANGED <<run, queue, worker, chains, stopped, overtaken>>,
         studioFaults' \in 0..StudioFaults, stops' \in 0..MaxStops, orphaned' \subseteq Runs,
         job' \in JobRows, click' \in [Clicks -> ClickRows \cup {NoClick}], JobKnowsItsRun', OneLiveRun'
  PROVE  StudioIInv'
<1>0. StudioTypeOK
  BY StudioBasics
<1>1. StudioTypeOK'
  BY <1>0 DEF StudioTypeOK
<1>2. CompletedHasFrames' /\ SeriesIsWhole' /\ RunsAreNumbered' /\ SeriesHasFrames' /\ OneTaskPerRun'
  BY DEF StudioIInv, StudioInv, CompletedHasFrames, SeriesIsWhole, RunsAreNumbered, SeriesHasFrames,
         OneTaskPerRun, AsksFor
<1>3. TasksFit'
  BY DEF StudioIInv, TasksFit, MessageFits, WorkFits
<1> QED BY <1>1, <1>2, <1>3 DEF StudioIInv, StudioInv

(* The bounds, which every request keeps.                                     *)
LEMMA BoundsKept ==
  ASSUME StudioIInv
  PROVE  /\ orphaned \subseteq Runs /\ studioFaults \in 0..StudioFaults /\ stops \in 0..MaxStops
         /\ StudioFault => studioFaults' \in 0..StudioFaults
         /\ stops < MaxStops => stops + 1 \in 0..MaxStops
<1>1. StudioTypeOK
  BY StudioBasics
<1> QED BY <1>1, StudioAssumption DEF StudioTypeOK, StudioFault

(* A request reads the job.                                                   *)
LEMMA ReadingKeeps ==
  ASSUME StudioIInv, NEW c \in Clicks,
         ClickStart(c) \/ ClickStop(c) \/ \E f \in FrameIds : ClickContent(c, f)
  PROVE  StudioIInv'
<1>1. PICK pc \in ClickSteps, r \in {0, job.run}, f \in FrameIds \cup {NoFrame} :
        /\ Reads(c, pc, r, f)
        /\ stops' \in 0..MaxStops
        /\ pc \in {"drop", "stop", "content"} => r # 0
        /\ pc \in {"create", "adopt"} => r = 0
        /\ pc # "adopt"
        /\ pc = "content" => f \in FrameIds
  <2>1. CASE ClickStart(c)
    <3>1. CASE OldRun(job) = 0
      BY <2>1, <3>1, BoundsKept DEF ClickStart, FirstStep, ClickSteps
    <3>2. CASE OldRun(job) # 0
      BY <2>1, <3>2, BoundsKept DEF ClickStart, FirstStep, OldRun, ClickSteps
    <3> QED BY <3>1, <3>2
  <2>2. CASE ClickStop(c)
    <3>1. stops' \in 0..MaxStops
      BY <2>2, BoundsKept DEF ClickStop
    <3>2. CASE job.run = 0
      BY <2>2, <3>1, <3>2 DEF ClickStop, ClickSteps
    <3>3. CASE job.run # 0
      BY <2>2, <3>1, <3>3 DEF ClickStop, ClickSteps
    <3> QED BY <3>2, <3>3
  <2>3. ASSUME NEW f \in FrameIds, ClickContent(c, f)
        PROVE  /\ Reads(c, "content", job.run, f) /\ stops' \in 0..MaxStops /\ job.run # 0
               /\ "content" \in ClickSteps
    BY <2>3, BoundsKept DEF ClickContent, ClickSteps
  <2> QED BY <2>1, <2>2, <2>3
<1> DEFINE q == [pc |-> pc, run |-> r, made |-> 0, frame |-> f]
<1>2. q \in ClickRows /\ q.pc = pc /\ q.run = r /\ q.made = 0 /\ q.frame = f
  BY ClickShapes DEF ClickRows
<1>3. click[c] = NoClick /\ click' = [click EXCEPT ![c] = q]
  BY <1>1 DEF Reads
<1> HIDE DEF q
<1>4. /\ click' \in [Clicks -> ClickRows \cup {NoClick}]
      /\ click'[c] = q /\ \A d \in Clicks \ {c} : click'[d] = click[d]
  BY <1>2, <1>3, ClickShapes
<1>5. UNCHANGED <<run, queue, worker, job, chains, studioFaults, stopped, overtaken, orphaned>>
  BY <1>1 DEF Reads, studioHistory
<1>6. JobKnowsItsRun'
  <2>1. job.run = 0 \/ run[job.run].status # "absent"
    BY DEF StudioIInv, JobKnowsItsRun
  <2>2. RequestKnows(c)'
    BY <1>1, <1>2, <1>4, <1>5, <2>1 DEF RequestKnows, Live
  <2>3. ASSUME NEW d \in Clicks \ {c}, click[d] # NoClick PROVE RequestKnows(d)'
    BY <1>4, <1>5, <2>3, ClickShapes DEF RequestKnows, Live
  <2> QED BY <1>4, <1>5, <2>1, <2>2, <2>3 DEF JobKnowsItsRun
<1>7. OneLiveRun'
  <2>1. click[c].pc # "adopt"
    BY <1>3, ClickShapes
  <2> QED BY <1>4, <1>5, <2>1 DEF StudioIInv, StudioInv, OneLiveRun
<1> QED BY <1>1, <1>4, <1>5, <1>6, <1>7, BoundsKept, ClickShapes, RunsUntouched

(* A request ends: refused, without an answer, or with the status it commits. *)
LEMMA EndingKeeps ==
  ASSUME StudioIInv, NEW c \in Clicks, RequestFails(c) \/ StopJob(c) \/ ContentRefused(c)
  PROVE  StudioIInv'
<1>1. /\ click[c] # NoClick /\ click' = [click EXCEPT ![c] = NoClick]
      /\ UNCHANGED <<run, queue, worker, chains, stops, stopped, overtaken>>
      /\ studioFaults' \in 0..StudioFaults
      /\ job' = job \/ job' = [job EXCEPT !.status = "error"]
      /\ orphaned' = orphaned \/ orphaned' = orphaned \cup ({click[c].made} \ {0})
      /\ click[c].pc = "adopt" => orphaned' = orphaned \cup ({click[c].made} \ {0})
  BY BoundsKept, ClickShapes DEF RequestFails, StopJob, ContentRefused, IsOver, bounds, studioHistory
<1>2. /\ click' \in [Clicks -> ClickRows \cup {NoClick}]
      /\ click'[c] = NoClick /\ \A d \in Clicks \ {c} : click'[d] = click[d]
  BY <1>1, ClickShapes
<1>3. job' \in JobRows /\ job'.run = job.run
  BY <1>1, ClickShapes DEF JobRows, JobStatuses
<1>4. orphaned' \subseteq Runs /\ orphaned \subseteq orphaned'
  BY <1>1, BoundsKept, ClickShapes
<1>5. JobKnowsItsRun'
  <2>1. ASSUME NEW d \in Clicks \ {c}, click[d] # NoClick PROVE RequestKnows(d)'
    BY <1>1, <1>2, <1>4, <2>1, ClickShapes DEF RequestKnows, Live
  <2> QED BY <1>1, <1>2, <1>3, <2>1 DEF StudioIInv, JobKnowsItsRun
<1>6. OneLiveRun'
  <2> SUFFICES ASSUME NEW r \in Runs, r \notin orphaned', run[r].status \in {"created", "running"}
               PROVE  job'.run = r \/ \E d \in Clicks : click'[d].pc = "adopt" /\ click'[d].made = r
    BY <1>1 DEF OneLiveRun
  <2>1. job.run = r \/ \E d \in Clicks : click[d].pc = "adopt" /\ click[d].made = r
    BY <1>4 DEF StudioIInv, StudioInv, OneLiveRun
  <2>2. ~(click[c].pc = "adopt" /\ click[c].made = r)
    BY <1>1, ClickShapes
  <2> QED BY <1>2, <1>3, <2>1, <2>2
<1> QED BY <1>1, <1>2, <1>3, <1>4, <1>5, <1>6, BoundsKept, RunsUntouched

(* The job takes the run that was made: the run before was stopped by this    *)
(* request, or is orphaned.                                                   *)
LEMMA AdoptionKeeps ==
  ASSUME StudioIInv, NEW c \in Clicks, AdoptRun(c)
  PROVE  StudioIInv'
<1> DEFINE q == click[c]
<1>1. /\ q.pc = "adopt" /\ q # NoClick /\ click' = [click EXCEPT ![c] = NoClick]
      /\ UNCHANGED <<run, queue, worker, chains, stops, studioFaults, stopped, overtaken>>
      /\ job' = [status |-> "in_progress", run |-> q.made]
      /\ orphaned' = orphaned \cup ({job.run} \ {0, q.run})
  BY ClickShapes DEF AdoptRun, IsOver, bounds
<1>2. /\ click' \in [Clicks -> ClickRows \cup {NoClick}]
      /\ click'[c] = NoClick /\ \A d \in Clicks \ {c} : click'[d] = click[d]
  BY <1>1, ClickShapes
<1>3. RequestKnows(c) /\ q.made \in Runs /\ (q.run = 0 \/ q.run \in Runs)
  BY <1>1, ClickShapes DEF RequestKnows
<1>4. job' \in JobRows /\ job'.run = q.made
  BY <1>1, <1>3 DEF JobRows, JobStatuses
<1>5. orphaned' \subseteq Runs /\ orphaned \subseteq orphaned'
  BY <1>1, BoundsKept, ClickShapes
<1>6. JobKnowsItsRun'
  <2>1. ASSUME NEW d \in Clicks \ {c}, click[d] # NoClick PROVE RequestKnows(d)'
    BY <1>1, <1>2, <1>5, <2>1, ClickShapes DEF RequestKnows, Live
  <2>2. run[q.made].status # "absent"
    BY <1>1, <1>3, ClickShapes DEF RequestKnows
  <2> QED BY <1>1, <1>2, <1>4, <2>1, <2>2 DEF JobKnowsItsRun
<1>7. OneLiveRun'
  <2> SUFFICES ASSUME NEW r \in Runs, r \notin orphaned', run[r].status \in {"created", "running"}
               PROVE  job'.run = r \/ \E d \in Clicks : click'[d].pc = "adopt" /\ click'[d].made = r
    BY <1>1 DEF OneLiveRun
  <2>1. job.run = r \/ \E d \in Clicks : click[d].pc = "adopt" /\ click[d].made = r
    BY <1>5 DEF StudioIInv, StudioInv, OneLiveRun
  <2>2. CASE job.run = r
    <3>1. r = q.run /\ r # 0
      BY <1>1, <2>2, ClickShapes
    <3>2. r \in orphaned
      BY <1>1, <1>3, <3>1 DEF RequestKnows, Live
    <3> QED BY <1>5, <3>2
  <2>3. CASE job.run # r
    BY <1>2, <1>4, <2>1, <2>3
  <2> QED BY <2>2, <2>3
<1> QED BY <1>1, <1>2, <1>4, <1>5, <1>6, <1>7, BoundsKept, RunsUntouched

(* The status alone is written.                                               *)
LEMMA PatchKeeps ==
  ASSUME StudioIInv, NEW status \in JobStatuses, PatchStatus(status)
  PROVE  StudioIInv'
<1>1. /\ UNCHANGED <<run, queue, worker, click, chains, studioFaults, stopped, overtaken, orphaned>>
      /\ job' \in JobRows /\ job'.run = job.run /\ stops' \in 0..MaxStops
  BY BoundsKept, ClickShapes DEF PatchStatus, studioHistory, JobRows
<1>2. ASSUME NEW c \in Clicks, click[c] # NoClick PROVE RequestKnows(c)'
  BY <1>1, <1>2, ClickShapes DEF RequestKnows, Live
<1>3. JobKnowsItsRun' /\ OneLiveRun'
  BY <1>1, <1>2 DEF StudioIInv, StudioInv, JobKnowsItsRun, OneLiveRun
<1> QED BY <1>1, <1>3, BoundsKept, ClickShapes, RunsUntouched

(* stop_run on one row.                                                       *)
LEMMA StoppedRow ==
  ASSUME NEW x \in RunRows
  PROVE  /\ StoppedRun(x) \in RunRows /\ StoppedRun(x).status \in {"failed", "cancelled"}
         /\ StoppedRun(x).chosen = x.chosen /\ StoppedRun(x).frames = x.frames /\ StoppedRun(x).series = x.series
         /\ \A k \in StepKeys : \/ StoppedRun(x).step[k] = x.step[k]
                                \/ StoppedRun(x).step[k] = "failed" /\ x.step[k] # "absent"
<1>1. ASSUME NEW keys
      PROVE  /\ StepsFail(x, keys) \in [StepKeys -> StepStatus]
             /\ \A k \in StepKeys : \/ StepsFail(x, keys)[k] = x.step[k]
                                    \/ StepsFail(x, keys)[k] = "failed" /\ x.step[k] # "absent"
  BY DEF StepsFail, RunRows, StepStatus
<1>2. "failed" \in RunStatus /\ "cancelled" \in RunStatus
  BY DEF RunStatus
<1>3. CASE x.frames > 0
  <2> DEFINE steps == StepsFail(x, ContentKeys)
  <2>1. StoppedRun(x) = [x EXCEPT !.step = steps, !.status = "failed"]
    BY <1>3 DEF StoppedRun
  <2>2. /\ steps \in [StepKeys -> StepStatus]
        /\ \A k \in StepKeys : steps[k] = x.step[k] \/ (steps[k] = "failed" /\ x.step[k] # "absent")
    BY <1>1
  <2> HIDE DEF steps
  <2> QED BY <1>2, <2>1, <2>2 DEF RunRows
<1>4. CASE ~(x.frames > 0)
  <2> DEFINE steps == StepsFail(x, StepKeys)
  <2>1. StoppedRun(x) = [x EXCEPT !.step = steps, !.status = "cancelled"]
    BY <1>4 DEF StoppedRun
  <2>2. /\ steps \in [StepKeys -> StepStatus]
        /\ \A k \in StepKeys : steps[k] = x.step[k] \/ (steps[k] = "failed" /\ x.step[k] # "absent")
    BY <1>1
  <2> HIDE DEF steps
  <2> QED BY <1>2, <2>1, <2>2 DEF RunRows
<1> QED BY <1>3, <1>4

(* Stopping keeps the run, and marks it when a task of it is under way.       *)
LEMMA StopKeeps ==
  ASSUME StudioIInv, NEW c \in Clicks, DropOldRun(c) \/ StopRun(c)
  PROVE  StudioIInv'
<1> DEFINE r == click[c].run
           x == run[r]
           y == StoppedRun(x)
<1>0. /\ StudioTypeOK /\ OneTaskPerRun /\ click[c].pc \in {"drop", "stop"} /\ click[c] # NoClick
      /\ run' = [run EXCEPT ![r] = y] /\ stopped' = stopped \cup {r} /\ Overtakes(r)
      /\ \E pc \in {"create", "stopped"} : click' = [click EXCEPT ![c].pc = pc]
      /\ UNCHANGED <<queue, worker, job, chains, stops, studioFaults, orphaned>>
  BY StudioBasics, ClickShapes DEF StudioIInv, DropOldRun, StopRun, StopsRun, MovesOn, bounds
<1>1. r \in Runs /\ x \in RunRows /\ run \in [Runs -> RunRows] /\ x.status # "absent"
  BY <1>0, StudioBasics, ClickShapes DEF RequestKnows
<1>2. overtaken \subseteq Runs /\ stopped \subseteq Runs
  BY <1>0 DEF StudioTypeOK
<1>3. stopped' \subseteq Runs /\ overtaken' \subseteq Runs /\ overtaken \subseteq overtaken'
  BY <1>0, <1>1, <1>2 DEF Overtakes
<1>4. PICK pc \in {"create", "stopped"} : click' = [click EXCEPT ![c].pc = pc]
  BY <1>0
<1>5. /\ click' \in [Clicks -> ClickRows \cup {NoClick}] /\ \A d \in Clicks \ {c} : click'[d] = click[d]
      /\ click'[c].pc = pc /\ click'[c].run = r /\ click'[c].made = click[c].made /\ click[c].made = 0
  <2>1. click[c] \in ClickRows /\ click[c].made = 0
    BY <1>0, ClickShapes DEF RequestKnows
  <2>2. [click[c] EXCEPT !.pc = pc] \in ClickRows
    BY <2>1 DEF ClickRows, ClickSteps
  <2> QED BY <1>4, <2>1, <2>2, ClickShapes DEF ClickRows
<1>6. /\ y \in RunRows /\ y.status \in {"failed", "cancelled"} /\ y.chosen = x.chosen /\ y.frames = x.frames
      /\ y.series = x.series
      /\ \A k \in StepKeys : y.step[k] = x.step[k] \/ (y.step[k] = "failed" /\ x.step[k] # "absent")
  BY <1>1, StoppedRow
<1> HIDE DEF y
<1>7. run' \in [Runs -> RunRows] /\ run'[r] = y /\ \A s \in Runs \ {r} : run'[s] = run[s]
  BY <1>0, <1>1, <1>6, RowWritten
<1>8. RowKept(r)
  <2>1. "content_images" \in StepKeys /\ ContentKeys \subseteq StepKeys
    BY DEF StepKeys, ContentKeys
  <2> QED BY <1>1, <1>6, <1>7, <2>1 DEF RowKept
<1>9. /\ CompletedHasFrames' /\ SeriesIsWhole' /\ RunsAreNumbered' /\ SeriesHasFrames'
      /\ \A s \in Runs : /\ run'[s].status = "absent" <=> run[s].status = "absent"
                         /\ run'[s].status \in {"created", "running"} => run[s].status \in {"created", "running"}
  BY <1>1, <1>3, <1>8, RowsKept
<1>10. JobKnowsItsRun'
  <2>1. RequestKnows(c)'
    BY <1>0, <1>1, <1>5, <1>6, <1>7, <1>9, ClickShapes DEF RequestKnows, Live
  <2>2. ASSUME NEW d \in Clicks \ {c}, click[d] # NoClick PROVE RequestKnows(d)'
    BY <1>0, <1>5, <1>9, <2>2, ClickShapes DEF RequestKnows, Live
  <2>3. job.run = 0 \/ run'[job.run].status # "absent"
    BY <1>9, ClickShapes DEF StudioIInv, JobKnowsItsRun
  <2> QED BY <1>0, <1>5, <2>1, <2>2, <2>3 DEF JobKnowsItsRun
<1>11. TasksFit'
  <2>1. \A m \in queue : MessageFits(m)'
    BY <1>1, <1>3, <1>8, OldTasksFit
  <2>2. \A v \in Workers : worker[v] # Free => WorkFits(worker[v])'
    <3> SUFFICES ASSUME NEW v \in Workers, worker[v] # Free, NEW u \in Work, u = worker[v] PROVE WorkFits(u)'
      BY <1>0, StudioBasics DEF WorkFits
    <3>1. WorkFits(u) /\ (u.msg.run # r \/ r \in overtaken')
      BY <1>0, StudioBasics DEF Overtakes, UnderWay
    <3> QED BY <1>1, <1>3, <1>8, <3>1, OldTasksFit
  <2> QED BY <1>0, <2>1, <2>2 DEF TasksFit, WorkFits
<1>12. OneTaskPerRun'
  BY <1>0, <1>3 DEF OneTaskPerRun, AsksFor
<1>13. OneLiveRun'
  <2>1. click[c].pc # "adopt"
    BY <1>0
  <2> QED BY <1>0, <1>5, <1>9, <2>1 DEF StudioIInv, StudioInv, OneLiveRun
<1>14. StudioTypeOK'
  BY <1>0, <1>3, <1>5, <1>7 DEF StudioTypeOK
<1> QED BY <1>9, <1>10, <1>11, <1>12, <1>13, <1>14 DEF StudioIInv, StudioInv

(* The next run is the first that was not made.                               *)
LEMMA NextRunIsNew ==
  ASSUME StudioIInv, NextRun \in Runs
  PROVE  /\ run[NextRun].status = "absent"
         /\ \A r \in Runs : run[r].status # "absent" <=> r <= NextRun - 1
<1>0. RunsAreNumbered /\ Runs = 1..Cardinality(Runs) /\ Cardinality(Runs) \in Nat
  BY StudioAssumption, FS_CardinalityType DEF StudioIInv
<1>1. PICK n \in 0..Cardinality(Runs) : \A r \in Runs : run[r].status # "absent" <=> r <= n
  BY <1>0 DEF RunsAreNumbered
<1>2. {r \in Runs : run[r].status # "absent"} = 1..n
  BY <1>0, <1>1
<1>3. Cardinality(1..n) = n
  BY <1>1, FS_Interval
<1>4. NextRun = n + 1
  BY <1>2, <1>3 DEF NextRun
<1> QED BY <1>0, <1>1, <1>4

(* A request makes a run, whether it is enqueued or not.                      *)
LEMMA CreateRunKeeps ==
  ASSUME StudioIInv, NEW c \in Clicks, CreateRun(c)
  PROVE  StudioIInv'
<1>a. NextRun \in Runs
  BY DEF CreateRun
<1>b. PICK N \in Runs : N = NextRun
  BY <1>a
<1> DEFINE z == [run[N] EXCEPT !.status = "created"]
<1>0. /\ StudioTypeOK /\ JobKnowsItsRun /\ OneTaskPerRun /\ click[c].pc = "create" /\ click[c] # NoClick
      /\ UNCHANGED <<worker, job, stops, stopped, overtaken>>
      /\ chains < MaxChains /\ run \in [Runs -> RunRows]
  BY StudioBasics, ClickShapes DEF StudioIInv, CreateRun
<1>1. /\ MaxChains \in Nat /\ StudioFaults \in Nat /\ chains \in 0..MaxChains /\ studioFaults \in 0..StudioFaults
      /\ {stopped, overtaken, orphaned} \subseteq SUBSET Runs
  BY <1>0, StudioAssumption DEF StudioTypeOK
<1>2. run[N].status = "absent" /\ \A r \in Runs : run[r].status # "absent" <=> r <= N - 1
  BY <1>a, <1>b, NextRunIsNew
<1>3. /\ z \in RunRows /\ z.status = "created" /\ z.chosen = run[N].chosen /\ z.frames = run[N].frames
      /\ z.series = run[N].series /\ z.step = run[N].step
  BY <1>0 DEF RunRows, RunStatus
<1>4. run' = [run EXCEPT ![N] = z]
  BY <1>b DEF CreateRun
<1> HIDE DEF z
<1>5. run' \in [Runs -> RunRows] /\ run'[N] = z /\ \A s \in Runs \ {N} : run'[s] = run[s]
  BY <1>0, <1>3, <1>4, RowWritten
<1>6. \A s \in Runs :
        /\ run'[s].chosen = run[s].chosen /\ run'[s].frames = run[s].frames /\ run'[s].series = run[s].series
        /\ run'[s].step = run[s].step
        /\ run'[s].status # "absent" <=> (run[s].status # "absent" \/ s = N)
        /\ run'[s].status = "completed" => run[s].status = "completed"
        /\ s # N => run'[s].status = run[s].status
  BY <1>2, <1>3, <1>5
<1>7. PICK n \in TaskMessages : n = FirstOf("run_created", N) /\ n.run = N /\ n.task = "run_created"
  <2>1. chains + 1 \in 1..MaxChains /\ "run_created" \in Tasks
    BY <1>0, <1>1, Follows
  <2>2. /\ FirstOf("run_created", N) \in TaskMessages /\ FirstOf("run_created", N).run = N
        /\ FirstOf("run_created", N).task = "run_created"
    BY <2>1 DEF FirstOf, TaskMessages
  <2> QED BY <2>2
<1>8. \/ /\ queue' = queue \cup {n} /\ orphaned' = orphaned
         /\ click' = [click EXCEPT ![c].pc = "adopt", ![c].made = N]
      \/ /\ queue' = queue /\ orphaned' = orphaned \cup {N}
         /\ click' = [click EXCEPT ![c] = NoClick]
  BY <1>b, <1>7 DEF CreateRun, Enqueued, IsOver
<1>9. chains' \in 0..MaxChains /\ studioFaults' \in 0..StudioFaults
  BY <1>0, <1>1, BoundsKept DEF CreateRun, Enqueued
<1>10. orphaned' \subseteq Runs /\ orphaned \subseteq orphaned'
  BY <1>1, <1>8
<1>11. /\ click' \in [Clicks -> ClickRows \cup {NoClick}] /\ \A d \in Clicks \ {c} : click'[d] = click[d]
       /\ \/ click'[c] = NoClick /\ N \in orphaned'
          \/ click'[c].pc = "adopt" /\ click'[c].made = N /\ click'[c].run = click[c].run
  <2>1. click[c] \in ClickRows
    BY <1>0, ClickShapes
  <2>2. /\ [click[c] EXCEPT !.pc = "adopt", !.made = N] \in ClickRows
        /\ [click[c] EXCEPT !.pc = "adopt", !.made = N].pc = "adopt"
        /\ [click[c] EXCEPT !.pc = "adopt", !.made = N].made = N
        /\ [click[c] EXCEPT !.pc = "adopt", !.made = N].run = click[c].run
    BY <2>1 DEF ClickRows, ClickSteps
  <2>3. CASE click' = [click EXCEPT ![c].pc = "adopt", ![c].made = N]
    <3>1. click' = [click EXCEPT ![c] = [click[c] EXCEPT !.pc = "adopt", !.made = N]]
      BY <2>1, <2>3, ClickShapes
    <3> QED BY <2>2, <3>1, ClickShapes
  <2>4. CASE click' = [click EXCEPT ![c] = NoClick] /\ orphaned' = orphaned \cup {N}
    BY <2>4, ClickShapes
  <2> QED BY <1>8, <2>3, <2>4
<1>12. StudioTypeOK'
  <2>1. queue' \subseteq TaskMessages
    BY <1>0, <1>8 DEF StudioTypeOK
  <2> QED BY <1>0, <1>1, <1>5, <1>9, <1>10, <1>11, <2>1 DEF StudioTypeOK
<1>13. RunsAreNumbered'
  <2>1. N \in 0..Cardinality(Runs) /\ \A r \in Runs : r \in Int
    BY StudioAssumption, FS_CardinalityType
  <2>2. \A r \in Runs : run'[r].status # "absent" <=> r <= N
    BY <1>2, <1>6, <2>1
  <2> QED BY <2>1, <2>2 DEF RunsAreNumbered
<1>14. CompletedHasFrames' /\ SeriesIsWhole' /\ SeriesHasFrames'
  <2>1. CompletedHasFrames /\ SeriesIsWhole /\ SeriesHasFrames
    BY DEF StudioIInv, StudioInv
  <2> QED BY <1>0, <1>6, <2>1 DEF CompletedHasFrames, SeriesIsWhole, SeriesHasFrames
<1>15. JobKnowsItsRun'
  <2>1. ASSUME NEW d \in Clicks \ {c}, click[d] # NoClick PROVE RequestKnows(d)'
    BY <1>2, <1>6, <1>10, <1>11, <2>1, ClickShapes DEF RequestKnows, Live
  <2>2. click'[c] # NoClick => RequestKnows(c)'
    BY <1>0, <1>2, <1>6, <1>10, <1>11, ClickShapes DEF RequestKnows, Live
  <2>3. job.run = 0 \/ run'[job.run].status # "absent"
    BY <1>6, ClickShapes DEF StudioIInv, JobKnowsItsRun
  <2> QED BY <1>0, <1>11, <2>1, <2>2, <2>3 DEF JobKnowsItsRun
<1>16. OneLiveRun'
  <2> SUFFICES ASSUME NEW r \in Runs, r \notin orphaned', run'[r].status \in {"created", "running"}
               PROVE  job.run = r \/ \E d \in Clicks : click'[d].pc = "adopt" /\ click'[d].made = r
    BY <1>0 DEF OneLiveRun
  <2>1. CASE r = N
    BY <1>11, <2>1
  <2>2. CASE r # N
    <3>1. job.run = r \/ \E d \in Clicks : click[d].pc = "adopt" /\ click[d].made = r
      BY <1>6, <1>10, <2>2 DEF StudioIInv, StudioInv, OneLiveRun
    <3> QED BY <1>0, <1>11, <3>1
  <2> QED BY <2>1, <2>2
<1>17. TasksFit'
  <2>1. \A m \in queue : MessageFits(m)'
    BY <1>0, <1>6, StudioBasics DEF MessageFits
  <2>2. MessageFits(n)'
    BY <1>6, <1>7 DEF MessageFits, ContentTasks
  <2>3. \A v \in Workers : worker[v] # Free => WorkFits(worker[v])'
    <3> SUFFICES ASSUME NEW v \in Workers, worker[v] # Free, NEW u \in Work, u = worker[v] PROVE WorkFits(u)'
      BY <1>0, StudioBasics DEF WorkFits
    <3>1. WorkFits(u) /\ u.msg.run \in Runs
      BY StudioBasics
    <3> QED BY <1>0, <1>6, <3>1 DEF WorkFits
  <2> QED BY <1>0, <1>8, <2>1, <2>2, <2>3 DEF TasksFit, WorkFits
<1>18. OneTaskPerRun'
  <2> SUFFICES ASSUME NEW s \in Runs, s \notin overtaken
               PROVE  /\ \A k, l \in queue' : k.run = s /\ l.run = s => k = l
                      /\ \A v, o \in Workers : AsksFor(v, s)' /\ AsksFor(o, s)' => v = o
                      /\ \A k \in queue', v \in Workers : ~(k.run = s /\ AsksFor(v, s)')
    BY <1>0 DEF OneTaskPerRun
  <2>2. \A v \in Workers : AsksFor(v, s)' <=> AsksFor(v, s)
    BY <1>0 DEF AsksFor
  <2>3. CASE s = N
    <3>1. \A k \in queue : k.run # N
      BY <1>2, StudioBasics DEF MessageFits
    <3>2. \A v \in Workers : ~AsksFor(v, N)
      BY <1>2, StudioBasics DEF WorkFits, AsksFor
    <3> QED BY <1>8, <2>2, <2>3, <3>1, <3>2
  <2>4. CASE s # N
    <3>1. \A k \in queue' : k.run = s => k \in queue
      BY <1>7, <1>8, <2>4
    <3> QED BY <1>0, <2>2, <3>1 DEF OneTaskPerRun
  <2> QED BY <2>3, <2>4
<1> QED BY <1>12, <1>13, <1>14, <1>15, <1>16, <1>17, <1>18 DEF StudioIInv, StudioInv

(* prepare_content_generation: the run has its frames, and what is under way  *)
(* for it is marked.                                                          *)
LEMMA PrepareKeeps ==
  ASSUME StudioIInv, NEW c \in Clicks, PrepareContent(c)
  PROVE  StudioIInv'
<1>f. PICK f \in FrameIds : f = click[c].frame
  BY ClickShapes DEF PrepareContent, RequestKnows
<1> DEFINE r == click[c].run
           x == run[r]
           y == Prepared(x, f)
<1>0. /\ StudioTypeOK /\ JobKnowsItsRun /\ OneTaskPerRun /\ click[c].pc = "content" /\ click[c] # NoClick
      /\ run' = [run EXCEPT ![r] = y] /\ stopped' = stopped \ {r} /\ Overtakes(r) /\ chains < MaxChains
      /\ click' = [click EXCEPT ![c] = NoClick]
      /\ orphaned' = IF LetGo(r) THEN orphaned \cup {r} ELSE orphaned
      /\ UNCHANGED <<worker, job, stops>>
      /\ x.status = "completed" \/ MayRetry(x, f)
  BY <1>f, StudioBasics, ClickShapes DEF StudioIInv, PrepareContent, MayPrepare, IsOver
<1>1. r \in Runs /\ x \in RunRows /\ run \in [Runs -> RunRows] /\ x.status # "absent"
  BY <1>0, StudioBasics, ClickShapes DEF RequestKnows
<1>c. /\ click' \in [Clicks -> ClickRows \cup {NoClick}]
      /\ click'[c] = NoClick /\ \A d \in Clicks \ {c} : click'[d] = click[d]
  BY <1>0, ClickShapes
<1>o. orphaned' \subseteq Runs /\ orphaned \subseteq orphaned'
  BY <1>0, <1>1, BoundsKept
<1>2. /\ StudioFaults \in Nat /\ MaxChains \in Nat /\ studioFaults \in 0..StudioFaults /\ chains \in 0..MaxChains
      /\ overtaken \subseteq Runs /\ stopped \subseteq Runs
  BY <1>0, StudioAssumption DEF StudioTypeOK
<1>3. stopped' \subseteq Runs /\ overtaken' \subseteq Runs /\ overtaken \subseteq overtaken'
  BY <1>0, <1>1, <1>2 DEF Overtakes
<1>4. x.frames >= MainCount
  <2>1. CASE x.status = "completed"
    BY <1>1, <2>1 DEF StudioIInv, StudioInv, CompletedHasFrames
  <2>2. CASE MayRetry(x, f)
    BY <1>1, <2>2 DEF StudioIInv, SeriesHasFrames, MayRetry
  <2> QED BY <1>0, <2>1, <2>2
<1>5. /\ y \in RunRows /\ y.chosen = f /\ y.status = "running" /\ y.frames = x.frames
      /\ \A k \in ContentKeys : y.step[k] = "pending"
  <2> DEFINE s == IF x.chosen # f \/ x.series[f] < SeriesCount THEN Wiped(x.series, f) ELSE x.series
             t == [k \in StepKeys |-> IF k \in ContentKeys THEN "pending" ELSE x.step[k]]
  <2>1. s \in [FrameIds -> Nat] /\ t \in [StepKeys -> StepStatus] /\ \A k \in ContentKeys : t[k] = "pending"
    BY <1>1 DEF RunRows, Wiped, StepStatus, StepKeys
  <2>2. y = [x EXCEPT !.chosen = f, !.status = "running", !.prompts = NoFrame, !.series = s, !.step = t]
    BY <1>1 DEF Prepared, RunRows
  <2>3. "running" \in RunStatus
    BY DEF RunStatus
  <2> HIDE DEF s, t, y
  <2> QED BY <1>1, <2>1, <2>2, <2>3 DEF RunRows
<1> HIDE DEF y
<1>6. run' \in [Runs -> RunRows] /\ run'[r] = y /\ \A s \in Runs \ {r} : run'[s] = run[s]
  BY <1>0, <1>1, <1>5, RowWritten
<1>7. PICK n \in TaskMessages : n = FirstOf("content_structure", r) /\ n.run = r /\ n.task = "content_structure"
  <2>1. chains + 1 \in 1..MaxChains /\ "content_structure" \in Tasks
    BY <1>0, <1>2, Follows DEF AskingTasks
  <2>2. FirstOf("content_structure", r) \in TaskMessages /\ FirstOf("content_structure", r).run = r /\ FirstOf("content_structure", r).task = "content_structure"
    BY <1>1, <2>1 DEF FirstOf, TaskMessages
  <2> QED BY <2>2
<1>8. /\ queue' = queue \/ queue' = queue \cup {n}
      /\ chains' \in 0..MaxChains /\ studioFaults' \in 0..StudioFaults
  BY <1>0, <1>2, <1>7 DEF PrepareContent, Enqueued, StudioFault
<1>9. StudioTypeOK'
  <2>1. queue' \subseteq TaskMessages
    BY <1>0, <1>8 DEF StudioTypeOK
  <2>2. {stopped', overtaken', orphaned'} \subseteq SUBSET Runs
    BY <1>3, <1>o
  <2> QED BY <1>0, <1>6, <1>8, <1>c, <2>1, <2>2 DEF StudioTypeOK
<1>10. CompletedHasFrames' /\ SeriesIsWhole' /\ SeriesHasFrames' /\ RunsAreNumbered'
  <2>1. CompletedHasFrames /\ SeriesIsWhole /\ SeriesHasFrames /\ RunsAreNumbered
    BY DEF StudioIInv, StudioInv
  <2>2. "content_images" \in ContentKeys
    BY DEF ContentKeys
  <2>3. CompletedHasFrames' /\ SeriesHasFrames'
    BY <1>4, <1>5, <1>6, <2>1 DEF CompletedHasFrames, SeriesHasFrames
  <2>4. SeriesIsWhole'
    BY <1>3, <1>5, <1>6, <2>1, <2>2 DEF SeriesIsWhole
  <2>5. RunsAreNumbered'
    BY <1>1, <1>5, <1>6, <2>1 DEF RunsAreNumbered
  <2> QED BY <2>3, <2>4, <2>5
<1>11. JobKnowsItsRun'
  <2>1. ASSUME NEW d \in Clicks \ {c}, click[d] # NoClick PROVE RequestKnows(d)'
    <3>1. RequestKnows(d) /\ click'[d] = click[d]
      BY <1>c, <2>1, ClickShapes
    <3>2. /\ click[d].run = 0 \/ run'[click[d].run].status # "absent"
          /\ click[d].made # 0 => run'[click[d].made].status # "absent"
      BY <1>1, <1>5, <1>6, <2>1, <3>1, ClickShapes DEF RequestKnows
    <3>3. ASSUME click[d].pc \in {"create", "adopt"}, click[d].run # 0, run'[click[d].run].status \in {"created", "running"}
          PROVE  click[d].run \in orphaned'
      <4>1. CASE click[d].run = r
        BY <1>0, <3>3, <4>1 DEF LetGo
      <4>2. CASE click[d].run # r
        BY <1>6, <1>o, <2>1, <3>1, <3>3, <4>2, ClickShapes DEF RequestKnows, Live
      <4> QED BY <4>1, <4>2
    <3> QED BY <3>1, <3>2, <3>3 DEF RequestKnows, Live
  <2>2. job.run = 0 \/ run'[job.run].status # "absent"
    BY <1>0, <1>1, <1>5, <1>6, ClickShapes DEF JobKnowsItsRun
  <2> QED BY <1>0, <1>c, <2>1, <2>2 DEF JobKnowsItsRun
<1>12. TasksFit'
  <2>1. \A m \in queue : MessageFits(m)'
    <3> SUFFICES ASSUME NEW m \in queue PROVE MessageFits(m)'
      OBVIOUS
    <3>1. MessageFits(m) /\ m.run \in Runs
      BY StudioBasics
    <3>2. CASE m.run = r
      <4>1. r \in overtaken'
        BY <1>0, <3>2 DEF Overtakes, UnderWay
      <4> QED BY <1>4, <1>5, <1>6, <3>1, <3>2, <4>1 DEF MessageFits
    <3>3. CASE m.run # r
      BY <1>3, <1>6, <3>1, <3>3 DEF MessageFits
    <3> QED BY <3>2, <3>3
  <2>2. MessageFits(n)'
    BY <1>4, <1>5, <1>6, <1>7 DEF MessageFits
  <2>3. \A v \in Workers : worker[v] # Free => WorkFits(worker[v])'
    <3> SUFFICES ASSUME NEW v \in Workers, worker[v] # Free, NEW u \in Work, u = worker[v] PROVE WorkFits(u)'
      BY <1>0, StudioBasics DEF WorkFits
    <3>1. WorkFits(u) /\ u.msg.run \in Runs
      BY StudioBasics
    <3>2. CASE u.msg.run = r
      <4>1. r \in overtaken'
        BY <1>0, <3>2 DEF Overtakes, UnderWay
      <4> QED BY <1>4, <1>5, <1>6, <3>1, <3>2, <4>1 DEF WorkFits
    <3>3. CASE u.msg.run # r
      BY <1>3, <1>6, <3>1, <3>3 DEF WorkFits
    <3> QED BY <3>2, <3>3
  <2> QED BY <1>0, <1>8, <2>1, <2>2, <2>3 DEF TasksFit, WorkFits
<1>13. OneTaskPerRun'
  <2> SUFFICES ASSUME NEW s \in Runs, s \notin overtaken'
               PROVE  /\ \A k, l \in queue' : k.run = s /\ l.run = s => k = l
                      /\ \A v, o \in Workers : AsksFor(v, s)' /\ AsksFor(o, s)' => v = o
                      /\ \A k \in queue', v \in Workers : ~(k.run = s /\ AsksFor(v, s)')
    BY DEF OneTaskPerRun
  <2>1. s \notin overtaken
    BY <1>3
  <2>2. \A v \in Workers : AsksFor(v, s)' <=> AsksFor(v, s)
    BY <1>0 DEF AsksFor
  <2>3. CASE s = r
    <3>1. (\A k \in queue : k.run # r) /\ (\A v \in Workers : ~AsksFor(v, r))
      BY <1>0, <2>3 DEF Overtakes, UnderWay, AsksFor
    <3> QED BY <1>8, <2>2, <2>3, <3>1
  <2>4. CASE s # r
    <3>1. \A k \in queue' : k.run = s => k \in queue
      BY <1>7, <1>8, <2>4
    <3> QED BY <1>0, <2>1, <2>2, <3>1 DEF OneTaskPerRun
  <2> QED BY <2>3, <2>4
<1>14. OneLiveRun'
  <2> SUFFICES ASSUME NEW s \in Runs, s \notin orphaned', run'[s].status \in {"created", "running"}
               PROVE  job.run = s \/ \E d \in Clicks : click'[d].pc = "adopt" /\ click'[d].made = s
    BY <1>0 DEF OneLiveRun
  <2>1. CASE s = r
    BY <1>0, <2>1 DEF LetGo
  <2>2. CASE s # r
    <3>1. job.run = s \/ \E d \in Clicks : click[d].pc = "adopt" /\ click[d].made = s
      BY <1>6, <1>o, <2>2 DEF StudioIInv, StudioInv, OneLiveRun
    <3> QED BY <1>0, <1>c, <3>1
  <2> QED BY <2>1, <2>2
<1> QED BY <1>9, <1>10, <1>11, <1>12, <1>13, <1>14 DEF StudioIInv, StudioInv

(* At the start there is no run and no task.                                  *)
LEMMA StudioStart == StudioInit => StudioIInv
<1> SUFFICES ASSUME StudioInit PROVE StudioIInv
  OBVIOUS
<1>1. NewRun \in RunRows
  BY DEF NewRun, RunRows, RunStatus, StepStatus, NoFrame
<1>2. /\ NewRun.status = "absent" /\ \A k \in StepKeys : NewRun.step[k] = "absent"
      /\ run \in [Runs -> RunRows] /\ \A r \in Runs : run[r] = NewRun
  BY <1>1 DEF StudioInit, NewRun
<1>3. "content_images" \in StepKeys /\ ContentKeys \subseteq StepKeys
  BY DEF StepKeys, ContentKeys
<1>4. StudioTypeOK
  BY <1>2, StudioAssumption DEF StudioInit, StudioTypeOK, JobRows, JobStatuses
<1>5. CompletedHasFrames /\ SeriesIsWhole /\ OneLiveRun /\ SeriesHasFrames
  BY <1>2, <1>3 DEF CompletedHasFrames, SeriesIsWhole, OneLiveRun, SeriesHasFrames
<1>6. JobKnowsItsRun
  BY DEF StudioInit, JobKnowsItsRun
<1>7. RunsAreNumbered
  <2>1. 0 \in 0..Cardinality(Runs) /\ \A r \in Runs : ~(r <= 0)
    BY StudioAssumption, FS_CardinalityType
  <2> QED BY <1>2, <2>1 DEF RunsAreNumbered
<1>8. TasksFit /\ OneTaskPerRun
  BY DEF StudioInit, TasksFit, OneTaskPerRun, AsksFor
<1> QED BY <1>4, <1>5, <1>6, <1>7, <1>8 DEF StudioIInv, StudioInv

(* Every step keeps the inductive invariant.                                  *)
LEMMA StudioStepKeeps == StudioIInv /\ [StudioNext]_studioVars => StudioIInv'
<1> SUFFICES ASSUME StudioIInv, [StudioNext]_studioVars PROVE StudioIInv'
  OBVIOUS
<1>1. CASE UNCHANGED studioVars
  <2>1. UNCHANGED <<run, queue, worker, job, click, chains, stops, studioFaults, stopped, overtaken, orphaned>>
    BY <1>1 DEF studioVars, backend, bounds, studioHistory
  <2>2. StudioInv'
    BY <2>1 DEF StudioIInv, StudioInv, StudioTypeOK, CompletedHasFrames, SeriesIsWhole, OneLiveRun
  <2>3. JobKnowsItsRun' /\ RunsAreNumbered' /\ SeriesHasFrames'
    BY <2>1 DEF StudioIInv, JobKnowsItsRun, RequestKnows, RunsAreNumbered, SeriesHasFrames, Live
  <2>4. TasksFit'
    BY <2>1 DEF StudioIInv, TasksFit, MessageFits, WorkFits
  <2>5. OneTaskPerRun'
    BY <2>1 DEF StudioIInv, OneTaskPerRun, AsksFor
  <2> QED BY <2>2, <2>3, <2>4, <2>5 DEF StudioIInv
<1>2. CASE StudioNext
  BY <1>2, WorkerKeeps, RepeatedKeeps, ReadingKeeps, EndingKeeps, StopKeeps, CreateRunKeeps, AdoptionKeeps,
     PrepareKeeps, PatchKeeps DEF StudioNext
<1> QED BY <1>1, <1>2

(* Whatever is stopped, repeated, retried or dies, and whichever requests     *)
(* overlap: a run shown as completed has its frames, a finished series is     *)
(* whole and the only one, and a run at work is the job's or about to be,     *)
(* unless it was let go without a stop or revived by a request read before.   *)
THEOREM StudioHolds == StudioSpec => []StudioInv
<1>1. StudioIInv => StudioInv
  BY DEF StudioIInv
<1> QED BY <1>1, StudioStart, StudioStepKeeps, PTL DEF StudioSpec
===========================================================================
