---------------------------- MODULE OfferIndex ----------------------------
(***************************************************************************)
(* The index of the Wildberries offer: points in Qdrant for a version of   *)
(* the file, and a state in Redis that says which version answers are      *)
(* looked up in.  Administrators upload files, which queues a task;        *)
(* questions to the assistant index the newest file themselves, under a    *)
(* lock with a time limit.                                                 *)
(***************************************************************************)
EXTENDS Naturals, FiniteSets

CONSTANTS Versions,     \* contents of offer files
          Askers,       \* questions to the assistant that may overlap
          OfferWorkers, \* Celery workers
          MaxUploads,   \* bound: files uploaded
          MaxAsks,      \* bound: questions that find the index wanting
          OfferFaults   \* bound: crashes and failures of servers

\* A question is answered by the web server, a task by Celery.
ASSUME OfferIndexAssumption ==
  /\ {MaxUploads, MaxAsks, OfferFaults} \subseteq Nat
  /\ Askers \cap OfferWorkers = {}

VARIABLES
  texts,       \* by version, the contents its points in Qdrant were made of
  index,       \* offer_ai:index_state
  newest,      \* version of the newest file in the directory
  offerTasks,  \* index_offer_document messages: versions
  offerLock,   \* assistant:canonical_offer_index:lock is set
  indexer,     \* what each question and worker is about
  upload,      \* the upload between reading the state and writing it
  uploads, asks, offerFaults,
  unlocked,    \* history: a question outlasted its lock, or went on without one
  crossed,     \* history: a file came while a question had a version and no text yet
  mixed        \* history: two worked on the index at a time, or one left it half way

offerCounts == <<uploads, asks, offerFaults>>
offerVars == <<texts, index, newest, offerTasks, offerLock, indexer, upload,
               offerCounts, unlocked, crossed, mixed>>

\* count_version_points is not 0
points == {v \in Versions : texts[v] # {}}

NoVersion == "none"
MaybeVersion == Versions \cup {NoVersion}
AtRest == [pc |-> "idle"]
Indexers == Askers \cup OfferWorkers
Asking == {"lock", "wait", "recheck"}
Working == {"embed", "upsert", "drop", "ready", "fail", "remark"}

IndexState == [status : {"idle", "indexing", "ready", "failed"}, active : MaybeVersion]

OfferTypeOK ==
  /\ texts \in [Versions -> SUBSET Versions]
  /\ index \in IndexState
  /\ newest \in Versions
  /\ offerTasks \subseteq Versions
  /\ offerLock \in BOOLEAN
  /\ \A i \in Indexers :
       \/ indexer[i] = AtRest
       \/ indexer[i] \in [pc : Asking \cup Working, version : Versions, text : Versions,
                          prev : MaybeVersion, lock : BOOLEAN]
  /\ upload = AtRest \/ upload \in [pc : {"mark"}, version : Versions, prev : MaybeVersion]
  /\ uploads \in 0..MaxUploads /\ asks \in 0..MaxAsks /\ offerFaults \in 0..OfferFaults
  /\ {unlocked, crossed, mixed} \subseteq BOOLEAN

OfferInit ==
  /\ texts = [v \in Versions |-> {}]
  /\ index = [status |-> "idle", active |-> NoVersion]
  /\ newest \in Versions
  /\ offerTasks = {}
  /\ offerLock = FALSE
  /\ indexer = [i \in Indexers |-> AtRest]
  /\ upload = AtRest
  /\ uploads = 0 /\ asks = 0 /\ offerFaults = 0
  /\ unlocked = FALSE /\ crossed = FALSE /\ mixed = FALSE

-----------------------------------------------------------------------------
OfferFault == offerFaults < OfferFaults /\ offerFaults' = offerFaults + 1

At(i, pc) == indexer[i].pc = pc
GoesTo(i, pc) == indexer' = [indexer EXCEPT ![i].pc = pc]
Rests(i) == indexer' = [indexer EXCEPT ![i] = AtRest]

\* Somebody else is at the index.
MeetsAny(others) ==
  mixed' = \/ mixed
           \/ upload # AtRest
           \/ \E o \in others : indexer[o] # AtRest /\ indexer[o].pc \in Working
Meets(i) == MeetsAny(Indexers \ {i})

\* SET NX EX without an answer: it may have been done or not.
NoAnswer == offerLock' \in {offerLock, TRUE} /\ OfferFault

\* Whoever goes on has the lock only if it was free and now is not.
GoesOnUnlocked == unlocked' = (unlocked \/ offerLock \/ ~offerLock')

\* _release_lock in the "finally": whoever holds it; Redis may not answer.
Released(i) == IF indexer[i].lock THEN FALSE ELSE offerLock
Releases(i) ==
  \/ offerLock' = Released(i) /\ UNCHANGED offerFaults
  \/ indexer[i].lock /\ UNCHANGED offerLock /\ OfferFault

-----------------------------------------------------------------------------
(* upload_offer: the file is written, mark_indexing reads the state and writes it. *)
Upload(v) ==
  /\ upload = AtRest
  /\ uploads < MaxUploads
  /\ uploads' = uploads + 1
  /\ newest' = v
  /\ upload' = [pc |-> "mark", version |-> v, prev |-> index.active]
  /\ crossed' = \/ crossed
                 \/ \E a \in Askers : indexer[a].pc \in Asking /\ indexer[a].version # v
  /\ MeetsAny(Indexers)
  /\ UNCHANGED <<texts, index, offerTasks, offerLock, indexer, asks, offerFaults, unlocked>>

MarkIndexing ==
  /\ upload # AtRest
  /\ index' = [status |-> "indexing", active |-> upload.prev]
  /\ upload' = AtRest
  /\ \/ offerTasks' = offerTasks \cup {upload.version} /\ UNCHANGED offerFaults
     \/ OfferFault /\ UNCHANGED offerTasks     \* the broker does not answer
  /\ UNCHANGED <<texts, newest, offerLock, indexer, uploads, asks, unlocked, crossed, mixed>>

(* index_offer_document: the task names the file and its version. *)
TakeTask(w, v) ==
  /\ indexer[w] = AtRest
  /\ v \in offerTasks
  /\ offerTasks' = offerTasks \ {v}
  /\ indexer' = [indexer EXCEPT ![w] =
       [pc |-> "embed", version |-> v, text |-> v, prev |-> index.active, lock |-> FALSE]]
  /\ Meets(w)
  /\ UNCHANGED <<texts, index, newest, offerLock, upload, offerCounts, unlocked, crossed>>

-----------------------------------------------------------------------------
(* ensure_canonical_offer_indexed *)
AskerGoes(a, pc) ==
  /\ indexer[a] = AtRest
  /\ asks < MaxAsks
  /\ asks' = asks + 1
  /\ indexer' = [indexer EXCEPT ![a] =
       [pc |-> pc, version |-> newest, text |-> newest, prev |-> NoVersion, lock |-> FALSE]]
  /\ UNCHANGED <<texts, index, newest, offerTasks, offerLock, upload, uploads, unlocked, crossed>>

\* The points are there, but the state names another version or is not "ready".
AskFindsPoints(a) ==
  /\ newest \in points
  /\ index # [status |-> "ready", active |-> newest]
  /\ AskerGoes(a, "remark")
  /\ Meets(a)
  /\ UNCHANGED offerFaults

\* No points, or Qdrant does not answer, which counts as none.
FindsNone(v) == (v \notin points /\ UNCHANGED offerFaults) \/ OfferFault

AskFindsNone(a) ==
  /\ FindsNone(newest)
  /\ AskerGoes(a, "lock")
  /\ UNCHANGED mixed

\* Whoever sets the lock goes on; so does whoever gets no answer from Redis.
TakeLock(a) ==
  /\ At(a, "lock")
  /\ (~offerLock /\ offerLock' = TRUE /\ UNCHANGED offerFaults) \/ NoAnswer
  /\ GoesOnUnlocked
  /\ indexer' = [indexer EXCEPT ![a].pc = "recheck", ![a].lock = TRUE]
  /\ UNCHANGED <<texts, index, newest, offerTasks, upload, uploads, asks, crossed, mixed>>

LockIsHeld(a) ==
  /\ At(a, "lock")
  /\ offerLock
  /\ GoesTo(a, "wait")
  /\ UNCHANGED <<texts, index, newest, offerTasks, offerLock, upload, offerCounts, unlocked,
                 crossed, mixed>>

WaitIsOver(a) ==
  /\ At(a, "wait")
  /\ indexer[a].version \in points
  /\ Rests(a)
  /\ UNCHANGED <<texts, index, newest, offerTasks, offerLock, upload, offerCounts, unlocked,
                 crossed, mixed>>

\* After _WAIT_MAX_SEC the request goes on, with the lock or without; it will delete it.
WaitRunsOut(a) ==
  /\ At(a, "wait")
  /\ (offerLock' = TRUE /\ UNCHANGED offerFaults) \/ NoAnswer
  /\ GoesOnUnlocked
  /\ indexer' = [indexer EXCEPT ![a].pc = "recheck", ![a].lock = TRUE]
  /\ UNCHANGED <<texts, index, newest, offerTasks, upload, uploads, asks, crossed, mixed>>

\* _LOCK_TTL_SEC passes: its owner is dead, or slower than the limit.
LockExpires ==
  /\ offerLock
  /\ offerLock' = FALSE
  /\ unlocked' = (unlocked \/ \E a \in Askers : indexer[a] # AtRest /\ indexer[a].lock)
  /\ UNCHANGED <<texts, index, newest, offerTasks, indexer, upload, offerCounts, crossed, mixed>>

\* The newest file is looked for again, and indexed under the version found before.
Recheck(a) ==
  /\ At(a, "recheck")
  /\ \/ /\ indexer[a].version \in points
        /\ GoesTo(a, "remark")
        /\ UNCHANGED offerFaults
     \/ /\ FindsNone(indexer[a].version)
        /\ indexer' = [indexer EXCEPT ![a].pc = "embed", ![a].text = newest,
                                      ![a].prev = index.active]
  /\ Meets(a)
  /\ UNCHANGED <<texts, index, newest, offerTasks, offerLock, upload, uploads, asks, unlocked,
                 crossed>>

-----------------------------------------------------------------------------
(* index_offer_file, for either *)
\* delete_version_points only logs an error.
Deletes(versions) ==
  \/ /\ texts' = [v \in Versions |-> IF v \in versions THEN {} ELSE texts[v]]
     /\ UNCHANGED offerFaults
  \/ UNCHANGED texts /\ OfferFault

\* The file is embedded, which takes long and touches nothing, and the points go.
DeleteOwn(i) ==
  /\ At(i, "embed")
  /\ Deletes({indexer[i].version})
  /\ GoesTo(i, "upsert")
  /\ UNCHANGED <<index, newest, offerTasks, offerLock, upload, uploads, asks, unlocked, crossed,
                 mixed>>

\* Points are numbered: those of another text that are left are replaced, or outnumber them.
Upsert(i) ==
  LET q == indexer[i] IN
  /\ At(i, "upsert")
  /\ \E others \in {{}, texts[q.version]} :
       texts' = [texts EXCEPT ![q.version] = others \cup {q.text}]
  /\ GoesTo(i, "drop")
  /\ UNCHANGED <<index, newest, offerTasks, offerLock, upload, offerCounts, unlocked, crossed,
                 mixed>>

\* Mutant: the version before is dropped even when it is the same.
PrevVersion(q) == {q.prev}
OldVersion(q) == {q.prev} \ {q.version}

DropOld(i) ==
  /\ At(i, "drop")
  /\ Deletes(OldVersion(indexer[i]))
  /\ GoesTo(i, "ready")
  /\ UNCHANGED <<index, newest, offerTasks, offerLock, upload, uploads, asks, unlocked, crossed,
                 mixed>>

ReadyState(v) == [status |-> "ready", active |-> v]

MarkReady(i) ==
  /\ At(i, "ready") \/ At(i, "remark")
  /\ index' = ReadyState(indexer[i].version)
  /\ Rests(i)
  /\ Releases(i)
  /\ UNCHANGED <<texts, newest, offerTasks, upload, uploads, asks, unlocked, crossed, mixed>>

\* The file, the embeddings, Qdrant or mark_ready fail, before what they do or after it;
\* mark_failed reads the state, then writes it.
IndexingFails(i) ==
  /\ indexer[i].pc \in {"embed", "upsert", "drop", "ready"}
  /\ OfferFault
  /\ \/ UNCHANGED index
     \/ At(i, "ready") /\ index' = ReadyState(indexer[i].version)
  /\ indexer' = [indexer EXCEPT ![i].pc = "fail", ![i].prev = index'.active]
  /\ UNCHANGED <<texts, newest, offerTasks, offerLock, upload, uploads, asks, unlocked, crossed,
                 mixed>>

MarkFailed(i) ==
  /\ At(i, "fail")
  /\ index' = [status |-> "failed", active |-> indexer[i].prev]
  /\ Rests(i)
  /\ Releases(i)
  /\ UNCHANGED <<texts, newest, offerTasks, upload, uploads, asks, unlocked, crossed, mixed>>

\* The process dies and a lock it holds stays until it expires; or Redis fails before or after
\* the work, and the lock is released.
IndexerDies(i) ==
  /\ indexer[i] # AtRest
  /\ OfferFault
  /\ Rests(i)
  /\ mixed' = (mixed \/ indexer[i].pc \in Working)
  /\ \/ UNCHANGED offerLock
     \/ indexer[i].pc \in {"recheck", "remark", "fail"} /\ offerLock' = Released(i)
  /\ UNCHANGED <<texts, index, newest, offerTasks, upload, uploads, asks, unlocked, crossed>>

-----------------------------------------------------------------------------
OfferNext ==
  \/ MarkIndexing \/ LockExpires
  \/ \E v \in Versions :
       \/ Upload(v)
       \/ \E w \in OfferWorkers : TakeTask(w, v)
  \/ \E a \in Askers :
       \/ AskFindsPoints(a) \/ AskFindsNone(a) \/ TakeLock(a) \/ LockIsHeld(a)
       \/ WaitIsOver(a) \/ WaitRunsOut(a) \/ Recheck(a)
  \/ \E i \in Indexers :
       \/ DeleteOwn(i) \/ Upsert(i) \/ DropOld(i) \/ MarkReady(i)
       \/ IndexingFails(i) \/ MarkFailed(i) \/ IndexerDies(i)

OfferSpec == OfferInit /\ [][OfferNext]_offerVars

-----------------------------------------------------------------------------
(***************************************************************************)
(* A state of "ready" names a version whose points are there, through any  *)
(* sequence of uploads, failures and questions, once nobody is at work;    *)
(* unless two worked on the index at a time or one left it half way.       *)
(***************************************************************************)
ReadyHasPoints ==
  /\ ~mixed
  /\ index.status = "ready"
  /\ \A i \in Indexers : indexer[i] = AtRest
  => index.active \in points

(***************************************************************************)
(* "только один из них реально индексирует файл": one question at a time   *)
(* indexes, as long as it takes less than the others wait and Redis gives  *)
(* each its lock: without an answer of Redis a question goes on, and       *)
(* deletes the lock of another when it is through.                         *)
(***************************************************************************)
OneQuestionIndexes ==
  ~unlocked => \A a, b \in Askers :
                 /\ indexer[a].pc \in {"embed", "upsert", "drop"}
                 /\ indexer[b].pc \in {"embed", "upsert", "drop"}
                 => a = b

(***************************************************************************)
(* The points of a version were made of that version's file, through any   *)
(* overlap of questions and tasks, unless a file was uploaded between the  *)
(* two times a question looked for the newest one.                         *)
(***************************************************************************)
VersionHasItsText == ~crossed => \A v \in Versions : texts[v] \subseteq {v}

(***************************************************************************)
(* What state, lock and points of the index keep true of each other.       *)
(***************************************************************************)
OfferInv == OfferTypeOK /\ ReadyHasPoints /\ OneQuestionIndexes /\ VersionHasItsText
=============================================================================
