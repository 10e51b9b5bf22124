--------------------------- MODULE SupportInbox ---------------------------
(***************************************************************************)
(* The support bot, messages of clients: `run` polls Telegram into the     *)
(* database and has voice messages transcribed, `watch` prints what is new *)
(* and exits.  Either may die at any step; a second copy of either may run.*)
(***************************************************************************)
EXTENDS Integers, Sequences, FiniteSetsExt

CONSTANTS Pollers, Watchers,
          MaxUpdates,   \* bound: what the clients write and edit
          MaxBatch,     \* updates in one answer of getUpdates
          MaxFaults     \* bound: deaths, refused calls, stalls, a key taken away

ASSUME InboxAssumption ==
  {MaxUpdates, MaxFaults} \subseteq Nat /\ MaxBatch \in Nat \ {0}

VARIABLES
  updates,    \* what Telegram holds, by update_id
  confirmed,  \* Telegram forgets updates below the offset it was asked for
  rows,       \* table messages by id
  offset,     \* kv "offset"
  beating,    \* kv "heartbeat" is younger than heartbeat_max_age_sec
  hasKey,     \* the config has a key for transcription
  poller, watcher,
  watermark,  \* file watch.last
  saved,      \* history: the newest update that was stored
  shown,      \* history: rows that watch printed
  preread,    \* history: rows that were there at the first watch
  doubled,    \* history: two copies of `run` were alive at once
  faults

telegram == <<updates, confirmed>>
store == <<rows, offset, beating>>
history == <<saved, shown, preread, doubled>>
vars == <<updates, confirmed, rows, offset, beating, hasKey, poller, watcher,
          watermark, saved, shown, preread, doubled, faults>>

MAX_TRANSCRIBE_ATTEMPTS == 3
NoMark == -1
Off == [pc |-> "off"]
Ids == 1..MaxUpdates
Marks == {NoMark} \cup 0..MaxUpdates

Updates == [msg : Ids, watched : BOOLEAN, voice : BOOLEAN, version : 0..MaxUpdates]
Rows == [msg : Ids, watched : BOOLEAN, version : 0..MaxUpdates,
         status : {"ok", "transcribing", "transcribe_failed"},
         attempts : 0..MAX_TRANSCRIBE_ATTEMPTS]

PollerState ==
  {Off}
  \cup [pc : {"idle"}, key : BOOLEAN]
  \cup [pc : {"ask"}, key : BOOLEAN, offset : 1..MaxUpdates + 1]
  \cup [pc : {"got"}, key : BOOLEAN, first : 1..MaxUpdates, last : 1..MaxUpdates]
  \cup [pc : {"saved"}, key : BOOLEAN, last : 1..MaxUpdates]
  \cup [pc : {"hear"}, key : BOOLEAN, todo : SUBSET [id : Ids, attempts : 0..2]]

WatcherState ==
  {Off}
  \cup [pc : {"watch", "again"}, mark : 0..MaxUpdates, quiet : BOOLEAN]
  \cup [pc : {"printed"}, last : 1..MaxUpdates]

TypeOK ==
  /\ updates \in Seq(Updates) /\ Len(updates) <= MaxUpdates
  /\ confirmed \in 1..Len(updates) + 1
  /\ rows \in Seq(Rows) /\ Len(rows) <= Len(updates)
  /\ offset \in 1..Len(updates) + 1
  /\ poller \in [Pollers -> PollerState]
  /\ watcher \in [Watchers -> WatcherState]
  /\ watermark \in Marks
  /\ saved \in 0..Len(updates)
  /\ shown \subseteq DOMAIN rows /\ preread \subseteq DOMAIN rows
  /\ {beating, hasKey, doubled} \subseteq BOOLEAN
  /\ faults \in 0..MaxFaults

Init ==
  /\ updates = << >> /\ confirmed = 1
  /\ rows = << >> /\ offset = 1 /\ beating = FALSE
  /\ hasKey \in BOOLEAN
  /\ poller = [p \in Pollers |-> Off]
  /\ watcher = [w \in Watchers |-> Off]
  /\ watermark = NoMark
  /\ saved = 0 /\ shown = {} /\ preread = {} /\ doubled = FALSE
  /\ faults = 0

Fault == faults < MaxFaults /\ faults' = faults + 1

-----------------------------------------------------------------------------
(* People: a new message of a client, or of someone watch does not show; an edit. *)
Written == {updates[u].msg : u \in DOMAIN updates}

Write(u) ==
  /\ Len(updates) < MaxUpdates
  /\ updates' = Append(updates, u)
  /\ UNCHANGED <<confirmed, store, hasKey, poller, watcher, watermark, history, faults>>

NewMessage ==
  \E watched, voice \in BOOLEAN :
    (voice => watched) /\ Write([msg |-> Cardinality(Written) + 1, watched |-> watched, voice |-> voice, version |-> 0])

LastOf(m, top) == Max({u \in 1..top : updates[u].msg = m})

\* A text; what an edit says of a voice message is not kept.
EditMessage ==
  \E m \in Written :
    LET last == updates[LastOf(m, Len(updates))] IN
    ~last.voice /\ Write([last EXCEPT !.version = @ + 1])

-----------------------------------------------------------------------------
(* poller.py *)
At(p, pc) == poller[p].pc = pc
Turns(p, q) == poller' = [poller EXCEPT ![p] = q]

StartPoller(p) ==
  /\ At(p, "off")
  /\ Turns(p, [pc |-> "idle", key |-> hasKey])
  /\ UNCHANGED <<telegram, store, hasKey, watcher, watermark, saved, shown, preread>>
  /\ IF \E o \in Pollers : ~At(o, "off")
     THEN Fault /\ doubled' = TRUE
     ELSE UNCHANGED <<faults, doubled>>

\* run_loop beats and poll_once reads the offset.
BeginTurn(p) ==
  /\ At(p, "idle")
  /\ beating' = TRUE
  /\ Turns(p, [pc |-> "ask", key |-> poller[p].key, offset |-> offset])
  /\ UNCHANGED <<telegram, rows, offset, hasKey, watcher, watermark, history, faults>>

\* What is left of a turn: the rows of pending_transcriptions, or nothing.
TurnsTo(p, todo) ==
  Turns(p, IF todo = {} THEN [pc |-> "idle", key |-> poller[p].key]
           ELSE [pc |-> "hear", key |-> poller[p].key, todo |-> todo])

\* pending_transcriptions is read once a turn, and not at all without a key.
Hears(p) ==
  TurnsTo(p, IF poller[p].key
             THEN {[id |-> i, attempts |-> rows[i].attempts] :
                     i \in {j \in DOMAIN rows : rows[j].status = "transcribing"}}
             ELSE {})

GetUpdates(p) ==
  LET from == poller[p].offset IN
  /\ At(p, "ask")
  /\ confirmed' = Max({confirmed, from})
  /\ IF from > Len(updates)
     THEN Hears(p)
     ELSE Turns(p, [pc |-> "got", key |-> poller[p].key, first |-> from,
                    last |-> Min({Len(updates), from + MaxBatch - 1})])
  /\ UNCHANGED <<updates, store, hasKey, watcher, watermark, history, faults>>

\* TelegramError, no network: the turn ends before anything is stored.
PollFails(p) ==
  /\ At(p, "ask")
  /\ Fault
  /\ Turns(p, [pc |-> "idle", key |-> poller[p].key])
  /\ UNCHANGED <<telegram, store, hasKey, watcher, watermark, history>>

RowOf(table, m) == {i \in DOMAIN table : table[i].msg = m}

NewRow(u, key) ==
  [msg |-> u.msg, watched |-> u.watched, version |-> u.version, attempts |-> 0,
   status |-> IF u.voice /\ key THEN "transcribing" ELSE "ok"]

\* save_message: INSERT OR IGNORE; an edit replaces the text of a text message.
SaveMessage(table, u, key) ==
  IF RowOf(table, u.msg) = {}
  THEN Append(table, NewRow(u, key))
  ELSE [i \in DOMAIN table |->
          IF table[i].msg = u.msg /\ u.version > 0 /\ ~u.voice
          THEN [table[i] EXCEPT !.version = u.version] ELSE table[i]]

\* The table as it is after each update of a batch.
Tables(q) ==
  LET table[n \in q.first - 1..q.last] ==
        IF n = q.first - 1 THEN rows ELSE SaveMessage(table[n - 1], updates[n], q.key)
  IN table

SaveBatch(p) ==
  LET q == poller[p] IN
  /\ At(p, "got")
  /\ rows' = Tables(q)[q.last]
  /\ saved' = Max({saved, q.last})
  /\ Turns(p, [pc |-> "saved", key |-> q.key, last |-> q.last])
  /\ UNCHANGED <<telegram, offset, beating, hasKey, watcher, watermark, shown, preread,
                 doubled, faults>>

MoveOffset(p) ==
  /\ At(p, "saved")
  /\ offset' = poller[p].last + 1
  /\ Hears(p)
  /\ UNCHANGED <<telegram, rows, beating, hasKey, watcher, watermark, history, faults>>

\* transcribe_pending, one row: the attempts are those of the SELECT.
AfterForEver(v, heard) ==
  [status |-> IF heard THEN "ok" ELSE "transcribing",
   attempts |-> IF heard THEN v.attempts ELSE Min({v.attempts + 1, 2})]

After(v, heard) ==
  IF heard THEN [status |-> "ok", attempts |-> v.attempts]
  ELSE [status |-> IF v.attempts + 1 >= MAX_TRANSCRIBE_ATTEMPTS THEN "transcribe_failed"
                   ELSE "transcribing",
        attempts |-> v.attempts + 1]

Hear(p, heard) ==
  LET q == poller[p]
      v == CHOOSE x \in q.todo : \A y \in q.todo : x.id <= y.id
      a == After(v, heard)
  IN
  /\ At(p, "hear")
  /\ rows' = [rows EXCEPT ![v.id].status = a.status, ![v.id].attempts = a.attempts]
  /\ TurnsTo(p, q.todo \ {v})
  /\ UNCHANGED <<telegram, offset, beating, hasKey, watcher, watermark, history, faults>>

PollerDies(p) ==
  /\ ~At(p, "off")
  /\ Fault
  /\ Turns(p, Off)
  /\ UNCHANGED <<telegram, store, hasKey, watcher, watermark, history>>

\* A turn that takes longer than heartbeat_max_age_sec, or no poller at all.
HeartStops ==
  /\ beating
  /\ Fault
  /\ beating' = FALSE
  /\ UNCHANGED <<telegram, rows, offset, hasKey, poller, watcher, watermark, history>>

KeyIsTaken ==
  /\ hasKey
  /\ Fault
  /\ hasKey' = FALSE
  /\ UNCHANGED <<telegram, store, poller, watcher, watermark, history>>

-----------------------------------------------------------------------------
(* watch.py *)
Watches(w, q) == watcher' = [watcher EXCEPT ![w] = q]

\* At the very first start everything that is there counts as read.
StartWatch(w) ==
  LET mark == IF watermark = NoMark THEN Len(rows) ELSE watermark IN
  /\ watcher[w] = Off
  /\ Watches(w, [pc |-> "watch", mark |-> mark, quiet |-> FALSE])
  /\ watermark' = mark
  /\ preread' = IF watermark = NoMark THEN DOMAIN rows ELSE preread
  /\ UNCHANGED <<telegram, store, hasKey, poller, saved, shown, doubled, faults>>

\* client_messages_after
Pending(mark) == {i \in DOMAIN rows : i > mark /\ rows[i].watched}
AllHeard(batch) == \A i \in batch : rows[i].status # "transcribing"

Exits(w) ==
  /\ Watches(w, Off)
  /\ UNCHANGED <<telegram, store, hasKey, poller, watermark, history>>

BotIsDown(w) ==
  /\ watcher[w].pc = "watch"
  /\ ~beating
  /\ Exits(w) /\ UNCHANGED faults

SilenceEnds(w) ==
  /\ watcher[w].pc = "watch"
  /\ beating
  /\ Pending(watcher[w].mark) = {}
  /\ Exits(w) /\ UNCHANGED faults

\* A turn that finds something: the quiet time begins, begins anew, or is over.
Looks(w) ==
  LET q == watcher[w] IN
  /\ q.pc = "watch"
  /\ beating
  /\ Pending(q.mark) # {}
  /\ Watches(w, IF ~AllHeard(Pending(q.mark)) THEN [q EXCEPT !.quiet = FALSE]
                ELSE IF ~q.quiet THEN [q EXCEPT !.quiet = TRUE]
                ELSE [q EXCEPT !.pc = "again"])
  /\ watcher' # watcher
  /\ UNCHANGED <<telegram, store, hasKey, poller, watermark, history, faults>>

\* The batch is read again, and printed if no voice message joined it meanwhile.
ShowBatch(w) ==
  LET q == watcher[w]
      batch == Pending(q.mark)
  IN
  /\ q.pc = "again"
  /\ IF AllHeard(batch)
     THEN /\ shown' = shown \cup batch
          /\ Watches(w, [pc |-> "printed", last |-> Max(batch)])
     ELSE Watches(w, [q EXCEPT !.pc = "watch"]) /\ UNCHANGED shown
  /\ UNCHANGED <<telegram, store, hasKey, poller, watermark, saved, preread, doubled, faults>>

WriteNewestMark(w) ==
  /\ watcher[w].pc = "printed"
  /\ watermark' = Len(rows)
  /\ Watches(w, Off)
  /\ UNCHANGED <<telegram, store, hasKey, poller, history, faults>>

WriteMark(w) ==
  /\ watcher[w].pc = "printed"
  /\ watermark' = watcher[w].last
  /\ Watches(w, Off)
  /\ UNCHANGED <<telegram, store, hasKey, poller, history, faults>>

WatchDies(w) ==
  /\ watcher[w] # Off
  /\ Fault
  /\ Exits(w)

-----------------------------------------------------------------------------
PollerStep(p) ==
  \/ StartPoller(p) \/ BeginTurn(p) \/ GetUpdates(p) \/ SaveBatch(p) \/ MoveOffset(p)
  \/ (\E heard \in BOOLEAN : Hear(p, heard))

WatcherStep(w) ==
  \/ StartWatch(w) \/ BotIsDown(w) \/ SilenceEnds(w) \/ Looks(w) \/ ShowBatch(w) \/ WriteMark(w)

Next ==
  \/ NewMessage \/ EditMessage \/ HeartStops \/ KeyIsTaken
  \/ \E p \in Pollers : PollerStep(p) \/ PollFails(p) \/ PollerDies(p)
  \/ \E w \in Watchers : WatcherStep(w) \/ WatchDies(w)

\* launchd keeps `run` alive; the session starts `watch` again after each exit.
Fairness ==
  /\ \A p \in Pollers : WF_vars(PollerStep(p))
  /\ \A w \in Watchers : WF_vars(WatcherStep(w))

Spec == Init /\ [][Next]_vars /\ Fairness

-----------------------------------------------------------------------------
(* What poller.py promises of a crash between COMMIT and the offset: an update that
   Telegram has forgotten is in the database, and no message is there twice, even with
   two copies of the bot. *)
UpdatesAreStoredOnce ==
  /\ \A u \in 1..confirmed - 1 : RowOf(rows, updates[u].msg) # {}
  /\ \A i, j \in DOMAIN rows : rows[i].msg = rows[j].msg => i = j

(* Updates that come again after a crash never put an old text back over an edit;
   a second copy of the bot could. *)
EditsAreKept ==
  ~doubled =>
    \A i \in DOMAIN rows :
      LET u == updates[LastOf(rows[i].msg, saved)] IN ~u.voice => rows[i].version = u.version

(* The watermark never passes a client's message that nobody was shown, whatever copies
   of watch overlap, and wherever one dies. *)
NothingIsSkipped ==
  \A i \in DOMAIN rows : i <= watermark /\ rows[i].watched => i \in shown \cup preread

(* A voice message is shown with its text: the batch is read a second time after the
   quiet time, and a voice message may have joined it. *)
VoiceIsShownHeard == ~doubled => \A i \in shown : rows[i].status # "transcribing"

(* What a client writes is shown in the end, if `run` and `watch` are started again; but
   one voice message that waits for a key taken away holds back all that follow. *)
ClientIsHeard ==
  \A i \in Ids :
    (i \in DOMAIN rows /\ rows[i].watched) ~>
      \/ i \in shown \cup preread
      \/ doubled
      \/ ~hasKey /\ \E j \in DOMAIN rows : rows[j].status = "transcribing"

(* What poller.py and watch.py keep true through crashes and second copies: nothing is
   lost or doubled on its way to the database, and nothing is passed over on the screen. *)
InboxInv ==
  /\ TypeOK
  /\ UpdatesAreStoredOnce /\ EditsAreKept
  /\ NothingIsSkipped /\ VoiceIsShownHeard
=============================================================================
