------------------------- MODULE SupportBotProofs -------------------------
(***************************************************************************)
(* The support bot, for any number of copies of `run` and `watch`, clients,   *)
(* updates, batches, faults, answers, senders and reminders. Messages: the    *)
(* table after a batch is built update by update, so what is stored is        *)
(* shown by induction over the batch; the marks of watch are covered by       *)
(* what was shown. Answers: a sender with a claim has its row alone. Long     *)
(* texts: the loops of the cutting one by one, then induction over the length *)
(* of a text, since what is cut again is shorter.                             *)
(***************************************************************************)
EXTENDS SupportInbox, SupportOutbox, SupportText, SumTheorems, SequenceTheorems, TLAPS

-----------------------------------------------------------------------------
(* Messages of clients.                                                       *)

(* Messages are numbered as they come; a repeated number is an edit of a text. *)
UpdatesAreEdits ==
  /\ \E n \in 0..Len(updates) : Written = 1..n
  /\ \A u \in DOMAIN updates : updates[u].version < u
  /\ \A o, u \in DOMAIN updates :
       o < u /\ updates[o].msg = updates[u].msg => updates[u].version > 0 /\ ~updates[u].voice

(* A row says what an update up to top says, and none up to n is newer.       *)
SaysNewest(row, top, n) ==
  \E u \in 1..top :
    /\ updates[u].msg = row.msg
    /\ updates[u].voice \/ row.version = updates[u].version
    /\ \A o \in 1..n : updates[o].msg = row.msg => o <= u

(* What was stored stays, whoever asked for what.                             *)
StoreIsAhead ==
  /\ \A u \in 1..saved : RowOf(rows, updates[u].msg) # {}
  /\ \A i \in DOMAIN rows : \E u \in 1..saved : updates[u].msg = rows[i].msg
  /\ \A i \in DOMAIN rows : rows[i].status = "transcribing" => rows[i].attempts <= 2
  /\ confirmed <= saved + 1 /\ offset <= saved + 1
  /\ \A p \in Pollers :
       /\ At(p, "ask") => poller[p].offset <= saved + 1
       /\ At(p, "got") => /\ poller[p].first <= saved + 1 /\ poller[p].first <= poller[p].last
                          /\ poller[p].last <= Len(updates)
       /\ At(p, "saved") => poller[p].last <= saved
       /\ At(p, "hear") => poller[p].todo # {} /\ \A v \in poller[p].todo : v.id \in DOMAIN rows

(* One copy of the bot finds things as it left them.                          *)
OneCopy ==
  ~doubled =>
    /\ \A p, o \in Pollers : ~At(p, "off") /\ ~At(o, "off") => p = o
    /\ saved <= offset + MaxBatch - 1
    /\ \A p \in Pollers :
         /\ At(p, "ask") => poller[p].offset = offset
         /\ At(p, "got") => /\ poller[p].first = offset /\ poller[p].last <= offset + MaxBatch - 1
                            /\ saved <= poller[p].last
         /\ At(p, "saved") => poller[p].last = saved
         /\ At(p, "hear") =>
              /\ \A v \in poller[p].todo : rows[v.id].status = "transcribing"
              /\ \A v, x \in poller[p].todo : v.id = x.id => v = x
    /\ \A i \in DOMAIN rows : SaysNewest(rows[i], saved, saved)

(* No mark is past a message that nobody was shown.                           *)
Covered(n) == n <= Len(rows) /\ \A i \in DOMAIN rows : i <= n /\ rows[i].watched => i \in shown \cup preread

MarksAreCovered ==
  /\ Covered(watermark)
  /\ \A w \in Watchers :
       /\ watcher[w].pc \in {"watch", "again"} => Covered(watcher[w].mark)
       /\ watcher[w].pc = "again" => Pending(watcher[w].mark) # {}
       /\ watcher[w].pc = "printed" => Covered(watcher[w].last)

InboxIInv ==
  /\ TypeOK /\ UpdatesAreEdits /\ StoreIsAhead /\ OneCopy /\ MarksAreCovered
  /\ \A i, j \in DOMAIN rows : rows[i].msg = rows[j].msg => i = j
  /\ VoiceIsShownHeard

(* What a copy of the bot keeps in each of its states.                        *)
LEMMA PollerShapes ==
  ASSUME NEW q \in PollerState
  PROVE  /\ q.pc \in {"off", "idle", "ask", "got", "saved", "hear"}
         /\ q.pc # "off" => q.key \in BOOLEAN
         /\ q.pc = "ask" => q.offset \in 1..MaxUpdates + 1
         /\ q.pc = "got" => q.first \in 1..MaxUpdates /\ q.last \in 1..MaxUpdates
         /\ q.pc = "saved" => q.last \in 1..MaxUpdates
         /\ q.pc = "hear" => q.todo \in SUBSET [id : Ids, attempts : 0..2]
BY DEF PollerState, Off

(* What a copy of the bot may turn to.                                        *)
LEMMA PollerStates ==
  ASSUME NEW k \in BOOLEAN
  PROVE  /\ Off \in PollerState
         /\ [pc |-> "idle", key |-> k] \in PollerState
         /\ \A o \in 1..MaxUpdates + 1 : [pc |-> "ask", key |-> k, offset |-> o] \in PollerState
         /\ \A f, l \in 1..MaxUpdates : [pc |-> "got", key |-> k, first |-> f, last |-> l] \in PollerState
         /\ \A l \in 1..MaxUpdates : [pc |-> "saved", key |-> k, last |-> l] \in PollerState
         /\ \A t \in SUBSET [id : Ids, attempts : 0..2] : [pc |-> "hear", key |-> k, todo |-> t] \in PollerState
BY DEF PollerState, Off

(* What a copy of watch keeps in each of its states.                          *)
LEMMA WatcherShapes ==
  ASSUME NEW q \in WatcherState
  PROVE  /\ q.pc \in {"off", "watch", "again", "printed"} /\ (q = Off <=> q.pc = "off")
         /\ q.pc \in {"watch", "again"} => q.mark \in 0..MaxUpdates /\ q.quiet \in BOOLEAN
         /\ q.pc = "printed" => q.last \in 1..MaxUpdates
BY DEF WatcherState, Off

(* What a copy of watch may turn to.                                          *)
LEMMA WatcherStates ==
  /\ Off \in WatcherState
  /\ \A m \in 0..MaxUpdates, b \in BOOLEAN, pc \in {"watch", "again"} :
       [pc |-> pc, mark |-> m, quiet |-> b] \in WatcherState
  /\ \A l \in 1..MaxUpdates : [pc |-> "printed", last |-> l] \in WatcherState
BY DEF WatcherState, Off

(* The type, and what the sequences in it are.                                *)
LEMMA InboxBasics ==
  ASSUME TypeOK
  PROVE  /\ MaxUpdates \in Nat /\ MaxFaults \in Nat /\ MaxBatch \in Nat /\ MaxBatch >= 1
         /\ updates \in Seq(Updates) /\ Len(updates) \in Nat /\ Len(updates) <= MaxUpdates
         /\ DOMAIN updates = 1..Len(updates) /\ \A u \in DOMAIN updates : updates[u] \in Updates
         /\ rows \in Seq(Rows) /\ Len(rows) \in Nat /\ Len(rows) <= Len(updates)
         /\ DOMAIN rows = 1..Len(rows) /\ \A i \in DOMAIN rows : rows[i] \in Rows
         /\ confirmed \in 1..Len(updates) + 1 /\ offset \in 1..Len(updates) + 1 /\ saved \in 0..Len(updates)
         /\ poller \in [Pollers -> PollerState] /\ \A p \in Pollers : poller[p] \in PollerState
         /\ watcher \in [Watchers -> WatcherState] /\ \A w \in Watchers : watcher[w] \in WatcherState
         /\ watermark \in Marks /\ shown \subseteq DOMAIN rows /\ preread \subseteq DOMAIN rows
         /\ beating \in BOOLEAN /\ hasKey \in BOOLEAN /\ doubled \in BOOLEAN /\ faults \in 0..MaxFaults
<1>1. MaxUpdates \in Nat /\ MaxFaults \in Nat /\ MaxBatch \in Nat /\ MaxBatch >= 1
  BY InboxAssumption
<1>2. updates \in Seq(Updates) /\ Len(updates) <= MaxUpdates /\ rows \in Seq(Rows) /\ Len(rows) <= Len(updates)
  BY DEF TypeOK
<1>3. /\ Len(updates) \in Nat /\ DOMAIN updates = 1..Len(updates) /\ \A u \in DOMAIN updates : updates[u] \in Updates
      /\ Len(rows) \in Nat /\ DOMAIN rows = 1..Len(rows) /\ \A i \in DOMAIN rows : rows[i] \in Rows
  BY <1>2
<1>4. /\ confirmed \in 1..Len(updates) + 1 /\ offset \in 1..Len(updates) + 1 /\ saved \in 0..Len(updates)
      /\ poller \in [Pollers -> PollerState] /\ \A p \in Pollers : poller[p] \in PollerState
      /\ watcher \in [Watchers -> WatcherState] /\ \A w \in Watchers : watcher[w] \in WatcherState
      /\ watermark \in Marks /\ shown \subseteq DOMAIN rows /\ preread \subseteq DOMAIN rows
      /\ beating \in BOOLEAN /\ hasKey \in BOOLEAN /\ doubled \in BOOLEAN /\ faults \in 0..MaxFaults
  BY DEF TypeOK
<1> QED BY <1>1, <1>2, <1>3, <1>4

(* A fault more.                                                              *)
LEMMA FaultCounted == ASSUME TypeOK, Fault PROVE faults' \in 0..MaxFaults
BY InboxBasics DEF Fault

(* No message has two rows.                                                   *)
RowsDiffer == \A i, j \in DOMAIN rows : rows[i].msg = rows[j].msg => i = j

(* A step that prints nothing and writes no mark.                             *)
LEMMA ScreenUntouched ==
  ASSUME UNCHANGED <<rows, shown, preread, watermark, watcher, doubled>>, InboxIInv
  PROVE  MarksAreCovered' /\ VoiceIsShownHeard' /\ RowsDiffer'
BY DEF InboxIInv, MarksAreCovered, Covered, Pending, VoiceIsShownHeard, RowsDiffer

(* A step that stores nothing.                                                *)
LEMMA StoreUntouched ==
  ASSUME UNCHANGED <<updates, rows, confirmed, offset, saved, poller, doubled>>, InboxIInv
  PROVE  UpdatesAreEdits' /\ StoreIsAhead' /\ OneCopy' /\ RowsDiffer'
BY DEF InboxIInv, UpdatesAreEdits, StoreIsAhead, OneCopy, RowsDiffer, SaysNewest, Written, RowOf, At

(* The greatest row of a batch is in it.                                      *)
LEMMA MaxIsIn ==
  ASSUME NEW N \in Nat, NEW T \in SUBSET (1..N), T # {}
  PROVE  Max(T) \in T /\ \A n \in T : n <= Max(T)
<1> DEFINE Bounds == {n \in Nat : \A m \in T : m <= n}
<1>1. N \in Bounds
  OBVIOUS
<1>2. PICK b \in Bounds : \A n \in Bounds : b <= n
  BY <1>1, LeastNumber
<1>3. b \in T
  <2> SUFFICES ASSUME b \notin T PROVE FALSE
    OBVIOUS
  <2>1. \A m \in T : m <= b - 1 /\ b - 1 \in Nat
    BY <1>2
  <2>2. b - 1 \in Bounds
    BY <2>1, <1>2
  <2> QED BY <1>2, <2>2
<1>4. b \in T /\ \A n \in T : b >= n
  BY <1>2, <1>3
<1>5. Max(T) \in T /\ \A n \in T : Max(T) >= n
  BY <1>4 DEF Max
<1> QED BY <1>5

(* The screen: what a copy of watch does.                                     *)
WatchAct(w) ==
  StartWatch(w) \/ BotIsDown(w) \/ SilenceEnds(w) \/ Looks(w) \/ ShowBatch(w) \/ WriteMark(w) \/ WatchDies(w)

(* What no step of watch writes.                                              *)
LEMMA WatchLeaves ==
  ASSUME NEW w \in Watchers, WatchAct(w)
  PROVE  UNCHANGED <<updates, confirmed, rows, offset, beating, hasKey, poller, saved, doubled>>
BY DEF WatchAct, StartWatch, BotIsDown, SilenceEnds, Looks, ShowBatch, WriteMark, WatchDies, Exits, telegram, store,
       history

(* What a step of watch may show, and the mark it may write: only rows that   *)
(* were shown or read before lie below it.                                    *)
LEMMA WatchShows ==
  ASSUME InboxIInv, NEW w \in Watchers, WatchAct(w)
  PROVE  /\ \E q \in WatcherState :
              /\ watcher' = [watcher EXCEPT ![w] = q]
              /\ q.pc \in {"watch", "again"} => Covered(q.mark)'
              /\ q.pc = "again" => Pending(q.mark)' # {}
              /\ q.pc = "printed" => Covered(q.last)'
         /\ watermark' \in Marks /\ Covered(watermark)'
         /\ shown \subseteq shown' /\ shown' \subseteq DOMAIN rows
         /\ preread \subseteq preread' /\ preread' \subseteq DOMAIN rows
         /\ \A i \in shown' \ shown : rows[i].status # "transcribing"
         /\ faults' \in 0..MaxFaults
<1> DEFINE q == watcher[w]
<1>0. /\ TypeOK /\ q \in WatcherState /\ MarksAreCovered /\ UNCHANGED rows
      /\ MaxUpdates \in Nat /\ Len(rows) \in Nat /\ Len(rows) <= MaxUpdates /\ DOMAIN rows = 1..Len(rows)
      /\ watermark \in Marks /\ shown \subseteq DOMAIN rows /\ preread \subseteq DOMAIN rows /\ faults \in 0..MaxFaults
      /\ Covered(watermark)
  <2>1. TypeOK /\ MarksAreCovered
    BY DEF InboxIInv
  <2> QED BY <2>1, InboxBasics, WatchLeaves DEF MarksAreCovered
<1>1. CASE StartWatch(w)
  <2> DEFINE mark == IF watermark = NoMark THEN Len(rows) ELSE watermark
  <2>1. /\ watcher' = [watcher EXCEPT ![w] = [pc |-> "watch", mark |-> mark, quiet |-> FALSE]]
        /\ watermark' = mark /\ preread' = IF watermark = NoMark THEN DOMAIN rows ELSE preread
        /\ UNCHANGED <<shown, faults>>
    BY <1>1 DEF StartWatch, Watches
  <2>2. mark \in 0..MaxUpdates
    BY <1>0 DEF Marks, NoMark
  <2>3. preread \subseteq preread' /\ preread' \subseteq DOMAIN rows
    BY <1>0, <2>1
  <2>4. mark <= Len(rows) /\ \A i \in DOMAIN rows : i <= mark /\ rows[i].watched => i \in shown' \cup preread'
    BY <1>0, <2>1 DEF Covered
  <2> HIDE DEF mark
  <2>5. PICK n \in 0..MaxUpdates : n = mark
    BY <2>2
  <2>6. [pc |-> "watch", mark |-> n, quiet |-> FALSE] \in WatcherState /\ n \in Marks
    BY <2>5, WatcherStates DEF Marks
  <2>7. Covered(n)' /\ Covered(watermark)'
    BY <1>0, <2>1, <2>4, <2>5 DEF Covered
  <2> QED BY <1>0, <2>1, <2>3, <2>5, <2>6, <2>7
<1>2. CASE BotIsDown(w) \/ SilenceEnds(w) \/ WatchDies(w)
  <2>1. watcher' = [watcher EXCEPT ![w] = Off] /\ UNCHANGED <<watermark, shown, preread>> /\ faults' \in 0..MaxFaults
    BY <1>0, <1>2, FaultCounted DEF BotIsDown, SilenceEnds, WatchDies, Exits, Watches, history
  <2>2. Off \in WatcherState /\ Off.pc = "off"
    BY WatcherStates DEF Off
  <2>3. Covered(watermark)'
    BY <1>0, <2>1 DEF Covered
  <2> QED BY <1>0, <2>1, <2>2, <2>3
<1>3. CASE Looks(w)
  <2>1. q.pc = "watch" /\ q.mark \in 0..MaxUpdates /\ q.quiet \in BOOLEAN /\ Pending(q.mark) # {} /\ Covered(q.mark)
    BY <1>0, <1>3, WatcherShapes DEF Looks, MarksAreCovered
  <2>2. q \in [pc : {"watch", "again"}, mark : 0..MaxUpdates, quiet : BOOLEAN]
    BY <1>0, <2>1 DEF WatcherState, Off
  <2>3. PICK y \in WatcherState :
          watcher' = [watcher EXCEPT ![w] = y] /\ y.pc \in {"watch", "again"} /\ y.mark = q.mark
    <3>0. PICK x \in [pc : {"watch", "again"}, mark : 0..MaxUpdates, quiet : BOOLEAN] : x = q
      BY <2>2
    <3>1. PICK y \in {[x EXCEPT !.quiet = FALSE], [x EXCEPT !.quiet = TRUE], [x EXCEPT !.pc = "again"]} :
            watcher' = [watcher EXCEPT ![w] = y]
      BY <1>3, <3>0 DEF Looks, Watches
    <3>2. y \in WatcherState /\ y.pc \in {"watch", "again"} /\ y.mark = x.mark
      BY DEF WatcherState
    <3> QED BY <3>0, <3>1, <3>2
  <2>4. UNCHANGED <<watermark, shown, preread, faults>>
    BY <1>3 DEF Looks, history
  <2>5. PICK n \in 0..MaxUpdates : n = q.mark
    BY <2>1
  <2>6. Covered(n)' /\ Covered(watermark)' /\ Pending(n)' # {}
    BY <1>0, <2>1, <2>4, <2>5 DEF Covered, Pending
  <2> QED BY <1>0, <2>3, <2>4, <2>5, <2>6, WatcherShapes
<1>4. CASE ShowBatch(w)
  <2>1. q.pc = "again" /\ q.mark \in 0..MaxUpdates /\ q.quiet \in BOOLEAN /\ Pending(q.mark) # {} /\ Covered(q.mark)
    BY <1>0, <1>4, WatcherShapes DEF ShowBatch, MarksAreCovered
  <2>2. q = [pc |-> "again", mark |-> q.mark, quiet |-> q.quiet]
    BY <1>0, <2>1 DEF WatcherState, Off
  <2>3. UNCHANGED <<watermark, preread, faults>>
    BY <1>4 DEF ShowBatch
  <2>4. PICK n \in 0..MaxUpdates, b \in BOOLEAN : n = q.mark /\ b = q.quiet
    BY <2>1
  <2>5. CASE AllHeard(Pending(n))
    <3>1. shown' = shown \cup Pending(n) /\ watcher' = [watcher EXCEPT ![w] = [pc |-> "printed", last |-> Max(Pending(n))]]
      BY <1>4, <2>4, <2>5 DEF ShowBatch, Watches
    <3>2. Pending(n) \in SUBSET (1..Len(rows)) /\ Pending(n) # {}
      BY <1>0, <2>1, <2>4 DEF Pending
    <3>3. Max(Pending(n)) \in Pending(n) /\ \A i \in Pending(n) : i <= Max(Pending(n))
      BY <1>0, <3>2, MaxIsIn
    <3>4. PICK l \in 1..MaxUpdates : l = Max(Pending(n)) /\ l <= Len(rows)
      BY <1>0, <3>2, <3>3
    <3>5. [pc |-> "printed", last |-> l] \in WatcherState
      BY WatcherStates
    <3>6. Covered(l)' /\ Covered(watermark)'
      BY <1>0, <2>1, <2>3, <2>4, <3>1, <3>4 DEF Covered, Pending
    <3>7. \A i \in shown' \ shown : rows[i].status # "transcribing"
      BY <2>5, <3>1 DEF AllHeard
    <3> QED BY <1>0, <2>3, <3>1, <3>2, <3>4, <3>5, <3>6, <3>7
  <2>6. CASE ~AllHeard(Pending(n))
    <3>1. UNCHANGED shown /\ watcher' = [watcher EXCEPT ![w] = [pc |-> "watch", mark |-> n, quiet |-> b]]
      BY <1>4, <2>2, <2>4, <2>6 DEF ShowBatch, Watches
    <3>2. Covered(n)' /\ Covered(watermark)'
      BY <1>0, <2>1, <2>3, <2>4, <3>1 DEF Covered
    <3>3. [pc |-> "watch", mark |-> n, quiet |-> b] \in WatcherState
      BY WatcherStates
    <3> QED BY <1>0, <2>3, <3>1, <3>2, <3>3
  <2> QED BY <2>5, <2>6
<1>5. CASE WriteMark(w)
  <2>1. q.pc = "printed" /\ q.last \in 1..MaxUpdates /\ Covered(q.last)
    BY <1>0, <1>5, WatcherShapes DEF WriteMark, MarksAreCovered
  <2>2. /\ watcher' = [watcher EXCEPT ![w] = Off] /\ watermark' = q.last /\ UNCHANGED <<shown, preread, faults>>
    BY <1>5 DEF WriteMark, Watches, history
  <2>3. Covered(watermark)'
    BY <1>0, <2>1, <2>2 DEF Covered
  <2>4. Off \in WatcherState /\ Off.pc = "off" /\ q.last \in Marks
    BY <2>1, WatcherStates DEF Off, Marks
  <2> QED BY <1>0, <2>2, <2>3, <2>4
<1> QED BY <1>1, <1>2, <1>3, <1>4, <1>5 DEF WatchAct

(* watch.py                                                                   *)
LEMMA WatchKeeps ==
  ASSUME InboxIInv, NEW w \in Watchers, WatchAct(w)
  PROVE  InboxIInv'
<1>0. /\ UNCHANGED <<updates, confirmed, rows, offset, beating, hasKey, poller, saved, doubled>>
      /\ TypeOK /\ MarksAreCovered /\ VoiceIsShownHeard
  BY WatchLeaves DEF InboxIInv
<1>1. PICK q \in WatcherState :
        /\ watcher' = [watcher EXCEPT ![w] = q]
        /\ q.pc \in {"watch", "again"} => Covered(q.mark)'
        /\ q.pc = "again" => Pending(q.mark)' # {}
        /\ q.pc = "printed" => Covered(q.last)'
  BY WatchShows
<1>2. /\ watermark' \in Marks /\ Covered(watermark)'
      /\ shown \subseteq shown' /\ shown' \subseteq DOMAIN rows
      /\ preread \subseteq preread' /\ preread' \subseteq DOMAIN rows
      /\ \A i \in shown' \ shown : rows[i].status # "transcribing"
      /\ faults' \in 0..MaxFaults
  BY WatchShows
<1>3. /\ watcher' \in [Watchers -> WatcherState]
      /\ \A o \in Watchers : watcher'[o] = IF o = w THEN q ELSE watcher[o]
  BY <1>0, <1>1, InboxBasics
<1>4. TypeOK'
  BY <1>0, <1>2, <1>3 DEF TypeOK
<1>5. UpdatesAreEdits' /\ StoreIsAhead' /\ OneCopy' /\ RowsDiffer'
  BY <1>0, StoreUntouched
<1>6. MarksAreCovered'
  <2>1. ASSUME NEW o \in Watchers, NEW x \in WatcherState, x = watcher'[o]
        PROVE  /\ x.pc \in {"watch", "again"} => Covered(x.mark)'
               /\ x.pc = "again" => Pending(x.mark)' # {}
               /\ x.pc = "printed" => Covered(x.last)'
    <3>1. CASE o = w
      BY <1>1, <1>3, <2>1, <3>1
    <3>2. CASE o # w
      BY <1>0, <1>2, <1>3, <2>1, <3>2 DEF MarksAreCovered, Covered, Pending
    <3> QED BY <3>1, <3>2
  <2>2. \A o \in Watchers : watcher'[o] \in WatcherState
    BY <1>3
  <2> QED BY <1>2, <2>1, <2>2 DEF MarksAreCovered, Covered, Pending
<1>7. VoiceIsShownHeard'
  BY <1>0, <1>2 DEF VoiceIsShownHeard
<1> QED BY <1>4, <1>5, <1>6, <1>7 DEF InboxIInv, RowsDiffer

(* What a copy of the bot may turn to, whatever it does next.                 *)
MayTurnTo(q) ==
  /\ q.pc = "ask" => q.offset <= saved + 1
  /\ q.pc = "got" => q.first <= saved + 1 /\ q.first <= q.last /\ q.last <= Len(updates)
  /\ q.pc = "saved" => q.last <= saved
  /\ q.pc = "hear" => q.todo # {} /\ \A v \in q.todo : v.id \in DOMAIN rows

AloneMayTurnTo(q) ==
  /\ q.pc = "ask" => q.offset = offset
  /\ q.pc = "got" => q.first = offset /\ q.last <= offset + MaxBatch - 1 /\ saved <= q.last
  /\ q.pc = "saved" => q.last = saved
  /\ q.pc = "hear" =>
       /\ \A v \in q.todo : rows[v.id].status = "transcribing"
       /\ \A v, x \in q.todo : v.id = x.id => v = x

(* The two in terms of what the copies are doing.                             *)
LEMMA CopiesTurned ==
  /\ StoreIsAhead =>
       \A p \in Pollers : MayTurnTo(poller[p])
  /\ OneCopy /\ ~doubled =>
       /\ \A p, o \in Pollers : ~At(p, "off") /\ ~At(o, "off") => p = o
       /\ \A p \in Pollers : AloneMayTurnTo(poller[p])
       /\ saved <= offset + MaxBatch - 1
       /\ \A i \in DOMAIN rows : SaysNewest(rows[i], saved, saved)
BY DEF StoreIsAhead, OneCopy, MayTurnTo, AloneMayTurnTo, At

(* A copy of the bot goes on, and no row is written.                          *)
LEMMA PollerMoves ==
  ASSUME InboxIInv, NEW p \in Pollers, NEW q \in PollerState, poller' = [poller EXCEPT ![p] = q],
         UNCHANGED <<updates, rows, saved, hasKey, watcher, watermark, shown, preread>>,
         doubled' \in BOOLEAN, doubled' \in {doubled, TRUE}, beating' \in BOOLEAN, faults' \in 0..MaxFaults,
         confirmed' \in 1..saved + 1, offset' \in 1..saved + 1,
         MayTurnTo(q)',
         ~doubled' => /\ AloneMayTurnTo(q)' /\ saved <= offset' + MaxBatch - 1
                      /\ offset' = offset \/ q.pc = "off" \/ ~At(p, "off")
                      /\ q.pc = "off" => offset' = offset
                      /\ q.pc # "off" => ~At(p, "off") \/ \A o \in Pollers : At(o, "off")
  PROVE  InboxIInv'
<1>0. /\ TypeOK /\ StoreIsAhead /\ OneCopy /\ VoiceIsShownHeard /\ RowsDiffer
      /\ saved \in Nat /\ saved <= Len(updates) /\ Len(updates) \in Nat /\ poller \in [Pollers -> PollerState]
  BY InboxBasics DEF InboxIInv, RowsDiffer
<1>1. poller' \in [Pollers -> PollerState] /\ \A o \in Pollers : poller'[o] = IF o = p THEN q ELSE poller[o]
  BY <1>0
<1>2. TypeOK'
  BY <1>0, <1>1 DEF TypeOK
<1>3. UpdatesAreEdits'
  BY DEF InboxIInv, UpdatesAreEdits, Written
<1>4. MarksAreCovered' /\ VoiceIsShownHeard'
  BY DEF InboxIInv, MarksAreCovered, Covered, Pending, VoiceIsShownHeard
<1>5. StoreIsAhead'
  <2>1. ASSUME NEW o \in Pollers, NEW x \in PollerState, x = poller'[o]
        PROVE  MayTurnTo(x)'
    <3>1. CASE o = p
      BY <1>1, <2>1, <3>1 DEF MayTurnTo
    <3>2. CASE o # p
      BY <1>0, <1>1, <2>1, <3>2, CopiesTurned DEF MayTurnTo
    <3> QED BY <3>1, <3>2
  <2>2. \A o \in Pollers : poller'[o] \in PollerState
    BY <1>1
  <2>3. ASSUME NEW o \in Pollers
        PROVE  /\ At(o, "ask")' => poller'[o].offset <= saved' + 1
               /\ At(o, "got")' => /\ poller'[o].first <= saved' + 1 /\ poller'[o].first <= poller'[o].last
                                   /\ poller'[o].last <= Len(updates')
               /\ At(o, "saved")' => poller'[o].last <= saved'
               /\ At(o, "hear")' => poller'[o].todo # {} /\ \A v \in poller'[o].todo : v.id \in DOMAIN rows'
    <3>1. PICK x \in PollerState : x = poller'[o]
      BY <2>2
    <3>2. MayTurnTo(x)'
      BY <2>1, <3>1
    <3> QED BY <3>1, <3>2 DEF MayTurnTo, At
  <2>4. confirmed' <= saved' + 1 /\ offset' <= saved' + 1
    BY <1>0
  <2> QED BY <1>0, <2>3, <2>4 DEF StoreIsAhead, RowOf
<1>6. OneCopy'
  <2> SUFFICES ASSUME ~doubled' PROVE OneCopy'
    BY DEF OneCopy
  <2>1. /\ ~doubled /\ \A o, x \in Pollers : ~At(o, "off") /\ ~At(x, "off") => o = x
        /\ \A o \in Pollers : AloneMayTurnTo(poller[o])
        /\ \A i \in DOMAIN rows : SaysNewest(rows[i], saved, saved)
    <3>1. ~doubled
      <4>1. CASE doubled' = doubled
        BY <4>1
      <4>2. CASE doubled' = TRUE
        BY <4>2
      <4> QED BY <4>1, <4>2
    <3> QED BY <1>0, <3>1, CopiesTurned
  <2>2. \A o \in Pollers \ {p} : At(o, "off")' \/ offset' = offset
    BY <1>1, <2>1 DEF At
  <2>3. \A o, x \in Pollers : ~At(o, "off")' /\ ~At(x, "off")' => o = x
    BY <1>1, <2>1 DEF At
  <2>4. ASSUME NEW o \in Pollers, NEW x \in PollerState, x = poller'[o]
        PROVE  AloneMayTurnTo(x)'
    <3>1. CASE o = p
      BY <1>1, <2>4, <3>1 DEF AloneMayTurnTo
    <3>2. CASE o # p
      <4>1. x.pc = "off" \/ offset' = offset
        BY <2>2, <2>4, <3>2 DEF At
      <4>2. AloneMayTurnTo(x)
        BY <1>1, <2>1, <2>4, <3>2
      <4> QED BY <4>1, <4>2 DEF AloneMayTurnTo
    <3> QED BY <3>1, <3>2
  <2>5. \A o \in Pollers : poller'[o] \in PollerState
    BY <1>1
  <2>6. ASSUME NEW o \in Pollers
        PROVE  /\ At(o, "ask")' => poller'[o].offset = offset'
               /\ At(o, "got")' => /\ poller'[o].first = offset' /\ poller'[o].last <= offset' + MaxBatch - 1
                                   /\ saved' <= poller'[o].last
               /\ At(o, "saved")' => poller'[o].last = saved'
               /\ At(o, "hear")' =>
                    /\ \A v \in poller'[o].todo : rows'[v.id].status = "transcribing"
                    /\ \A v, x \in poller'[o].todo : v.id = x.id => v = x
    <3>1. PICK x \in PollerState : x = poller'[o]
      BY <2>5
    <3>2. AloneMayTurnTo(x)'
      BY <2>4, <3>1
    <3> QED BY <3>1, <3>2 DEF AloneMayTurnTo, At
  <2>7. \A i \in DOMAIN rows' : SaysNewest(rows[i], saved, saved)'
    BY <2>1 DEF SaysNewest
  <2>8. saved' <= offset' + MaxBatch - 1
    OBVIOUS
  <2> QED BY <2>3, <2>6, <2>7, <2>8 DEF OneCopy
<1> QED BY <1>0, <1>2, <1>3, <1>4, <1>5, <1>6 DEF InboxIInv, RowsDiffer

(* A turn is over, or hears what was read as pending.                         *)
LEMMA TurnsOn ==
  ASSUME TypeOK, NEW p \in Pollers, poller[p].pc # "off", NEW todo \in SUBSET [id : Ids, attempts : 0..2], TurnsTo(p, todo)
  PROVE  \E q \in PollerState :
           /\ poller' = [poller EXCEPT ![p] = q] /\ q.pc \in {"idle", "hear"}
           /\ q.pc = "hear" => q.todo = todo /\ todo # {}
<1>1. poller[p] \in PollerState
  BY InboxBasics
<1>2. PICK k \in BOOLEAN : k = poller[p].key
  BY <1>1, PollerShapes
<1>3. CASE todo = {}
  <2>1. poller' = [poller EXCEPT ![p] = [pc |-> "idle", key |-> k]]
    BY <1>2, <1>3 DEF TurnsTo, Turns
  <2> QED BY <2>1, PollerStates
<1>4. CASE todo # {}
  <2>1. poller' = [poller EXCEPT ![p] = [pc |-> "hear", key |-> k, todo |-> todo]]
    BY <1>2, <1>4 DEF TurnsTo, Turns
  <2> QED BY <1>4, <2>1, PollerStates
<1> QED BY <1>3, <1>4

(* pending_transcriptions                                                     *)
LEMMA HearsOn ==
  ASSUME InboxIInv, NEW p \in Pollers, poller[p].pc # "off", Hears(p)
  PROVE  \E q \in PollerState :
           /\ poller' = [poller EXCEPT ![p] = q] /\ q.pc \in {"idle", "hear"}
           /\ q.pc = "hear" =>
                /\ q.todo # {} /\ \A v \in q.todo : v.id \in DOMAIN rows /\ rows[v.id].status = "transcribing"
                /\ \A v, x \in q.todo : v.id = x.id => v = x
<1> DEFINE todo == IF poller[p].key
                   THEN {[id |-> i, attempts |-> rows[i].attempts] :
                           i \in {j \in DOMAIN rows : rows[j].status = "transcribing"}}
                   ELSE {}
<1>0. TypeOK /\ StoreIsAhead
  BY DEF InboxIInv
<1>1. \A v \in todo : /\ v.id \in DOMAIN rows /\ rows[v.id].status = "transcribing"
                      /\ v = [id |-> v.id, attempts |-> rows[v.id].attempts]
  OBVIOUS
<1>2. todo \in SUBSET [id : Ids, attempts : 0..2]
  <2>1. ASSUME NEW v \in todo PROVE v.id \in Ids /\ rows[v.id].attempts \in 0..2
    <3>1. v.id \in 1..Len(rows) /\ rows[v.id] \in Rows /\ Len(rows) <= MaxUpdates /\ MaxUpdates \in Nat /\ Len(rows) \in Nat
      BY <1>0, <1>1, <2>1, InboxBasics
    <3>2. rows[v.id].attempts \in 0..MAX_TRANSCRIBE_ATTEMPTS /\ rows[v.id].attempts <= 2
      BY <1>0, <1>1, <2>1, <3>1 DEF StoreIsAhead, Rows
    <3> QED BY <3>1, <3>2 DEF Ids, MAX_TRANSCRIBE_ATTEMPTS
  <2> QED BY <1>1, <2>1
<1>3. TurnsTo(p, todo)
  BY DEF Hears
<1> HIDE DEF todo
<1>4. \A v, x \in todo : v.id = x.id => v = x
  BY <1>1
<1> QED BY <1>0, <1>1, <1>2, <1>3, <1>4, TurnsOn

(* poller.py, but for what writes rows.                                       *)
LEMMA TurnKeeps ==
  ASSUME InboxIInv, NEW p \in Pollers,
         StartPoller(p) \/ BeginTurn(p) \/ GetUpdates(p) \/ PollFails(p) \/ MoveOffset(p) \/ PollerDies(p)
  PROVE  InboxIInv'
<1> DEFINE q == poller[p]
<1>0. /\ TypeOK /\ q \in PollerState /\ MayTurnTo(q) /\ Len(updates) \in Nat /\ saved \in 0..Len(updates)
      /\ confirmed \in 1..saved + 1 /\ offset \in 1..saved + 1 /\ MaxBatch \in Nat /\ MaxBatch >= 1 /\ MaxUpdates \in Nat
      /\ {beating, doubled, hasKey} \subseteq BOOLEAN /\ faults \in 0..MaxFaults /\ Len(updates) <= MaxUpdates
  <2>1. TypeOK /\ StoreIsAhead
    BY DEF InboxIInv
  <2>2. confirmed <= saved + 1 /\ offset <= saved + 1
    BY <2>1 DEF StoreIsAhead
  <2>3. /\ q \in PollerState /\ Len(updates) \in Nat /\ saved \in 0..Len(updates) /\ MaxBatch \in Nat /\ MaxBatch >= 1
        /\ MaxUpdates \in Nat /\ confirmed \in 1..Len(updates) + 1 /\ offset \in 1..Len(updates) + 1
        /\ {beating, doubled, hasKey} \subseteq BOOLEAN /\ faults \in 0..MaxFaults /\ Len(updates) <= MaxUpdates
    BY <2>1, InboxBasics
  <2> QED BY <2>1, <2>2, <2>3, CopiesTurned
<1>1. ~doubled => AloneMayTurnTo(q) /\ saved <= offset + MaxBatch - 1
  BY CopiesTurned DEF InboxIInv
<1>2. UNCHANGED <<updates, rows, saved, hasKey, watcher, watermark, shown, preread>>
  BY DEF StartPoller, BeginTurn, GetUpdates, PollFails, MoveOffset, PollerDies, telegram, store, history
<1>3. CASE StartPoller(p)
  <2>1. PICK x \in PollerState : poller' = [poller EXCEPT ![p] = x] /\ x.pc = "idle"
    BY <1>0, <1>3, PollerStates DEF StartPoller, Turns
  <2>2. /\ UNCHANGED <<confirmed, offset, beating>> /\ doubled' \in BOOLEAN /\ doubled' \in {doubled, TRUE}
        /\ ~doubled' => ~doubled /\ \A o \in Pollers : At(o, "off")
    BY <1>0, <1>3 DEF StartPoller, telegram, store
  <2>3. faults' \in 0..MaxFaults
    BY <1>0, <1>3, FaultCounted DEF StartPoller
  <2>4. MayTurnTo(x)' /\ AloneMayTurnTo(x)'
    BY <2>1 DEF MayTurnTo, AloneMayTurnTo
  <2>5. confirmed' \in 1..saved + 1 /\ offset' \in 1..saved + 1 /\ beating' \in BOOLEAN
    BY <1>0, <2>2
  <2>6. ~doubled' => saved <= offset' + MaxBatch - 1 /\ offset' = offset /\ \A o \in Pollers : At(o, "off")
    BY <1>1, <2>2
  <2>7. ~doubled' => /\ AloneMayTurnTo(x)' /\ saved <= offset' + MaxBatch - 1
                     /\ offset' = offset \/ x.pc = "off" \/ ~At(p, "off")
                     /\ x.pc = "off" => offset' = offset
                     /\ x.pc # "off" => ~At(p, "off") \/ \A o \in Pollers : At(o, "off")
    BY <2>4, <2>6
  <2>8. /\ poller' = [poller EXCEPT ![p] = x]
        /\ UNCHANGED <<updates, rows, saved, hasKey, watcher, watermark, shown, preread>>
        /\ doubled' \in BOOLEAN /\ doubled' \in {doubled, TRUE}
    BY <1>2, <2>1, <2>2
  <2> HIDE DEF q
  <2> QED BY <2>3, <2>4, <2>5, <2>7, <2>8, PollerMoves
<1>4. CASE BeginTurn(p)
  <2>1. PICK n \in 1..MaxUpdates + 1 : n = offset
    BY <1>0
  <2>2. q.pc = "idle" /\ q.key \in BOOLEAN
    BY <1>0, <1>4, PollerShapes DEF BeginTurn, At
  <2>3. PICK x \in PollerState : poller' = [poller EXCEPT ![p] = x] /\ x.pc = "ask" /\ x.offset = n
    BY <1>4, <2>1, <2>2, PollerStates DEF BeginTurn, Turns
  <2>4. UNCHANGED <<confirmed, offset, doubled, faults>> /\ beating' \in BOOLEAN /\ ~At(p, "off")
    BY <1>4 DEF BeginTurn, telegram, history, At
  <2>5. MayTurnTo(x)' /\ AloneMayTurnTo(x)'
    BY <1>0, <1>2, <2>1, <2>3, <2>4 DEF MayTurnTo, AloneMayTurnTo
  <2>6. /\ confirmed' \in 1..saved + 1 /\ offset' \in 1..saved + 1
        /\ doubled' \in BOOLEAN /\ doubled' \in {doubled, TRUE} /\ faults' \in 0..MaxFaults
    BY <1>0, <2>4
  <2>7. ~doubled' => saved <= offset' + MaxBatch - 1 /\ offset' = offset
    BY <1>1, <2>4
  <2> HIDE DEF q
  <2> QED BY <1>2, <2>3, <2>4, <2>5, <2>6, <2>7, PollerMoves
<1>5. CASE GetUpdates(p)
  <2>1. /\ q.pc = "ask" /\ q.key \in BOOLEAN /\ q.offset \in 1..saved + 1 /\ ~At(p, "off")
        /\ UNCHANGED <<offset, beating, doubled, faults>>
    BY <1>0, <1>5, PollerShapes DEF GetUpdates, MayTurnTo, At, store, history
  <2>2. confirmed' \in 1..saved + 1
    <3>1. confirmed' = Max({confirmed, q.offset})
      BY <1>5 DEF GetUpdates
    <3>2. {confirmed, q.offset} \in SUBSET (1..saved + 1) /\ {confirmed, q.offset} # {} /\ saved + 1 \in Nat
      BY <1>0, <2>1
    <3> HIDE DEF q
    <3> QED BY <3>1, <3>2, MaxIsIn
  <2>3. CASE q.offset > Len(updates)
    <3>1. PICK x \in PollerState :
            /\ poller' = [poller EXCEPT ![p] = x] /\ x.pc \in {"idle", "hear"}
            /\ x.pc = "hear" =>
                 /\ x.todo # {} /\ \A v \in x.todo : v.id \in DOMAIN rows /\ rows[v.id].status = "transcribing"
                 /\ \A v, y \in x.todo : v.id = y.id => v = y
      BY <1>5, <2>1, <2>3, HearsOn DEF GetUpdates
    <3> QED BY <1>0, <1>1, <1>2, <2>1, <2>2, <3>1, PollerMoves DEF MayTurnTo, AloneMayTurnTo
  <2>4. CASE ~(q.offset > Len(updates))
    <3>1. PICK n \in 1..MaxUpdates, k \in BOOLEAN : n = q.offset /\ k = q.key
      BY <1>0, <2>1, <2>4
    <3>2. PICK l \in n..Len(updates) : /\ l = Min({Len(updates), n + MaxBatch - 1})
                                       /\ l = Len(updates) \/ l = n + MaxBatch - 1
                                       /\ l <= n + MaxBatch - 1
      <4>1. n <= Len(updates) /\ n <= n + MaxBatch - 1
        BY <1>0, <2>4, <3>1
      <4>2. \E a \in {Len(updates), n + MaxBatch - 1} : \A b \in {Len(updates), n + MaxBatch - 1} : a <= b
        BY <1>0, <3>1
      <4>3. PICK a \in {Len(updates), n + MaxBatch - 1} :
              /\ a = Min({Len(updates), n + MaxBatch - 1})
              /\ \A b \in {Len(updates), n + MaxBatch - 1} : a <= b
        BY <4>2 DEF Min
      <4> QED BY <1>0, <3>1, <4>1, <4>3
    <3>3. poller' = [poller EXCEPT ![p] = [pc |-> "got", key |-> k, first |-> n, last |-> l]]
      BY <1>5, <2>4, <3>1, <3>2 DEF GetUpdates, Turns
    <3>4. l \in 1..MaxUpdates /\ n <= saved + 1
      BY <1>0, <2>1, <3>1, <3>2
    <3>5. PICK x \in PollerState : poller' = [poller EXCEPT ![p] = x] /\ x.pc = "got" /\ x.first = n /\ x.last = l
      BY <3>3, <3>4, PollerStates
    <3>6. MayTurnTo(x)'
      BY <1>2, <3>1, <3>2, <3>4, <3>5 DEF MayTurnTo
    <3>7. ~doubled' => AloneMayTurnTo(x)' /\ saved <= offset' + MaxBatch - 1
      <4>1. ASSUME ~doubled PROVE n = offset /\ saved <= l /\ saved <= offset + MaxBatch - 1
        <5>1. n = offset /\ saved <= offset + MaxBatch - 1
          BY <1>1, <2>1, <3>1, <4>1 DEF AloneMayTurnTo
        <5> QED BY <1>0, <3>2, <5>1
      <4> QED BY <1>2, <2>1, <3>2, <3>5, <4>1 DEF AloneMayTurnTo
    <3> QED BY <1>0, <1>2, <2>1, <2>2, <3>5, <3>6, <3>7, PollerMoves
  <2> QED BY <2>3, <2>4
<1>6. CASE PollFails(p)
  <2>1. q.pc = "ask" /\ q.key \in BOOLEAN /\ ~At(p, "off")
    BY <1>0, <1>6, PollerShapes DEF PollFails, At
  <2>2. PICK x \in PollerState : poller' = [poller EXCEPT ![p] = x] /\ x.pc = "idle"
    BY <1>6, <2>1, PollerStates DEF PollFails, Turns
  <2>3. UNCHANGED <<confirmed, offset, doubled, beating>> /\ faults' \in 0..MaxFaults
    BY <1>0, <1>6, FaultCounted DEF PollFails, telegram, store, history
  <2> QED BY <1>0, <1>1, <1>2, <2>1, <2>2, <2>3, PollerMoves DEF MayTurnTo, AloneMayTurnTo
<1>7. CASE MoveOffset(p)
  <2>1. /\ q.pc = "saved" /\ q.last \in 1..saved /\ ~At(p, "off") /\ offset' = q.last + 1
        /\ UNCHANGED <<confirmed, beating, doubled, faults>>
    BY <1>0, <1>7, PollerShapes DEF MoveOffset, MayTurnTo, At, telegram, history
  <2>2. PICK x \in PollerState :
          /\ poller' = [poller EXCEPT ![p] = x] /\ x.pc \in {"idle", "hear"}
          /\ x.pc = "hear" =>
               /\ x.todo # {} /\ \A v \in x.todo : v.id \in DOMAIN rows /\ rows[v.id].status = "transcribing"
               /\ \A v, y \in x.todo : v.id = y.id => v = y
    BY <1>7, <2>1, HearsOn DEF MoveOffset
  <2>3. ~doubled => saved <= offset' + MaxBatch - 1
    BY <1>0, <1>1, <2>1 DEF AloneMayTurnTo
  <2>4. MayTurnTo(x)' /\ AloneMayTurnTo(x)'
    BY <1>2, <2>2 DEF MayTurnTo, AloneMayTurnTo
  <2>5. /\ confirmed' \in 1..saved + 1 /\ offset' \in 1..saved + 1 /\ beating' \in BOOLEAN
        /\ doubled' \in BOOLEAN /\ faults' \in 0..MaxFaults
    BY <1>0, <2>1
  <2> HIDE DEF q
  <2> QED BY <1>2, <2>1, <2>2, <2>3, <2>4, <2>5, PollerMoves
<1>8. CASE PollerDies(p)
  <2>1. /\ poller' = [poller EXCEPT ![p] = Off] /\ Off \in PollerState /\ Off.pc = "off"
        /\ UNCHANGED <<confirmed, offset, doubled, beating>> /\ faults' \in 0..MaxFaults
    BY <1>0, <1>8, FaultCounted, PollerStates DEF PollerDies, Turns, Off, telegram, store, history
  <2> QED BY <1>0, <1>1, <1>2, <2>1, PollerMoves DEF MayTurnTo, AloneMayTurnTo
<1> QED BY <1>3, <1>4, <1>5, <1>6, <1>7, <1>8

(* People: what is written is new, or an edit of what is there.               *)
LEMMA WriteKeeps ==
  ASSUME InboxIInv, NEW u \in Updates, Write(u),
         NEW n \in 0..Len(updates), Written = 1..n, u.msg \in 1..n + 1,
         u.version < Len(updates) + 1,
         \A o \in DOMAIN updates : updates[o].msg = u.msg => u.version > 0 /\ ~u.voice
  PROVE  InboxIInv'
<1>0. /\ TypeOK /\ UpdatesAreEdits /\ StoreIsAhead /\ OneCopy
      /\ Len(updates) < MaxUpdates /\ MaxUpdates \in Nat /\ Len(updates) \in Nat /\ saved \in 0..Len(updates)
      /\ updates \in Seq(Updates) /\ DOMAIN updates = 1..Len(updates) /\ updates' = Append(updates, u)
      /\ UNCHANGED <<confirmed, rows, offset, beating, hasKey, poller, watcher, watermark, saved, shown, preread,
                     doubled, faults>>
  <2>1. TypeOK /\ UpdatesAreEdits /\ StoreIsAhead /\ OneCopy
    BY DEF InboxIInv
  <2> QED BY <2>1, InboxBasics DEF Write, store, history
<1>1. /\ updates' \in Seq(Updates) /\ Len(updates') = Len(updates) + 1 /\ DOMAIN updates' = 1..Len(updates) + 1
      /\ \A o \in DOMAIN updates : updates'[o] = updates[o]
      /\ updates'[Len(updates) + 1] = u
  BY <1>0, AppendProperties
<1>2. TypeOK'
  BY <1>0, <1>1 DEF TypeOK
<1>3. UpdatesAreEdits'
  <2>1. Written' = Written \cup {u.msg}
    BY <1>0, <1>1 DEF Written
  <2>2. \E k \in 0..Len(updates') : Written' = 1..k
    <3>1. CASE u.msg \in 1..n
      BY <1>1, <2>1, <3>1
    <3>2. CASE u.msg = n + 1
      BY <1>0, <1>1, <2>1, <3>2
    <3> QED BY <3>1, <3>2
  <2>3. \A o \in DOMAIN updates' : updates'[o].version < o
    BY <1>0, <1>1 DEF UpdatesAreEdits
  <2>4. \A o, x \in DOMAIN updates' :
          o < x /\ updates'[o].msg = updates'[x].msg => updates'[x].version > 0 /\ ~updates'[x].voice
    BY <1>0, <1>1 DEF UpdatesAreEdits
  <2> QED BY <2>2, <2>3, <2>4 DEF UpdatesAreEdits
<1>4. StoreIsAhead'
  <2>1. \A o \in 1..saved : updates'[o] = updates[o]
    BY <1>0, <1>1
  <2>2. /\ \A o \in 1..saved' : RowOf(rows', updates'[o].msg) # {}
        /\ \A i \in DOMAIN rows' : \E o \in 1..saved' : updates'[o].msg = rows'[i].msg
    BY <1>0, <2>1 DEF StoreIsAhead, RowOf
  <2>3. \A p \in Pollers : /\ At(p, "got")' => poller'[p].first <= saved' + 1 /\ poller'[p].first <= poller'[p].last
                           /\ At(p, "got")' => poller'[p].last <= Len(updates')
    <3> SUFFICES ASSUME NEW p \in Pollers, NEW q \in PollerState, q = poller[p], q.pc = "got"
                 PROVE  q.first <= saved + 1 /\ q.first <= q.last /\ q.last <= Len(updates) + 1
      BY <1>0, <1>1, InboxBasics DEF At
    <3>1. q.first <= saved + 1 /\ q.first <= q.last /\ q.last <= Len(updates) /\ q.last \in 1..MaxUpdates
      BY <1>0, PollerShapes DEF StoreIsAhead, At
    <3> QED BY <1>0, <3>1
  <2> QED BY <1>0, <2>2, <2>3 DEF StoreIsAhead, At
<1>5. OneCopy'
  <2>1. \A o \in 1..saved : updates'[o] = updates[o]
    BY <1>0, <1>1
  <2>2. \A i \in DOMAIN rows : SaysNewest(rows[i], saved, saved) => SaysNewest(rows[i], saved, saved)'
    BY <1>0, <2>1 DEF SaysNewest
  <2> QED BY <1>0, <2>2 DEF OneCopy, At
<1>6. MarksAreCovered' /\ VoiceIsShownHeard' /\ RowsDiffer'
  BY <1>0, ScreenUntouched
<1> QED BY <1>2, <1>3, <1>4, <1>5, <1>6 DEF InboxIInv, RowsDiffer

(* A message more, or an edit, is newer than everything stored.               *)
LEMMA PeopleKeep ==
  ASSUME InboxIInv, NewMessage \/ EditMessage
  PROVE  InboxIInv'
<1>0. /\ TypeOK /\ UpdatesAreEdits /\ MaxUpdates \in Nat /\ Len(updates) \in Nat /\ Len(updates) <= MaxUpdates
      /\ DOMAIN updates = 1..Len(updates) /\ \A u \in DOMAIN updates : updates[u] \in Updates
  <2>1. TypeOK /\ UpdatesAreEdits
    BY DEF InboxIInv
  <2> QED BY <2>1, InboxBasics
<1>1. PICK n \in 0..Len(updates) : Written = 1..n
  BY <1>0 DEF UpdatesAreEdits
<1>2. \A o \in DOMAIN updates : updates[o].msg \in 1..n
  BY <1>1 DEF Written
<1>3. CASE NewMessage
  <2>1. Cardinality(Written) = n
    BY <1>1, FS_Interval
  <2>2. PICK watched, voice \in BOOLEAN : Write([msg |-> n + 1, watched |-> watched, voice |-> voice, version |-> 0])
    BY <1>3, <2>1 DEF NewMessage
  <2> DEFINE u == [msg |-> n + 1, watched |-> watched, voice |-> voice, version |-> 0]
  <2>3. Len(updates) < MaxUpdates
    BY <2>2 DEF Write
  <2>4. u \in Updates /\ u.msg = n + 1 /\ u.version = 0
    BY <1>0, <2>3 DEF Updates, Ids
  <2>5. \A o \in DOMAIN updates : updates[o].msg # u.msg
    BY <1>2, <2>4
  <2> HIDE DEF u
  <2>6. Write(u)
    BY <2>2 DEF u
  <2> QED BY <1>0, <1>1, <2>4, <2>5, <2>6, WriteKeeps
<1>4. CASE EditMessage
  <2>1. PICK m \in Written : LET last == updates[LastOf(m, Len(updates))] IN
                               ~last.voice /\ Write([last EXCEPT !.version = @ + 1])
    BY <1>4 DEF EditMessage
  <2>2. PICK l \in DOMAIN updates : l = LastOf(m, Len(updates)) /\ updates[l].msg = m
    <3>1. {o \in 1..Len(updates) : updates[o].msg = m} \in SUBSET (1..Len(updates))
      OBVIOUS
    <3>2. {o \in 1..Len(updates) : updates[o].msg = m} # {}
      BY <1>0 DEF Written
    <3>3. LastOf(m, Len(updates)) \in {o \in 1..Len(updates) : updates[o].msg = m}
      BY <1>0, <3>1, <3>2, MaxIsIn DEF LastOf
    <3> QED BY <1>0, <3>3
  <2>3. PICK x \in Updates : x = updates[l] /\ x.msg = m /\ ~x.voice /\ Write([x EXCEPT !.version = x.version + 1])
    BY <1>0, <2>1, <2>2
  <2> DEFINE u == [x EXCEPT !.version = x.version + 1]
  <2>4. Len(updates) < MaxUpdates /\ x.version < l /\ l <= Len(updates) /\ x.version \in 0..MaxUpdates /\ l \in Nat
    BY <1>0, <2>2, <2>3 DEF Write, UpdatesAreEdits, Updates
  <2>5. u \in Updates /\ u.msg = m /\ u.version = x.version + 1 /\ ~u.voice
    <3>1. x.version + 1 \in 0..MaxUpdates
      BY <1>0, <2>4
    <3> QED BY <2>3, <3>1 DEF Updates
  <2>6. m \in 1..n + 1
    BY <1>1
  <2> HIDE DEF u
  <2>7. Write(u) /\ u.version > 0 /\ u.version < Len(updates) + 1
    BY <1>0, <2>3, <2>4, <2>5 DEF u
  <2> QED BY <1>0, <1>1, <2>5, <2>6, <2>7, WriteKeeps
<1> QED BY <1>3, <1>4

(* The heart and the key.                                                     *)
LEMMA SurroundingsKeep ==
  ASSUME InboxIInv, HeartStops \/ KeyIsTaken
  PROVE  InboxIInv'
<1>0. /\ UNCHANGED <<updates, confirmed, rows, offset, poller, watcher, watermark, saved, shown, preread, doubled>>
      /\ beating' \in BOOLEAN /\ hasKey' \in BOOLEAN /\ TypeOK
  BY InboxBasics DEF HeartStops, KeyIsTaken, telegram, store, history, InboxIInv
<1>1. faults' \in 0..MaxFaults
  BY <1>0, FaultCounted DEF HeartStops, KeyIsTaken
<1>2. TypeOK'
  BY <1>0, <1>1 DEF TypeOK
<1> QED BY <1>0, <1>2, ScreenUntouched, StoreUntouched DEF InboxIInv, RowsDiffer

(* Rows are written: what is there keeps its place, and what was shown its    *)
(* text, if there is one copy of the bot.                                     *)
RowsGrow(table) ==
  /\ table \in Seq(Rows) /\ Len(rows) <= Len(table) /\ Len(table) <= Len(updates)
  /\ \A i, j \in DOMAIN table : table[i].msg = table[j].msg => i = j
  /\ \A i \in DOMAIN table : table[i].status = "transcribing" => table[i].attempts <= 2
  /\ \A i \in DOMAIN rows :
       /\ table[i].msg = rows[i].msg /\ table[i].watched = rows[i].watched
       /\ ~doubled /\ i \in shown => table[i].status # "transcribing"

(* What saving a batch and hearing a voice message have in common: no row     *)
(* goes, and each stored update is still in a row.                            *)
LEMMA RowsMove ==
  ASSUME InboxIInv, NEW p \in Pollers, NEW q \in PollerState, poller' = [poller EXCEPT ![p] = q], ~At(p, "off"),
         UNCHANGED <<updates, confirmed, offset, beating, hasKey, watcher, watermark, shown, preread, doubled, faults>>,
         NEW table, table = rows', RowsGrow(table), saved' \in saved..Len(updates),
         \A u \in 1..saved' : RowOf(table, updates[u].msg) # {},
         \A i \in DOMAIN table : \E u \in 1..saved' : updates[u].msg = table[i].msg,
         ~doubled => \A i \in DOMAIN table : SaysNewest(table[i], saved', saved'),
         MayTurnTo(q)', ~doubled => AloneMayTurnTo(q)' /\ saved' <= offset + MaxBatch - 1
  PROVE  InboxIInv'
<1>0. /\ TypeOK /\ StoreIsAhead /\ OneCopy /\ VoiceIsShownHeard /\ MarksAreCovered /\ UpdatesAreEdits
      /\ saved \in Nat /\ saved <= Len(updates) /\ Len(updates) \in Nat /\ poller \in [Pollers -> PollerState]
      /\ Len(rows) \in Nat /\ DOMAIN rows = 1..Len(rows) /\ watermark \in Marks /\ MaxUpdates \in Nat
      /\ shown \subseteq DOMAIN rows /\ preread \subseteq DOMAIN rows
      /\ confirmed <= saved + 1 /\ offset <= saved + 1 /\ confirmed \in Nat /\ offset \in Nat
  <2>1. /\ TypeOK /\ StoreIsAhead /\ OneCopy /\ VoiceIsShownHeard /\ MarksAreCovered /\ UpdatesAreEdits
    BY DEF InboxIInv
  <2> QED BY <2>1, InboxBasics DEF StoreIsAhead
<1>1. poller' \in [Pollers -> PollerState] /\ \A o \in Pollers : poller'[o] = IF o = p THEN q ELSE poller[o]
  BY <1>0
<1>2. /\ Len(table) \in Nat /\ DOMAIN table = 1..Len(table) /\ table \in Seq(Rows) /\ Len(rows) <= Len(table)
      /\ Len(table) <= Len(updates) /\ DOMAIN rows \subseteq DOMAIN table /\ saved' \in Nat /\ saved <= saved'
  BY <1>0 DEF RowsGrow
<1>3. TypeOK'
  BY <1>0, <1>1, <1>2 DEF TypeOK
<1>4. UpdatesAreEdits'
  BY <1>0 DEF UpdatesAreEdits, Written
<1>5. RowsDiffer'
  BY DEF RowsGrow, RowsDiffer
<1>6. VoiceIsShownHeard'
  BY <1>0 DEF VoiceIsShownHeard, RowsGrow
<1>7. MarksAreCovered'
  <2>1. ASSUME NEW n \in Int, Covered(n) PROVE Covered(n)'
    BY <1>0, <1>2, <2>1 DEF Covered, RowsGrow
  <2>2. ASSUME NEW n \in Int, Pending(n) # {} PROVE Pending(n)' # {}
    <3>1. Pending(n) \subseteq Pending(n)'
      BY <1>0, <1>2 DEF Pending, RowsGrow
    <3> QED BY <2>2, <3>1
  <2>3. Covered(watermark)'
    <3>1. watermark \in Int /\ Covered(watermark)
      BY <1>0 DEF Marks, NoMark, MarksAreCovered
    <3>2. PICK n \in Int : n = watermark
      BY <3>1
    <3>3. Covered(n)'
      BY <2>1, <3>1, <3>2
    <3> QED BY <3>2, <3>3 DEF Covered
  <2>4. ASSUME NEW w \in Watchers, NEW x \in WatcherState, x = watcher[w]
        PROVE  /\ x.pc \in {"watch", "again"} => Covered(x.mark)'
               /\ x.pc = "again" => Pending(x.mark)' # {}
               /\ x.pc = "printed" => Covered(x.last)'
    <3>1. /\ x.pc \in {"watch", "again"} => x.mark \in Int /\ Covered(x.mark)
          /\ x.pc = "again" => Pending(x.mark) # {}
          /\ x.pc = "printed" => x.last \in Int /\ Covered(x.last)
      BY <1>0, <2>4, WatcherShapes DEF MarksAreCovered
    <3> QED BY <2>1, <2>2, <3>1
  <2>5. \A w \in Watchers : watcher[w] \in WatcherState
    BY <1>0, InboxBasics
  <2> QED BY <2>3, <2>4, <2>5 DEF MarksAreCovered, Covered, Pending
<1>8. \A o \in Pollers : poller'[o] \in PollerState
  BY <1>1
<1>9. StoreIsAhead'
  <2>1. ASSUME NEW o \in Pollers, NEW x \in PollerState, x = poller'[o]
        PROVE  MayTurnTo(x)'
    <3>1. CASE o = p
      BY <1>1, <2>1, <3>1 DEF MayTurnTo
    <3>2. CASE o # p
      <4>1. MayTurnTo(x)
        BY <1>0, <1>1, <2>1, <3>2, CopiesTurned
      <4>2. /\ x.pc = "ask" => x.offset \in Nat /\ x.offset <= saved'+ 1
            /\ x.pc = "got" => x.first \in Nat /\ x.first <= saved' + 1
            /\ x.pc = "saved" => x.last \in Nat /\ x.last <= saved'
        BY <1>0, <1>2, <4>1, PollerShapes DEF MayTurnTo
      <4> QED BY <1>2, <4>1, <4>2 DEF MayTurnTo
    <3> QED BY <3>1, <3>2
  <2>2. ASSUME NEW o \in Pollers
        PROVE  /\ At(o, "ask")' => poller'[o].offset <= saved' + 1
               /\ At(o, "got")' => /\ poller'[o].first <= saved' + 1 /\ poller'[o].first <= poller'[o].last
                                   /\ poller'[o].last <= Len(updates')
               /\ At(o, "saved")' => poller'[o].last <= saved'
               /\ At(o, "hear")' => poller'[o].todo # {} /\ \A v \in poller'[o].todo : v.id \in DOMAIN rows'
    <3>1. PICK x \in PollerState : x = poller'[o]
      BY <1>8
    <3>2. MayTurnTo(x)'
      BY <2>1, <3>1
    <3> QED BY <3>1, <3>2 DEF MayTurnTo, At
  <2>3. confirmed' <= saved' + 1 /\ offset' <= saved' + 1
    <3>1. confirmed' = confirmed /\ offset' = offset
      OBVIOUS
    <3>2. PICK n \in Nat : n = saved'
      BY <1>2
    <3>3. confirmed <= n + 1 /\ offset <= n + 1
      BY <1>0, <1>2, <3>2
    <3> QED BY <3>1, <3>2, <3>3
  <2>4. \A i \in DOMAIN rows' : rows'[i].status = "transcribing" => rows'[i].attempts <= 2
    BY DEF RowsGrow
  <2>5. /\ \A u \in 1..saved' : RowOf(rows', updates'[u].msg) # {}
        /\ \A i \in DOMAIN rows' : \E u \in 1..saved' : updates'[u].msg = rows'[i].msg
    OBVIOUS
  <2> QED BY <2>2, <2>3, <2>4, <2>5 DEF StoreIsAhead, RowOf
<1>10. OneCopy'
  <2> SUFFICES ASSUME ~doubled' PROVE OneCopy'
    BY DEF OneCopy
  <2>1. ~doubled /\ \A o \in Pollers \ {p} : At(o, "off")
    BY <1>0, CopiesTurned
  <2>2. ASSUME NEW o \in Pollers, NEW x \in PollerState, x = poller'[o]
        PROVE  AloneMayTurnTo(x)' /\ (o # p => x.pc = "off")
    <3>1. CASE o = p
      BY <1>1, <2>1, <2>2, <3>1
    <3>2. CASE o # p
      BY <1>1, <2>1, <2>2, <3>2 DEF AloneMayTurnTo, At
    <3> QED BY <3>1, <3>2
  <2>3. ASSUME NEW o \in Pollers
        PROVE  /\ o # p => At(o, "off")'
               /\ At(o, "ask")' => poller'[o].offset = offset'
               /\ At(o, "got")' => /\ poller'[o].first = offset' /\ poller'[o].last <= offset' + MaxBatch - 1
                                   /\ saved' <= poller'[o].last
               /\ At(o, "saved")' => poller'[o].last = saved'
               /\ At(o, "hear")' =>
                    /\ \A v \in poller'[o].todo : rows'[v.id].status = "transcribing"
                    /\ \A v, x \in poller'[o].todo : v.id = x.id => v = x
    <3>1. PICK x \in PollerState : x = poller'[o]
      BY <1>8
    <3>2. AloneMayTurnTo(x)' /\ (o # p => x.pc = "off")
      BY <2>2, <3>1
    <3> QED BY <3>1, <3>2 DEF AloneMayTurnTo, At
  <2>4. \A i \in DOMAIN rows' : SaysNewest(rows[i], saved, saved)'
    BY <2>1 DEF SaysNewest
  <2>5. saved' <= offset' + MaxBatch - 1
    BY <2>1
  <2> QED BY <2>3, <2>4, <2>5 DEF OneCopy
<1> QED BY <1>3, <1>4, <1>5, <1>6, <1>7, <1>9, <1>10 DEF InboxIInv, RowsDiffer

(* transcribe_pending, one row.                                               *)
LEMMA HearKeeps ==
  ASSUME InboxIInv, NEW p \in Pollers, NEW heard \in BOOLEAN, Hear(p, heard)
  PROVE  InboxIInv'
<1> DEFINE todo == poller[p].todo
<1>0. /\ TypeOK /\ poller[p] \in PollerState /\ poller[p].pc = "hear" /\ todo \in SUBSET [id : Ids, attempts : 0..2]
      /\ todo # {} /\ \A v \in todo : v.id \in DOMAIN rows
      /\ rows \in Seq(Rows) /\ Len(rows) \in Nat /\ DOMAIN rows = 1..Len(rows) /\ Len(rows) <= Len(updates)
      /\ Len(updates) \in Nat /\ saved \in 0..Len(updates) /\ ~At(p, "off") /\ poller[p].pc # "off"
  <2>1. TypeOK /\ poller[p].pc = "hear"
    BY DEF Hear, At, InboxIInv
  <2>2. StoreIsAhead
    BY DEF InboxIInv
  <2> QED BY <2>1, <2>2, InboxBasics, PollerShapes DEF StoreIsAhead, At
<1>1. \E v \in todo : \A y \in todo : v.id <= y.id
  <2> DEFINE T == {v.id : v \in todo}
  <2>1. T \in SUBSET Nat /\ T # {}
    BY <1>0 DEF Ids
  <2>2. PICK n \in T : \A m \in T : n <= m
    BY <2>1, LeastNumber
  <2> QED BY <2>2
<1>2. PICK v \in todo : v = CHOOSE x \in todo : \A y \in todo : x.id <= y.id
  BY <1>1
<1> DEFINE i == v.id
           a == After(v, heard)
           row == [rows[i] EXCEPT !.status = a.status, !.attempts = a.attempts]
<1>3. /\ rows' = [rows EXCEPT ![i].status = a.status, ![i].attempts = a.attempts]
      /\ TurnsTo(p, todo \ {v})
      /\ UNCHANGED <<updates, confirmed, offset, beating, hasKey, watcher, watermark, saved, shown, preread, doubled, faults>>
  BY <1>2 DEF Hear, telegram, history
<1>4. i \in DOMAIN rows /\ rows[i] \in Rows /\ v.attempts \in 0..2
  BY <1>0, ElementOfSeq
<1>5. /\ a.status \in {"ok", "transcribing", "transcribe_failed"} /\ a.attempts \in 0..MAX_TRANSCRIBE_ATTEMPTS
      /\ a.status = "transcribing" => a.attempts <= 2
  BY <1>4 DEF After, MAX_TRANSCRIBE_ATTEMPTS
<1> HIDE DEF a
<1>6. /\ row \in Rows /\ row.msg = rows[i].msg /\ row.watched = rows[i].watched /\ row.version = rows[i].version
      /\ row.status = a.status /\ row.attempts = a.attempts
  BY <1>4, <1>5 DEF Rows
<1>7. rows' = [rows EXCEPT ![i] = row]
  BY <1>0, <1>3, <1>4
<1> HIDE DEF row, todo
<1>8. /\ rows' \in Seq(Rows) /\ Len(rows') = Len(rows) /\ DOMAIN rows' = DOMAIN rows
      /\ rows'[i] = row /\ \A j \in DOMAIN rows \ {i} : rows'[j] = rows[j]
  BY <1>0, <1>4, <1>6, <1>7, ExceptSeq
<1>9. PICK q \in PollerState :
        /\ poller' = [poller EXCEPT ![p] = q] /\ q.pc \in {"idle", "hear"}
        /\ q.pc = "hear" => q.todo = todo \ {v} /\ todo \ {v} # {}
  <2>1. PICK rest \in SUBSET [id : Ids, attempts : 0..2] : rest = todo \ {v}
    BY <1>0
  <2> QED BY <1>0, <1>3, <2>1, TurnsOn
<1>10. ~doubled => /\ AloneMayTurnTo(poller[p]) /\ saved <= offset + MaxBatch - 1
                   /\ \A j \in DOMAIN rows : SaysNewest(rows[j], saved, saved)
  BY CopiesTurned DEF InboxIInv
<1>11. ~doubled => rows[i].status = "transcribing" /\ \A x \in todo \ {v} : x.id # i /\ rows[x.id].status = "transcribing"
  BY <1>0, <1>10 DEF AloneMayTurnTo, todo
<1>12. PICK table \in Seq(Rows) : table = rows'
  BY <1>8
<1>13. \A j \in DOMAIN rows : /\ table[j].msg = rows[j].msg /\ table[j].watched = rows[j].watched
                              /\ table[j].version = rows[j].version /\ (j # i => table[j] = rows[j])
  BY <1>6, <1>8, <1>12
<1>14. RowsGrow(table)
  <2>1. \A j \in DOMAIN rows : ~doubled /\ j \in shown => table[j].status # "transcribing"
    <3>1. ~doubled => i \notin shown
      BY <1>11 DEF InboxIInv, VoiceIsShownHeard
    <3>2. \A j \in DOMAIN rows : ~doubled /\ j \in shown => rows[j].status # "transcribing"
      BY DEF InboxIInv, VoiceIsShownHeard
    <3> QED BY <1>13, <3>1, <3>2
  <2>2. \A j \in DOMAIN rows : table[j].status = "transcribing" => table[j].attempts <= 2
    BY <1>5, <1>6, <1>8, <1>12, <1>13 DEF InboxIInv, StoreIsAhead
  <2>3. \A j, k \in DOMAIN rows : table[j].msg = table[k].msg => j = k
    BY <1>13 DEF InboxIInv
  <2> QED BY <1>0, <1>8, <1>12, <1>13, <2>1, <2>2, <2>3 DEF RowsGrow
<1>15. MayTurnTo(q)' /\ (~doubled => AloneMayTurnTo(q)')
  <2>1. MayTurnTo(q)'
    BY <1>0, <1>8, <1>9 DEF MayTurnTo
  <2>2. ASSUME ~doubled PROVE AloneMayTurnTo(q)'
    <3>1. \A x \in todo \ {v} : rows'[x.id].status = "transcribing"
      BY <1>0, <1>8, <1>11, <2>2
    <3>2. \A x, y \in todo \ {v} : x.id = y.id => x = y
      BY <1>0, <1>10, <2>2 DEF AloneMayTurnTo, todo
    <3> QED BY <1>9, <3>1, <3>2 DEF AloneMayTurnTo
  <2> QED BY <2>1, <2>2
<1>16. /\ \A u \in 1..saved : RowOf(table, updates[u].msg) # {}
       /\ \A j \in DOMAIN table : \E u \in 1..saved : updates[u].msg = table[j].msg
       /\ ~doubled => \A j \in DOMAIN table : SaysNewest(table[j], saved, saved)
  <2>1. \A u \in 1..saved : RowOf(table, updates[u].msg) # {}
    BY <1>8, <1>12, <1>13 DEF InboxIInv, StoreIsAhead, RowOf
  <2>2. \A j \in DOMAIN table : \E u \in 1..saved : updates[u].msg = table[j].msg
    BY <1>8, <1>12, <1>13 DEF InboxIInv, StoreIsAhead
  <2>3. ~doubled => \A j \in DOMAIN table : SaysNewest(table[j], saved, saved)
    BY <1>8, <1>10, <1>12, <1>13 DEF SaysNewest
  <2> QED BY <2>1, <2>2, <2>3
<1> HIDE DEF i, a
<1>17. /\ saved' = saved /\ saved' \in saved..Len(updates)
       /\ UNCHANGED <<updates, confirmed, offset, beating, hasKey, watcher, watermark, shown, preread, doubled, faults>>
  BY <1>0, <1>3
<1>18. ~doubled => AloneMayTurnTo(q)' /\ saved' <= offset + MaxBatch - 1
  BY <1>10, <1>15, <1>17
<1>19. /\ \A u \in 1..saved' : RowOf(table, updates[u].msg) # {}
       /\ \A j \in DOMAIN table : \E u \in 1..saved' : updates[u].msg = table[j].msg
       /\ ~doubled => \A j \in DOMAIN table : SaysNewest(table[j], saved', saved')
  BY <1>16, <1>17
<1> QED BY <1>0, <1>9, <1>12, <1>14, <1>15, <1>17, <1>18, <1>19, RowsMove

(* A recursive function on an interval is what its definition says.           *)
LEMMA TablesAreSaved ==
  ASSUME NEW q, q.first \in Nat, q.first >= 1, q.last \in Nat, q.first <= q.last
  PROVE  /\ Tables(q)[q.first - 1] = rows
         /\ \A n \in q.first..q.last : Tables(q)[n] = SaveMessage(Tables(q)[n - 1], updates[n], q.key)
<1> DEFINE lo == q.first - 1
           Says(f, hi) == f = [n \in lo..hi |-> IF n = lo THEN rows ELSE SaveMessage(f[n - 1], updates[n], q.key)]
           T == {k \in Nat : \E f : Says(f, lo + k)}
<1>1. lo \in Nat
  OBVIOUS
<1> HIDE DEF lo
<1>2. 0 \in T
  <2> DEFINE f == [n \in lo..lo |-> rows]
  <2>1. Says(f, lo)
    BY <1>1
  <2>2. lo + 0 = lo
    BY <1>1
  <2> HIDE DEF Says, f
  <2>3. Says(f, lo + 0)
    BY <2>1, <2>2
  <2> QED BY <2>3
<1>3. ASSUME NEW k \in T PROVE k + 1 \in T
  <2>1. k \in Nat /\ lo + k \in Nat /\ lo + (k + 1) = (lo + k) + 1
    BY <1>1
  <2>2. PICK f : Says(f, lo + k)
    OBVIOUS
  <2> DEFINE next == SaveMessage(f[lo + k], updates[lo + k + 1], q.key)
             g == [n \in lo..lo + k + 1 |-> IF n <= lo + k THEN f[n] ELSE next]
  <2>3. \A n \in lo..lo + k : f[n] = IF n = lo THEN rows ELSE SaveMessage(f[n - 1], updates[n], q.key)
    BY <2>2
  <2>4. \A n \in lo..lo + k : g[n] = f[n] /\ (n # lo => g[n - 1] = f[n - 1])
    BY <1>1, <2>1
  <2>5. g[lo + k + 1] = next /\ g[lo + k] = f[lo + k]
    BY <1>1, <2>1
  <2>6. \A n \in lo..lo + k + 1 : g[n] = IF n = lo THEN rows ELSE SaveMessage(g[n - 1], updates[n], q.key)
    <3> SUFFICES ASSUME NEW n \in lo..lo + k + 1
                 PROVE  g[n] = IF n = lo THEN rows ELSE SaveMessage(g[n - 1], updates[n], q.key)
      OBVIOUS
    <3>1. CASE n <= lo + k
      <4>1. n \in lo..lo + k
        BY <1>1, <2>1, <3>1
      <4> HIDE DEF g, next
      <4> QED BY <2>3, <2>4, <4>1
    <3>2. CASE ~(n <= lo + k)
      <4>1. n = lo + k + 1 /\ n - 1 = lo + k /\ n # lo
        BY <1>1, <2>1, <3>2
      <4>2. g[n] = next /\ g[n - 1] = f[lo + k]
        BY <2>5, <4>1
      <4> HIDE DEF g
      <4> QED BY <4>1, <4>2
    <3> QED BY <3>1, <3>2
  <2>7. g = [n \in lo..lo + k + 1 |-> g[n]]
    OBVIOUS
  <2> HIDE DEF g, next
  <2>8. Says(g, lo + (k + 1))
    BY <2>1, <2>6, <2>7
  <2>9. k + 1 \in Nat
    BY <2>1
  <2> HIDE DEF Says
  <2> QED BY <2>8, <2>9
<1>4. T = Nat
  <2>1. T \in SUBSET Nat
    OBVIOUS
  <2> HIDE DEF T
  <2> QED BY <1>2, <1>3, <2>1, SetInduction
<1>5. \E f : Says(f, q.last)
  <2>1. q.last - lo \in Nat /\ lo + (q.last - lo) = q.last
    BY <1>1 DEF lo
  <2>2. q.last - lo \in T
    BY <1>4, <2>1
  <2> QED BY <2>1, <2>2
<1> DEFINE Goes(f) == Says(f, q.last)
<1>6. Tables(q) = CHOOSE f : Goes(f)
  BY DEF Tables, lo
<1>7. \E f : Goes(f)
  BY <1>5
<1> HIDE DEF Goes
<1>8. Goes(Tables(q))
  BY <1>6, <1>7
<1>9. Says(Tables(q), q.last)
  BY <1>8 DEF Goes
<1>10. \A n \in lo..q.last :
         Tables(q)[n] = IF n = lo THEN rows ELSE SaveMessage(Tables(q)[n - 1], updates[n], q.key)
  BY <1>9
<1>11. lo \in lo..q.last /\ \A n \in q.first..q.last : n \in lo..q.last /\ n # lo
  BY <1>1 DEF lo
<1> QED BY <1>10, <1>11 DEF lo

(* The table when the updates up to n were stored, those before included.     *)
Reach(n) == IF n <= saved THEN saved ELSE n

StoredUpTo(table, n) ==
  /\ table \in Seq(Rows) /\ Len(rows) <= Len(table)
  /\ \A i, j \in DOMAIN table : table[i].msg = table[j].msg => i = j
  /\ \A i \in DOMAIN table : table[i].status = "transcribing" => table[i].attempts <= 2
  /\ \A i \in DOMAIN rows :
       table[i].msg = rows[i].msg /\ table[i].watched = rows[i].watched /\ table[i].status = rows[i].status
  /\ \A u \in 1..Reach(n) : RowOf(table, updates[u].msg) # {}
  /\ \A i \in DOMAIN table : \E u \in 1..Reach(n) : updates[u].msg = table[i].msg
  /\ ~doubled => \A i \in DOMAIN table : SaysNewest(table[i], Reach(n), n)

(* save_message: from the table of the updates up to n to that of n + 1.      *)
LEMMA OneMoreIsStored ==
  ASSUME TypeOK, UpdatesAreEdits, NEW table, NEW n \in Nat, n + 1 <= Len(updates), NEW key \in BOOLEAN,
         StoredUpTo(table, n)
  PROVE  StoredUpTo(SaveMessage(table, updates[n + 1], key), n + 1)
<1> DEFINE u == updates[n + 1]
           new == SaveMessage(table, u, key)
           top == Reach(n)
           later == Reach(n + 1)
<1>0. /\ Len(updates) \in Nat /\ n + 1 \in DOMAIN updates /\ u \in Updates /\ DOMAIN updates = 1..Len(updates)
      /\ saved \in Nat /\ saved <= Len(updates) /\ Len(rows) \in Nat /\ DOMAIN rows = 1..Len(rows)
      /\ table \in Seq(Rows) /\ Len(table) \in Nat /\ DOMAIN table = 1..Len(table) /\ Len(rows) <= Len(table)
      /\ \A i \in DOMAIN table : table[i] \in Rows
      /\ \A o \in 1..n : updates[o].msg = u.msg => u.version > 0 /\ ~u.voice
  <2>1. /\ Len(updates) \in Nat /\ DOMAIN updates = 1..Len(updates) /\ \A o \in DOMAIN updates : updates[o] \in Updates
        /\ saved \in Nat /\ saved <= Len(updates) /\ Len(rows) \in Nat /\ DOMAIN rows = 1..Len(rows)
    BY InboxBasics
  <2>2. table \in Seq(Rows) /\ Len(rows) <= Len(table)
    BY DEF StoredUpTo
  <2>3. /\ Len(table) \in Nat /\ DOMAIN table = 1..Len(table) /\ \A i \in DOMAIN table : table[i] \in Rows
    BY <2>2
  <2>4. n + 1 \in DOMAIN updates /\ 1..n \subseteq DOMAIN updates /\ \A o \in 1..n : o < n + 1
    BY <2>1
  <2>5. \A o \in 1..n : updates[o].msg = updates[n + 1].msg => updates[n + 1].version > 0 /\ ~updates[n + 1].voice
    BY <2>4 DEF UpdatesAreEdits
  <2> QED BY <2>1, <2>2, <2>3, <2>4, <2>5
<1>1. /\ top \in Nat /\ later \in Nat /\ top <= later /\ n + 1 <= later /\ n <= top
      /\ \A o \in Nat : o <= later => o <= top \/ o = n + 1
  BY <1>0 DEF Reach
<1>2. /\ u.msg \in Ids /\ u.watched \in BOOLEAN /\ u.voice \in BOOLEAN /\ u.version \in 0..MaxUpdates /\ MaxUpdates \in Nat
  BY <1>0, InboxBasics DEF Updates
<1> HIDE DEF u, top, later
<1>3. CASE RowOf(table, u.msg) = {}
  <2> DEFINE row == NewRow(u, key)
  <2>1. /\ row \in Rows /\ row.msg = u.msg /\ row.version = u.version /\ row.attempts = 0
    BY <1>2 DEF NewRow, Rows, MAX_TRANSCRIBE_ATTEMPTS
  <2> HIDE DEF row
  <2>2. new = Append(table, row)
    BY <1>3 DEF SaveMessage, row
  <2>3. /\ new \in Seq(Rows) /\ Len(new) = Len(table) + 1 /\ DOMAIN new = 1..Len(table) + 1
        /\ \A i \in DOMAIN table : new[i] = table[i]
        /\ new[Len(table) + 1] = row
    BY <1>0, <2>1, <2>2, AppendProperties
  <2> HIDE DEF new
  <2>4. \A i \in DOMAIN table : table[i].msg # u.msg
    BY <1>3 DEF RowOf
  <2>5. \A i \in DOMAIN new : i \in DOMAIN table \/ i = Len(table) + 1
    BY <1>0, <2>3
  <2>6. \A i, j \in DOMAIN new : new[i].msg = new[j].msg => i = j
    BY <2>1, <2>3, <2>4, <2>5 DEF StoredUpTo
  <2>7. \A i \in DOMAIN new : new[i].status = "transcribing" => new[i].attempts <= 2
    BY <2>1, <2>3, <2>5 DEF StoredUpTo
  <2>8. \A i \in DOMAIN rows : new[i].msg = rows[i].msg /\ new[i].watched = rows[i].watched /\ new[i].status = rows[i].status
    BY <1>0, <2>3 DEF StoredUpTo
  <2>9. \A o \in 1..later : RowOf(new, updates[o].msg) # {}
    <3> SUFFICES ASSUME NEW o \in 1..later PROVE \E i \in DOMAIN new : new[i].msg = updates[o].msg
      BY DEF RowOf
    <3>1. CASE o <= top
      <4>1. PICK i \in DOMAIN table : table[i].msg = updates[o].msg
        BY <1>1, <3>1 DEF StoredUpTo, RowOf, top
      <4> QED BY <1>0, <2>3, <4>1
    <3>2. CASE o = n + 1
      BY <1>0, <2>1, <2>3, <3>2 DEF u
    <3> QED BY <1>1, <3>1, <3>2
  <2>10. \A i \in DOMAIN new : \E o \in 1..later : updates[o].msg = new[i].msg
    <3>1. \A i \in DOMAIN table : \E o \in 1..top : updates[o].msg = table[i].msg
      BY DEF StoredUpTo, top
    <3>2. n + 1 \in 1..later /\ 1..top \subseteq 1..later
      BY <1>1
    <3>3. updates[n + 1].msg = row.msg
      BY <2>1 DEF u
    <3> QED BY <2>3, <2>5, <3>1, <3>2, <3>3
  <2>11. ~doubled => \A i \in DOMAIN new : SaysNewest(new[i], later, n + 1)
    <3> SUFFICES ASSUME ~doubled, NEW i \in DOMAIN new PROVE SaysNewest(new[i], later, n + 1)
      OBVIOUS
    <3>1. CASE i = Len(table) + 1
      <4>1. n + 1 \in 1..later /\ updates[n + 1].msg = new[i].msg /\ new[i].version = updates[n + 1].version
        BY <1>1, <2>1, <2>3, <3>1 DEF u
      <4> QED BY <4>1 DEF SaysNewest
    <3>2. CASE i \in DOMAIN table
      <4>1. PICK o \in 1..top : /\ updates[o].msg = table[i].msg
                                /\ updates[o].voice \/ table[i].version = updates[o].version
                                /\ \A x \in 1..n : updates[x].msg = table[i].msg => x <= o
        BY <3>2 DEF StoredUpTo, SaysNewest, top
      <4>2. \A x \in 1..n + 1 : updates[x].msg = table[i].msg => x <= o
        BY <2>4, <3>2, <4>1 DEF u
      <4>3. o \in 1..later
        BY <1>1
      <4> QED BY <2>3, <3>2, <4>1, <4>2, <4>3 DEF SaysNewest
    <3> QED BY <2>5, <3>1, <3>2
  <2>12. Len(rows) <= Len(new)
    BY <1>0, <2>3
  <2> QED BY <2>3, <2>6, <2>7, <2>8, <2>9, <2>10, <2>11, <2>12 DEF StoredUpTo, later, u, new
<1>4. CASE RowOf(table, u.msg) # {}
  <2> DEFINE Edited(i) == table[i].msg = u.msg /\ u.version > 0 /\ ~u.voice
  <2>1. new = [i \in DOMAIN table |-> IF Edited(i) THEN [table[i] EXCEPT !.version = u.version] ELSE table[i]]
    BY <1>4 DEF SaveMessage
  <2>2. ASSUME NEW i \in DOMAIN table
        PROVE  /\ new[i] \in Rows /\ new[i].msg = table[i].msg /\ new[i].watched = table[i].watched
               /\ new[i].status = table[i].status /\ new[i].attempts = table[i].attempts
               /\ new[i].version = IF Edited(i) THEN u.version ELSE table[i].version
    <3>1. new[i] = IF Edited(i) THEN [table[i] EXCEPT !.version = u.version] ELSE table[i]
      BY <2>1
    <3>2. table[i] \in Rows
      BY <1>0
    <3> HIDE DEF new, Edited
    <3> QED BY <1>2, <3>1, <3>2 DEF Rows
  <2>3. new \in Seq(Rows) /\ Len(new) = Len(table) /\ DOMAIN new = DOMAIN table
    <3>1. new \in [1..Len(table) -> Rows]
      BY <1>0, <2>1, <2>2
    <3> HIDE DEF new
    <3> QED BY <1>0, <3>1
  <2> HIDE DEF new
  <2>4. \A i, j \in DOMAIN new : new[i].msg = new[j].msg => i = j
    BY <2>2, <2>3 DEF StoredUpTo
  <2>5. \A i \in DOMAIN new : new[i].status = "transcribing" => new[i].attempts <= 2
    BY <2>2, <2>3 DEF StoredUpTo
  <2>6. \A i \in DOMAIN rows : new[i].msg = rows[i].msg /\ new[i].watched = rows[i].watched /\ new[i].status = rows[i].status
    BY <1>0, <2>2 DEF StoredUpTo
  <2>7. \A o \in 1..later : RowOf(new, updates[o].msg) # {}
    <3> SUFFICES ASSUME NEW o \in 1..later PROVE \E i \in DOMAIN table : table[i].msg = updates[o].msg
      BY <2>2, <2>3 DEF RowOf
    <3>1. CASE o <= top
      BY <1>1, <3>1 DEF StoredUpTo, RowOf, top
    <3>2. CASE o = n + 1
      BY <1>4, <3>2 DEF u, RowOf
    <3> QED BY <1>1, <3>1, <3>2
  <2>8. \A i \in DOMAIN new : \E o \in 1..later : updates[o].msg = new[i].msg
    <3>1. \A i \in DOMAIN table : \E o \in 1..top : updates[o].msg = table[i].msg
      BY DEF StoredUpTo, top
    <3>2. 1..top \subseteq 1..later
      BY <1>1
    <3> QED BY <2>2, <2>3, <3>1, <3>2
  <2>9. ~doubled => \A i \in DOMAIN new : SaysNewest(new[i], later, n + 1)
    <3> SUFFICES ASSUME ~doubled, NEW i \in DOMAIN table PROVE SaysNewest(new[i], later, n + 1)
      BY <2>3
    <3>1. PICK o \in 1..top : /\ updates[o].msg = table[i].msg
                              /\ updates[o].voice \/ table[i].version = updates[o].version
                              /\ \A x \in 1..n : updates[x].msg = table[i].msg => x <= o
      BY DEF StoredUpTo, SaysNewest, top
    <3>2. CASE Edited(i)
      <4>1. n + 1 \in 1..later /\ updates[n + 1].msg = new[i].msg /\ new[i].version = updates[n + 1].version
        BY <1>1, <2>2, <3>2 DEF u
      <4> QED BY <4>1 DEF SaysNewest
    <3>3. CASE ~Edited(i)
      <4>1. o \in 1..later /\ new[i].msg = table[i].msg /\ new[i].version = table[i].version
        BY <1>1, <2>2, <3>3
      <4>2. \A x \in 1..n + 1 : updates[x].msg = table[i].msg => x <= o
        <5> SUFFICES ASSUME updates[n + 1].msg = table[i].msg, o < n + 1 PROVE FALSE
          BY <3>1
        <5>1. o \in 1..n /\ updates[o].msg = u.msg
          BY <3>1 DEF u
        <5>2. u.version > 0 /\ ~u.voice
          BY <1>0, <5>1
        <5> QED BY <3>3, <5>2 DEF u
      <4> QED BY <3>1, <4>1, <4>2 DEF SaysNewest
    <3> QED BY <3>2, <3>3
  <2>10. Len(rows) <= Len(new)
    BY <1>0, <2>3
  <2> QED BY <2>3, <2>4, <2>5, <2>6, <2>7, <2>8, <2>9, <2>10 DEF StoredUpTo, later, u, new
<1> QED BY <1>3, <1>4

(* Rows of different messages, each of an update: there are no more of them.  *)
LEMMA RowsFitUpdates ==
  ASSUME NEW table \in Seq(Rows), Len(updates) \in Nat,
         \A i, j \in DOMAIN table : table[i].msg = table[j].msg => i = j,
         \A i \in DOMAIN table : \E u \in 1..Len(updates) : updates[u].msg = table[i].msg
  PROVE  Len(table) <= Len(updates)
<1> DEFINE f == [i \in 1..Len(table) |-> CHOOSE u \in 1..Len(updates) : updates[u].msg = table[i].msg]
<1>1. Len(table) \in Nat /\ DOMAIN table = 1..Len(table)
  OBVIOUS
<1>2. \A i \in 1..Len(table) : f[i] \in 1..Len(updates) /\ updates[f[i]].msg = table[i].msg
  BY <1>1
<1>3. f \in [1..Len(table) -> 1..Len(updates)]
  BY <1>2
<1> HIDE DEF f
<1>4. \A i, j \in 1..Len(table) : f[i] = f[j] => i = j
  <2> SUFFICES ASSUME NEW i \in 1..Len(table), NEW j \in 1..Len(table), f[i] = f[j] PROVE i = j
    OBVIOUS
  <2>1. table[i].msg = table[j].msg
    BY <1>2
  <2> QED BY <1>1, <2>1
<1>5. PICK l \in Nat, n \in Nat : l = Len(table) /\ n = Len(updates)
  BY <1>1
<1>6. f \in Injection(1..l, 1..n)
  BY <1>3, <1>4, <1>5 DEF Injection, IsInjective
<1>7. /\ IsFiniteSet(1..n) /\ Cardinality(1..n) = n /\ Cardinality(1..l) = l
  <2>1. ASSUME NEW k \in Nat PROVE IsFiniteSet(1..k) /\ Cardinality(1..k) = k
    <3>1. 1 \in Int /\ k \in Int
      OBVIOUS
    <3>2. IsFiniteSet(1..k) /\ Cardinality(1..k) = IF 1 > k THEN 0 ELSE k - 1 + 1
      BY <3>1, FS_Interval
    <3> QED BY <3>2
  <2> QED BY <2>1
<1>8. Cardinality(1..l) <= Cardinality(1..n)
  BY <1>6, <1>7, FS_Injection
<1> QED BY <1>5, <1>7, <1>8

(* _store_update for each update of the batch, in one transaction.            *)
LEMMA SaveKeeps ==
  ASSUME InboxIInv, NEW p \in Pollers, SaveBatch(p)
  PROVE  InboxIInv'
<1>0. /\ TypeOK /\ UpdatesAreEdits /\ poller[p].pc = "got" /\ ~At(p, "off") /\ saved \in Nat /\ saved <= Len(updates)
      /\ Len(updates) \in Nat /\ Len(updates) <= MaxUpdates /\ MaxUpdates \in Nat /\ Len(rows) \in Nat
      /\ rows \in Seq(Rows) /\ DOMAIN rows = 1..Len(rows) /\ poller[p] \in PollerState
      /\ rows' = Tables(poller[p])[poller[p].last]
      /\ UNCHANGED <<updates, confirmed, offset, beating, hasKey, watcher, watermark, shown, preread, doubled, faults>>
  <2>1. TypeOK /\ UpdatesAreEdits
    BY DEF InboxIInv
  <2> QED BY <2>1, InboxBasics DEF SaveBatch, At, telegram
<1>1. PICK q \in PollerState : q = poller[p] /\ q.pc = "got"
  BY <1>0
<1>2. /\ q.first \in 1..MaxUpdates /\ q.last \in 1..MaxUpdates /\ q.key \in BOOLEAN
      /\ q.first <= saved + 1 /\ q.first <= q.last /\ q.last <= Len(updates)
  BY <1>1, PollerShapes, CopiesTurned DEF InboxIInv, MayTurnTo
<1>3. ~doubled => /\ q.first = offset /\ q.last <= offset + MaxBatch - 1 /\ saved <= q.last
                  /\ \A i \in DOMAIN rows : SaysNewest(rows[i], saved, saved)
  BY <1>1, CopiesTurned DEF InboxIInv, AloneMayTurnTo
<1>4. StoredUpTo(rows, q.first - 1)
  <2>1. Reach(q.first - 1) = saved
    BY <1>0, <1>2 DEF Reach
  <2>2. ASSUME ~doubled, NEW i \in DOMAIN rows PROVE SaysNewest(rows[i], saved, q.first - 1)
    <3>1. SaysNewest(rows[i], saved, saved) /\ 1..q.first - 1 \subseteq 1..saved
      BY <1>0, <1>2, <1>3, <2>2
    <3> QED BY <3>1 DEF SaysNewest
  <2>3. /\ \A i, j \in DOMAIN rows : rows[i].msg = rows[j].msg => i = j
        /\ StoreIsAhead
    BY DEF InboxIInv
  <2> QED BY <1>0, <2>1, <2>2, <2>3 DEF StoredUpTo, StoreIsAhead
<1>5. \A n \in q.first - 1..q.last : StoredUpTo(Tables(q)[n], n)
  <2> DEFINE T == {k \in Nat : q.first - 1 + k <= q.last => StoredUpTo(Tables(q)[q.first - 1 + k], q.first - 1 + k)}
  <2>0. /\ Tables(q)[q.first - 1] = rows
        /\ \A n \in q.first..q.last : Tables(q)[n] = SaveMessage(Tables(q)[n - 1], updates[n], q.key)
    BY <1>2, TablesAreSaved
  <2>1. 0 \in T
    <3>1. q.first - 1 + 0 = q.first - 1
      BY <1>2
    <3> QED BY <1>4, <2>0, <3>1
  <2>2. ASSUME NEW k \in T PROVE k + 1 \in T
    <3> SUFFICES ASSUME q.first - 1 + (k + 1) <= q.last
                 PROVE  StoredUpTo(Tables(q)[q.first - 1 + (k + 1)], q.first - 1 + (k + 1))
      BY <2>2
    <3>1. PICK n \in Nat : n = q.first - 1 + k
      BY <1>2, <2>2
    <3>2. /\ q.first - 1 + (k + 1) = n + 1 /\ n <= q.last /\ n + 1 \in q.first..q.last /\ n + 1 - 1 = n
          /\ n + 1 <= Len(updates)
      <4>1. PICK a \in Nat, b \in Nat, l \in Nat : a = q.first /\ b = q.last /\ l = Len(updates) /\ 1 <= a /\ b <= l
        BY <1>0, <1>2
      <4>2. PICK j \in Nat : j = k /\ n = a - 1 + j /\ a - 1 + (j + 1) <= b
        BY <2>2, <3>1, <4>1
      <4> HIDE DEF T
      <4>3. a - 1 + (j + 1) = n + 1
        BY <4>1, <4>2
      <4>4. n + 1 <= b
        BY <4>2, <4>3
      <4>5. a <= n + 1
        BY <4>2
      <4>6. n + 1 \in a..b /\ n <= b /\ n + 1 - 1 = n
        BY <4>4, <4>5
      <4>7. n + 1 <= l
        BY <4>1, <4>4
      <4> QED BY <4>1, <4>2, <4>3, <4>6, <4>7
    <3>3. StoredUpTo(Tables(q)[n], n)
      BY <2>2, <3>1, <3>2
    <3>4. Tables(q)[n + 1] = SaveMessage(Tables(q)[n], updates[n + 1], q.key)
      BY <2>0, <3>2
    <3>5. StoredUpTo(Tables(q)[n + 1], n + 1)
      BY <1>0, <1>2, <3>2, <3>3, <3>4, OneMoreIsStored
    <3> QED BY <3>2, <3>5
  <2>3. T \in SUBSET Nat
    OBVIOUS
  <2> HIDE DEF T
  <2>4. T = Nat
    BY <2>1, <2>2, <2>3, SetInduction
  <2> SUFFICES ASSUME NEW n \in q.first - 1..q.last PROVE StoredUpTo(Tables(q)[n], n)
    OBVIOUS
  <2>5. PICK k \in Nat : k = n - (q.first - 1) /\ q.first - 1 + k = n /\ n <= q.last
    BY <1>2
  <2>6. k \in T
    BY <2>4
  <2>7. q.first - 1 + k <= q.last => StoredUpTo(Tables(q)[q.first - 1 + k], q.first - 1 + k)
    BY <2>6 DEF T
  <2> QED BY <2>5, <2>7
<1>6. PICK table : table = rows' /\ StoredUpTo(table, q.last)
  <2>1. q.last \in q.first - 1..q.last
    BY <1>2
  <2> QED BY <1>0, <1>1, <1>5, <2>1
<1>7. saved' = Reach(q.last) /\ saved' \in saved..Len(updates) /\ (~doubled => saved' = q.last) /\ q.last <= saved'
  <2>1. saved' = Max({saved, q.last})
    BY <1>1 DEF SaveBatch
  <2>2. PICK m \in {saved, q.last} : m = Max({saved, q.last}) /\ \A x \in {saved, q.last} : m >= x
    <3>1. \E m \in {saved, q.last} : \A x \in {saved, q.last} : m >= x
      BY <1>0, <1>2
    <3> QED BY <3>1 DEF Max
  <2> QED BY <1>0, <1>2, <1>3, <2>1, <2>2 DEF Reach
<1>8. RowsGrow(table)
  <2>1. table \in Seq(Rows) /\ DOMAIN table = 1..Len(table)
    BY <1>6 DEF StoredUpTo
  <2>2. \A i \in DOMAIN table : \E u \in 1..Len(updates) : updates[u].msg = table[i].msg
    BY <1>0, <1>6, <1>7 DEF StoredUpTo
  <2>3. Len(table) <= Len(updates)
    BY <1>0, <1>6, <2>1, <2>2, RowsFitUpdates DEF StoredUpTo
  <2>4. \A i \in DOMAIN rows : ~doubled /\ i \in shown => table[i].status # "transcribing"
    BY <1>6 DEF StoredUpTo, InboxIInv, VoiceIsShownHeard
  <2> QED BY <1>6, <2>1, <2>3, <2>4 DEF RowsGrow, StoredUpTo
<1>9. PICK x \in PollerState : poller' = [poller EXCEPT ![p] = x] /\ x.pc = "saved" /\ x.last = q.last
  <2>1. poller' = [poller EXCEPT ![p] = [pc |-> "saved", key |-> q.key, last |-> q.last]]
    BY <1>1 DEF SaveBatch, Turns
  <2> QED BY <1>2, <2>1, PollerStates
<1>10. MayTurnTo(x)'
  BY <1>7, <1>9 DEF MayTurnTo
<1>11. ~doubled => AloneMayTurnTo(x)' /\ saved' <= offset + MaxBatch - 1
  BY <1>3, <1>7, <1>9 DEF AloneMayTurnTo
<1>12. /\ \A u \in 1..saved' : RowOf(table, updates[u].msg) # {}
       /\ \A i \in DOMAIN table : \E u \in 1..saved' : updates[u].msg = table[i].msg
       /\ ~doubled => \A i \in DOMAIN table : SaysNewest(table[i], saved', saved')
  BY <1>6, <1>7 DEF StoredUpTo
<1> QED BY <1>0, <1>6, <1>7, <1>8, <1>9, <1>10, <1>11, <1>12, RowsMove

(* At the start nobody has written, and nothing is stored.                    *)
LEMMA InboxStart == Init => InboxIInv
<1> SUFFICES ASSUME Init PROVE InboxIInv
  OBVIOUS
<1>0. /\ updates = << >> /\ rows = << >> /\ Len(updates) = 0 /\ Len(rows) = 0 /\ updates \in Seq(Updates)
      /\ rows \in Seq(Rows) /\ DOMAIN updates = {} /\ DOMAIN rows = {} /\ InboxAssumption
  BY EmptySeq, InboxAssumption DEF Init
<1>1. Off \in PollerState /\ Off \in WatcherState /\ Off.pc = "off"
  BY PollerStates, WatcherStates DEF Off
<1>2. TypeOK
  <2>1. MaxUpdates \in Nat /\ MaxFaults \in Nat
    BY InboxAssumption
  <2>2. poller \in [Pollers -> PollerState] /\ watcher \in [Watchers -> WatcherState]
    BY <1>1 DEF Init
  <2>3. confirmed \in 1..Len(updates) + 1 /\ offset \in 1..Len(updates) + 1 /\ saved \in 0..Len(updates)
    BY <1>0 DEF Init
  <2>4. watermark \in Marks /\ shown \subseteq DOMAIN rows /\ preread \subseteq DOMAIN rows
    BY DEF Init, Marks
  <2>5. faults \in 0..MaxFaults
    BY <2>1 DEF Init
  <2>7. {beating, hasKey, doubled} \subseteq BOOLEAN
    <3>1. beating \in BOOLEAN /\ hasKey \in BOOLEAN /\ doubled \in BOOLEAN
      BY Zenon DEF Init
    <3> QED BY <3>1
  <2>6. Len(updates) <= MaxUpdates /\ Len(rows) <= Len(updates)
    BY <1>0, <2>1
  <2> QED BY <1>0, <2>2, <2>3, <2>4, <2>5, <2>6, <2>7 DEF TypeOK
<1>3. UpdatesAreEdits
  <2>1. Written = {} /\ 1..0 = {} /\ 0 \in 0..Len(updates)
    BY <1>0 DEF Written
  <2> QED BY <1>0, <2>1 DEF UpdatesAreEdits
<1>4. StoreIsAhead /\ OneCopy /\ VoiceIsShownHeard
  BY <1>0, <1>1 DEF Init, StoreIsAhead, OneCopy, VoiceIsShownHeard, At, InboxAssumption
<1>5. MarksAreCovered
  BY <1>0, <1>1 DEF Init, MarksAreCovered, Covered, NoMark
<1> QED BY <1>0, <1>2, <1>3, <1>4, <1>5 DEF InboxIInv

(* Every step keeps it.                                                       *)
LEMMA InboxStep == InboxIInv /\ [Next]_vars => InboxIInv'
<1> SUFFICES ASSUME InboxIInv, [Next]_vars PROVE InboxIInv'
  OBVIOUS
<1>1. CASE UNCHANGED vars
  <2>1. UNCHANGED <<updates, confirmed, rows, offset, beating, hasKey, poller, watcher, watermark, saved, shown, preread,
                    doubled, faults>>
    BY <1>1 DEF vars
  <2>2. TypeOK'
    BY <2>1 DEF InboxIInv, TypeOK
  <2> QED BY <2>1, <2>2, ScreenUntouched, StoreUntouched DEF InboxIInv, RowsDiffer
<1>2. CASE Next
  <2>1. ASSUME NEW p \in Pollers, PollerStep(p) \/ PollFails(p) \/ PollerDies(p) PROVE InboxIInv'
    BY <2>1, TurnKeeps, SaveKeeps, HearKeeps DEF PollerStep
  <2>2. ASSUME NEW w \in Watchers, WatcherStep(w) \/ WatchDies(w) PROVE InboxIInv'
    BY <2>2, WatchKeeps DEF WatcherStep, WatchAct
  <2> QED BY <1>2, <2>1, <2>2, PeopleKeep, SurroundingsKeep DEF Next
<1> QED BY <1>1, <1>2

(* What the invariant says of the newest row is what EditsAreKept says.       *)
LEMMA NewestIsLast ==
  ASSUME InboxIInv
  PROVE  UpdatesAreStoredOnce /\ EditsAreKept /\ NothingIsSkipped
<1>0. /\ TypeOK /\ StoreIsAhead /\ OneCopy /\ MarksAreCovered /\ saved \in Nat /\ confirmed \in Nat
      /\ confirmed <= saved + 1
  <2>1. TypeOK /\ StoreIsAhead /\ OneCopy /\ MarksAreCovered
    BY DEF InboxIInv
  <2>2. saved \in Nat /\ confirmed \in Nat
    BY <2>1, InboxBasics
  <2>3. confirmed <= saved + 1
    BY <2>1, <2>2, InboxBasics DEF StoreIsAhead
  <2> QED BY <2>1, <2>2, <2>3
<1>1. UpdatesAreStoredOnce
  <2>1. 1..confirmed - 1 \subseteq 1..saved
    BY <1>0
  <2> QED BY <1>0, <2>1 DEF UpdatesAreStoredOnce, StoreIsAhead, InboxIInv
<1>2. EditsAreKept
  <2> SUFFICES ASSUME ~doubled, NEW i \in DOMAIN rows, ~updates[LastOf(rows[i].msg, saved)].voice
               PROVE  rows[i].version = updates[LastOf(rows[i].msg, saved)].version
    BY DEF EditsAreKept
  <2>1. PICK u \in 1..saved : /\ updates[u].msg = rows[i].msg
                              /\ updates[u].voice \/ rows[i].version = updates[u].version
                              /\ \A o \in 1..saved : updates[o].msg = rows[i].msg => o <= u
    BY <1>0 DEF OneCopy, SaysNewest
  <2> DEFINE T == {o \in 1..saved : updates[o].msg = rows[i].msg}
  <2>2. T \in SUBSET (1..saved) /\ u \in T /\ \A o \in T : o <= u
    BY <2>1
  <2>3. LastOf(rows[i].msg, saved) = Max(T)
    BY DEF LastOf
  <2> HIDE DEF T
  <2>4. Max(T) \in T /\ u <= Max(T)
    BY <1>0, <2>2, MaxIsIn
  <2>5. Max(T) = u
    <3>1. PICK m : m = Max(T)
      OBVIOUS
    <3>2. m \in 1..saved /\ m <= u /\ u <= m
      BY <2>2, <2>4, <3>1
    <3> QED BY <1>0, <3>1, <3>2
  <2> QED BY <2>1, <2>3, <2>5
<1>3. NothingIsSkipped
  BY <1>0 DEF MarksAreCovered, Covered, NothingIsSkipped
<1> QED BY <1>1, <1>2, <1>3

(* Whoever dies, whatever comes again and however many copies run: what       *)
(* Telegram forgot is stored, once; no mark passes a message that nobody was  *)
(* shown; and of one copy of the bot, edits stay and voices are heard first.  *)
THEOREM InboxHolds == Spec => []InboxInv
<1>1. InboxIInv => InboxInv
  BY NewestIsLast DEF InboxIInv, InboxInv
<1> QED BY <1>1, InboxStart, InboxStep, PTL DEF Spec

-----------------------------------------------------------------------------
(* Answers and reminders.                                                     *)

(* What the client has of an answer: the beginning of one text.               *)
Prefix(k, t, n) == delivered[k] = [m \in 1..n |-> <<t, m>>]
PrefixOfOne(k) == \E t \in Texts : \E n \in 0..PartsOf[t] : Prefix(k, t, n)

SenderHolds(s, k) == sender[s].pc \in {"deliver", "finish"} /\ sender[s].key = k

(* A sender with a claim has the row, alone, and has delivered what it says.  *)
ClaimsAreExclusive ==
  /\ \A s \in Senders : sender[s].pc \in {"claim", "deliver", "finish"} => RowsOf(sender[s].key) # {}
  /\ \A s, o \in Senders : \A k \in Keys : SenderHolds(s, k) /\ SenderHolds(o, k) => s = o
  /\ \A s \in Senders : \A k \in Keys : SenderHolds(s, k) => \A i \in RowsOf(k) : outbox[i].status = "sending"

DeliveryIsAsSaid ==
  /\ \A k \in Keys : PrefixOfOne(k) /\ (RowsOf(k) = {} => delivered[k] = << >>)
  /\ \A s \in Senders :
       /\ sender[s].pc = "deliver" => Prefix(sender[s].key, sender[s].text, sender[s].done)
       /\ sender[s].pc = "finish" /\ sender[s].status = "failed" => delivered[sender[s].key] = << >>
       /\ sender[s].pc = "finish" /\ sender[s].status = "sent"
            => \E t \in Texts : delivered[sender[s].key] = Parts(t)

(* Unless two reminders met, what was printed is noted, or about to be.       *)
PrintedIsNoted ==
  /\ \A w \in Reminders : reminder[w] # Idle =>
       reminder[w].ids \subseteq DOMAIN outbox /\ \A i \in reminder[w].ids : reminded[i] > 0
  /\ ~broken =>
       /\ \A w, o \in Reminders : reminder[w] # Idle /\ reminder[o] # Idle => w = o
       /\ \A w \in Reminders : reminder[w] # Idle => alerted \subseteq reminder[w].ids
       /\ \A i \in RowIds : reminded[i] > 0 =>
            i \in alerted \/ \E w \in Reminders : reminder[w] # Idle /\ i \in reminder[w].ids

OutIInv == OutboxInv /\ ClaimsAreExclusive /\ DeliveryIsAsSaid /\ PrintedIsNoted

(* A sender is about a key and a text, or about nothing.                      *)
LEMMA SenderShapes ==
  ASSUME OutTypeOK, NEW s \in Senders
  PROVE  /\ sender[s] \in SenderState
         /\ sender[s].pc \in {"idle", "claim", "deliver", "finish"}
         /\ sender[s].pc = "idle" <=> sender[s] = Idle
         /\ sender[s].pc # "idle" => sender[s].key \in Keys
         /\ sender[s].pc \in {"claim", "deliver"} => sender[s].text \in Texts
         /\ sender[s].pc = "deliver" => sender[s].done \in Nat /\ sender[s].done < PartsOf[sender[s].text]
         /\ sender[s].pc = "finish" => sender[s].status \in {"sent", "unknown", "failed"}
<1>1. sender[s] \in SenderState
  BY DEF OutTypeOK
<1>2. CASE sender[s] = Idle
  BY <1>1, <1>2 DEF Idle
<1>3. CASE sender[s] \in [pc : {"claim"}, key : Keys, text : Texts]
  BY <1>1, <1>3 DEF Idle
<1>4. CASE sender[s] \in [pc : {"deliver"}, key : Keys, text : Texts, done : Nat]
  BY <1>1, <1>4 DEF Idle, OutTypeOK
<1>5. CASE sender[s] \in [pc : {"finish"}, key : Keys, status : {"sent", "unknown", "failed"}]
  BY <1>1, <1>5 DEF Idle
<1> QED BY <1>1, <1>2, <1>3, <1>4, <1>5 DEF SenderState

(* A key has one row, so there is room for the rows.                          *)
LEMMA RowsHaveRoom ==
  ASSUME OutTypeOK
  PROVE  /\ DOMAIN outbox = 1..Len(outbox) /\ Len(outbox) \in Nat /\ Len(outbox) <= Cardinality(Keys)
         /\ Cardinality(Keys) \in Nat /\ DOMAIN outbox \subseteq RowIds
<1>1. /\ outbox \in Seq(OutboxRows) /\ DOMAIN outbox = 1..Len(outbox) /\ Len(outbox) \in Nat
      /\ \A i \in 1..Len(outbox) : outbox[i].key \in Keys
      /\ \A i, j \in 1..Len(outbox) : outbox[i].key = outbox[j].key => i = j
  <2>1. outbox \in Seq(OutboxRows) /\ DOMAIN outbox = 1..Len(outbox) /\ Len(outbox) \in Nat
    BY DEF OutTypeOK
  <2>2. \A i \in 1..Len(outbox) : outbox[i] \in OutboxRows
    BY <2>1
  <2> QED BY <2>1, <2>2 DEF OutTypeOK, OutboxRows
<1> DEFINE keyOf == [i \in 1..Len(outbox) |-> outbox[i].key]
<1>2. keyOf \in Injection(1..Len(outbox), Keys)
  BY <1>1 DEF Injection, IsInjective
<1>3. IsFiniteSet(Keys) /\ Cardinality(Keys) \in Nat
  BY OutboxAssumption, FS_CardinalityType
<1>4. Cardinality(1..Len(outbox)) <= Cardinality(Keys)
  BY <1>2, <1>3, FS_Injection
<1>5. Cardinality(1..Len(outbox)) = Len(outbox)
  BY <1>1, FS_Interval
<1> QED BY <1>1, <1>3, <1>4, <1>5 DEF RowIds

(* A status is written into the row of a key, and nothing else is.            *)
LEMMA StatusWritten ==
  ASSUME OutTypeOK, NEW k \in Keys, NEW status \in Statuses, SetStatus(k, status)
  PROVE  /\ outbox' \in Seq(OutboxRows) /\ DOMAIN outbox' = DOMAIN outbox
         /\ \A i \in DOMAIN outbox :
              /\ outbox'[i].key = outbox[i].key /\ outbox'[i].text = outbox[i].text
              /\ outbox'[i].status = IF outbox[i].key = k THEN status ELSE outbox[i].status
         /\ \A q : RowsOf(q)' = RowsOf(q)
<1>1. /\ outbox \in Seq(OutboxRows) /\ DOMAIN outbox = 1..Len(outbox) /\ Len(outbox) \in Nat
      /\ \A i \in 1..Len(outbox) : outbox[i] \in OutboxRows
  BY DEF OutTypeOK
<1> DEFINE new(i) == IF outbox[i].key = k THEN [outbox[i] EXCEPT !.status = status] ELSE outbox[i]
<1>2. outbox' = [i \in 1..Len(outbox) |-> new(i)]
  BY <1>1 DEF SetStatus
<1>3. \A i \in 1..Len(outbox) :
        /\ new(i) \in OutboxRows /\ new(i).key = outbox[i].key /\ new(i).text = outbox[i].text
        /\ new(i).status = IF outbox[i].key = k THEN status ELSE outbox[i].status
  BY <1>1 DEF OutboxRows
<1> HIDE DEF new
<1>4. outbox' \in [1..Len(outbox) -> OutboxRows]
  BY <1>2, <1>3
<1>5. outbox' \in Seq(OutboxRows) /\ DOMAIN outbox' = 1..Len(outbox)
  BY <1>1, <1>4, SeqDef
<1>6. \A i \in 1..Len(outbox) :
        /\ outbox'[i].key = outbox[i].key /\ outbox'[i].text = outbox[i].text
        /\ outbox'[i].status = IF outbox[i].key = k THEN status ELSE outbox[i].status
  BY <1>2, <1>3
<1>7. \A q : RowsOf(q)' = RowsOf(q)
  BY <1>1, <1>5, <1>6 DEF RowsOf
<1> QED BY <1>1, <1>5, <1>6, <1>7

(* A row that is added is the only one of its key.                            *)
LEMMA RowAdded ==
  ASSUME OutTypeOK, NEW k \in Keys, NEW t \in Texts, RowsOf(k) = {},
         outbox' = Append(outbox, [key |-> k, text |-> t, status |-> "pending"])
  PROVE  /\ outbox' \in Seq(OutboxRows) /\ DOMAIN outbox' = DOMAIN outbox \cup {Len(outbox) + 1}
         /\ \A i \in DOMAIN outbox : outbox'[i] = outbox[i] /\ outbox[i].key # k
         /\ outbox'[Len(outbox) + 1] = [key |-> k, text |-> t, status |-> "pending"]
         /\ RowsOf(k)' = {Len(outbox) + 1}
         /\ \A q : q # k => RowsOf(q)' = RowsOf(q)
<1> DEFINE added == [key |-> k, text |-> t, status |-> "pending"]
<1>1. /\ outbox \in Seq(OutboxRows) /\ DOMAIN outbox = 1..Len(outbox) /\ Len(outbox) \in Nat
      /\ added \in OutboxRows /\ added.key = k
  BY DEF OutTypeOK, OutboxRows, Statuses
<1> HIDE DEF added
<1>2. outbox' = Append(outbox, added)
  BY DEF added
<1>3. /\ outbox' \in Seq(OutboxRows) /\ DOMAIN outbox' = DOMAIN outbox \cup {Len(outbox) + 1}
      /\ \A i \in DOMAIN outbox : outbox'[i] = outbox[i]
      /\ outbox'[Len(outbox) + 1] = added
  BY <1>1, <1>2, AppendProperties
<1>4. \A i \in DOMAIN outbox : outbox[i].key # k
  BY DEF RowsOf
<1>5. RowsOf(k)' = {Len(outbox) + 1} /\ \A q : q # k => RowsOf(q)' = RowsOf(q)
  BY <1>1, <1>3, <1>4 DEF RowsOf
<1> QED BY <1>3, <1>4, <1>5 DEF added

(* What was delivered is the beginning of one text.                           *)
LEMMA PrefixGoesOnce ==
  ASSUME DeliveryIsAsSaid PROVE AnswerGoesOnce
<1> SUFFICES ASSUME NEW k \in Keys
             PROVE  \E t \in Texts : /\ Len(delivered[k]) <= PartsOf[t]
                                     /\ \A n \in DOMAIN delivered[k] : delivered[k][n] = <<t, n>>
  BY DEF AnswerGoesOnce
<1>1. PICK t \in Texts : \E n \in 0..PartsOf[t] : Prefix(k, t, n)
  BY DEF DeliveryIsAsSaid, PrefixOfOne
<1>2. PICK n \in 0..PartsOf[t] : delivered[k] = [m \in 1..n |-> <<t, m>>]
  BY <1>1 DEF Prefix
<1>3. n \in Nat /\ n <= PartsOf[t]
  BY <1>2, OutboxAssumption
<1>4. Len(delivered[k]) = n /\ DOMAIN delivered[k] = 1..n
  BY <1>2, <1>3
<1> QED BY <1>2, <1>3, <1>4

(* Nothing of a text.                                                         *)
LEMMA NoPart == \A t : [m \in 1..0 |-> <<t, m>>] = << >>
<1> SUFFICES ASSUME NEW t PROVE [m \in 1..0 |-> <<t, m>>] = << >>
  OBVIOUS
<1>1. [m \in 1..0 |-> <<t, m>>] \in Seq({})
  BY IsASeq
<1> QED BY <1>1, EmptySeq, SeqDef

(* One part more of a text.                                                   *)
LEMMA PartAdded ==
  ASSUME NEW t \in Texts, NEW n \in Nat
  PROVE  /\ [m \in 1..n |-> <<t, m>>] \in Seq(Texts \X Nat)
         /\ Append([m \in 1..n |-> <<t, m>>], <<t, n + 1>>) = [m \in 1..n + 1 |-> <<t, m>>]
<1> DEFINE old == [m \in 1..n |-> <<t, m>>]
           new == [m \in 1..n + 1 |-> <<t, m>>]
<1>1. old \in [1..n -> Texts \X Nat] /\ new \in [1..n + 1 -> Texts \X Nat]
  OBVIOUS
<1>2. /\ old \in Seq(Texts \X Nat) /\ Len(old) = n
      /\ new \in Seq(Texts \X Nat) /\ Len(new) = n + 1
  BY <1>1, IsASeq
<1>3. <<t, n + 1>> \in Texts \X Nat
  OBVIOUS
<1>4. /\ Append(old, <<t, n + 1>>) \in Seq(Texts \X Nat) /\ Len(Append(old, <<t, n + 1>>)) = n + 1
      /\ \A m \in 1..n : Append(old, <<t, n + 1>>)[m] = old[m]
      /\ Append(old, <<t, n + 1>>)[n + 1] = <<t, n + 1>>
  BY <1>2, <1>3, AppendProperties
<1>5. \A m \in 1..n + 1 : Append(old, <<t, n + 1>>)[m] = new[m]
  BY <1>4
<1>6. Append(old, <<t, n + 1>>) = new
  BY <1>2, <1>4, <1>5, SeqEqual
<1> QED BY <1>2, <1>6

(* The half of the invariant that senders keep, and that of the reminders.    *)
SendInv ==
  /\ outbox \in Seq(OutboxRows)
  /\ \A i, j \in DOMAIN outbox : outbox[i].key = outbox[j].key => i = j
  /\ sender \in [Senders -> SenderState]
  /\ \A s \in Senders : sender[s].pc = "deliver" => sender[s].done < PartsOf[sender[s].text]
  /\ sends \in 0..MaxSends
  /\ delivered \in [Keys -> Seq(Texts \X Nat)]
  /\ StatusIsTrue /\ ClaimsAreExclusive /\ DeliveryIsAsSaid

RemindInv ==
  /\ reminder \in [Reminders -> ReminderState]
  /\ alerted \subseteq DOMAIN outbox
  /\ reminded \in [RowIds -> Nat] /\ broken \in BOOLEAN
  /\ RemindedOnce /\ PrintedIsNoted

(* The two halves are the invariant.                                          *)
LEMMA OutHalves == OutIInv <=> SendInv /\ RemindInv
BY PrefixGoesOnce DEF OutIInv, OutboxInv, OutTypeOK, SendInv, RemindInv

(* And they are after a step.                                                 *)
LEMMA OutHalvesLater == OutIInv' <=> SendInv' /\ RemindInv'
BY OutHalves, PTL

(* At the start there is no answer and no sender.                             *)
LEMMA OutStart == OutInit => OutIInv
<1> SUFFICES ASSUME OutInit PROVE SendInv /\ RemindInv
  BY OutHalves
<1>1. outbox = << >> /\ DOMAIN outbox = {} /\ outbox \in Seq(OutboxRows)
  BY DEF OutInit
<1>2. \A s \in Senders : sender[s] = Idle /\ sender[s].pc = "idle"
  BY DEF OutInit, Idle
<1>3. sender \in [Senders -> SenderState] /\ reminder \in [Reminders -> ReminderState]
  BY DEF OutInit, SenderState, ReminderState
<1>4. sends \in 0..MaxSends /\ delivered \in [Keys -> Seq(Texts \X Nat)] /\ reminded \in [RowIds -> Nat]
  BY OutboxAssumption DEF OutInit
<1>5. \A k \in Keys : PrefixOfOne(k) /\ delivered[k] = << >>
  <2> SUFFICES ASSUME NEW k \in Keys PROVE PrefixOfOne(k) /\ delivered[k] = << >>
    OBVIOUS
  <2>1. delivered[k] = << >>
    BY DEF OutInit
  <2>2. PICK t \in Texts : PartsOf[t] \in Nat
    BY OutboxAssumption
  <2>3. Prefix(k, t, 0) /\ 0 \in 0..PartsOf[t]
    BY <2>1, <2>2, NoPart DEF Prefix
  <2> QED BY <2>1, <2>3 DEF PrefixOfOne
<1>6. StatusIsTrue /\ ClaimsAreExclusive /\ DeliveryIsAsSaid
  BY <1>1, <1>2, <1>5 DEF StatusIsTrue, ClaimsAreExclusive, SenderHolds, DeliveryIsAsSaid
<1>7. SendInv
  BY <1>1, <1>2, <1>3, <1>4, <1>6 DEF SendInv
<1>8. RemindedOnce /\ PrintedIsNoted
  <2>1. alerted = {} /\ (\A i \in RowIds : reminded[i] = 0) /\ \A w \in Reminders : reminder[w] = Idle
    BY DEF OutInit
  <2> QED BY <2>1 DEF RemindedOnce, PrintedIsNoted
<1> QED BY <1>1, <1>3, <1>4, <1>7, <1>8 DEF RemindInv, OutInit

(* Senders leave the reminders alone, and take no row away.                   *)
LEMMA SendersKeepReminders ==
  ASSUME RemindInv, DOMAIN outbox \subseteq DOMAIN outbox', UNCHANGED <<reminder, alerted, reminded, broken>>
  PROVE  RemindInv'
<1>1. RowIds' = RowIds
  BY DEF RowIds
<1> QED BY <1>1 DEF RemindInv, RemindedOnce, PrintedIsNoted, ReminderState

(* Reminders leave the rows and the senders alone.                            *)
LEMMA RemindersStep ==
  ASSUME OutIInv, NEW w \in Reminders, Remind(w) \/ SaveAlerted(w) \/ ReminderDies(w)
  PROVE  SendInv' /\ RemindInv'
<1>0. SendInv /\ RemindInv /\ OutTypeOK
  BY OutHalves DEF OutIInv, OutboxInv
<1>1. SendInv'
  <2>1. UNCHANGED <<outbox, sender, sends, delivered>>
    BY DEF Remind, SaveAlerted, ReminderDies
  <2>2. StatusIsTrue' /\ ClaimsAreExclusive'
    BY <1>0, <2>1 DEF SendInv, StatusIsTrue, ClaimsAreExclusive, MaySend, RowsOf, SenderHolds
  <2>3. DeliveryIsAsSaid'
    BY <1>0, <2>1 DEF SendInv, DeliveryIsAsSaid, RowsOf, PrefixOfOne, Prefix
  <2> QED BY <1>0, <2>1, <2>2, <2>3 DEF SendInv
<1>2. /\ reminder \in [Reminders -> ReminderState] /\ alerted \subseteq DOMAIN outbox
      /\ reminded \in [RowIds -> Nat] /\ broken \in BOOLEAN /\ RemindedOnce /\ PrintedIsNoted
      /\ DOMAIN outbox \subseteq RowIds
  BY <1>0, RowsHaveRoom DEF RemindInv
<1>3. \A v \in Reminders : reminder[v] # Idle => reminder[v].ids \subseteq DOMAIN outbox
  BY <1>2 DEF PrintedIsNoted
<1>4. CASE Remind(w)
  <2>1. PICK i \in Overdue :
          /\ reminder' = [reminder EXCEPT ![w] = [pc |-> "printed", ids |-> alerted \cup {i}]]
          /\ reminded' = [reminded EXCEPT ![i] = @ + 1]
    BY <1>4 DEF Remind
  <2>2. /\ i \in DOMAIN outbox /\ i \in RowIds /\ i \notin alerted /\ reminder[w] = Idle
        /\ broken' = (broken \/ \E o \in Reminders : reminder[o] # Idle)
        /\ UNCHANGED <<alerted, outbox>> /\ RowIds' = RowIds
    BY <1>2, <1>4, <2>1 DEF Remind, Overdue, SentRows, RowIds
  <2>3. /\ reminder'[w] = [pc |-> "printed", ids |-> alerted \cup {i}] /\ reminder'[w] # Idle
        /\ reminder'[w].ids = alerted \cup {i}
        /\ \A v \in Reminders \ {w} : reminder'[v] = reminder[v]
        /\ reminder' \in [Reminders -> ReminderState]
    BY <1>2, <2>1, <2>2 DEF ReminderState, Idle
  <2>4. /\ reminded' \in [RowIds -> Nat] /\ reminded'[i] = reminded[i] + 1
        /\ \A j \in RowIds \ {i} : reminded'[j] = reminded[j]
        /\ \A j \in RowIds : reminded[j] \in Nat
    BY <1>2, <2>1, <2>2
  <2>5. RemindedOnce'
    <3>1. \A j \in alerted' : reminded'[j] > 0
      BY <1>2, <2>2, <2>4 DEF RemindedOnce
    <3>2. ~broken' => reminded[i] = 0 /\ \A j \in RowIds : reminded'[j] <= 1
      <4> SUFFICES ASSUME ~broken' PROVE reminded[i] = 0 /\ \A j \in RowIds : reminded'[j] <= 1
        OBVIOUS
      <4>1. ~broken /\ \A o \in Reminders : reminder[o] = Idle
        BY <2>2
      <4>2. ~(reminded[i] > 0) /\ \A j \in RowIds : reminded[j] <= 1
        BY <1>2, <2>2, <4>1 DEF RemindedOnce, PrintedIsNoted
      <4> QED BY <2>2, <2>4, <4>2
    <3> QED BY <2>2, <3>1, <3>2 DEF RemindedOnce
  <2>6. PrintedIsNoted'
    <3>1. ASSUME NEW v \in Reminders, reminder'[v] # Idle
          PROVE  reminder'[v].ids \subseteq DOMAIN outbox' /\ \A j \in reminder'[v].ids : reminded'[j] > 0
      <4>1. CASE v = w
        BY <1>2, <2>2, <2>3, <2>4, <4>1 DEF RemindedOnce
      <4>2. CASE v # w
        BY <1>2, <2>2, <2>3, <2>4, <3>1, <4>2 DEF PrintedIsNoted
      <4> QED BY <4>1, <4>2
    <3>2. ~broken' => \A v \in Reminders \ {w} : reminder'[v] = Idle
      BY <2>2, <2>3
    <3>3. ~broken' => \A j \in RowIds : reminded'[j] > 0 => j \in reminder'[w].ids
      BY <1>2, <2>2, <2>3, <2>4 DEF PrintedIsNoted
    <3> QED BY <2>2, <2>3, <3>1, <3>2, <3>3 DEF PrintedIsNoted
  <2> QED BY <1>1, <1>2, <2>2, <2>3, <2>4, <2>5, <2>6 DEF RemindInv
<1>5. CASE SaveAlerted(w)
  <2>1. /\ reminder[w] # Idle /\ alerted' = reminder[w].ids
        /\ reminder'[w] = Idle /\ \A v \in Reminders \ {w} : reminder'[v] = reminder[v]
        /\ reminder' \in [Reminders -> ReminderState]
        /\ UNCHANGED <<outbox, reminded, broken>> /\ RowIds' = RowIds
    BY <1>2, <1>5 DEF SaveAlerted, ReminderState, RowIds
  <2>2. alerted' \subseteq DOMAIN outbox' /\ \A j \in alerted' : reminded'[j] > 0
    BY <1>2, <2>1 DEF PrintedIsNoted
  <2>3. RemindedOnce'
    BY <1>2, <2>1, <2>2 DEF RemindedOnce
  <2>4. PrintedIsNoted'
    BY <1>2, <2>1 DEF PrintedIsNoted
  <2> QED BY <1>1, <1>2, <2>1, <2>2, <2>3, <2>4 DEF RemindInv
<1>6. CASE ReminderDies(w)
  <2>1. /\ reminder'[w] = Idle /\ \A v \in Reminders \ {w} : reminder'[v] = reminder[v]
        /\ reminder' \in [Reminders -> ReminderState] /\ broken' = TRUE
        /\ UNCHANGED <<outbox, alerted, reminded>> /\ RowIds' = RowIds
    BY <1>2, <1>6 DEF ReminderDies, ReminderState, RowIds
  <2>2. RemindedOnce' /\ PrintedIsNoted'
    BY <1>2, <2>1 DEF RemindedOnce, PrintedIsNoted
  <2> QED BY <1>1, <1>2, <2>1, <2>2 DEF RemindInv
<1> QED BY <1>4, <1>5, <1>6

(* A sender that only changes what it is about: it keeps or gives up its row. *)
LEMMA SenderMoves ==
  ASSUME OutIInv, NEW s \in Senders, NEW q \in SenderState, sender' = [sender EXCEPT ![s] = q],
         UNCHANGED <<outbox, sends>>,
         q.pc # "idle" => q.key = sender[s].key /\ sender[s].pc # "idle",
         q.pc = "claim" => sender[s].pc = "claim",
         q.pc \in {"deliver", "finish"} => sender[s].pc = "deliver",
         q.pc = "deliver" => q.done < PartsOf[q.text]
  PROVE  /\ ClaimsAreExclusive'
         /\ sender' \in [Senders -> SenderState] /\ sender'[s] = q
         /\ \A v \in Senders \ {s} : sender'[v] = sender[v]
         /\ \A v \in Senders : sender'[v].pc = "deliver" => sender'[v].done < PartsOf[sender'[v].text]
<1>1. /\ sender \in [Senders -> SenderState] /\ ClaimsAreExclusive
      /\ \A v \in Senders : sender[v].pc = "deliver" => sender[v].done < PartsOf[sender[v].text]
  BY OutHalves DEF SendInv
<1>2. /\ sender' \in [Senders -> SenderState] /\ sender'[s] = q
      /\ \A v \in Senders \ {s} : sender'[v] = sender[v]
  BY <1>1
<1>3. \A k : RowsOf(k)' = RowsOf(k)
  BY DEF RowsOf
<1>4. q.pc \in {"idle", "claim", "deliver", "finish"}
  BY DEF SenderState, Idle
<1>5. \A v \in Senders : \A k \in Keys : SenderHolds(v, k)' => SenderHolds(v, k)
  BY <1>2 DEF SenderHolds
<1>6. \A v \in Senders : sender'[v].pc \in {"claim", "deliver", "finish"}
        => sender[v].pc \in {"claim", "deliver", "finish"} /\ sender'[v].key = sender[v].key
  BY <1>2
<1>7. ClaimsAreExclusive'
  BY <1>1, <1>3, <1>5, <1>6 DEF ClaimsAreExclusive
<1> QED BY <1>1, <1>2, <1>7

(* `send` with a key: the row is there, or is made, with nothing delivered.   *)
LEMMA OpenStep ==
  ASSUME OutIInv, NEW s \in Senders, NEW k \in Keys, NEW t \in Texts, Open(s, k, t)
  PROVE  SendInv' /\ DOMAIN outbox \subseteq DOMAIN outbox'
<1>0. SendInv /\ OutTypeOK /\ MaxSends \in Nat
  BY OutHalves, OutboxAssumption DEF OutIInv, OutboxInv
<1> DEFINE q == [pc |-> "claim", key |-> k, text |-> t]
<1>1. /\ q \in SenderState /\ q.pc = "claim" /\ q.key = k
      /\ Idle \in SenderState /\ Idle.pc = "idle" /\ sender[s] = Idle
      /\ sends' \in 0..MaxSends /\ UNCHANGED delivered
  BY <1>0 DEF SenderState, Idle, Open, SendInv
<1> HIDE DEF q
<1>2. ASSUME NEW x \in {q, Idle}, sender' = [sender EXCEPT ![s] = x]
      PROVE  /\ sender' \in [Senders -> SenderState] /\ sender'[s] = x
             /\ \A v \in Senders \ {s} : sender'[v] = sender[v]
             /\ \A v \in Senders : sender'[v].pc = "deliver" => sender'[v].done < PartsOf[sender'[v].text]
  BY <1>0, <1>1, <1>2 DEF SendInv
<1>3. CASE RowsOf(k) = {}
  <2>1. /\ outbox' = Append(outbox, [key |-> k, text |-> t, status |-> "pending"])
        /\ sender' = [sender EXCEPT ![s] = q]
    BY <1>3 DEF Open, Sends, q
  <2>2. /\ outbox' \in Seq(OutboxRows) /\ DOMAIN outbox' = DOMAIN outbox \cup {Len(outbox) + 1}
        /\ \A i \in DOMAIN outbox : outbox'[i] = outbox[i] /\ outbox[i].key # k
        /\ outbox'[Len(outbox) + 1].key = k
        /\ RowsOf(k)' = {Len(outbox) + 1}
        /\ \A o : o # k => RowsOf(o)' = RowsOf(o)
        /\ Len(outbox) + 1 \notin DOMAIN outbox
    BY <1>0, <1>3, <2>1, RowAdded, RowsHaveRoom
  <2>3. delivered[k] = << >>
    BY <1>0, <1>3 DEF SendInv, DeliveryIsAsSaid
  <2>4. \A i, j \in DOMAIN outbox' : outbox'[i].key = outbox'[j].key => i = j
    BY <1>0, <2>2 DEF SendInv
  <2>5. StatusIsTrue'
    <3>1. ASSUME NEW i \in DOMAIN outbox'
          PROVE  /\ outbox'[i].status = "sent" => \E x \in Texts : delivered[outbox'[i].key] = Parts(x)
                 /\ outbox'[i].status \in {"pending", "failed"} => delivered[outbox'[i].key] = << >>
      <4>1. CASE i \in DOMAIN outbox
        BY <1>0, <2>2, <4>1 DEF SendInv, StatusIsTrue, MaySend
      <4>2. CASE i = Len(outbox) + 1
        BY <1>0, <1>3, <2>1, <2>2, <2>3, <4>2, RowAdded
      <4> QED BY <2>2, <4>1, <4>2
    <3> QED BY <1>1, <3>1 DEF StatusIsTrue, MaySend, Parts
  <2>6. ClaimsAreExclusive'
    <3>1. \A v \in Senders : sender'[v].pc \in {"claim", "deliver", "finish"} => RowsOf(sender[v].key)' # {}
      <4>1. RowsOf(k)' # {} /\ \A o : RowsOf(o) # {} => RowsOf(o)' # {}
        BY <1>3, <2>2
      <4>2. sender'[s].key = k /\ RowsOf(sender[s].key)' # {}
        BY <1>1, <1>2, <2>1, <4>1
      <4>3. ASSUME NEW v \in Senders \ {s}, sender'[v].pc \in {"claim", "deliver", "finish"}
            PROVE  RowsOf(sender[v].key)' # {}
        <5>1. sender'[v] = sender[v] /\ RowsOf(sender[v].key) # {}
          BY <1>0, <1>2, <2>1, <4>3 DEF SendInv, ClaimsAreExclusive
        <5> QED BY <4>1, <5>1
      <4> QED BY <4>2, <4>3
    <3>2. \A v \in Senders : \A o \in Keys : SenderHolds(v, o)' => SenderHolds(v, o) /\ o # k
      <4>1. \A v \in Senders : \A o \in Keys : SenderHolds(v, o)' => SenderHolds(v, o)
        BY <1>1, <1>2, <2>1 DEF SenderHolds
      <4>2. \A v \in Senders : ~SenderHolds(v, k)
        BY <1>0, <1>3 DEF SendInv, ClaimsAreExclusive, SenderHolds
      <4> QED BY <4>1, <4>2
    <3>3. \A o \in Keys : o # k => \A i \in RowsOf(o)' : i \in RowsOf(o) /\ outbox'[i] = outbox[i]
      BY <2>2 DEF RowsOf
    <3> QED BY <1>0, <3>1, <3>2, <3>3 DEF SendInv, ClaimsAreExclusive
  <2>7. DeliveryIsAsSaid'
    <3>1. \A o \in Keys : PrefixOfOne(o)' /\ (RowsOf(o)' = {} => delivered[o] = << >>)
      BY <1>0, <1>1, <2>2 DEF SendInv, DeliveryIsAsSaid, PrefixOfOne, Prefix
    <3>2. \A v \in Senders : sender'[v].pc # "claim" => sender'[v] = sender[v]
      BY <1>1, <1>2, <2>1
    <3>3. ASSUME NEW v \in Senders, sender'[v].pc \in {"deliver", "finish"}
          PROVE  /\ sender'[v].pc = "deliver" => Prefix(sender[v].key, sender[v].text, sender[v].done)'
                 /\ sender'[v].pc = "finish" /\ sender'[v].status = "failed" => delivered'[sender'[v].key] = << >>
                 /\ sender'[v].pc = "finish" /\ sender'[v].status = "sent"
                      => \E x \in Texts : delivered'[sender'[v].key] = Parts(x)
      <4>1. sender'[v] = sender[v] /\ UNCHANGED delivered
        BY <1>1, <3>2, <3>3
      <4> QED BY <1>0, <3>3, <4>1 DEF SendInv, DeliveryIsAsSaid, Prefix
    <3> QED BY <1>1, <3>1, <3>3 DEF DeliveryIsAsSaid, Parts
  <2> QED BY <1>0, <1>1, <1>2, <2>1, <2>2, <2>4, <2>5, <2>6, <2>7 DEF SendInv
<1>4. CASE RowsOf(k) # {}
  <2>1. UNCHANGED outbox /\ \E x \in {q, Idle} : sender' = [sender EXCEPT ![s] = x]
    BY <1>4 DEF Open, Sends, q
  <2>2. PICK y \in {q, Idle} : sender' = [sender EXCEPT ![s] = y]
    BY <2>1
  <2>3. \A o : RowsOf(o)' = RowsOf(o)
    BY <2>1 DEF RowsOf
  <2>4. StatusIsTrue'
    BY <1>0, <1>1, <2>1 DEF SendInv, StatusIsTrue, MaySend, Parts
  <2>5. ClaimsAreExclusive'
    <3>1. \A v \in Senders : sender'[v].pc \in {"claim", "deliver", "finish"} => RowsOf(sender[v].key)' # {}
      <4> SUFFICES ASSUME NEW v \in Senders, sender'[v].pc \in {"claim", "deliver", "finish"}
                   PROVE  RowsOf(sender[v].key)' # {}
        OBVIOUS
      <4>1. CASE v = s
        <5>1. sender'[v].key = k
          BY <1>1, <1>2, <2>2, <4>1
        <5> QED BY <1>4, <2>3, <5>1
      <4>2. CASE v # s
        <5>1. sender'[v] = sender[v] /\ RowsOf(sender[v].key) # {}
          BY <1>0, <1>2, <2>2, <4>2 DEF SendInv, ClaimsAreExclusive
        <5> QED BY <2>3, <5>1
      <4> QED BY <4>1, <4>2
    <3>2. \A v \in Senders : \A o \in Keys : SenderHolds(v, o)' => SenderHolds(v, o)
      BY <1>1, <1>2, <2>2 DEF SenderHolds
    <3> QED BY <1>0, <2>1, <2>3, <3>1, <3>2 DEF SendInv, ClaimsAreExclusive
  <2>6. DeliveryIsAsSaid'
    <3>1. \A o \in Keys : PrefixOfOne(o)' /\ (RowsOf(o)' = {} => delivered[o] = << >>)
      BY <1>0, <1>1, <2>3 DEF SendInv, DeliveryIsAsSaid, PrefixOfOne, Prefix
    <3>2. \A v \in Senders : sender'[v].pc \notin {"idle", "claim"} => sender'[v] = sender[v]
      BY <1>1, <1>2, <2>2
    <3>3. ASSUME NEW v \in Senders, sender'[v].pc \in {"deliver", "finish"}
          PROVE  /\ sender'[v].pc = "deliver" => Prefix(sender[v].key, sender[v].text, sender[v].done)'
                 /\ sender'[v].pc = "finish" /\ sender'[v].status = "failed" => delivered'[sender'[v].key] = << >>
                 /\ sender'[v].pc = "finish" /\ sender'[v].status = "sent"
                      => \E x \in Texts : delivered'[sender'[v].key] = Parts(x)
      <4>1. sender'[v] = sender[v] /\ UNCHANGED delivered
        BY <1>1, <3>2, <3>3
      <4> QED BY <1>0, <3>3, <4>1 DEF SendInv, DeliveryIsAsSaid, Prefix
    <3> QED BY <1>1, <3>1, <3>3 DEF DeliveryIsAsSaid, Parts
  <2> QED BY <1>0, <1>1, <1>2, <2>1, <2>2, <2>4, <2>5, <2>6 DEF SendInv
<1> QED BY <1>3, <1>4

(* A sender that gives up, or dies, leaves everything as it is.               *)
LEMMA GivesUp ==
  ASSUME OutIInv, NEW s \in Senders, sender' = [sender EXCEPT ![s] = Idle],
         UNCHANGED <<outbox, sends, delivered>>
  PROVE  SendInv' /\ DOMAIN outbox \subseteq DOMAIN outbox'
<1>0. SendInv /\ Idle \in SenderState /\ Idle.pc = "idle"
  BY OutHalves DEF SenderState, Idle
<1>1. /\ ClaimsAreExclusive' /\ sender' \in [Senders -> SenderState] /\ sender'[s] = Idle
      /\ \A v \in Senders \ {s} : sender'[v] = sender[v]
      /\ \A v \in Senders : sender'[v].pc = "deliver" => sender'[v].done < PartsOf[sender'[v].text]
  BY <1>0, SenderMoves
<1>2. StatusIsTrue'
  BY <1>0 DEF SendInv, StatusIsTrue, MaySend, Parts
<1>3. DeliveryIsAsSaid'
  <2>1. \A o \in Keys : PrefixOfOne(o)' /\ (RowsOf(o)' = {} => delivered'[o] = << >>)
    BY <1>0 DEF SendInv, DeliveryIsAsSaid, PrefixOfOne, Prefix, RowsOf
  <2>2. ASSUME NEW v \in Senders, sender'[v].pc # "idle"
        PROVE  /\ sender'[v].pc = "deliver" => Prefix(sender[v].key, sender[v].text, sender[v].done)'
               /\ sender'[v].pc = "finish" /\ sender'[v].status = "failed" => delivered'[sender'[v].key] = << >>
               /\ sender'[v].pc = "finish" /\ sender'[v].status = "sent"
                    => \E x \in Texts : delivered'[sender'[v].key] = Parts(x)
    <3>1. sender'[v] = sender[v]
      BY <1>0, <1>1, <2>2
    <3> QED BY <1>0, <3>1 DEF SendInv, DeliveryIsAsSaid, Prefix
  <2> QED BY <2>1, <2>2 DEF DeliveryIsAsSaid, Parts
<1> QED BY <1>0, <1>1, <1>2, <1>3 DEF SendInv

(* claim_outbox: whoever makes the row "sending" is alone, with nothing out.  *)
LEMMA ClaimStep ==
  ASSUME OutIInv, NEW s \in Senders, Claim(s)
  PROVE  SendInv' /\ DOMAIN outbox \subseteq DOMAIN outbox'
<1> DEFINE k == sender[s].key
           q == [pc |-> "deliver", key |-> k, text |-> sender[s].text, done |-> 0]
<1>0. /\ SendInv /\ OutTypeOK /\ UNCHANGED <<sends, delivered>>
      /\ sender[s].pc = "claim" /\ k \in Keys /\ sender[s].text \in Texts /\ RowsOf(k) # {}
  BY OutHalves, SenderShapes DEF OutIInv, OutboxInv, Claim, SendInv, ClaimsAreExclusive
<1>1. CASE \A i \in RowsOf(k) : MaySend(i)
  <2>1. SetStatus(k, "sending") /\ sender' = [sender EXCEPT ![s] = q]
    BY <1>1 DEF Claim, ClaimFits, Sends
  <2>2. /\ outbox' \in Seq(OutboxRows) /\ DOMAIN outbox' = DOMAIN outbox
        /\ \A i \in DOMAIN outbox :
              /\ outbox'[i].key = outbox[i].key
              /\ outbox'[i].status = IF outbox[i].key = k THEN "sending" ELSE outbox[i].status
        /\ \A o : RowsOf(o)' = RowsOf(o)
    BY <1>0, <2>1, StatusWritten DEF Statuses
  <2>3. q \in SenderState /\ q.pc = "deliver" /\ q.key = k /\ q.text = sender[s].text /\ q.done = 0
    BY <1>0 DEF SenderState
  <2> HIDE DEF q
  <2>4. /\ sender' \in [Senders -> SenderState] /\ sender'[s] = q
        /\ \A v \in Senders \ {s} : sender'[v] = sender[v]
    BY <1>0, <2>1, <2>3 DEF SendInv
  <2>5. delivered[k] = << >> /\ \A v \in Senders : ~SenderHolds(v, k)
    <3>1. PICK i \in RowsOf(k) : MaySend(i) /\ i \in DOMAIN outbox /\ outbox[i].key = k
      BY <1>0, <1>1 DEF RowsOf
    <3>2. delivered[k] = << >>
      BY <1>0, <3>1 DEF SendInv, StatusIsTrue
    <3>3. outbox[i].status # "sending"
      BY <3>1 DEF MaySend
    <3> QED BY <1>0, <3>1, <3>2, <3>3 DEF SendInv, ClaimsAreExclusive
  <2>6. \A v \in Senders : sender'[v].pc = "deliver" => sender'[v].done < PartsOf[sender'[v].text]
    BY <1>0, <2>3, <2>4, OutboxAssumption DEF SendInv
  <2>7. StatusIsTrue'
    <3>1. ASSUME NEW i \in DOMAIN outbox
          PROVE  /\ outbox'[i].status = "sent" => \E x \in Texts : delivered[outbox'[i].key] = Parts(x)
                 /\ outbox'[i].status \in {"pending", "failed"} => delivered[outbox'[i].key] = << >>
      BY <1>0, <2>2 DEF SendInv, StatusIsTrue, MaySend
    <3> QED BY <1>0, <2>2, <3>1 DEF StatusIsTrue, MaySend, Parts
  <2>8. ClaimsAreExclusive'
    <3>1. ASSUME NEW v \in Senders, sender'[v].pc \in {"claim", "deliver", "finish"}
          PROVE  RowsOf(sender[v].key)' # {}
      <4>1. sender'[v].key = sender[v].key /\ RowsOf(sender[v].key) # {}
        BY <1>0, <2>3, <2>4, <3>1 DEF SendInv, ClaimsAreExclusive
      <4> QED BY <2>2, <4>1
    <3>2. \A v \in Senders \ {s} : \A o \in Keys : SenderHolds(v, o)' => SenderHolds(v, o) /\ o # k
      BY <2>4, <2>5 DEF SenderHolds
    <3>3. \A o \in Keys : SenderHolds(s, o)' => o = k
      BY <2>3, <2>4 DEF SenderHolds
    <3>4. \A o \in Keys : \A i \in RowsOf(o)' : i \in DOMAIN outbox /\ outbox[i].key = o /\ i \in RowsOf(o)
      BY <2>2 DEF RowsOf
    <3>5. \A v, w \in Senders : \A o \in Keys : SenderHolds(v, o)' /\ SenderHolds(w, o)' => v = w
      BY <1>0, <3>2, <3>3 DEF SendInv, ClaimsAreExclusive
    <3>6. ASSUME NEW v \in Senders, NEW o \in Keys, SenderHolds(v, o)', NEW i \in RowsOf(o)'
          PROVE  outbox'[i].status = "sending"
      <4>1. CASE v = s
        BY <2>2, <3>3, <3>4, <3>6, <4>1
      <4>2. CASE v # s
        <5>1. outbox[i].status = "sending"
          BY <1>0, <3>2, <3>4, <3>6, <4>2 DEF SendInv, ClaimsAreExclusive
        <5> QED BY <2>2, <3>4, <5>1
      <4> QED BY <4>1, <4>2
    <3> QED BY <3>1, <3>5, <3>6 DEF ClaimsAreExclusive
  <2>9. DeliveryIsAsSaid'
    <3>1. \A o \in Keys : PrefixOfOne(o)' /\ (RowsOf(o)' = {} => delivered[o] = << >>)
      BY <1>0, <2>2 DEF SendInv, DeliveryIsAsSaid, PrefixOfOne, Prefix
    <3>2. Prefix(sender[s].key, sender[s].text, sender[s].done)'
      BY <1>0, <2>3, <2>4, <2>5, NoPart DEF Prefix
    <3>3. ASSUME NEW v \in Senders \ {s}
          PROVE  /\ sender'[v].pc = "deliver" => Prefix(sender[v].key, sender[v].text, sender[v].done)'
                 /\ sender'[v].pc = "finish" /\ sender'[v].status = "failed" => delivered'[sender'[v].key] = << >>
                 /\ sender'[v].pc = "finish" /\ sender'[v].status = "sent"
                      => \E x \in Texts : delivered'[sender'[v].key] = Parts(x)
      BY <1>0, <2>4 DEF SendInv, DeliveryIsAsSaid, Prefix
    <3> QED BY <1>0, <2>3, <2>4, <3>1, <3>2, <3>3 DEF DeliveryIsAsSaid, Parts
  <2> QED BY <1>0, <2>2, <2>4, <2>6, <2>7, <2>8, <2>9 DEF SendInv
<1>2. CASE ~\A i \in RowsOf(k) : MaySend(i)
  <2>1. sender' = [sender EXCEPT ![s] = Idle] /\ UNCHANGED outbox /\ Idle \in SenderState /\ Idle.pc = "idle"
    BY <1>2 DEF Claim, ClaimFits, Sends, SenderState, Idle
  <2> QED BY <1>0, <2>1, GivesUp
<1> QED BY <1>1, <1>2

(* An answer of Telegram, or none: what is delivered grows by the next part   *)
(* or by nothing, and the sender notes what it knows of it.                   *)
LEMMA PartStep ==
  ASSUME OutIInv, NEW s \in Senders, sender[s].pc = "deliver",
         NEW q \in SenderState, sender' = [sender EXCEPT ![s] = q], UNCHANGED <<outbox, sends>>,
         UNCHANGED delivered \/ Takes(sender[s]),
         q.pc \in {"deliver", "finish"}, q.key = sender[s].key,
         q.pc = "deliver" => /\ Takes(sender[s]) /\ q.text = sender[s].text /\ q.done = sender[s].done + 1
                             /\ q.done # PartsOf[q.text],
         q.pc = "finish" /\ q.status = "failed" => sender[s].done = 0 /\ UNCHANGED delivered,
         q.pc = "finish" /\ q.status = "sent" => Takes(sender[s]) /\ sender[s].done + 1 = PartsOf[sender[s].text]
  PROVE  SendInv' /\ DOMAIN outbox \subseteq DOMAIN outbox'
<1> DEFINE k == sender[s].key
           t == sender[s].text
           n == sender[s].done
<1>0. /\ SendInv /\ OutTypeOK
      /\ k \in Keys /\ t \in Texts /\ n \in Nat /\ n < PartsOf[t] /\ PartsOf[t] \in Nat
      /\ Prefix(k, t, n)
  BY OutHalves, SenderShapes, OutboxAssumption DEF OutIInv, OutboxInv, SendInv, DeliveryIsAsSaid
<1>1. q.pc = "deliver" => q.done < PartsOf[q.text]
  BY <1>0
<1>2. /\ ClaimsAreExclusive' /\ sender' \in [Senders -> SenderState] /\ sender'[s] = q
      /\ \A v \in Senders \ {s} : sender'[v] = sender[v]
      /\ \A v \in Senders : sender'[v].pc = "deliver" => sender'[v].done < PartsOf[sender'[v].text]
  BY <1>1, SenderMoves
<1>3. /\ \A o \in Keys \ {k} : delivered'[o] = delivered[o]
      /\ delivered' \in [Keys -> Seq(Texts \X Nat)]
      /\ Takes(sender[s]) => delivered'[k] = [m \in 1..n + 1 |-> <<t, m>>]
  <2>1. delivered[k] = [m \in 1..n |-> <<t, m>>]
    BY <1>0 DEF Prefix
  <2>2. /\ [m \in 1..n + 1 |-> <<t, m>>] \in Seq(Texts \X Nat)
        /\ Append(delivered[k], <<t, n + 1>>) = [m \in 1..n + 1 |-> <<t, m>>]
    <3> HIDE DEF t, n
    <3>1. n + 1 \in Nat /\ Append([m \in 1..n |-> <<t, m>>], <<t, n + 1>>) = [m \in 1..n + 1 |-> <<t, m>>]
      BY <1>0, PartAdded
    <3>2. [m \in 1..n + 1 |-> <<t, m>>] \in Seq(Texts \X Nat)
      BY <1>0, <3>1, PartAdded
    <3> QED BY <2>1, <3>1, <3>2
  <2>3. CASE Takes(sender[s])
    BY <1>0, <2>2, <2>3 DEF Takes, SendInv
  <2>4. CASE UNCHANGED delivered /\ ~Takes(sender[s])
    BY <1>0, <2>4 DEF SendInv
  <2> QED BY <2>3, <2>4
<1> HIDE DEF k, t, n
<1>4. \A i \in DOMAIN outbox : outbox[i].key = k => outbox[i].status = "sending"
  BY <1>0 DEF SendInv, ClaimsAreExclusive, SenderHolds, RowsOf, k
<1>5. \A v \in Senders \ {s} : ~SenderHolds(v, k)
  BY <1>0 DEF SendInv, ClaimsAreExclusive, SenderHolds, k
<1>6. StatusIsTrue'
  <2>1. \A i \in DOMAIN outbox : outbox[i].key \in Keys
    <3>1. \A i \in DOMAIN outbox : outbox[i] \in OutboxRows
      BY <1>0 DEF SendInv
    <3> QED BY <3>1 DEF OutboxRows
  <2>2. ASSUME NEW i \in DOMAIN outbox
        PROVE  /\ outbox[i].status = "sent" => \E x \in Texts : delivered'[outbox[i].key] = Parts(x)
               /\ outbox[i].status \in {"pending", "failed"} => delivered'[outbox[i].key] = << >>
    <3>1. CASE outbox[i].key = k
      BY <1>4, <3>1
    <3>2. CASE outbox[i].key # k
      BY <1>0, <1>3, <2>1, <3>2 DEF SendInv, StatusIsTrue, MaySend
    <3> QED BY <3>1, <3>2
  <2> QED BY <2>2 DEF StatusIsTrue, MaySend, Parts
<1>7. DeliveryIsAsSaid'
  <2>1. ASSUME NEW o \in Keys, delivered'[o] = delivered[o]
        PROVE  PrefixOfOne(o)' /\ (RowsOf(o)' = {} => delivered'[o] = << >>)
    <3>1. PrefixOfOne(o) /\ (RowsOf(o) = {} => delivered[o] = << >>) /\ RowsOf(o)' = RowsOf(o)
      BY <1>0 DEF SendInv, DeliveryIsAsSaid, RowsOf
    <3> QED BY <2>1, <3>1 DEF PrefixOfOne, Prefix
  <2>2. ASSUME NEW o \in Keys PROVE PrefixOfOne(o)' /\ (RowsOf(o)' = {} => delivered'[o] = << >>)
    <3>1. CASE o # k
      BY <1>3, <2>1, <3>1
    <3>2. CASE o = k /\ UNCHANGED delivered
      BY <2>1, <3>2
    <3>3. CASE o = k /\ Takes(sender[s])
      <4>1. n + 1 \in 0..PartsOf[t] /\ delivered'[k] = [m \in 1..n + 1 |-> <<t, m>>]
        BY <1>0, <1>3, <3>3
      <4>2. PrefixOfOne(o)'
        BY <1>0, <3>3, <4>1 DEF PrefixOfOne, Prefix
      <4>3. RowsOf(o) # {} /\ RowsOf(o)' = RowsOf(o)
        BY <1>0, <3>3 DEF SendInv, ClaimsAreExclusive, RowsOf, k
      <4> QED BY <3>3, <4>2, <4>3
    <3> QED BY <3>1, <3>2, <3>3
  <2>3. /\ q.pc = "deliver" => delivered'[q.key] = [m \in 1..q.done |-> <<q.text, m>>]
        /\ q.pc = "finish" /\ q.status = "failed" => delivered'[q.key] = << >>
        /\ q.pc = "finish" /\ q.status = "sent" => \E x \in Texts : delivered'[q.key] = Parts(x)
    <3>1. CASE q.pc = "deliver"
      BY <1>3, <3>1 DEF k, t, n
    <3>2. CASE q.pc = "finish" /\ q.status = "failed"
      <4>1. delivered'[k] = [m \in 1..0 |-> <<t, m>>]
        BY <1>0, <3>2 DEF Prefix, n
      <4> QED BY <3>2, <4>1, NoPart DEF k
    <3>3. CASE q.pc = "finish" /\ q.status = "sent"
      BY <1>0, <1>3, <3>3 DEF Parts, k, t, n
    <3> QED BY <3>1, <3>2, <3>3
  <2>4. ASSUME NEW v \in Senders \ {s}, sender'[v].pc \in {"deliver", "finish"}
        PROVE  /\ sender'[v].pc = "deliver" => delivered'[sender'[v].key] = [m \in 1..sender'[v].done |-> <<sender'[v].text, m>>]
               /\ sender'[v].pc = "finish" /\ sender'[v].status = "failed" => delivered'[sender'[v].key] = << >>
               /\ sender'[v].pc = "finish" /\ sender'[v].status = "sent"
                    => \E x \in Texts : delivered'[sender'[v].key] = Parts(x)
    <3>1. sender'[v] = sender[v] /\ sender[v].key \in Keys
      BY <1>0, <1>2, <2>4, SenderShapes
    <3>2. delivered'[sender[v].key] = delivered[sender[v].key]
      BY <1>3, <1>5, <2>4, <3>1 DEF SenderHolds
    <3> QED BY <1>0, <2>4, <3>1, <3>2 DEF SendInv, DeliveryIsAsSaid, Prefix
  <2> QED BY <1>2, <2>2, <2>3, <2>4 DEF DeliveryIsAsSaid, Prefix, Parts
<1> QED BY <1>0, <1>2, <1>3, <1>6, <1>7 DEF SendInv

(* What the sender knows is written, and the row is given up.                 *)
LEMMA FinishStep ==
  ASSUME OutIInv, NEW s \in Senders, Finish(s)
  PROVE  SendInv' /\ DOMAIN outbox \subseteq DOMAIN outbox'
<1>0. /\ SendInv /\ OutTypeOK /\ UNCHANGED <<sends, delivered>>
      /\ sender[s].pc = "finish" /\ sender[s].key \in Keys
      /\ sender[s].status \in {"sent", "unknown", "failed"} /\ sender[s].status \in Statuses
  BY OutHalves, SenderShapes DEF OutIInv, OutboxInv, Finish, Statuses
<1>1. PICK k \in Keys, status \in Statuses : k = sender[s].key /\ status = sender[s].status
  BY <1>0
<1>2. /\ outbox' \in Seq(OutboxRows) /\ DOMAIN outbox' = DOMAIN outbox
      /\ \A i \in DOMAIN outbox :
            /\ outbox'[i].key = outbox[i].key
            /\ outbox'[i].status = IF outbox[i].key = k THEN status ELSE outbox[i].status
      /\ \A o : RowsOf(o)' = RowsOf(o)
  BY <1>0, <1>1, StatusWritten DEF Finish
<1>3. /\ sender' \in [Senders -> SenderState] /\ sender'[s] = Idle /\ Idle.pc = "idle"
      /\ \A v \in Senders \ {s} : sender'[v] = sender[v]
  BY <1>0 DEF Finish, Sends, SendInv, SenderState, Idle
<1>4. /\ status = "failed" => delivered[k] = << >>
      /\ status = "sent" => \E t \in Texts : delivered[k] = Parts(t)
      /\ status # "pending"
      /\ \A v \in Senders \ {s} : ~SenderHolds(v, k)
  BY <1>0, <1>1 DEF SendInv, DeliveryIsAsSaid, ClaimsAreExclusive, SenderHolds
<1>5. StatusIsTrue'
  <2>1. ASSUME NEW i \in DOMAIN outbox
        PROVE  /\ outbox'[i].status = "sent" => \E x \in Texts : delivered[outbox'[i].key] = Parts(x)
               /\ outbox'[i].status \in {"pending", "failed"} => delivered[outbox'[i].key] = << >>
    <3>1. CASE outbox[i].key = k
      BY <1>2, <1>4, <3>1
    <3>2. CASE outbox[i].key # k
      BY <1>0, <1>2, <3>2 DEF SendInv, StatusIsTrue, MaySend
    <3> QED BY <3>1, <3>2
  <2> QED BY <1>0, <1>2, <2>1 DEF StatusIsTrue, MaySend, Parts
<1>6. ClaimsAreExclusive'
  <2>1. ASSUME NEW v \in Senders, sender'[v].pc \in {"claim", "deliver", "finish"}
        PROVE  v # s /\ sender'[v] = sender[v] /\ RowsOf(sender[v].key)' # {}
    <3>1. v # s /\ sender'[v] = sender[v]
      BY <1>3, <2>1
    <3>2. RowsOf(sender[v].key) # {}
      BY <1>0, <2>1, <3>1 DEF SendInv, ClaimsAreExclusive
    <3> QED BY <1>2, <3>1, <3>2
  <2>2. \A v \in Senders : \A o \in Keys : SenderHolds(v, o)' => SenderHolds(v, o) /\ o # k
    BY <1>3, <1>4 DEF SenderHolds
  <2>3. \A o \in Keys : \A i \in RowsOf(o)' : i \in DOMAIN outbox /\ outbox[i].key = o /\ i \in RowsOf(o)
    BY <1>2 DEF RowsOf
  <2>4. ASSUME NEW v \in Senders, NEW o \in Keys, SenderHolds(v, o)', NEW i \in RowsOf(o)'
        PROVE  outbox'[i].status = "sending"
    <3>1. outbox[i].status = "sending" /\ outbox[i].key # k /\ i \in DOMAIN outbox
      BY <1>0, <2>2, <2>3, <2>4 DEF SendInv, ClaimsAreExclusive
    <3> QED BY <1>2, <3>1
  <2>5. \A v, w \in Senders : \A o \in Keys : SenderHolds(v, o)' /\ SenderHolds(w, o)' => v = w
    BY <1>0, <2>2 DEF SendInv, ClaimsAreExclusive
  <2> QED BY <2>1, <2>4, <2>5 DEF ClaimsAreExclusive
<1>7. DeliveryIsAsSaid'
  <2>1. \A o \in Keys : PrefixOfOne(o)' /\ (RowsOf(o)' = {} => delivered'[o] = << >>)
    BY <1>0, <1>2 DEF SendInv, DeliveryIsAsSaid, PrefixOfOne, Prefix
  <2>2. ASSUME NEW v \in Senders, sender'[v].pc # "idle"
        PROVE  /\ sender'[v].pc = "deliver" => Prefix(sender[v].key, sender[v].text, sender[v].done)'
               /\ sender'[v].pc = "finish" /\ sender'[v].status = "failed" => delivered'[sender'[v].key] = << >>
               /\ sender'[v].pc = "finish" /\ sender'[v].status = "sent"
                    => \E x \in Texts : delivered'[sender'[v].key] = Parts(x)
    <3>1. sender'[v] = sender[v]
      BY <1>3, <2>2
    <3> QED BY <1>0, <3>1 DEF SendInv, DeliveryIsAsSaid, Prefix
  <2> QED BY <2>1, <2>2 DEF DeliveryIsAsSaid, Parts
<1>8. \A v \in Senders : sender'[v].pc = "deliver" => sender'[v].done < PartsOf[sender'[v].text]
  BY <1>0, <1>3 DEF SendInv
<1> QED BY <1>0, <1>2, <1>3, <1>5, <1>6, <1>7, <1>8 DEF SendInv

(* For any keys, texts, and any number of commands and reminders that overlap *)
(* and die: the client has the beginning of one text, and the status is true. *)
THEOREM OutboxHolds == OutSpec => []OutboxInv
<1>1. OutIInv /\ [OutNext]_outVars => OutIInv'
  <2> SUFFICES ASSUME OutIInv, [OutNext]_outVars PROVE OutIInv'
    OBVIOUS
  <2>0. SendInv /\ RemindInv /\ OutTypeOK /\ \A s \in Senders : sender[s] \in SenderState
    BY OutHalves DEF OutIInv, OutboxInv, OutTypeOK
  <2>1. ASSUME NEW s \in Senders, NEW k \in Keys, NEW t \in Texts, Open(s, k, t) PROVE OutIInv'
    <3>1. UNCHANGED <<reminder, alerted, reminded, broken>>
      BY <2>1 DEF Open
    <3> QED BY <2>0, <2>1, <3>1, OpenStep, SendersKeepReminders, OutHalvesLater
  <2>2. ASSUME NEW s \in Senders, Claim(s) \/ Finish(s) PROVE OutIInv'
    <3>1. UNCHANGED <<reminder, alerted, reminded, broken>>
      BY <2>2 DEF Claim, Finish
    <3> QED BY <2>0, <2>2, <3>1, ClaimStep, FinishStep, SendersKeepReminders, OutHalvesLater
  <2>3. ASSUME NEW s \in Senders, PartIsTaken(s) \/ PartIsRefused(s) \/ PartIsUnclear(s) PROVE OutIInv'
    <3> DEFINE done(status) == [pc |-> "finish", key |-> sender[s].key, status |-> status]
               more == [sender[s] EXCEPT !.done = sender[s].done + 1]
    <3>1. /\ UNCHANGED <<reminder, alerted, reminded, broken, outbox, sends>>
          /\ sender[s].pc = "deliver" /\ sender[s].key \in Keys /\ sender[s].done \in Nat
      BY <2>0, <2>3, SenderShapes DEF PartIsTaken, PartIsRefused, PartIsUnclear
    <3>2. \A status \in {"sent", "unknown", "failed"} :
            done(status) \in SenderState /\ done(status).pc = "finish" /\ done(status).status = status
            /\ done(status).key = sender[s].key
      BY <3>1 DEF SenderState
    <3>3. sender[s] \in [pc : {"deliver"}, key : Keys, text : Texts, done : Nat]
      BY <2>0, <3>1 DEF SenderState, Idle
    <3>4. /\ more \in SenderState /\ more.pc = "deliver" /\ more.key = sender[s].key /\ more.text = sender[s].text
          /\ more.done = sender[s].done + 1
      BY <3>3 DEF SenderState
    <3>5. CASE PartIsTaken(s)
      <4>1. Takes(sender[s]) /\ \/ sender' = [sender EXCEPT ![s] = done("sent")] /\ sender[s].done + 1 = PartsOf[sender[s].text]
                                \/ sender' = [sender EXCEPT ![s] = more] /\ sender[s].done + 1 # PartsOf[sender[s].text]
        BY <3>5 DEF PartIsTaken, Finishes, Sends
      <4> HIDE DEF done, more
      <4>2. SendInv' /\ DOMAIN outbox \subseteq DOMAIN outbox'
        BY <3>1, <3>2, <3>4, <4>1, PartStep
      <4> QED BY <2>0, <3>1, <4>2, SendersKeepReminders, OutHalvesLater
    <3>6. CASE PartIsRefused(s)
      <4>1. PICK status \in {"failed", "unknown"} :
              /\ sender' = [sender EXCEPT ![s] = done(status)]
              /\ status = "failed" => sender[s].done = 0
        BY <3>6 DEF PartIsRefused, Finishes, Sends, RefusedAs
      <4>2. UNCHANGED delivered
        BY <3>6 DEF PartIsRefused
      <4> HIDE DEF done, more
      <4>3. SendInv' /\ DOMAIN outbox \subseteq DOMAIN outbox'
        BY <3>1, <3>2, <4>1, <4>2, PartStep
      <4> QED BY <2>0, <3>1, <4>3, SendersKeepReminders, OutHalvesLater
    <3>7. CASE PartIsUnclear(s)
      <4>1. sender' = [sender EXCEPT ![s] = done("unknown")] /\ (UNCHANGED delivered \/ Takes(sender[s]))
        BY <3>7 DEF PartIsUnclear, Finishes, Sends
      <4> HIDE DEF done, more
      <4>2. SendInv' /\ DOMAIN outbox \subseteq DOMAIN outbox'
        BY <3>1, <3>2, <4>1, PartStep
      <4> QED BY <2>0, <3>1, <4>2, SendersKeepReminders, OutHalvesLater
    <3> QED BY <2>3, <3>5, <3>6, <3>7
  <2>4. ASSUME NEW s \in Senders, SenderDies(s) PROVE OutIInv'
    <3>1. /\ UNCHANGED <<reminder, alerted, reminded, broken, outbox, sends, delivered>>
          /\ sender' = [sender EXCEPT ![s] = Idle]
      BY <2>4 DEF SenderDies, Sends
    <3> QED BY <2>0, <3>1, GivesUp, SendersKeepReminders, OutHalvesLater
  <2>5. ASSUME NEW w \in Reminders, Remind(w) \/ SaveAlerted(w) \/ ReminderDies(w) PROVE OutIInv'
    BY <2>5, RemindersStep, OutHalvesLater
  <2>6. ASSUME UNCHANGED outVars PROVE OutIInv'
    <3>1. StatusIsTrue' /\ ClaimsAreExclusive'
      BY <2>0, <2>6 DEF SendInv, outVars, StatusIsTrue, MaySend, Parts, ClaimsAreExclusive, SenderHolds, RowsOf
    <3>2. DeliveryIsAsSaid'
      BY <2>0, <2>6 DEF SendInv, outVars, DeliveryIsAsSaid, PrefixOfOne, Prefix, RowsOf, Parts
    <3>3. SendInv' /\ RemindInv'
      BY <2>0, <2>6, <3>1, <3>2, SendersKeepReminders DEF SendInv, outVars
    <3> QED BY <3>3, OutHalvesLater
  <2> QED BY <2>1, <2>2, <2>3, <2>4, <2>5, <2>6 DEF OutNext
<1> QED BY OutStart, <1>1, PTL DEF OutSpec, OutIInv

-----------------------------------------------------------------------------
(* Long texts.                                                                *)

(* Induction over sequences: what holds of none and of one letter more holds. *)
LEMMA SeqInduction ==
  ASSUME NEW S, NEW T \in SUBSET Seq(S), << >> \in T, \A s \in T, e \in S : Append(s, e) \in T
  PROVE  T = Seq(S)
<1> DEFINE R == {n \in Nat : \A s \in Seq(S) : Len(s) = n => s \in T}
<1>1. 0 \in R
  <2>1. \A s \in Seq(S) : Len(s) = 0 => s = << >>
    BY EmptySeq
  <2> QED BY <2>1
<1>2. ASSUME NEW n \in R PROVE n + 1 \in R
  <2> SUFFICES ASSUME NEW s \in Seq(S), Len(s) = n + 1 PROVE s \in T
    OBVIOUS
  <2>1. s # << >>
    BY EmptySeq
  <2>2. PICK r \in Seq(S), e \in S : s = Append(r, e)
    BY <2>1, SequenceEmptyOrAppend
  <2>3. Len(r) = n
    BY <2>2, AppendProperties, LenProperties
  <2> QED BY <2>2, <2>3
<1>3. R \in SUBSET Nat
  OBVIOUS
<1> HIDE DEF R
<1>4. R = Nat
  BY <1>1, <1>2, <1>3, SetInduction
<1>5. ASSUME NEW s \in Seq(S) PROVE s \in T
  <2>1. Len(s) \in R
    BY <1>4, LenProperties
  <2> QED BY <2>1 DEF R
<1> QED BY <1>5

(* The loop of FlattenSeq.                                                    *)
LEMMA FlattenIs ==
  ASSUME NEW S, NEW p \in Seq(Seq(S))
  PROVE  \E f : /\ f[0] = << >> /\ f[Len(p)] = FlattenSeq(p)
                /\ \A k \in 0..Len(p) : f[k] \in Seq(S)
                /\ \A k \in 1..Len(p) : f[k] = f[k - 1] \o p[k]
<1> DEFINE N == Len(p)
           Goes(g) == g = [i \in 1..N |-> IF i = 1 THEN p[i] ELSE g[i - 1] \o p[i]]
<1>1. N \in Nat /\ \A k \in 1..N : p[k] \in Seq(S)
  BY LenProperties, ElementOfSeq
<1>2. << >> \in Seq(S) /\ \A s, t \in Seq(S) : s \o t \in Seq(S)
  BY EmptySeq, ConcatProperties
<1> DEFINE step == [k \in 1..N |-> [s \in Seq(S) |-> s \o p[k]]]
<1>3. StaysIn(Seq(S), step, N)
  BY <1>1, <1>2 DEF StaysIn
<1> HIDE DEF N
<1>4. PICK f : IsRun(f, N, Seq(S), << >>, step)
  BY <1>1, <1>2, <1>3, RunExists
<1>a. \A k \in 1..N, s \in Seq(S) : step[k][s] = s \o p[k]
  OBVIOUS
<1> HIDE DEF step
<1>b. /\ f[0] = << >> /\ \A k \in 0..N : f[k] \in Seq(S)
      /\ \A k \in 1..N : f[k] = step[k][f[k - 1]]
  BY <1>4 DEF IsRun
<1>c. \A k \in 1..N : k - 1 \in 0..N
  BY <1>1
<1>5. /\ f[0] = << >> /\ \A k \in 0..N : f[k] \in Seq(S)
      /\ \A k \in 1..N : f[k] = f[k - 1] \o p[k]
  BY <1>a, <1>b, <1>c
<1>d. N # 0 => f[1] = p[1]
  <2>1. N # 0 => 1 \in 1..N /\ 1 - 1 = 0
    BY <1>1
  <2>2. N # 0 => << >> \o p[1] = p[1]
    BY <1>1, <2>1, ConcatEmptySeq
  <2> QED BY <1>5, <2>1, <2>2
<1>6. CASE N = 0
  <2>1. FlattenSeq(p) = << >>
    BY <1>6, EmptySeq DEF FlattenSeq, N
  <2> QED BY <1>5, <1>6, <2>1 DEF N
<1>7. CASE N # 0
  <2> DEFINE g == [i \in 1..N |-> f[i]]
             h == CHOOSE h : Goes(h)
  <2>1. Goes(g)
    <3>1. ASSUME NEW i \in 1..N PROVE g[i] = IF i = 1 THEN p[i] ELSE g[i - 1] \o p[i]
      <4>1. CASE i = 1
        BY <1>7, <1>d, <4>1
      <4>2. CASE i # 1
        <5>1. i - 1 \in 1..N
          BY <1>1, <4>2
        <5> QED BY <1>5, <4>2, <5>1
      <4> QED BY <4>1, <4>2
    <3> QED BY <3>1
  <2>2. Goes(h)
    <3> HIDE DEF Goes, g
    <3> QED BY <2>1
  <2>3. FlattenSeq(p) = h[N]
    BY <1>7 DEF FlattenSeq, N
  <2>4. \A i \in 1..N : h[i] = IF i = 1 THEN p[i] ELSE h[i - 1] \o p[i]
    BY <2>2
  <2> HIDE DEF h, Goes
  <2> DEFINE e == [k \in 0..N |-> IF k = 0 THEN << >> ELSE h[k]]
             T == {k \in 0..N : e[k] = f[k]}
  <2>5. 0 \in T
    BY <1>1, <1>5
  <2>6. ASSUME NEW k \in 1..N, k - 1 \in T PROVE k \in T
    <3>1. e[k - 1] = f[k - 1] /\ k \in 0..N /\ e[k] = h[k]
      BY <1>1, <2>6
    <3>2. CASE k = 1
      <4>1. h[k] = p[k]
        BY <2>4, <3>2
      <4> QED BY <1>7, <1>d, <3>1, <3>2, <4>1
    <3>3. CASE k # 1
      <4>1. k - 1 \in 0..N /\ k - 1 # 0
        BY <1>1, <3>3
      <4>2. e[k - 1] = h[k - 1]
        BY <4>1
      <4>3. h[k] = h[k - 1] \o p[k]
        BY <2>4, <3>3
      <4> QED BY <1>5, <3>1, <4>2, <4>3
    <3> QED BY <3>2, <3>3
  <2>7. N \in 0..N /\ e[N] = h[N]
    BY <1>1, <1>7
  <2> HIDE DEF T, e
  <2>8. N \in T
    BY <1>1, <2>5, <2>6, <2>7, InductionTo
  <2>9. f[N] = FlattenSeq(p)
    BY <2>3, <2>7, <2>8 DEF T
  <2> QED BY <1>5, <2>9 DEF N
<1> QED BY <1>6, <1>7

(* Nothing flattens to nothing, and one sequence more is joined at the end.   *)
LEMMA FlattenNone == FlattenSeq(<< >>) = << >>
BY DEF FlattenSeq

(* So does one sequence at the end.                                           *)
LEMMA FlattenAppend ==
  ASSUME NEW S, NEW p \in Seq(Seq(S)), NEW s \in Seq(S)
  PROVE  FlattenSeq(p) \in Seq(S) /\ FlattenSeq(Append(p, s)) = FlattenSeq(p) \o s
<1> DEFINE N == Len(p)
           q == Append(p, s)
<1>1. N \in Nat /\ q \in Seq(Seq(S)) /\ Len(q) = N + 1 /\ q[N + 1] = s /\ \A k \in 1..N : q[k] = p[k]
  BY LenProperties, AppendProperties
<1>2. PICK f : /\ f[0] = << >> /\ f[N] = FlattenSeq(p)
               /\ \A k \in 0..N : f[k] \in Seq(S)
               /\ \A k \in 1..N : f[k] = f[k - 1] \o p[k]
  BY FlattenIs
<1> HIDE DEF q
<1>3. PICK g : /\ g[0] = << >> /\ g[Len(q)] = FlattenSeq(q)
               /\ \A k \in 0..Len(q) : g[k] \in Seq(S)
               /\ \A k \in 1..Len(q) : g[k] = g[k - 1] \o q[k]
  BY <1>1, FlattenIs
<1> HIDE DEF N
<1> DEFINE T == {k \in 0..N : f[k] = g[k]}
<1>4. 0 \in T /\ \A k \in 1..N : k - 1 \in T => k \in T
  <2>1. 0 \in T
    BY <1>1, <1>2, <1>3
  <2>2. ASSUME NEW k \in 1..N, f[k - 1] = g[k - 1] PROVE f[k] = g[k]
    <3>1. k \in 1..Len(q) /\ q[k] = p[k]
      BY <1>1
    <3>2. f[k] = f[k - 1] \o p[k]
      BY <1>2
    <3>3. g[k] = g[k - 1] \o q[k]
      BY <1>3, <3>1
    <3> QED BY <2>2, <3>1, <3>2, <3>3
  <2> QED BY <2>1, <2>2
<1> HIDE DEF T
<1>5. \A k \in 0..N : k \in T
  BY <1>1, <1>4, InductionTo
<1>6. f[N] = g[N] /\ f[N] \in Seq(S)
  BY <1>1, <1>2, <1>5 DEF T
<1>7. N + 1 \in 1..Len(q) /\ (N + 1) - 1 = N
  BY <1>1
<1>8. g[N + 1] = g[N] \o s
  BY <1>1, <1>3, <1>7
<1> QED BY <1>1, <1>2, <1>3, <1>6, <1>8 DEF q

\* What a map makes of the elements of a sequence, joined.
Joined(m, s) == FlattenSeq([i \in DOMAIN s |-> m[s[i]]])

(* One element more is joined at the end.                                     *)
LEMMA JoinedAppend ==
  ASSUME NEW S, NEW R, NEW m \in [S -> Seq(R)], NEW s \in Seq(S), NEW e \in S
  PROVE  Joined(m, s) \in Seq(R) /\ Joined(m, Append(s, e)) = Joined(m, s) \o m[e]
<1> DEFINE p == [i \in DOMAIN s |-> m[s[i]]]
           r == Append(s, e)
           q == [i \in DOMAIN r |-> m[r[i]]]
<1>1. Len(s) \in Nat /\ DOMAIN s = 1..Len(s) /\ \A i \in 1..Len(s) : s[i] \in S
  BY LenProperties, ElementOfSeq
<1>2. /\ r \in Seq(S) /\ Len(r) = Len(s) + 1 /\ DOMAIN r = 1..Len(r)
      /\ r[Len(s) + 1] = e /\ \A i \in 1..Len(s) : r[i] = s[i]
  BY AppendProperties, LenProperties
<1>3. p \in Seq(Seq(R)) /\ Len(p) = Len(s) /\ m[e] \in Seq(R)
  BY <1>1
<1> HIDE DEF r
<1>4. q \in Seq(Seq(R)) /\ Len(q) = Len(s) + 1
  <2>1. \A i \in 1..Len(r) : r[i] \in S
    BY <1>2, ElementOfSeq
  <2> QED BY <1>1, <1>2, <2>1
<1>5. /\ Append(p, m[e]) \in Seq(Seq(R)) /\ Len(Append(p, m[e])) = Len(s) + 1
      /\ Append(p, m[e])[Len(s) + 1] = m[e] /\ \A i \in 1..Len(s) : Append(p, m[e])[i] = p[i]
  BY <1>3, AppendProperties
<1>6. ASSUME NEW i \in 1..Len(s) + 1 PROVE q[i] = Append(p, m[e])[i]
  <2>1. i \in DOMAIN r
    BY <1>1, <1>2
  <2>2. CASE i = Len(s) + 1
    BY <1>2, <1>5, <2>1, <2>2
  <2>3. CASE i # Len(s) + 1
    <3>1. i \in 1..Len(s)
      BY <1>1, <2>3
    <3>2. p[i] = m[s[i]] /\ q[i] = m[r[i]]
      BY <1>1, <2>1, <3>1
    <3> QED BY <1>2, <1>5, <3>1, <3>2
  <2> QED BY <2>2, <2>3
<1> HIDE DEF p, q
<1>7. q = Append(p, m[e])
  <2>1. /\ Len(q) = Len(Append(p, m[e])) /\ q \in Seq(Seq(R)) /\ Append(p, m[e]) \in Seq(Seq(R))
        /\ \A i \in 1..Len(q) : q[i] = Append(p, m[e])[i]
    BY <1>4, <1>5, <1>6
  <2> QED BY <2>1, SeqEqual
<1>8. FlattenSeq(p) \in Seq(R) /\ FlattenSeq(Append(p, m[e])) = FlattenSeq(p) \o m[e]
  BY <1>3, FlattenAppend
<1> QED BY <1>7, <1>8 DEF Joined, p, q, r

\* What is joined, element by element.
JoinsStep(m, S, R) ==
  /\ Joined(m, << >>) = << >>
  /\ \A s \in Seq(S) : Joined(m, s) \in Seq(R)
  /\ \A s \in Seq(S), e \in S : Joined(m, Append(s, e)) = Joined(m, s) \o m[e]
Joins(m, S, R) ==
  /\ JoinsStep(m, S, R)
  /\ \A e \in S : Joined(m, <<e>>) = m[e]
  /\ \A s, t \in Seq(S) : Joined(m, s \o t) = Joined(m, s) \o Joined(m, t)

(* A joined sequence grows at the end.                                        *)
LEMMA JoinedSteps ==
  ASSUME NEW S, NEW R, NEW m \in [S -> Seq(R)]
  PROVE  JoinsStep(m, S, R)
<1>0. Joined(m, << >>) = << >>
  <2>1. [i \in DOMAIN << >> |-> m[<< >>[i]]] = << >>
    OBVIOUS
  <2> QED BY <2>1, FlattenNone DEF Joined
<1>1. \A s \in Seq(S), e \in S : Joined(m, s) \in Seq(R) /\ Joined(m, Append(s, e)) = Joined(m, s) \o m[e]
  BY JoinedAppend
<1>2. \A s \in Seq(S) : Joined(m, s) \in Seq(R)
  <2> SUFFICES ASSUME NEW s \in Seq(S), s # << >> PROVE Joined(m, s) \in Seq(R)
    BY <1>0, EmptySeq
  <2>1. PICK r \in Seq(S), e \in S : s = Append(r, e)
    BY SequenceEmptyOrAppend
  <2> QED BY <1>1
<1> QED BY <1>0, <1>1, <1>2 DEF JoinsStep

(* Two sequences are joined as their parts are.                               *)
LEMMA JoinedConcat ==
  ASSUME NEW S, NEW R, NEW m \in [S -> Seq(R)], NEW s \in Seq(S), NEW t \in Seq(S)
  PROVE  Joined(m, s \o t) = Joined(m, s) \o Joined(m, t)
<1> DEFINE T == {u \in Seq(S) : Joined(m, s \o u) = Joined(m, s) \o Joined(m, u)}
<1>1. /\ Joined(m, << >>) = << >>
      /\ \A u \in Seq(S) : Joined(m, u) \in Seq(R) /\ \A e \in S : Joined(m, Append(u, e)) = Joined(m, u) \o m[e]
  <2>1. JoinsStep(m, S, R)
    BY JoinedSteps
  <2> QED BY <2>1 DEF JoinsStep
<1>2. << >> \in T
  <2>1. << >> \in Seq(S) /\ s \o << >> = s /\ Joined(m, s) \o << >> = Joined(m, s)
    BY <1>1, EmptySeq, ConcatEmptySeq
  <2> QED BY <1>1, <2>1
<1>3. ASSUME NEW u \in T, NEW e \in S PROVE Append(u, e) \in T
  <2>1. u \in Seq(S) /\ Append(u, e) \in Seq(S) /\ s \o u \in Seq(S) /\ m[e] \in Seq(R)
    BY AppendProperties, ConcatProperties
  <2>2. s \o Append(u, e) = Append(s \o u, e)
    <3>1. Append(u, e) = u \o <<e>> /\ Append(s \o u, e) = (s \o u) \o <<e>>
      BY <2>1, AppendIsConcat
    <3>2. <<e>> \in Seq(S)
      OBVIOUS
    <3>3. (s \o u) \o <<e>> = s \o (u \o <<e>>)
      BY <2>1, <3>2, ConcatAssociative
    <3> QED BY <3>1, <3>3
  <2>3. Joined(m, Append(s \o u, e)) = Joined(m, s \o u) \o m[e] /\ Joined(m, Append(u, e)) = Joined(m, u) \o m[e]
    BY <1>1, <2>1
  <2>4. Joined(m, s) \in Seq(R) /\ Joined(m, u) \in Seq(R)
    BY <1>1, <2>1
  <2>5. (Joined(m, s) \o Joined(m, u)) \o m[e] = Joined(m, s) \o (Joined(m, u) \o m[e])
    BY <2>1, <2>4, ConcatAssociative
  <2> QED BY <1>3, <2>1, <2>2, <2>3, <2>5
<1>4. T \in SUBSET Seq(S)
  OBVIOUS
<1> HIDE DEF T
<1>5. T = Seq(S)
  BY <1>2, <1>3, <1>4, SeqInduction
<1> QED BY <1>5 DEF T

(* What is joined, element by element.                                        *)
LEMMA JoinedIs ==
  ASSUME NEW S, NEW R, NEW m \in [S -> Seq(R)]
  PROVE  Joins(m, S, R)
<1>1. JoinsStep(m, S, R)
  BY JoinedSteps
<1>2. ASSUME NEW e \in S PROVE Joined(m, <<e>>) = m[e]
  <2>1. << >> \in Seq(S) /\ Append(<< >>, e) = <<e>> /\ m[e] \in Seq(R) /\ << >> \o m[e] = m[e]
    BY EmptySeq, ConcatEmptySeq
  <2> QED BY <1>1, <2>1 DEF JoinsStep
<1>3. ASSUME NEW s \in Seq(S), NEW t \in Seq(S)
      PROVE  Joined(m, s \o t) = Joined(m, s) \o Joined(m, t)
  BY JoinedConcat
<1> QED BY <1>1, <1>2, <1>3 DEF Joins

Saying == [c \in Letters |-> IF Blank(c) THEN << >> ELSE <<c>>]
Telling == [t \in Strings |-> Said(t)]

(* What is said in a text, and in several.                                    *)
LEMMA SaidIs ==
  /\ Said(<< >>) = << >>
  /\ \A t \in Strings : Said(t) \in Strings
  /\ \A c \in Letters : Said(<<c>>) = IF Blank(c) THEN << >> ELSE <<c>>
  /\ \A t \in Strings, c \in Letters : Said(Append(t, c)) = Said(t) \o Said(<<c>>)
  /\ \A s, t \in Strings : Said(s \o t) = Said(s) \o Said(t)
<1>1. Saying \in [Letters -> Strings] /\ \A c \in Letters : Saying[c] = IF Blank(c) THEN << >> ELSE <<c>>
  BY EmptySeq DEF Saying, Strings
<1>2. ASSUME NEW t \in Strings PROVE Said(t) = Joined(Saying, t)
  <2>1. \A i \in DOMAIN t : t[i] \in Letters
    BY LenProperties, ElementOfSeq DEF Strings
  <2>2. [i \in DOMAIN t |-> IF Blank(t[i]) THEN << >> ELSE <<t[i]>>] = [i \in DOMAIN t |-> Saying[t[i]]]
    BY <1>1, <2>1
  <2> QED BY <2>2 DEF Said, Joined
<1>3. /\ Joined(Saying, << >>) = << >>
      /\ \A s \in Strings : Joined(Saying, s) \in Strings
      /\ \A e \in Letters : Joined(Saying, <<e>>) = Saying[e]
      /\ \A s \in Strings, e \in Letters : Joined(Saying, Append(s, e)) = Joined(Saying, s) \o Saying[e]
      /\ \A s, t \in Strings : Joined(Saying, s \o t) = Joined(Saying, s) \o Joined(Saying, t)
  <2>1. Saying \in [Letters -> Seq(Letters)]
    BY <1>1 DEF Strings
  <2>2. Joins(Saying, Letters, Letters)
    BY <2>1, JoinedIs
  <2> QED BY <2>2 DEF Joins, JoinsStep, Strings
<1>4. << >> \in Strings /\ \A c \in Letters : <<c>> \in Strings
  BY EmptySeq DEF Strings
<1>5. /\ \A s, t \in Strings : s \o t \in Strings
      /\ \A s \in Strings, c \in Letters : Append(s, c) \in Strings
  BY AppendProperties, ConcatProperties DEF Strings
<1>6. Said(<< >>) = << >> /\ \A t \in Strings : Said(t) \in Strings
  BY <1>2, <1>3, <1>4
<1>7. \A c \in Letters : Said(<<c>>) = IF Blank(c) THEN << >> ELSE <<c>>
  BY <1>1, <1>2, <1>3, <1>4
<1>8. \A t \in Strings, c \in Letters : Said(Append(t, c)) = Said(t) \o Said(<<c>>)
  <2> SUFFICES ASSUME NEW t \in Strings, NEW c \in Letters PROVE Said(Append(t, c)) = Said(t) \o Said(<<c>>)
    OBVIOUS
  <2>1. Append(t, c) \in Strings /\ <<c>> \in Strings
    BY <1>4, <1>5
  <2>2. Said(t) = Joined(Saying, t) /\ Said(<<c>>) = Joined(Saying, <<c>>) /\ Said(Append(t, c)) = Joined(Saying, Append(t, c))
    BY <1>2, <2>1
  <2>3. Joined(Saying, Append(t, c)) = Joined(Saying, t) \o Saying[c] /\ Joined(Saying, <<c>>) = Saying[c]
    BY <1>3
  <2> QED BY <2>2, <2>3
<1>9. \A s, t \in Strings : Said(s \o t) = Said(s) \o Said(t)
  <2> SUFFICES ASSUME NEW s \in Strings, NEW t \in Strings PROVE Said(s \o t) = Said(s) \o Said(t)
    OBVIOUS
  <2>1. s \o t \in Strings
    BY <1>5
  <2>2. Said(t) = Joined(Saying, t) /\ Said(s) = Joined(Saying, s) /\ Said(s \o t) = Joined(Saying, s \o t)
    BY <1>2, <2>1
  <2> QED BY <1>3, <2>2
<1> QED BY <1>6, <1>7, <1>8, <1>9

(* The same of what several texts say.                                        *)
LEMMA SaidByIs ==
  /\ SaidBy(<< >>) = << >>
  /\ \A p \in Seq(Strings) : SaidBy(p) \in Strings
  /\ \A t \in Strings : SaidBy(<<t>>) = Said(t)
  /\ \A p \in Seq(Strings), t \in Strings : SaidBy(Append(p, t)) = SaidBy(p) \o Said(t)
  /\ \A p, q \in Seq(Strings) : SaidBy(p \o q) = SaidBy(p) \o SaidBy(q)
<1>1. Telling \in [Strings -> Strings] /\ \A t \in Strings : Telling[t] = Said(t)
  BY SaidIs DEF Telling
<1>2. ASSUME NEW p \in Seq(Strings) PROVE SaidBy(p) = Joined(Telling, p)
  <2>1. \A i \in DOMAIN p : p[i] \in Strings
    BY LenProperties, ElementOfSeq
  <2>2. [i \in DOMAIN p |-> Said(p[i])] = [i \in DOMAIN p |-> Telling[p[i]]]
    BY <1>1, <2>1
  <2> QED BY <2>2 DEF SaidBy, Joined
<1>3. /\ Joined(Telling, << >>) = << >>
      /\ \A p \in Seq(Strings) : Joined(Telling, p) \in Strings
      /\ \A t \in Strings : Joined(Telling, <<t>>) = Telling[t]
      /\ \A p \in Seq(Strings), t \in Strings : Joined(Telling, Append(p, t)) = Joined(Telling, p) \o Telling[t]
      /\ \A p, q \in Seq(Strings) : Joined(Telling, p \o q) = Joined(Telling, p) \o Joined(Telling, q)
  <2>1. Telling \in [Strings -> Seq(Letters)]
    BY <1>1 DEF Strings
  <2>2. Joins(Telling, Strings, Letters)
    BY <2>1, JoinedIs
  <2>3. \A p \in Seq(Strings) : Joined(Telling, p) \in Strings
    BY <2>2 DEF Joins, JoinsStep, Strings
  <2> QED BY <2>2, <2>3 DEF Joins, JoinsStep
<1>4. << >> \in Seq(Strings) /\ \A t \in Strings : <<t>> \in Seq(Strings)
  BY EmptySeq
<1>5. /\ \A p, q \in Seq(Strings) : p \o q \in Seq(Strings)
      /\ \A p \in Seq(Strings), t \in Strings : Append(p, t) \in Seq(Strings)
  BY AppendProperties, ConcatProperties
<1> QED BY <1>1, <1>2, <1>3, <1>4, <1>5

(* Only blanks say nothing.                                                   *)
LEMMA BlankSaysNothing ==
  \A t \in Strings : Said(t) = << >> <=> \A i \in DOMAIN t : Blank(t[i])
<1> DEFINE T == {t \in Strings : Said(t) = << >> <=> \A i \in DOMAIN t : Blank(t[i])}
<1>1. << >> \in T
  BY SaidIs, EmptySeq DEF Strings
<1>2. ASSUME NEW t \in T, NEW c \in Letters PROVE Append(t, c) \in T
  <2> DEFINE u == Append(t, c)
  <2>1. t \in Seq(Letters) /\ Said(t) = << >> <=> \A i \in 1..Len(t) : Blank(t[i])
    BY LenProperties DEF Strings
  <2>2. /\ u \in Seq(Letters) /\ DOMAIN u = 1..Len(t) + 1 /\ u[Len(t) + 1] = c
        /\ Len(t) \in Nat /\ \A i \in 1..Len(t) : u[i] = t[i]
    BY LenProperties, AppendProperties DEF Strings
  <2>3. Said(u) = Said(t) \o (IF Blank(c) THEN << >> ELSE <<c>>)
    BY SaidIs
  <2>4. Said(t) \in Seq(Letters)
    BY SaidIs DEF Strings
  <2> HIDE DEF u
  <2>5. CASE Blank(c)
    <3>1. Said(u) = Said(t)
      BY <2>3, <2>4, <2>5, ConcatEmptySeq
    <3>2. (\A i \in DOMAIN u : Blank(u[i])) <=> \A i \in 1..Len(t) : Blank(t[i])
      <4>1. \A i \in DOMAIN u : i = Len(t) + 1 \/ i \in 1..Len(t)
        BY <2>2
      <4>2. \A i \in 1..Len(t) : i \in DOMAIN u
        BY <2>2
      <4> QED BY <2>2, <2>5, <4>1, <4>2
    <3> QED BY <2>1, <2>2, <3>1, <3>2 DEF u, Strings
  <2>6. CASE ~Blank(c)
    <3>1. <<c>> \in Seq(Letters) /\ <<c>> # << >>
      OBVIOUS
    <3>2. Said(u) # << >>
      BY <2>3, <2>4, <2>6, <3>1, ConcatEqualIffEmpty
    <3>3. ~Blank(u[Len(t) + 1]) /\ Len(t) + 1 \in DOMAIN u
      BY <2>2, <2>6
    <3> QED BY <2>2, <3>2, <3>3 DEF u, Strings
  <2> QED BY <2>5, <2>6
<1>3. T \in SUBSET Seq(Letters)
  BY DEF Strings
<1> HIDE DEF T
<1>4. T = Seq(Letters)
  BY <1>1, <1>2, <1>3, SeqInduction
<1> QED BY <1>4 DEF T, Strings

(* Every letter counts, "e" twice.                                            *)
LEMMA WidthAppend ==
  ASSUME NEW t \in Strings, NEW c \in Letters
  PROVE  /\ utf16_len(t) \in Nat /\ utf16_len(t) >= Len(t)
         /\ utf16_len(Append(t, c)) = utf16_len(t) + IF c = "e" THEN 2 ELSE 1
<1> DEFINE u == Append(t, c)
           E(s) == {i \in DOMAIN s : s[i] = "e"}
<1>1. /\ u \in Seq(Letters) /\ DOMAIN u = 1..Len(t) + 1 /\ u[Len(t) + 1] = c /\ Len(u) = Len(t) + 1
      /\ Len(t) \in Nat /\ DOMAIN t = 1..Len(t) /\ \A i \in 1..Len(t) : u[i] = t[i]
  BY LenProperties, AppendProperties DEF Strings
<1> HIDE DEF u
<1>2. IsFiniteSet(1..Len(t))
  BY <1>1, FS_Interval
<1>3. IsFiniteSet(E(t)) /\ Cardinality(E(t)) \in Nat
  <2>1. E(t) \in SUBSET (1..Len(t))
    BY <1>1
  <2> QED BY <1>2, <2>1, FS_Subset, FS_CardinalityType
<1>4. E(u) = IF c = "e" THEN E(t) \cup {Len(t) + 1} ELSE E(t)
  <2>1. \A i : i \in DOMAIN u <=> i \in DOMAIN t \/ i = Len(t) + 1
    BY <1>1
  <2>2. \A i \in DOMAIN t : u[i] = t[i] /\ i # Len(t) + 1
    BY <1>1
  <2> QED BY <1>1, <2>1, <2>2
<1>5. Len(t) + 1 \notin E(t)
  BY <1>1
<1> HIDE DEF E
<1>6. Cardinality(E(u)) = Cardinality(E(t)) + IF c = "e" THEN 1 ELSE 0
  <2>1. CASE c = "e"
    <3>1. Cardinality(E(t) \cup {Len(t) + 1}) = Cardinality(E(t)) + 1
      BY <1>3, <1>5, FS_AddElement
    <3> QED BY <1>4, <2>1, <3>1
  <2>2. CASE c # "e"
    BY <1>3, <1>4, <2>2
  <2> QED BY <2>1, <2>2
<1>7. utf16_len(t) = Len(t) + Cardinality(E(t)) /\ utf16_len(u) = Len(u) + Cardinality(E(u))
  BY DEF utf16_len, E
<1>8. utf16_len(u) = utf16_len(t) + IF c = "e" THEN 2 ELSE 1
  BY <1>1, <1>3, <1>6, <1>7
<1> QED BY <1>1, <1>3, <1>7, <1>8 DEF u

(* The width of a text is what its parts have together.                       *)
LEMMA WidthIs ==
  /\ utf16_len(<< >>) = 0
  /\ \A t \in Strings : utf16_len(t) \in Nat /\ utf16_len(t) >= Len(t)
  /\ \A t \in Strings, c \in Letters : utf16_len(Append(t, c)) = utf16_len(t) + IF c = "e" THEN 2 ELSE 1
  /\ \A s, t \in Strings : utf16_len(s \o t) = utf16_len(s) + utf16_len(t)
<1>1. utf16_len(<< >>) = 0
  <2>1. {i \in DOMAIN << >> : << >>[i] = "e"} = {} /\ Len(<< >>) = 0
    OBVIOUS
  <2> QED BY <2>1, FS_EmptySet DEF utf16_len
<1>2. /\ \A t \in Strings : utf16_len(t) \in Nat /\ utf16_len(t) >= Len(t)
      /\ \A t \in Strings, c \in Letters : utf16_len(Append(t, c)) = utf16_len(t) + IF c = "e" THEN 2 ELSE 1
  <2>1. "a" \in Letters
    BY DEF Letters
  <2> QED BY <2>1, WidthAppend
<1>3. ASSUME NEW s \in Strings, NEW t \in Strings PROVE utf16_len(s \o t) = utf16_len(s) + utf16_len(t)
  <2> DEFINE T == {u \in Strings : utf16_len(s \o u) = utf16_len(s) + utf16_len(u)}
  <2>1. << >> \in T
    BY <1>1, <1>2, EmptySeq, ConcatEmptySeq DEF Strings
  <2>2. ASSUME NEW u \in T, NEW c \in Letters PROVE Append(u, c) \in T
    <3>1. u \in Strings /\ Append(u, c) \in Strings /\ s \o u \in Strings
      BY AppendProperties, ConcatProperties DEF Strings
    <3>2. s \o Append(u, c) = Append(s \o u, c)
      <4>1. Append(u, c) = u \o <<c>> /\ Append(s \o u, c) = (s \o u) \o <<c>>
        BY <3>1, AppendIsConcat DEF Strings
      <4>2. <<c>> \in Seq(Letters)
        OBVIOUS
      <4>3. (s \o u) \o <<c>> = s \o (u \o <<c>>)
        BY <3>1, <4>2, ConcatAssociative DEF Strings
      <4> QED BY <4>1, <4>3
    <3>3. /\ utf16_len(Append(s \o u, c)) = utf16_len(s \o u) + IF c = "e" THEN 2 ELSE 1
          /\ utf16_len(Append(u, c)) = utf16_len(u) + IF c = "e" THEN 2 ELSE 1
          /\ utf16_len(s \o u) = utf16_len(s) + utf16_len(u)
          /\ utf16_len(s) \in Nat /\ utf16_len(u) \in Nat
      BY <1>2, <2>2, <3>1
    <3>4. utf16_len(s \o Append(u, c)) = utf16_len(s) + utf16_len(Append(u, c))
      <4>1. PICK d \in Nat : d = IF c = "e" THEN 2 ELSE 1
        OBVIOUS
      <4> QED BY <3>2, <3>3, <4>1
    <3> QED BY <3>1, <3>4
  <2>3. T \in SUBSET Seq(Letters)
    BY DEF Strings
  <2> HIDE DEF T
  <2>4. T = Seq(Letters)
    BY <2>1, <2>2, <2>3, SeqInduction
  <2> QED BY <2>4 DEF T, Strings
<1> QED BY <1>1, <1>2, <1>3

(* strip takes blanks away only.                                              *)
LEMMA StripIs ==
  ASSUME NEW t \in Strings
  PROVE  /\ Strip(t) \in Strings /\ Said(Strip(t)) = Said(t)
         /\ utf16_len(Strip(t)) <= utf16_len(t) /\ Len(Strip(t)) <= Len(t)
         /\ Strip(t) # << >> => Said(Strip(t)) # << >>
<1> DEFINE L == LetterAt(t)
           N == Len(t)
<1>1. t \in Seq(Letters) /\ N \in Nat /\ DOMAIN t = 1..N /\ \A i \in 1..N : t[i] \in Letters
  BY LenProperties, ElementOfSeq DEF Strings
<1>2. CASE L = {}
  <2>1. Strip(t) = << >>
    BY <1>2 DEF Strip
  <2>2. Said(t) = << >>
    BY <1>2, BlankSaysNothing DEF LetterAt
  <2>3. << >> \in Strings /\ Len(<< >>) = 0 /\ utf16_len(<< >>) = 0 /\ utf16_len(t) \in Nat
    BY EmptySeq, WidthIs DEF Strings
  <2> QED BY <1>1, <2>1, <2>2, <2>3, SaidIs
<1>3. CASE L # {}
  <2>1. L \in SUBSET (1..N)
    BY <1>1 DEF LetterAt
  <2>2. PICK n \in L : n = Max(L) /\ \A i \in L : i <= n
    BY <1>1, <1>3, <2>1, MaxIsIn
  <2>3. PICK m \in L : m = Min(L) /\ \A i \in L : m <= i
    <3>1. \E m \in L : \A i \in L : m <= i
      <4>1. L \in SUBSET Nat
        BY <1>1, <2>1
      <4> QED BY <1>3, <4>1, LeastNumber
    <3>2. Min(L) \in L /\ \A i \in L : Min(L) <= i
      BY <3>1 DEF Min
    <3> QED BY <3>2
  <2> DEFINE u == SubSeq(t, 1, m - 1)
             s == SubSeq(t, m, n)
             w == SubSeq(t, n + 1, N)
  <2>4. Strip(t) = s
    BY <1>3, <2>2, <2>3 DEF Strip
  <2>5. m \in 1..N /\ n \in m..N
    BY <1>1, <2>1, <2>2, <2>3
  <2>6. /\ u \in Strings /\ Len(u) = m - 1 /\ DOMAIN u = 1..m - 1 /\ \A i \in 1..m - 1 : u[i] = t[i]
    <3>1. u \in Seq(Letters) /\ Len(u) = m - 1 /\ \A i \in 1..m - 1 : u[i] = t[i]
      BY <1>1, <2>5, SubSeqProperties
    <3> QED BY <3>1, LenProperties DEF Strings
  <2>7. /\ s \in Strings /\ Len(s) = n - m + 1
    BY <1>1, <2>5, SubSeqProperties DEF Strings
  <2>8. /\ w \in Strings /\ Len(w) = N - n /\ DOMAIN w = 1..N - n /\ \A i \in 1..N - n : w[i] = t[n + i]
    <3>1. /\ n + 1 \in Int /\ N \in Int /\ \A i \in n + 1..N : t[i] \in Letters
          /\ N - (n + 1) + 1 = N - n /\ \A i \in 1..N - n : n + 1 + i - 1 = n + i
          /\ N - n = IF n + 1 <= N THEN N - (n + 1) + 1 ELSE 0
      <4>1. n \in Int /\ n >= 1 /\ n <= N
        BY <1>1, <2>5
      <4> HIDE DEF L, N
      <4>2. \A i \in n + 1..N : i \in 1..N
        BY <1>1, <4>1
      <4>3. N - (n + 1) + 1 = N - n /\ N - n = IF n + 1 <= N THEN N - (n + 1) + 1 ELSE 0
        BY <1>1, <4>1
      <4>4. \A i \in 1..N - n : n + 1 + i - 1 = n + i
        BY <1>1, <4>1
      <4> QED BY <1>1, <4>1, <4>2, <4>3, <4>4
    <3>2. w \in Seq(Letters) /\ Len(w) = N - n /\ \A i \in 1..N - n : w[i] = t[n + i]
      <4> HIDE DEF w
      <4>1. /\ w \in Seq(Letters) /\ Len(w) = IF n + 1 <= N THEN N - (n + 1) + 1 ELSE 0
            /\ \A i \in 1..N - (n + 1) + 1 : w[i] = t[n + 1 + i - 1]
        BY <3>1, SubSeqProperties DEF w
      <4> QED BY <3>1, <4>1
    <3> QED BY <3>2, LenProperties DEF Strings
  <2>9. t = (u \o s) \o w
    <3>1. u \o s = SubSeq(t, 1, n)
      <4>1. 1 \in 1..N + 1 /\ m - 1 \in 1 - 1..N /\ n \in m - 1..N /\ (m - 1) + 1 = m
        BY <1>1, <2>5
      <4>2. SubSeq(t, 1, m - 1) \o SubSeq(t, (m - 1) + 1, n) = SubSeq(t, 1, n)
        BY <1>1, <4>1, ConcatAdjacentSubSeq
      <4> QED BY <4>1, <4>2
    <3>2. SubSeq(t, 1, n) \o w = SubSeq(t, 1, N)
      <4>1. 1 \in 1..N + 1 /\ n \in 1 - 1..N /\ N \in n..N
        BY <1>1, <2>5
      <4> QED BY <1>1, <4>1, ConcatAdjacentSubSeq
    <3> QED BY <1>1, <3>1, <3>2, SubSeqFull
  <2> HIDE DEF u, s, w
  <2>10. u \o s \in Strings
    BY <2>6, <2>7, ConcatProperties DEF Strings
  <2>11. Said(u) = << >> /\ Said(w) = << >>
    <3>0. \A i \in 1..N : ~Blank(t[i]) => i \in L
      BY <1>1 DEF LetterAt
    <3>1. \A i \in 1..N : i < m \/ n < i => Blank(t[i])
      <4> HIDE DEF L
      <4>1. n \in Int /\ m \in Int
        BY <1>1, <2>5
      <4> QED BY <1>1, <2>2, <2>3, <3>0, <4>1
    <3>2. \A i \in DOMAIN u : Blank(u[i])
      BY <1>1, <2>5, <2>6, <3>1
    <3>3. \A i \in DOMAIN w : Blank(w[i])
      <4>1. \A i \in 1..N - n : n + i \in 1..N /\ n < n + i
        BY <1>1, <2>5
      <4> QED BY <2>8, <3>1, <4>1
    <3> QED BY <2>6, <2>8, <3>2, <3>3, BlankSaysNothing
  <2>12. Said(t) = Said(s)
    <3>1. Said(t) = (Said(u) \o Said(s)) \o Said(w)
      <4>1. Said(u \o s) = Said(u) \o Said(s)
        BY <2>6, <2>7, SaidIs
      <4>2. Said((u \o s) \o w) = Said(u \o s) \o Said(w)
        BY <2>8, <2>10, SaidIs
      <4> QED BY <2>9, <4>1, <4>2
    <3>2. Said(s) \in Seq(Letters)
      BY <2>7, SaidIs DEF Strings
    <3> QED BY <2>11, <3>1, <3>2, ConcatEmptySeq
  <2>13. utf16_len(s) <= utf16_len(t)
    <3>1. utf16_len(t) = (utf16_len(u) + utf16_len(s)) + utf16_len(w)
      BY <2>6, <2>7, <2>8, <2>9, <2>10, WidthIs
    <3>2. utf16_len(u) \in Nat /\ utf16_len(s) \in Nat /\ utf16_len(w) \in Nat
      BY <2>6, <2>7, <2>8, WidthIs
    <3> QED BY <3>1, <3>2
  <2>14. Said(t) # << >>
    <3>1. m \in DOMAIN t /\ ~Blank(t[m])
      BY DEF LetterAt
    <3> QED BY <3>1, BlankSaysNothing
  <2>15. Len(s) <= N
    BY <1>1, <2>5, <2>7
  <2> QED BY <2>4, <2>7, <2>12, <2>13, <2>14, <2>15
<1> QED BY <1>2, <1>3

\* What Telegram takes, and what it takes if it is not blank.
Narrow == {t \in Strings : utf16_len(t) <= TELEGRAM_LIMIT}
Sendable == {t \in Narrow : Said(t) # << >>}
Stripping == [t \in Narrow |-> IF Strip(t) = << >> THEN << >> ELSE <<Strip(t)>>]

(* Narrow parts are stripped to parts that can be sent and say the same.      *)
LEMMA StripAllIs ==
  ASSUME NEW p \in Seq(Narrow)
  PROVE  StripAll(p) \in Seq(Sendable) /\ SaidBy(StripAll(p)) = SaidBy(p)
<1>1. \A t \in Narrow : /\ Strip(t) \in Strings /\ Said(Strip(t)) = Said(t)
                        /\ Strip(t) = << >> \/ Strip(t) \in Sendable
  <2> SUFFICES ASSUME NEW t \in Narrow
               PROVE  /\ Strip(t) \in Strings /\ Said(Strip(t)) = Said(t)
                      /\ Strip(t) = << >> \/ Strip(t) \in Sendable
    OBVIOUS
  <2>1. t \in Strings /\ utf16_len(t) <= TELEGRAM_LIMIT
    BY DEF Narrow
  <2>2. /\ Strip(t) \in Strings /\ Said(Strip(t)) = Said(t)
        /\ utf16_len(Strip(t)) <= utf16_len(t)
        /\ Strip(t) # << >> => Said(Strip(t)) # << >>
    BY <2>1, StripIs
  <2>3. utf16_len(Strip(t)) \in Nat /\ utf16_len(t) \in Nat /\ TELEGRAM_LIMIT \in Nat
    BY <2>1, <2>2, WidthIs, TextAssumption
  <2> QED BY <2>1, <2>2, <2>3 DEF Narrow, Sendable
<1>2. Stripping \in [Narrow -> Seq(Sendable)]
  <2>1. \A t \in Narrow : (IF Strip(t) = << >> THEN << >> ELSE <<Strip(t)>>) \in Seq(Sendable)
    BY <1>1, EmptySeq
  <2> QED BY <2>1 DEF Stripping
<1>3. ASSUME NEW r \in Seq(Narrow) PROVE StripAll(r) = Joined(Stripping, r)
  <2>1. \A i \in DOMAIN r : r[i] \in Narrow
    BY LenProperties, ElementOfSeq
  <2>2. \A i \in DOMAIN r : Stripping[r[i]] = LET s == Strip(r[i]) IN IF s = << >> THEN << >> ELSE <<s>>
    BY <2>1 DEF Stripping
  <2>3. [i \in DOMAIN r |-> LET s == Strip(r[i]) IN IF s = << >> THEN << >> ELSE <<s>>]
          = [i \in DOMAIN r |-> Stripping[r[i]]]
    BY <2>2
  <2> QED BY <2>3 DEF StripAll, Joined
<1>4. Joins(Stripping, Narrow, Sendable)
  BY <1>2, JoinedIs
<1> DEFINE T == {r \in Seq(Narrow) : SaidBy(StripAll(r)) = SaidBy(r)}
<1>5. << >> \in T
  BY <1>3, <1>4, EmptySeq DEF Joins, JoinsStep
<1>6. ASSUME NEW r \in T, NEW t \in Narrow PROVE Append(r, t) \in T
  <2>1. r \in Seq(Narrow) /\ Append(r, t) \in Seq(Narrow) /\ t \in Strings
    BY AppendProperties DEF Narrow
  <2>2. StripAll(Append(r, t)) = StripAll(r) \o Stripping[t]
    <3>1. Joined(Stripping, Append(r, t)) = Joined(Stripping, r) \o Stripping[t]
      BY <1>4, <2>1 DEF Joins, JoinsStep
    <3> QED BY <1>3, <2>1, <3>1
  <2>3. r \in Seq(Strings) /\ StripAll(r) \in Seq(Strings) /\ Stripping[t] \in Seq(Strings)
    <3>1. StripAll(r) \in Seq(Sendable) /\ Stripping[t] \in Seq(Sendable)
      BY <1>2, <1>3, <1>4, <2>1 DEF Joins, JoinsStep
    <3>2. Sendable \subseteq Strings /\ Narrow \subseteq Strings
      BY DEF Sendable, Narrow
    <3> QED BY <2>1, <3>1, <3>2, SeqMonotonic
  <2>4. SaidBy(Stripping[t]) = Said(t)
    <3>1. CASE Strip(t) = << >>
      BY <1>1, <3>1, SaidIs, SaidByIs DEF Stripping
    <3>2. CASE Strip(t) # << >>
      BY <1>1, <3>2, SaidByIs DEF Stripping
    <3> QED BY <3>1, <3>2
  <2>5. SaidBy(StripAll(r) \o Stripping[t]) = SaidBy(StripAll(r)) \o SaidBy(Stripping[t])
    BY <2>3, SaidByIs
  <2>6. SaidBy(Append(r, t)) = SaidBy(r) \o Said(t)
    BY <2>1, <2>3, SaidByIs
  <2> QED BY <2>1, <2>2, <2>4, <2>5, <2>6
<1>7. T \in SUBSET Seq(Narrow)
  OBVIOUS
<1> HIDE DEF T
<1>8. T = Seq(Narrow)
  BY <1>5, <1>6, <1>7, SeqInduction
<1>9. StripAll(p) \in Seq(Sendable)
  BY <1>3, <1>4 DEF Joins, JoinsStep
<1> QED BY <1>8, <1>9 DEF T

SplitState == [closed : Seq(Strings), open : Strings]
SaidSoFar(got) == SaidBy(got.closed) \o Said(got.open)

(* A letter is added to the open part, or it completes a separator and the part closes. *)
LEMMA NextLetterIs ==
  ASSUME NEW got \in SplitState, NEW c \in Letters, NEW sep \in Strings, Len(sep) >= 1, Said(sep) = << >>
  PROVE  LET next == NextLetter(got, c, sep)
         IN /\ next \in SplitState /\ SaidSoFar(next) = SaidSoFar(got) \o Said(<<c>>)
            /\ \/ /\ next.closed = got.closed /\ next.open = Append(got.open, c)
                  /\ Len(sep) = 1 => c # sep[1]
               \/ /\ next.open = << >>
                  /\ \E q \in Strings : next.closed = Append(got.closed, q) /\ Len(q) <= Len(got.open)
<1> DEFINE next == NextLetter(got, c, sep)
           more == Append(got.open, c)
           closed == got.closed
           open == got.open
           l == Len(sep)
           M == Len(more)
<1>1. closed \in Seq(Strings) /\ open \in Strings /\ SaidBy(closed) \in Seq(Letters)
  <2>1. closed \in Seq(Strings) /\ open \in Strings
    BY DEF SplitState
  <2> QED BY <2>1, SaidByIs DEF Strings
<1>2. /\ more \in Seq(Letters) /\ M = Len(open) + 1 /\ Len(open) \in Nat /\ l \in Nat
      /\ more[M] = c /\ sep \in Seq(Letters)
  <2>1. open \in Seq(Letters)
    BY <1>1 DEF Strings
  <2> QED BY <2>1, AppendProperties, LenProperties DEF Strings
<1>3. /\ Said(more) = Said(open) \o Said(<<c>>) /\ Said(open) \in Seq(Letters) /\ Said(<<c>>) \in Seq(Letters)
  <2>1. <<c>> \in Strings
    BY DEF Strings
  <2> QED BY <1>1, <2>1, SaidIs DEF Strings
<1>4. SaidSoFar(got) \o Said(<<c>>) = SaidBy(closed) \o Said(more)
  BY <1>1, <1>3, ConcatAssociative DEF SaidSoFar
<1>5. CASE EndsWith(more, sep)
  <2> DEFINE q == SubSeq(more, 1, M - l)
  <2>1. next = [closed |-> Append(closed, q), open |-> << >>]
    BY <1>5 DEF NextLetter
  <2>2. M >= l /\ SubSeq(more, M - l + 1, M) = sep
    BY <1>5 DEF EndsWith
  <2>3. q \in Strings /\ Len(q) <= Len(open)
    <3>1. M - l \in Int /\ 1 \in Int /\ \A i \in 1..M - l : i \in 1..M
      BY <1>2
    <3>2. \A i \in 1..M - l : more[i] \in Letters
      BY <1>2, <3>1, ElementOfSeq
    <3> HIDE DEF more
    <3>3. q \in Seq(Letters) /\ Len(q) = IF 1 <= M - l THEN (M - l) - 1 + 1 ELSE 0
      <4> HIDE DEF M, l
      <4> QED BY <3>1, <3>2, SubSeqProperties
    <3> QED BY <1>2, <3>3 DEF Strings
  <2>4. more = q \o sep
    <3> HIDE DEF more
    <3>1. 1 \in 1..M + 1 /\ M - l \in 1 - 1..M /\ M \in M - l..M
      BY <1>2, <2>2
    <3>2. SubSeq(more, 1, M - l) \o SubSeq(more, M - l + 1, M) = SubSeq(more, 1, M)
      BY <1>2, <3>1, ConcatAdjacentSubSeq
    <3> QED BY <1>2, <2>2, <3>2, SubSeqFull
  <2> HIDE DEF q, more, l, M
  <2>5. Said(more) = Said(q)
    <3>1. Said(more) = Said(q) \o Said(sep) /\ Said(q) \in Seq(Letters)
      BY <2>3, <2>4, SaidIs DEF Strings
    <3> QED BY <3>1, ConcatEmptySeq
  <2>6. next \in SplitState /\ next.open = << >> /\ next.closed = Append(closed, q)
    <3>1. Append(closed, q) \in Seq(Strings) /\ << >> \in Strings
      BY <1>1, <2>3, AppendProperties, EmptySeq DEF Strings
    <3> QED BY <2>1, <3>1 DEF SplitState
  <2>7. SaidSoFar(next) = SaidBy(closed) \o Said(q)
    <3>1. SaidBy(Append(closed, q)) = SaidBy(closed) \o Said(q)
      BY <1>1, <2>3, SaidByIs
    <3>2. SaidBy(closed) \o Said(q) \in Seq(Letters)
      BY <1>1, <2>3, SaidIs, ConcatProperties DEF Strings
    <3> HIDE DEF next
    <3>3. SaidSoFar(next) = SaidBy(Append(closed, q)) \o << >>
      BY <2>6, SaidIs DEF SaidSoFar
    <3> QED BY <3>1, <3>2, <3>3, ConcatEmptySeq
  <2> HIDE DEF next
  <2> QED BY <1>4, <2>3, <2>5, <2>6, <2>7 DEF next
<1>6. CASE ~EndsWith(more, sep)
  <2>1. next = [closed |-> closed, open |-> more]
    BY <1>6 DEF NextLetter
  <2>2. next \in SplitState /\ next.closed = closed /\ next.open = more
    BY <1>1, <1>2, <2>1 DEF SplitState, Strings
  <2>3. SaidSoFar(next) = SaidBy(closed) \o Said(more)
    BY <2>2 DEF SaidSoFar
  <2>4. l = 1 => c # sep[1]
    <3> SUFFICES ASSUME l = 1, c = sep[1] PROVE FALSE
      OBVIOUS
    <3>1. SubSeq(more, M, M) = sep
      <4>1. M \in 1..M /\ M \in M..M /\ M + 1 > M /\ M + 1 \in Int /\ M \in Int
        BY <1>2
      <4> HIDE DEF more
      <4>2. SubSeq(more, M, M) = <<more[M]>> \o SubSeq(more, M + 1, M)
        BY <1>2, <4>1, SubSeqRecursiveFirst
      <4>3. SubSeq(more, M + 1, M) = << >>
        BY <4>1, SubSeqEmpty
      <4>4. <<c>> \in Seq(Letters) /\ <<c>> \o << >> = <<c>>
        BY ConcatEmptySeq
      <4>5. <<c>> = sep
        BY <1>2, <4>4, SeqEqual
      <4> QED BY <1>2, <4>2, <4>3, <4>4, <4>5
    <3>2. M >= l /\ M - l + 1 = M
      BY <1>2
    <3> QED BY <1>6, <3>1, <3>2 DEF EndsWith
  <2> HIDE DEF next
  <2> QED BY <1>4, <2>2, <2>3, <2>4 DEF next
<1> QED BY <1>5, <1>6

(* The loop of split.                                                         *)
LEMMA SplitLoop ==
  ASSUME NEW t \in Strings, NEW sep \in Strings, Len(sep) >= 1, Said(sep) = << >>
  PROVE  \E f : /\ f[0] = [closed |-> << >>, open |-> << >>]
                /\ SplitAt(t, sep) = Append(f[Len(t)].closed, f[Len(t)].open)
                /\ \A k \in 0..Len(t) : f[k] \in SplitState
                /\ \A k \in 1..Len(t) : f[k] = NextLetter(f[k - 1], t[k], sep)
<1> DEFINE N == Len(t)
           x == [closed |-> << >>, open |-> << >>]
           Goes(f) == f = [k \in 0..N |-> IF k = 0 THEN x ELSE NextLetter(f[k - 1], t[k], sep)]
           step == [k \in 1..N |-> [got \in SplitState |-> NextLetter(got, t[k], sep)]]
<1>1. N \in Nat /\ x \in SplitState /\ \A k \in 1..N : t[k] \in Letters
  BY LenProperties, ElementOfSeq, EmptySeq DEF Strings, SplitState
<1>2. ASSUME NEW k \in 1..N, NEW got \in SplitState
      PROVE  step[k][got] = NextLetter(got, t[k], sep) /\ NextLetter(got, t[k], sep) \in SplitState
  BY <1>1, NextLetterIs
<1> HIDE DEF step, N, x
<1>3. StaysIn(SplitState, step, N)
  BY <1>2 DEF StaysIn
<1>4. PICK f : IsRun(f, N, SplitState, x, step)
  BY <1>1, <1>3, RunExists
<1>5. /\ f = [k \in 0..N |-> f[k]] /\ f[0] = x
      /\ \A k \in 0..N : f[k] \in SplitState
      /\ \A k \in 1..N : f[k] = step[k][f[k - 1]]
  BY <1>4 DEF IsRun
<1>6. \A k \in 0..N : k = 0 \/ (k \in 1..N /\ k - 1 \in 0..N)
  BY <1>1
<1>7. \A k \in 0..N : f[k] = IF k = 0 THEN x ELSE NextLetter(f[k - 1], t[k], sep)
  BY <1>2, <1>5, <1>6
<1>8. Goes(f)
  BY <1>5, <1>7
<1> DEFINE h == CHOOSE h : Goes(h)
<1>9. Goes(h)
  <2> HIDE DEF Goes
  <2> QED BY <1>8
<1>10. SplitAt(t, sep) = Append(h[N].closed, h[N].open)
  BY DEF SplitAt, x, N
<1>11. h[0] = x /\ \A k \in 1..N : h[k] = NextLetter(h[k - 1], t[k], sep)
  <2>1. 0 \in 0..N /\ \A k \in 1..N : k \in 0..N /\ k # 0
    BY <1>1
  <2>2. \A k \in 0..N : h[k] = IF k = 0 THEN x ELSE NextLetter(h[k - 1], t[k], sep)
    <3> HIDE DEF h
    <3> QED BY <1>9
  <2> HIDE DEF h, Goes
  <2> QED BY <2>1, <2>2
<1> HIDE DEF h, Goes
<1> DEFINE T == {k \in 0..N : h[k] \in SplitState}
<1>12. 0 \in T
  BY <1>1, <1>11
<1>13. ASSUME NEW k \in 1..N, k - 1 \in T PROVE k \in T
  <2>1. h[k - 1] \in SplitState /\ k \in 0..N
    BY <1>1, <1>13
  <2> QED BY <1>2, <1>11, <2>1
<1> HIDE DEF T
<1>14. \A k \in 0..N : k \in T
  BY <1>1, <1>12, <1>13, InductionTo
<1>15. \A k \in 0..N : h[k] \in SplitState
  BY <1>14 DEF T
<1> QED BY <1>10, <1>11, <1>15 DEF N, x

\* What is known when the first k letters of t were looked at.
SplitSoFar(got, t, k, sep) ==
  /\ got \in SplitState /\ SaidSoFar(got) = Said(SubSeq(t, 1, k))
  /\ \A j \in 1..Len(got.closed) : Len(got.closed[j]) < k
  /\ IF got.closed = << >> THEN got.open = SubSeq(t, 1, k) ELSE Len(got.open) < k
  /\ got.closed = << >> /\ Len(sep) = 1 => \A i \in 1..k : t[i] # sep[1]

(* It stays known with the next letter.                                       *)
LEMMA SplitGoesOn ==
  ASSUME NEW t \in Strings, NEW sep \in Strings, Len(sep) >= 1, Said(sep) = << >>,
         NEW k \in 1..Len(t), NEW got, SplitSoFar(got, t, k - 1, sep)
  PROVE  SplitSoFar(NextLetter(got, t[k], sep), t, k, sep)
<1> DEFINE next == NextLetter(got, t[k], sep)
           c == t[k]
           r == SubSeq(t, 1, k - 1)
<1>1. t \in Seq(Letters) /\ Len(t) \in Nat /\ c \in Letters /\ k \in Nat /\ k - 1 \in Nat
  BY LenProperties, ElementOfSeq DEF Strings
<1>2. got \in SplitState
  BY DEF SplitSoFar
<1>3. /\ next \in SplitState /\ SaidSoFar(next) = SaidSoFar(got) \o Said(<<c>>)
      /\ \/ /\ next.closed = got.closed /\ next.open = Append(got.open, c)
            /\ Len(sep) = 1 => c # sep[1]
         \/ /\ next.open = << >>
            /\ \E q \in Strings : next.closed = Append(got.closed, q) /\ Len(q) <= Len(got.open)
  BY <1>1, <1>2, NextLetterIs
<1>4. r \in Strings /\ Len(r) = k - 1
  <2>1. \A i \in 1..k - 1 : t[i] \in Letters
    <3>1. \A i \in 1..k - 1 : i \in 1..Len(t)
      BY <1>1
    <3> QED BY <1>1, <3>1, ElementOfSeq
  <2>2. 1 \in Int /\ k - 1 \in Int /\ (k - 1) - 1 + 1 = k - 1 /\ (~(1 <= k - 1) => k - 1 = 0)
    BY <1>1
  <2> HIDE DEF r
  <2>3. r \in Seq(Letters) /\ Len(r) = IF 1 <= k - 1 THEN (k - 1) - 1 + 1 ELSE 0
    BY <2>1, <2>2, SubSeqProperties DEF r
  <2> QED BY <2>2, <2>3 DEF Strings
<1>5. SubSeq(t, 1, k) = Append(r, c)
  <2>1. 1 \in 1..Len(t) /\ k \in 1..Len(t)
    BY <1>1
  <2>2. SubSeq(t, 1, k) = SubSeq(t, 1, k - 1) \o <<t[k]>>
    BY <1>1, <2>1, SubSeqRecursiveSecond
  <2>3. Append(r, c) = r \o <<c>>
    BY <1>1, <1>4, AppendIsConcat DEF Strings
  <2> QED BY <2>2, <2>3
<1> HIDE DEF next, c, r
<1>6. SaidSoFar(next) = Said(SubSeq(t, 1, k))
  <2>1. SaidSoFar(got) = Said(r)
    BY DEF SplitSoFar, r
  <2>2. Said(Append(r, c)) = Said(r) \o Said(<<c>>)
    BY <1>1, <1>4, SaidIs
  <2> QED BY <1>3, <1>5, <2>1, <2>2
<1>7. /\ \A j \in 1..Len(got.closed) : Len(got.closed[j]) < k - 1 /\ Len(got.closed[j]) \in Nat
      /\ got.closed \in Seq(Strings) /\ got.open \in Strings /\ Len(got.open) \in Nat
      /\ Len(got.closed) \in Nat
  <2>1. got.closed \in Seq(Strings) /\ got.open \in Strings
    BY <1>2 DEF SplitState
  <2>2. \A j \in 1..Len(got.closed) : got.closed[j] \in Seq(Letters)
    BY <2>1, ElementOfSeq DEF Strings
  <2>3. \A j \in 1..Len(got.closed) : Len(got.closed[j]) \in Nat
    BY <2>2, LenProperties
  <2> QED BY <2>1, <2>3, LenProperties DEF SplitSoFar, Strings
<1>8. IF got.closed = << >> THEN got.open = r ELSE Len(got.open) < k - 1
  BY DEF SplitSoFar, r
<1>9. got.closed = << >> /\ Len(sep) = 1 => \A i \in 1..k - 1 : t[i] # sep[1]
  BY DEF SplitSoFar
<1>10. CASE /\ next.closed = got.closed /\ next.open = Append(got.open, c)
            /\ Len(sep) = 1 => c # sep[1]
  <2>1. \A j \in 1..Len(next.closed) : Len(next.closed[j]) < k
    BY <1>1, <1>7, <1>10
  <2>2. Len(next.open) = Len(got.open) + 1
    BY <1>1, <1>7, <1>10, AppendProperties DEF Strings
  <2>3. IF next.closed = << >> THEN next.open = SubSeq(t, 1, k) ELSE Len(next.open) < k
    <3>1. CASE got.closed = << >>
      BY <1>5, <1>8, <1>10, <3>1
    <3>2. CASE got.closed # << >>
      BY <1>1, <1>7, <1>8, <1>10, <2>2, <3>2
    <3> QED BY <3>1, <3>2
  <2>4. next.closed = << >> /\ Len(sep) = 1 => \A i \in 1..k : t[i] # sep[1]
    <3>1. \A i \in 1..k : i = k \/ i \in 1..k - 1
      BY <1>1
    <3> QED BY <1>9, <1>10, <3>1 DEF c
  <2>5. SplitSoFar(next, t, k, sep)
    BY <1>3, <1>6, <2>1, <2>3, <2>4 DEF SplitSoFar
  <2> QED BY <2>5 DEF next, c
<1>11. CASE /\ next.open = << >>
            /\ \E q \in Strings : next.closed = Append(got.closed, q) /\ Len(q) <= Len(got.open)
  <2>1. PICK q \in Strings : next.closed = Append(got.closed, q) /\ Len(q) <= Len(got.open)
    BY <1>11
  <2>2. /\ Len(next.closed) = Len(got.closed) + 1 /\ next.closed[Len(got.closed) + 1] = q
        /\ next.closed # << >> /\ \A j \in 1..Len(got.closed) : next.closed[j] = got.closed[j]
    BY <1>7, <2>1, AppendProperties
  <2>3. Len(q) < k /\ Len(next.open) < k
    <3>1. Len(q) \in Nat /\ Len(got.open) <= k - 1 /\ Len(next.open) = 0
      <4>1. Len(q) \in Nat
        BY LenProperties DEF Strings
      <4>2. Len(got.open) <= k - 1
        BY <1>1, <1>4, <1>7, <1>8
      <4> QED BY <1>11, <4>1, <4>2
    <3> QED BY <1>1, <1>7, <2>1, <3>1
  <2>4. \A j \in 1..Len(next.closed) : Len(next.closed[j]) < k
    <3>1. \A j \in 1..Len(next.closed) : j = Len(got.closed) + 1 \/ j \in 1..Len(got.closed)
      BY <1>7, <2>2
    <3>2. \A j \in 1..Len(got.closed) : Len(got.closed[j]) < k
      BY <1>1, <1>7
    <3> QED BY <2>2, <2>3, <3>1, <3>2
  <2>5. SplitSoFar(next, t, k, sep)
    BY <1>3, <1>6, <2>2, <2>3, <2>4 DEF SplitSoFar
  <2> QED BY <2>5 DEF next, c
<1> QED BY <1>3, <1>10, <1>11

(* A text is split into texts that say together what it says, shorter ones if there are
   several; if there is one, it holds no separator of one letter. *)
LEMMA SplitAtIs ==
  ASSUME NEW t \in Strings, NEW sep \in Strings, Len(sep) >= 1, Said(sep) = << >>
  PROVE  LET parts == SplitAt(t, sep)
         IN /\ parts \in Seq(Strings) /\ SaidBy(parts) = Said(t)
            /\ Len(parts) > 1 => \A j \in 1..Len(parts) : Len(parts[j]) < Len(t)
            /\ ~(Len(parts) > 1) /\ Len(sep) = 1 => \A i \in 1..Len(t) : t[i] # sep[1]
<1> DEFINE N == Len(t)
           parts == SplitAt(t, sep)
<1>1. t \in Seq(Letters) /\ N \in Nat
  BY LenProperties DEF Strings
<1>2. PICK f : /\ f[0] = [closed |-> << >>, open |-> << >>]
               /\ SplitAt(t, sep) = Append(f[N].closed, f[N].open)
               /\ \A k \in 0..N : f[k] \in SplitState
               /\ \A k \in 1..N : f[k] = NextLetter(f[k - 1], t[k], sep)
  BY SplitLoop
<1> DEFINE T == {k \in 0..N : SplitSoFar(f[k], t, k, sep)}
<1>3. 0 \in T
  <2>1. SubSeq(t, 1, 0) = << >>
    BY SubSeqEmpty
  <2>2. f[0] \in SplitState /\ f[0].closed = << >> /\ f[0].open = << >>
    BY <1>1, <1>2
  <2>3. SaidSoFar(f[0]) = << >>
    BY <2>2, SaidIs, SaidByIs, ConcatEmptySeq DEF SaidSoFar
  <2>4. SplitSoFar(f[0], t, 0, sep)
    <3>1. Len(<< >>) = 0 /\ 1..0 = {} /\ Said(<< >>) = << >>
      BY SaidIs
    <3> HIDE DEF T, N
    <3>2. \A j \in 1..Len(f[0].closed) : Len(f[0].closed[j]) < 0
      BY <2>2, <3>1
    <3> QED BY <2>1, <2>2, <2>3, <3>1, <3>2 DEF SplitSoFar
  <2> QED BY <1>1, <2>4
<1>4. ASSUME NEW k \in 1..N, k - 1 \in T PROVE k \in T
  <2>1. SplitSoFar(NextLetter(f[k - 1], t[k], sep), t, k, sep)
    BY <1>4, SplitGoesOn
  <2> QED BY <1>1, <1>2, <2>1
<1> HIDE DEF T, N
<1>5. N \in T
  <2>1. \A k \in 0..N : k \in T
    BY <1>1, <1>3, <1>4, InductionTo
  <2> QED BY <1>1, <2>1
<1> DEFINE got == f[N]
<1>6. SplitSoFar(got, t, N, sep)
  BY <1>5 DEF T
<1> HIDE DEF got
<1>7. SubSeq(t, 1, N) = t
  BY <1>1, SubSeqFull DEF N
<1>8. got.closed \in Seq(Strings) /\ got.open \in Strings /\ Len(got.closed) \in Nat
  <2>1. got.closed \in Seq(Strings) /\ got.open \in Strings
    BY <1>6 DEF SplitSoFar, SplitState
  <2> QED BY <2>1, LenProperties
<1>9. parts = Append(got.closed, got.open)
  BY <1>2 DEF got
<1> HIDE DEF parts
<1>10. /\ parts \in Seq(Strings) /\ Len(parts) = Len(got.closed) + 1
       /\ parts[Len(got.closed) + 1] = got.open
       /\ \A j \in 1..Len(got.closed) : parts[j] = got.closed[j]
  BY <1>8, <1>9, AppendProperties
<1>11. SaidBy(parts) = Said(t)
  <2>1. SaidBy(parts) = SaidBy(got.closed) \o Said(got.open)
    BY <1>8, <1>9, SaidByIs
  <2>2. SaidSoFar(got) = Said(t)
    BY <1>6, <1>7 DEF SplitSoFar
  <2> QED BY <2>1, <2>2 DEF SaidSoFar
<1>12. Len(parts) > 1 <=> got.closed # << >>
  <2>1. got.closed # << >> => Len(got.closed) \in Nat \ {0}
    BY <1>8, EmptySeq
  <2>2. got.closed = << >> => Len(got.closed) = 0
    BY EmptySeq
  <2> QED BY <1>8, <1>10, <2>1, <2>2
<1>13. ASSUME Len(parts) > 1, NEW j \in 1..Len(parts) PROVE Len(parts[j]) < N
  <2>1. Len(got.open) < N /\ \A i \in 1..Len(got.closed) : Len(got.closed[i]) < N
    BY <1>6, <1>12, <1>13 DEF SplitSoFar
  <2>2. j = Len(got.closed) + 1 \/ j \in 1..Len(got.closed)
    BY <1>8, <1>10
  <2> QED BY <1>10, <2>1, <2>2
<1>14. ASSUME ~(Len(parts) > 1), Len(sep) = 1 PROVE \A i \in 1..N : t[i] # sep[1]
  BY <1>6, <1>12, <1>14 DEF SplitSoFar
<1> QED BY <1>10, <1>11, <1>13, <1>14 DEF N, parts

\* A buffer of a hard split: narrow, and without blanks.
Solid(t) == \A i \in 1..Len(t) : ~Blank(t[i])
Buffers == {t \in Narrow : Solid(t)}
HardState == [chunks : Seq(Sendable), buffer : Buffers]
SaidHard(got) == SaidBy(got.chunks) \o Said(got.buffer)

(* What several texts say is a text, also of those that can be sent.          *)
LEMMA SendableTexts ==
  /\ Sendable \subseteq Narrow /\ Narrow \subseteq Strings
  /\ \A p \in Seq(Sendable) : p \in Seq(Narrow)
  /\ \A p \in Seq(Narrow) : p \in Seq(Strings)
<1>1. Sendable \subseteq Narrow /\ Narrow \subseteq Strings
  BY DEF Sendable, Narrow
<1> QED BY <1>1, SeqMonotonic

(* A buffer with letters can be sent.                                         *)
LEMMA FullBuffer == \A t \in Buffers : t # << >> => t \in Sendable
<1> SUFFICES ASSUME NEW t \in Buffers, t # << >> PROVE t \in Sendable
  OBVIOUS
<1>1. t \in Narrow /\ t \in Seq(Letters) /\ Solid(t)
  BY DEF Buffers, Narrow, Strings
<1>2. Len(t) \in Nat /\ Len(t) # 0 /\ DOMAIN t = 1..Len(t)
  BY <1>1, EmptySeq, LenProperties
<1>3. 1 \in DOMAIN t /\ ~Blank(t[1])
  BY <1>1, <1>2 DEF Solid
<1>4. Said(t) # << >>
  BY <1>1, <1>3, BlankSaysNothing DEF Strings
<1> QED BY <1>1, <1>4 DEF Sendable

(* A letter that is not blank is buffered, or the buffer is a part.           *)
LEMMA HardLetterIs ==
  ASSUME NEW got \in HardState, NEW c \in Letters, ~Blank(c)
  PROVE  LET next == HardLetter(got, c)
         IN next \in HardState /\ SaidHard(next) = SaidHard(got) \o Said(<<c>>)
<1> DEFINE next == HardLetter(got, c)
           chunks == got.chunks
           buffer == got.buffer
           more == Append(buffer, c)
<1>1. /\ chunks \in Seq(Sendable) /\ chunks \in Seq(Strings) /\ buffer \in Buffers
      /\ buffer \in Strings /\ buffer \in Seq(Letters) /\ Solid(buffer) /\ buffer \in Narrow
  <2>1. chunks \in Seq(Sendable) /\ buffer \in Buffers
    BY DEF HardState
  <2> QED BY <2>1, SendableTexts DEF Buffers, Narrow, Strings
<1>2. /\ SaidBy(chunks) \in Seq(Letters) /\ Said(buffer) \in Seq(Letters) /\ Said(<<c>>) \in Seq(Letters)
      /\ <<c>> \in Strings /\ Said(<<c>>) = <<c>>
  <2>1. <<c>> \in Strings
    BY DEF Strings
  <2> QED BY <1>1, <2>1, SaidIs, SaidByIs DEF Strings
<1>3. SaidHard(got) \o Said(<<c>>) = SaidBy(chunks) \o (Said(buffer) \o Said(<<c>>))
  BY <1>2, ConcatAssociative DEF SaidHard
<1>4. /\ more \in Strings /\ Len(more) = Len(buffer) + 1 /\ more[Len(buffer) + 1] = c /\ Len(buffer) \in Nat
      /\ \A i \in 1..Len(buffer) : more[i] = buffer[i]
  BY <1>1, AppendProperties, LenProperties DEF Strings
<1>5. Solid(more) /\ Solid(<<c>>)
  <2>1. \A i \in 1..Len(more) : i = Len(buffer) + 1 \/ i \in 1..Len(buffer)
    BY <1>4
  <2>2. Solid(more)
    <3> HIDE DEF more
    <3> QED BY <1>1, <1>4, <2>1 DEF Solid
  <2>3. Solid(<<c>>)
    BY DEF Solid
  <2> QED BY <2>2, <2>3
<1>6. utf16_len(<<c>>) \in Nat /\ utf16_len(<<c>>) <= TELEGRAM_LIMIT /\ TELEGRAM_LIMIT \in Nat
  <2>1. << >> \in Strings /\ Append(<< >>, c) = <<c>>
    BY EmptySeq DEF Strings
  <2>2. utf16_len(<<c>>) = 0 + IF c = "e" THEN 2 ELSE 1
    BY <2>1, WidthIs
  <2> QED BY <2>2, TextAssumption
<1>7. CASE utf16_len(more) > TELEGRAM_LIMIT
  <2>1. next = [chunks |-> Append(chunks, buffer), buffer |-> <<c>>]
    BY <1>7 DEF HardLetter
  <2>2. buffer # << >>
    <3> SUFFICES ASSUME buffer = << >> PROVE FALSE
      OBVIOUS
    <3>1. more = <<c>>
      OBVIOUS
    <3> QED BY <1>6, <1>7, <3>1
  <2>3. buffer \in Sendable /\ <<c>> \in Buffers
    BY <1>1, <1>2, <1>5, <1>6, <2>2, FullBuffer DEF Buffers, Narrow
  <2>4. next \in HardState /\ next.chunks = Append(chunks, buffer) /\ next.buffer = <<c>>
    BY <1>1, <2>1, <2>3, AppendProperties DEF HardState
  <2>5. SaidHard(next) = (SaidBy(chunks) \o Said(buffer)) \o Said(<<c>>)
    <3>1. SaidBy(Append(chunks, buffer)) = SaidBy(chunks) \o Said(buffer)
      BY <1>1, SaidByIs
    <3> HIDE DEF next
    <3> QED BY <2>4, <3>1 DEF SaidHard
  <2> QED BY <2>4, <2>5 DEF SaidHard
<1>8. CASE ~(utf16_len(more) > TELEGRAM_LIMIT)
  <2>1. next = [chunks |-> chunks, buffer |-> more]
    BY <1>8 DEF HardLetter
  <2>2. more \in Buffers
    <3>1. utf16_len(more) <= TELEGRAM_LIMIT
      BY <1>4, <1>6, <1>8, WidthIs
    <3> QED BY <1>4, <1>5, <3>1 DEF Buffers, Narrow
  <2>3. next \in HardState /\ next.chunks = chunks /\ next.buffer = more
    BY <1>1, <2>1, <2>2 DEF HardState
  <2>4. Said(more) = Said(buffer) \o Said(<<c>>)
    BY <1>1, SaidIs
  <2> HIDE DEF next
  <2>5. SaidHard(next) = SaidBy(chunks) \o (Said(buffer) \o Said(<<c>>))
    BY <2>3, <2>4 DEF SaidHard
  <2> QED BY <1>3, <2>3, <2>5 DEF next
<1> QED BY <1>7, <1>8

(* A word that is too long is cut into parts that can be sent.                *)
LEMMA HardSplitIs ==
  ASSUME NEW t \in Strings, Solid(t)
  PROVE  HardSplit(t) \in Seq(Sendable) /\ SaidBy(HardSplit(t)) = Said(t)
<1> DEFINE N == Len(t)
           x == [chunks |-> << >>, buffer |-> << >>]
           Goes(f) == f = [k \in 0..N |-> IF k = 0 THEN x ELSE HardLetter(f[k - 1], t[k])]
           step == [k \in 1..N |-> [got \in HardState |-> HardLetter(got, t[k])]]
<1>1. t \in Seq(Letters) /\ N \in Nat /\ \A k \in 1..N : t[k] \in Letters /\ ~Blank(t[k])
  BY LenProperties, ElementOfSeq DEF Strings, Solid
<1>2. x \in HardState
  <2>1. << >> \in Strings /\ utf16_len(<< >>) <= TELEGRAM_LIMIT /\ Solid(<< >>)
    BY EmptySeq, WidthIs, TextAssumption DEF Strings, Solid
  <2> QED BY <2>1, EmptySeq DEF HardState, Buffers, Narrow
<1>3. ASSUME NEW k \in 1..N, NEW got \in HardState
      PROVE  /\ step[k][got] = HardLetter(got, t[k]) /\ HardLetter(got, t[k]) \in HardState
             /\ SaidHard(HardLetter(got, t[k])) = SaidHard(got) \o Said(<<t[k]>>)
  BY <1>1, HardLetterIs
<1> HIDE DEF step, N, x
<1>4. StaysIn(HardState, step, N)
  BY <1>3 DEF StaysIn
<1>5. PICK f : IsRun(f, N, HardState, x, step)
  BY <1>1, <1>2, <1>4, RunExists
<1>6. Goes(f)
  <2>1. /\ f = [k \in 0..N |-> f[k]] /\ f[0] = x
        /\ \A k \in 0..N : f[k] \in HardState
        /\ \A k \in 1..N : f[k] = step[k][f[k - 1]]
    BY <1>5 DEF IsRun
  <2>2. \A k \in 0..N : k = 0 \/ (k \in 1..N /\ k - 1 \in 0..N)
    BY <1>1
  <2>3. \A k \in 0..N : f[k] = IF k = 0 THEN x ELSE HardLetter(f[k - 1], t[k])
    BY <1>3, <2>1, <2>2
  <2> QED BY <2>1, <2>3
<1> DEFINE h == CHOOSE h : Goes(h)
<1>7. Goes(h)
  <2> HIDE DEF Goes
  <2> QED BY <1>6
<1>8. HardSplit(t) = IF h[N].buffer = << >> THEN h[N].chunks ELSE Append(h[N].chunks, h[N].buffer)
  BY DEF HardSplit, x, N
<1>9. h[0] = x /\ \A k \in 1..N : h[k] = HardLetter(h[k - 1], t[k])
  <2>1. 0 \in 0..N /\ \A k \in 1..N : k \in 0..N /\ k # 0
    BY <1>1
  <2>2. \A k \in 0..N : h[k] = IF k = 0 THEN x ELSE HardLetter(h[k - 1], t[k])
    <3> HIDE DEF h
    <3> QED BY <1>7
  <2> HIDE DEF h, Goes
  <2> QED BY <2>1, <2>2
<1> HIDE DEF h, Goes
<1> DEFINE T == {k \in 0..N : h[k] \in HardState /\ SaidHard(h[k]) = Said(SubSeq(t, 1, k))}
<1>10. 0 \in T
  <2>1. SubSeq(t, 1, 0) = << >>
    BY SubSeqEmpty
  <2>2. h[0].chunks = << >> /\ h[0].buffer = << >>
    BY <1>9 DEF x
  <2>3. SaidHard(h[0]) = << >>
    BY <2>2, SaidIs, SaidByIs, ConcatEmptySeq DEF SaidHard
  <2>4. h[0] \in HardState /\ SaidHard(h[0]) = Said(SubSeq(t, 1, 0))
    BY <1>2, <1>9, <2>1, <2>3, SaidIs
  <2> QED BY <1>1, <2>4
<1>11. ASSUME NEW k \in 1..N, k - 1 \in T PROVE k \in T
  <2>1. h[k - 1] \in HardState /\ SaidHard(h[k - 1]) = Said(SubSeq(t, 1, k - 1)) /\ k \in 0..N
    BY <1>1, <1>11
  <2>2. h[k] \in HardState /\ SaidHard(h[k]) = Said(SubSeq(t, 1, k - 1)) \o Said(<<t[k]>>)
    BY <1>3, <1>9, <2>1
  <2>3. Said(SubSeq(t, 1, k)) = Said(SubSeq(t, 1, k - 1)) \o Said(<<t[k]>>)
    <3>1. SubSeq(t, 1, k) = SubSeq(t, 1, k - 1) \o <<t[k]>>
      BY <1>1, SubSeqRecursiveSecond DEF N
    <3>2. SubSeq(t, 1, k - 1) \in Strings /\ <<t[k]>> \in Strings
      <4>1. \A i \in 1..k - 1 : t[i] \in Letters
        BY <1>1
      <4>2. 1 \in Int /\ k - 1 \in Int
        BY <1>1
      <4>3. SubSeq(t, 1, k - 1) \in Seq(Letters)
        BY <4>1, <4>2, SubSeqProperties
      <4> QED BY <1>1, <4>3 DEF Strings
    <3> QED BY <3>1, <3>2, SaidIs
  <2> QED BY <2>1, <2>2, <2>3
<1> HIDE DEF T
<1>12. N \in T
  <2>1. \A k \in 0..N : k \in T
    BY <1>1, <1>10, <1>11, InductionTo
  <2> QED BY <1>1, <2>1
<1> DEFINE got == h[N]
<1>13. got \in HardState /\ SaidHard(got) = Said(t)
  <2>1. SubSeq(t, 1, N) = t
    BY <1>1, SubSeqFull DEF N
  <2> QED BY <1>12, <2>1 DEF T
<1>14. /\ got.chunks \in Seq(Sendable) /\ got.chunks \in Seq(Strings) /\ got.buffer \in Buffers
       /\ got.buffer \in Strings /\ SaidBy(got.chunks) \in Seq(Letters)
  <2>1. got.chunks \in Seq(Sendable) /\ got.buffer \in Buffers
    BY <1>13 DEF HardState
  <2> QED BY <2>1, SendableTexts, SaidByIs DEF Buffers, Strings
<1> HIDE DEF got
<1>15. CASE got.buffer = << >>
  <2>1. HardSplit(t) = got.chunks
    BY <1>8, <1>15 DEF got
  <2>2. SaidHard(got) = SaidBy(got.chunks)
    BY <1>14, <1>15, SaidIs, ConcatEmptySeq DEF SaidHard
  <2> QED BY <1>13, <1>14, <2>1, <2>2
<1>16. CASE got.buffer # << >>
  <2>1. HardSplit(t) = Append(got.chunks, got.buffer)
    BY <1>8, <1>16 DEF got
  <2>2. got.buffer \in Sendable
    BY <1>14, <1>16, FullBuffer
  <2>3. SaidBy(Append(got.chunks, got.buffer)) = SaidHard(got)
    BY <1>14, SaidByIs DEF SaidHard
  <2> QED BY <1>13, <1>14, <2>1, <2>2, <2>3, AppendProperties
<1> QED BY <1>15, <1>16

Chunk == Narrow \cup {NoChunk}
PackState == [chunks : Seq(Narrow), current : Chunk]
SaidPacked(got) == SaidBy(Flushed(got))

(* No text is the mark of no chunk.                                           *)
LEMMA NoChunkIsNoText == NoChunk \notin Strings
<1> SUFFICES ASSUME NoChunk \in Strings PROVE FALSE
  OBVIOUS
<1>1. NoChunk \in Seq(Letters) /\ 1 \in 1..Len(NoChunk) /\ NoChunk[1] = "none"
  BY DEF Strings, NoChunk
<1>2. "none" \in Letters
  BY <1>1, ElementOfSeq
<1> QED BY <1>2 DEF Letters

(* What is flushed are narrow texts.                                          *)
LEMMA FlushedIs ==
  ASSUME NEW got \in PackState
  PROVE  /\ Flushed(got) \in Seq(Narrow) /\ SaidPacked(got) \in Seq(Letters)
         /\ got.current = NoChunk => Flushed(got) = got.chunks
         /\ got.current # NoChunk => /\ got.current \in Narrow /\ got.current \in Strings
                                     /\ Flushed(got) = Append(got.chunks, got.current)
                                     /\ SaidPacked(got) = SaidBy(got.chunks) \o Said(got.current)
<1>1. got.chunks \in Seq(Narrow) /\ got.current \in Chunk
  BY DEF PackState
<1>2. CASE got.current = NoChunk
  <2>1. Flushed(got) = got.chunks
    BY <1>2 DEF Flushed
  <2>2. SaidBy(got.chunks) \in Strings
    BY <1>1, SendableTexts, SaidByIs
  <2> QED BY <1>1, <1>2, <2>1, <2>2 DEF SaidPacked, Strings
<1>3. CASE got.current # NoChunk
  <2>1. Flushed(got) = Append(got.chunks, got.current)
    BY <1>3 DEF Flushed
  <2>2. got.current \in Narrow /\ got.current \in Strings
    BY <1>1, <1>3, SendableTexts DEF Chunk
  <2>3. Flushed(got) \in Seq(Narrow)
    BY <1>1, <2>1, <2>2, AppendProperties
  <2>4. SaidBy(Append(got.chunks, got.current)) = SaidBy(got.chunks) \o Said(got.current)
    BY <1>1, <2>2, SendableTexts, SaidByIs
  <2>5. SaidBy(Flushed(got)) \in Strings
    BY <2>3, SendableTexts, SaidByIs
  <2> QED BY <1>3, <2>1, <2>2, <2>3, <2>4, <2>5 DEF SaidPacked, Strings
<1> QED BY <1>2, <1>3

(* A part is joined to the chunk, begins one, or is cut further.              *)
LEMMA NextPartIs ==
  ASSUME NEW got \in PackState, NEW part \in Strings, NEW sep \in Strings, Said(sep) = << >>,
         NEW pieces \in Seq(Sendable), SaidBy(pieces) = Said(part)
  PROVE  LET next == NextPart(got, part, sep, pieces)
         IN next \in PackState /\ SaidPacked(next) = SaidPacked(got) \o Said(part)
<1> DEFINE next == NextPart(got, part, sep, pieces)
           current == got.current
<1>1. /\ Flushed(got) \in Seq(Narrow) /\ SaidPacked(got) \in Seq(Letters)
      /\ current = NoChunk => Flushed(got) = got.chunks
      /\ current # NoChunk => /\ current \in Narrow /\ current \in Strings
                              /\ Flushed(got) = Append(got.chunks, current)
                              /\ SaidPacked(got) = SaidBy(got.chunks) \o Said(current)
  BY FlushedIs
<1>2. /\ got.chunks \in Seq(Narrow) /\ got.chunks \in Seq(Strings) /\ Flushed(got) \in Seq(Strings)
      /\ pieces \in Seq(Narrow) /\ pieces \in Seq(Strings)
  <2>1. got.chunks \in Seq(Narrow)
    BY DEF PackState
  <2> QED BY <1>1, <2>1, SendableTexts
<1>3. Said(part) \in Seq(Letters) /\ SaidBy(got.chunks) \in Seq(Letters)
  BY <1>2, SaidIs, SaidByIs DEF Strings
<1>4. utf16_len(part) \in Nat /\ TELEGRAM_LIMIT \in Nat
  BY WidthIs, TextAssumption
<1>5. CASE utf16_len(part) > TELEGRAM_LIMIT
  <2>1. next = [chunks |-> Flushed(got) \o pieces, current |-> NoChunk]
    BY <1>5 DEF NextPart
  <2>2. Flushed(got) \o pieces \in Seq(Narrow)
    BY <1>1, <1>2, ConcatProperties
  <2>3. next \in PackState /\ next.chunks = Flushed(got) \o pieces /\ next.current = NoChunk
    BY <2>1, <2>2 DEF PackState, Chunk
  <2> HIDE DEF next
  <2>4. SaidPacked(next) = SaidBy(Flushed(got) \o pieces)
    BY <2>3 DEF SaidPacked, Flushed
  <2>5. SaidBy(Flushed(got) \o pieces) = SaidBy(Flushed(got)) \o SaidBy(pieces)
    BY <1>2, SaidByIs
  <2> QED BY <2>3, <2>4, <2>5 DEF SaidPacked, next
<1>6. CASE utf16_len(part) <= TELEGRAM_LIMIT
  <2>0. part \in Narrow /\ ~(utf16_len(part) > TELEGRAM_LIMIT)
    BY <1>4, <1>6 DEF Narrow
  <2>1. CASE current = NoChunk
    <3>1. next = [chunks |-> got.chunks, current |-> part]
      BY <2>0, <2>1 DEF NextPart
    <3>2. next \in PackState /\ next.chunks = got.chunks /\ next.current = part
      BY <1>2, <2>0, <3>1 DEF PackState, Chunk
    <3> HIDE DEF next
    <3>3. next.current # NoChunk
      BY <3>2, NoChunkIsNoText
    <3>4. SaidPacked(next) = SaidBy(got.chunks) \o Said(part)
      BY <3>2, <3>3, FlushedIs
    <3> QED BY <1>1, <2>1, <3>2, <3>4 DEF SaidPacked, next
  <2>2. CASE current # NoChunk /\ Fits(current, sep, part)
    <3> DEFINE joined == (current \o sep) \o part
    <3>1. next = [chunks |-> got.chunks, current |-> joined]
      BY <2>0, <2>2 DEF NextPart
    <3>2. current \in Strings /\ current \o sep \in Strings /\ joined \in Strings
      <4>1. current \in Strings
        BY <1>1, <2>2
      <4>2. current \o sep \in Strings
        BY <4>1, ConcatProperties DEF Strings
      <4> QED BY <4>1, <4>2, ConcatProperties DEF Strings
    <3>3. utf16_len(joined) = utf16_len(current) + utf16_len(sep) + utf16_len(part)
      <4>1. utf16_len(current \o sep) = utf16_len(current) + utf16_len(sep)
        BY <3>2, WidthIs
      <4>2. utf16_len(joined) = utf16_len(current \o sep) + utf16_len(part)
        BY <3>2, WidthIs
      <4> QED BY <4>1, <4>2
    <3>4. Said(joined) = Said(current) \o Said(part)
      <4>1. Said(current \o sep) = Said(current) \o Said(sep) /\ Said(current) \in Seq(Letters)
        BY <3>2, SaidIs DEF Strings
      <4>2. Said(joined) = Said(current \o sep) \o Said(part)
        BY <3>2, SaidIs
      <4> QED BY <4>1, <4>2, ConcatEmptySeq
    <3> HIDE DEF joined
    <3>5. joined \in Narrow
      BY <2>2, <3>2, <3>3 DEF Fits, Narrow
    <3>6. next \in PackState /\ next.chunks = got.chunks /\ next.current = joined
      BY <1>2, <3>1, <3>5 DEF PackState, Chunk
    <3> HIDE DEF next
    <3>7. next.current # NoChunk
      BY <3>2, <3>6, NoChunkIsNoText
    <3>8. SaidPacked(next) = SaidBy(got.chunks) \o Said(joined)
      BY <3>6, <3>7, FlushedIs
    <3>9. Said(current) \in Seq(Letters)
      BY <3>2, SaidIs DEF Strings
    <3>10. SaidBy(got.chunks) \o (Said(current) \o Said(part)) = (SaidBy(got.chunks) \o Said(current)) \o Said(part)
      BY <1>3, <3>9, ConcatAssociative
    <3> QED BY <1>1, <2>2, <3>4, <3>6, <3>8, <3>10 DEF next
  <2>3. CASE current # NoChunk /\ ~Fits(current, sep, part)
    <3>1. next = [chunks |-> Append(got.chunks, current), current |-> part]
      BY <2>0, <2>3 DEF NextPart
    <3>2. Append(got.chunks, current) = Flushed(got)
      BY <1>1, <2>3
    <3>3. next \in PackState /\ next.chunks = Flushed(got) /\ next.current = part
      BY <1>1, <2>0, <3>1, <3>2 DEF PackState, Chunk
    <3> HIDE DEF next
    <3>4. next.current # NoChunk
      BY <3>3, NoChunkIsNoText
    <3>5. SaidPacked(next) = SaidBy(Flushed(got)) \o Said(part)
      BY <3>3, <3>4, FlushedIs
    <3> QED BY <3>3, <3>5 DEF SaidPacked, next
  <2> QED BY <2>1, <2>2, <2>3
<1> QED BY <1>4, <1>5, <1>6

(* Parts are packed into texts that can be sent and say the same.             *)
LEMMA PackIs ==
  ASSUME NEW parts \in Seq(Strings), NEW sep \in Strings, Said(sep) = << >>, NEW pieces,
         \A k \in 1..Len(parts) : pieces[k] \in Seq(Sendable) /\ SaidBy(pieces[k]) = Said(parts[k])
  PROVE  /\ Pack(parts, sep, pieces) \in Seq(Sendable)
         /\ SaidBy(Pack(parts, sep, pieces)) = SaidBy(parts)
<1> DEFINE N == Len(parts)
           x == [chunks |-> << >>, current |-> NoChunk]
           F(got, k) == NextPart(got, parts[k], sep, pieces[k])
           Goes(f) == f = [k \in 0..N |-> IF k = 0 THEN x ELSE F(f[k - 1], k)]
           step == [k \in 1..N |-> [got \in PackState |-> F(got, k)]]
<1>1. N \in Nat /\ \A k \in 1..N : parts[k] \in Strings
  BY LenProperties, ElementOfSeq
<1>2. x \in PackState
  BY EmptySeq DEF PackState, Chunk
<1>3. ASSUME NEW k \in 1..N, NEW got \in PackState
      PROVE  /\ step[k][got] = F(got, k) /\ F(got, k) \in PackState
             /\ SaidPacked(F(got, k)) = SaidPacked(got) \o Said(parts[k])
  <2>1. pieces[k] \in Seq(Sendable) /\ SaidBy(pieces[k]) = Said(parts[k])
    OBVIOUS
  <2>2. F(got, k) \in PackState /\ SaidPacked(F(got, k)) = SaidPacked(got) \o Said(parts[k])
    BY <1>1, <2>1, NextPartIs
  <2> QED BY <2>2
<1> HIDE DEF step, N, x
<1>4. StaysIn(PackState, step, N)
  BY <1>3 DEF StaysIn
<1>5. PICK f : IsRun(f, N, PackState, x, step)
  BY <1>1, <1>2, <1>4, RunExists
<1>6. Goes(f)
  <2>1. /\ f = [k \in 0..N |-> f[k]] /\ f[0] = x
        /\ \A k \in 0..N : f[k] \in PackState
        /\ \A k \in 1..N : f[k] = step[k][f[k - 1]]
    BY <1>5 DEF IsRun
  <2>2. \A k \in 0..N : k = 0 \/ (k \in 1..N /\ k - 1 \in 0..N)
    BY <1>1
  <2>3. \A k \in 0..N : f[k] = IF k = 0 THEN x ELSE F(f[k - 1], k)
    <3> HIDE DEF F
    <3> QED BY <1>3, <2>1, <2>2
  <2> QED BY <2>1, <2>3
<1> DEFINE h == CHOOSE h : Goes(h)
<1>7. Goes(h)
  <2> HIDE DEF Goes
  <2> QED BY <1>6
<1>8. Pack(parts, sep, pieces) = StripAll(Flushed(h[N]))
  BY DEF Pack, x, N
<1>9. h[0] = x /\ \A k \in 1..N : h[k] = F(h[k - 1], k)
  <2>1. 0 \in 0..N /\ \A k \in 1..N : k \in 0..N /\ k # 0
    BY <1>1
  <2>2. \A k \in 0..N : h[k] = IF k = 0 THEN x ELSE F(h[k - 1], k)
    <3> HIDE DEF h
    <3> QED BY <1>7
  <2> HIDE DEF h, Goes, F
  <2> QED BY <2>1, <2>2
<1> HIDE DEF h, Goes, F
<1> DEFINE T == {k \in 0..N : h[k] \in PackState /\ SaidPacked(h[k]) = SaidBy(SubSeq(parts, 1, k))}
<1>10. 0 \in T
  <2>1. SubSeq(parts, 1, 0) = << >>
    BY SubSeqEmpty
  <2>2. Flushed(h[0]) = << >>
    BY <1>9 DEF x, Flushed
  <2>3. h[0] \in PackState /\ SaidPacked(h[0]) = SaidBy(SubSeq(parts, 1, 0))
    BY <1>2, <1>9, <2>1, <2>2 DEF SaidPacked
  <2> QED BY <1>1, <2>3
<1>11. ASSUME NEW k \in 1..N, k - 1 \in T PROVE k \in T
  <2>1. h[k - 1] \in PackState /\ SaidPacked(h[k - 1]) = SaidBy(SubSeq(parts, 1, k - 1)) /\ k \in 0..N
    BY <1>1, <1>11
  <2>2. h[k] \in PackState /\ SaidPacked(h[k]) = SaidBy(SubSeq(parts, 1, k - 1)) \o Said(parts[k])
    BY <1>3, <1>9, <2>1
  <2>3. SaidBy(SubSeq(parts, 1, k)) = SaidBy(SubSeq(parts, 1, k - 1)) \o Said(parts[k])
    <3>1. SubSeq(parts, 1, k) = SubSeq(parts, 1, k - 1) \o <<parts[k]>>
      BY <1>1, SubSeqRecursiveSecond DEF N
    <3>2. SubSeq(parts, 1, k - 1) \in Seq(Strings)
      <4>1. \A i \in 1..k - 1 : parts[i] \in Strings
        BY <1>1
      <4>2. 1 \in Int /\ k - 1 \in Int
        BY <1>1
      <4> QED BY <4>1, <4>2, SubSeqProperties
    <3>3. Append(SubSeq(parts, 1, k - 1), parts[k]) = SubSeq(parts, 1, k - 1) \o <<parts[k]>>
      BY <1>1, <3>2, AppendIsConcat
    <3>4. SaidBy(Append(SubSeq(parts, 1, k - 1), parts[k])) = SaidBy(SubSeq(parts, 1, k - 1)) \o Said(parts[k])
      BY <1>1, <3>2, SaidByIs
    <3> QED BY <3>1, <3>3, <3>4
  <2> QED BY <2>1, <2>2, <2>3
<1> HIDE DEF T
<1>12. N \in T
  <2>1. \A k \in 0..N : k \in T
    BY <1>1, <1>10, <1>11, InductionTo
  <2> QED BY <1>1, <2>1
<1>13. h[N] \in PackState /\ SaidPacked(h[N]) = SaidBy(parts)
  <2>1. SubSeq(parts, 1, N) = parts
    BY <1>1, SubSeqFull DEF N
  <2> QED BY <1>12, <2>1 DEF T
<1>14. Flushed(h[N]) \in Seq(Narrow)
  BY <1>13, FlushedIs
<1>15. StripAll(Flushed(h[N])) \in Seq(Sendable) /\ SaidBy(StripAll(Flushed(h[N]))) = SaidBy(Flushed(h[N]))
  BY <1>14, StripAllIs
<1> QED BY <1>8, <1>13, <1>15 DEF SaidPacked

\* What a cut makes of the texts of up to n letters.
Upto(n) == {t \in Strings : Len(t) <= n}
CutsWell(cut, t) == cut[t] \in Seq(Sendable) /\ SaidBy(cut[t]) = Said(t)

(* The separators are blank.                                                  *)
LEMMA SeparatorsAre ==
  /\ DOMAIN Separators = 1..3
  /\ \A i \in 1..3 : /\ Separators[i] \in Strings /\ Len(Separators[i]) >= 1
                     /\ Said(Separators[i]) = << >>
  /\ Len(Separators[2]) = 1 /\ Separators[2][1] = "n"
  /\ Len(Separators[3]) = 1 /\ Separators[3][1] = " "
<1>1. /\ DOMAIN Separators = 1..3 /\ Separators[1] = <<"n", "n">>
      /\ Separators[2] = <<"n">> /\ Separators[3] = <<" ">>
  <2>1. DOMAIN Separators = 1..3
    BY DEF Separators
  <2>2. Separators[1] = <<"n", "n">>
    BY DEF Separators
  <2>3. Separators[2] = <<"n">>
    BY DEF Separators
  <2>4. Separators[3] = <<" ">>
    BY DEF Separators
  <2> QED BY <2>1, <2>2, <2>3, <2>4
<1>2. /\ <<"n", "n">> \in Strings /\ <<"n">> \in Strings /\ <<" ">> \in Strings
  BY DEF Strings, Letters
<1>3. /\ \A i \in DOMAIN <<"n", "n">> : Blank(<<"n", "n">>[i])
      /\ \A i \in DOMAIN <<"n">> : Blank(<<"n">>[i])
      /\ \A i \in DOMAIN <<" ">> : Blank(<<" ">>[i])
  <2>1. DOMAIN <<"n", "n">> = 1..2 /\ <<"n", "n">>[1] = "n" /\ <<"n", "n">>[2] = "n"
    OBVIOUS
  <2>2. \A i \in 1..2 : i = 1 \/ i = 2
    OBVIOUS
  <2>3. \A i \in DOMAIN <<"n", "n">> : Blank(<<"n", "n">>[i])
    BY <2>1, <2>2 DEF Blank
  <2>4. DOMAIN <<"n">> = 1..1 /\ <<"n">>[1] = "n" /\ DOMAIN <<" ">> = 1..1 /\ <<" ">>[1] = " "
    OBVIOUS
  <2>5. \A i \in 1..1 : i = 1
    OBVIOUS
  <2>6. \A i \in DOMAIN <<"n">> : Blank(<<"n">>[i])
    BY <2>4, <2>5 DEF Blank
  <2>7. \A i \in DOMAIN <<" ">> : Blank(<<" ">>[i])
    BY <2>4, <2>5 DEF Blank
  <2> QED BY <2>3, <2>6, <2>7
<1>4. Said(<<"n", "n">>) = << >> /\ Said(<<"n">>) = << >> /\ Said(<<" ">>) = << >>
  BY <1>2, <1>3, BlankSaysNothing
<1>5. \A i \in 1..3 : i = 1 \/ i = 2 \/ i = 3
  OBVIOUS
<1>6. Len(<<"n", "n">>) = 2 /\ Len(<<"n">>) = 1 /\ Len(<<" ">>) = 1
  OBVIOUS
<1> DEFINE s1 == <<"n", "n">>
           s2 == <<"n">>
           s3 == <<" ">>
<1>7. s1 \in Strings /\ s2 \in Strings /\ s3 \in Strings
  BY <1>2
<1>8. Said(s1) = << >> /\ Said(s2) = << >> /\ Said(s3) = << >>
  BY <1>4
<1>9. Len(s1) = 2 /\ Len(s2) = 1 /\ Len(s3) = 1 /\ s2[1] = "n" /\ s3[1] = " "
  BY <1>6
<1>a. Len(s1) >= 1 /\ Len(s2) >= 1 /\ Len(s3) >= 1
  BY <1>9
<1>10. Separators[1] = s1 /\ Separators[2] = s2 /\ Separators[3] = s3
  BY <1>1
<1> HIDE DEF s1, s2, s3
<1>11. ASSUME NEW i \in 1..3
       PROVE  /\ Separators[i] \in Strings /\ Len(Separators[i]) >= 1
              /\ Said(Separators[i]) = << >>
  <2>1. CASE i = 1
    <3>1. Separators[i] = s1
      BY <1>10, <2>1
    <3>2. Separators[i] \in Strings /\ Said(Separators[i]) = << >>
      BY <1>7, <1>8, <3>1
    <3>3. Len(Separators[i]) >= 1
      BY <1>a, <3>1, Zenon
    <3> QED BY <3>2, <3>3
  <2>2. CASE i = 2
    <3>1. Separators[i] = s2
      BY <1>10, <2>2
    <3>2. Separators[i] \in Strings /\ Said(Separators[i]) = << >>
      BY <1>7, <1>8, <3>1
    <3>3. Len(Separators[i]) >= 1
      BY <1>a, <3>1, Zenon
    <3> QED BY <3>2, <3>3
  <2>3. CASE i = 3
    <3>1. Separators[i] = s3
      BY <1>10, <2>3
    <3>2. Separators[i] \in Strings /\ Said(Separators[i]) = << >>
      BY <1>7, <1>8, <3>1
    <3>3. Len(Separators[i]) >= 1
      BY <1>a, <3>1, Zenon
    <3> QED BY <3>2, <3>3
  <2> QED BY <1>5, <2>1, <2>2, <2>3
<1> QED BY <1>1, <1>9, <1>10, <1>11

(* What is split is split at one separator into shorter texts, and what is not has no blank. *)
LEMMA SplitsAre ==
  ASSUME NEW t \in Strings
  PROVE  /\ Splits(t) # {} =>
              LET sep == Separators[Min(Splits(t))]
                  parts == SplitAt(t, sep)
              IN /\ sep \in Strings /\ Said(sep) = << >>
                 /\ parts \in Seq(Strings) /\ SaidBy(parts) = Said(t)
                 /\ \A j \in 1..Len(parts) : parts[j] \in Strings /\ Len(parts[j]) < Len(t)
         /\ Splits(t) = {} => Solid(t)
<1>1. ASSUME NEW i \in 1..3
      PROVE  LET sep == Separators[i]
                 parts == SplitAt(t, sep)
             IN /\ sep \in Strings /\ Said(sep) = << >>
                /\ parts \in Seq(Strings) /\ SaidBy(parts) = Said(t)
                /\ Len(parts) > 1 => \A j \in 1..Len(parts) : Len(parts[j]) < Len(t)
                /\ ~(Len(parts) > 1) /\ Len(sep) = 1 => \A j \in 1..Len(t) : t[j] # sep[1]
  <2> DEFINE sep == Separators[i]
  <2>1. sep \in Strings /\ Len(sep) >= 1 /\ Said(sep) = << >>
    BY SeparatorsAre
  <2> HIDE DEF sep
  <2>2. LET parts == SplitAt(t, sep)
        IN /\ parts \in Seq(Strings) /\ SaidBy(parts) = Said(t)
           /\ Len(parts) > 1 => \A j \in 1..Len(parts) : Len(parts[j]) < Len(t)
           /\ ~(Len(parts) > 1) /\ Len(sep) = 1 => \A j \in 1..Len(t) : t[j] # sep[1]
    BY <2>1, SplitAtIs
  <2> QED BY <2>1, <2>2 DEF sep
<1>2. ASSUME Splits(t) # {}
      PROVE  Min(Splits(t)) \in 1..3 /\ Len(SplitAt(t, Separators[Min(Splits(t))])) > 1
  <2>1. Splits(t) \in SUBSET Nat
    <3>1. Splits(t) \subseteq DOMAIN Separators
      BY DEF Splits
    <3>2. DOMAIN Separators = 1..3
      BY SeparatorsAre
    <3> QED BY <3>1, <3>2
  <2>2. \E m \in Splits(t) : \A i \in Splits(t) : m <= i
    BY <1>2, <2>1, LeastNumber
  <2>3. Min(Splits(t)) \in Splits(t)
    BY <2>2 DEF Min
  <2> QED BY <2>3, SeparatorsAre DEF Splits
<1>3. ASSUME Splits(t) # {}
      PROVE  LET sep == Separators[Min(Splits(t))]
                 parts == SplitAt(t, sep)
             IN /\ sep \in Strings /\ Said(sep) = << >>
                /\ parts \in Seq(Strings) /\ SaidBy(parts) = Said(t)
                /\ \A j \in 1..Len(parts) : parts[j] \in Strings /\ Len(parts[j]) < Len(t)
  <2>1. PICK i \in 1..3 : i = Min(Splits(t)) /\ Len(SplitAt(t, Separators[i])) > 1
    BY <1>2, <1>3
  <2> DEFINE sep == Separators[i]
             parts == SplitAt(t, sep)
  <2>2. /\ sep \in Strings /\ Said(sep) = << >>
        /\ parts \in Seq(Strings) /\ SaidBy(parts) = Said(t)
        /\ \A j \in 1..Len(parts) : Len(parts[j]) < Len(t)
    BY <1>1, <2>1
  <2>3. \A j \in 1..Len(parts) : parts[j] \in Strings
    <3> HIDE DEF parts
    <3> QED BY <2>2, ElementOfSeq
  <2> QED BY <2>1, <2>2, <2>3
<1>4. ASSUME Splits(t) = {} PROVE Solid(t)
  <2>1. \A i \in 1..3 : ~(Len(SplitAt(t, Separators[i])) > 1)
    BY <1>4, SeparatorsAre DEF Splits
  <2>2. \A j \in 1..Len(t) : t[j] # "n"
    <3>1. 2 \in 1..3
      OBVIOUS
    <3> QED BY <1>1, <2>1, <3>1, SeparatorsAre
  <2>3. \A j \in 1..Len(t) : t[j] # " "
    <3>1. 3 \in 1..3
      OBVIOUS
    <3> QED BY <1>1, <2>1, <3>1, SeparatorsAre
  <2> QED BY <2>2, <2>3 DEF Solid, Blank
<1> QED BY <1>3, <1>4

(* What a text is cut into depends on what shorter texts are cut into.        *)
LEMMA ChunksDepend ==
  ASSUME NEW t \in Strings, NEW g, NEW h, \A s \in Strings : Len(s) < Len(t) => g[s] = h[s]
  PROVE  Chunks(t, g) = Chunks(t, h)
<1>1. CASE Splits(t) # {}
  <2> DEFINE sep == Separators[Min(Splits(t))]
             parts == SplitAt(t, sep)
  <2>1. /\ parts \in Seq(Strings)
        /\ \A j \in 1..Len(parts) : parts[j] \in Strings /\ Len(parts[j]) < Len(t)
    BY <1>1, SplitsAre
  <2> HIDE DEF parts
  <2>2. \A j \in DOMAIN parts : g[parts[j]] = h[parts[j]]
    BY <2>1, LenProperties
  <2>3. [j \in DOMAIN parts |-> g[parts[j]]] = [j \in DOMAIN parts |-> h[parts[j]]]
    BY <2>2
  <2>4. Pack(parts, sep, [j \in DOMAIN parts |-> g[parts[j]]]) = Pack(parts, sep, [j \in DOMAIN parts |-> h[parts[j]]])
    BY <2>3
  <2> QED BY <1>1, <2>4 DEF Chunks, parts
<1>2. CASE Splits(t) = {}
  BY <1>2 DEF Chunks
<1> QED BY <1>1, <1>2

(* If shorter texts are cut well, this one is.                                *)
LEMMA ChunksAreSendable ==
  ASSUME NEW u \in Strings, NEW cut, \A s \in Strings : Len(s) < Len(u) => CutsWell(cut, s)
  PROVE  Chunks(Strip(u), cut) \in Seq(Sendable) /\ SaidBy(Chunks(Strip(u), cut)) = Said(u)
<1> DEFINE t == Strip(u)
<1>1. /\ t \in Strings /\ Said(t) = Said(u) /\ Len(t) <= Len(u)
      /\ t # << >> => Said(t) # << >>
  BY StripIs
<1>2. Len(t) \in Nat /\ Len(u) \in Nat /\ utf16_len(t) \in Nat /\ TELEGRAM_LIMIT \in Nat
  BY <1>1, LenProperties, WidthIs, TextAssumption DEF Strings
<1> HIDE DEF t
<1>3. CASE t = << >>
  <2>1. Chunks(t, cut) = << >>
    BY <1>3 DEF Chunks
  <2> QED BY <1>1, <1>3, <2>1, SaidIs, SaidByIs, EmptySeq DEF t
<1>4. CASE t # << >> /\ utf16_len(t) <= TELEGRAM_LIMIT
  <2>1. Chunks(t, cut) = <<t>>
    BY <1>4 DEF Chunks
  <2>2. t \in Sendable
    BY <1>1, <1>4 DEF Sendable, Narrow
  <2> QED BY <1>1, <2>1, <2>2, SaidByIs DEF t
<1>5. CASE t # << >> /\ ~(utf16_len(t) <= TELEGRAM_LIMIT) /\ Splits(t) # {}
  <2> DEFINE sep == Separators[Min(Splits(t))]
             parts == SplitAt(t, sep)
             pieces == [k \in DOMAIN parts |-> cut[parts[k]]]
  <2>1. /\ sep \in Strings /\ Said(sep) = << >>
        /\ parts \in Seq(Strings) /\ SaidBy(parts) = Said(t)
        /\ \A j \in 1..Len(parts) : parts[j] \in Strings /\ Len(parts[j]) < Len(t)
    BY <1>1, <1>5, SplitsAre
  <2>2. Chunks(t, cut) = Pack(parts, sep, pieces)
    BY <1>5 DEF Chunks
  <2> HIDE DEF parts, sep
  <2>3. \A k \in 1..Len(parts) : pieces[k] \in Seq(Sendable) /\ SaidBy(pieces[k]) = Said(parts[k])
    <3> SUFFICES ASSUME NEW k \in 1..Len(parts)
                 PROVE  pieces[k] \in Seq(Sendable) /\ SaidBy(pieces[k]) = Said(parts[k])
      OBVIOUS
    <3>1. k \in DOMAIN parts /\ parts[k] \in Strings /\ Len(parts[k]) < Len(t) /\ Len(parts[k]) \in Nat
      BY <2>1, LenProperties DEF Strings
    <3>2. CutsWell(cut, parts[k])
      BY <1>1, <1>2, <3>1
    <3> QED BY <3>1, <3>2 DEF CutsWell
  <2> HIDE DEF pieces
  <2>4. Pack(parts, sep, pieces) \in Seq(Sendable) /\ SaidBy(Pack(parts, sep, pieces)) = SaidBy(parts)
    BY <2>1, <2>3, PackIs
  <2> QED BY <1>1, <2>1, <2>2, <2>4 DEF t
<1>6. CASE t # << >> /\ ~(utf16_len(t) <= TELEGRAM_LIMIT) /\ Splits(t) = {}
  <2>1. Chunks(t, cut) = HardSplit(t)
    BY <1>6 DEF Chunks
  <2>2. Solid(t)
    BY <1>1, <1>6, SplitsAre
  <2> QED BY <1>1, <2>1, <2>2, HardSplitIs DEF t
<1> QED BY <1>3, <1>4, <1>5, <1>6

\* How texts of a set are cut, each from how shorter ones are.
CutsOf(g, S) == g = [t \in S |-> Chunks(Strip(t), g)]

(* Texts of up to n letters can be cut.                                       *)
LEMMA CutsUptoExist == \A n \in Nat : \E g : CutsOf(g, Upto(n))
<1> DEFINE T == {n \in Nat : \E g : CutsOf(g, Upto(n))}
<1>0. \A t \in Strings : /\ Strip(t) \in Strings /\ Len(Strip(t)) \in Nat /\ Len(t) \in Nat
                         /\ Len(Strip(t)) <= Len(t)
  BY StripIs, LenProperties DEF Strings
<1>1. 0 \in T
  <2> DEFINE g == [t \in Upto(0) |-> << >>]
  <2>1. \A t \in Upto(0) : Strip(t) = << >>
    <3> SUFFICES ASSUME NEW t \in Upto(0) PROVE Strip(t) = << >>
      OBVIOUS
    <3>1. t \in Strings /\ Len(t) <= 0
      BY DEF Upto
    <3>2. Strip(t) \in Seq(Letters) /\ Len(Strip(t)) = 0
      BY <1>0, <3>1 DEF Strings
    <3> QED BY <3>2, EmptySeq
  <2>2. \A t \in Upto(0) : Chunks(Strip(t), g) = << >>
    BY <2>1 DEF Chunks
  <2>3. CutsOf(g, Upto(0))
    BY <2>2 DEF CutsOf
  <2> HIDE DEF g
  <2> QED BY <2>3
<1>2. ASSUME NEW n \in T PROVE n + 1 \in T
  <2>1. PICK g : CutsOf(g, Upto(n))
    OBVIOUS
  <2> DEFINE h == [t \in Upto(n + 1) |-> Chunks(Strip(t), g)]
  <2>2. n \in Nat /\ n + 1 \in Nat
    OBVIOUS
  <2>3. ASSUME NEW s \in Strings, NEW t \in Upto(n + 1), Len(s) < Len(Strip(t)) PROVE g[s] = h[s]
    <3>1. t \in Strings /\ Len(t) <= n + 1
      BY DEF Upto
    <3>2. Len(s) <= n
      BY <1>0, <2>2, <2>3, <3>1
    <3>3. s \in Upto(n) /\ s \in Upto(n + 1)
      BY <1>0, <2>2, <3>2 DEF Upto
    <3>4. g[s] = Chunks(Strip(s), g)
      BY <2>1, <3>3 DEF CutsOf
    <3> QED BY <3>3, <3>4
  <2>4. ASSUME NEW t \in Upto(n + 1) PROVE Chunks(Strip(t), g) = Chunks(Strip(t), h)
    <3>1. Strip(t) \in Strings
      BY <1>0 DEF Upto
    <3>2. \A s \in Strings : Len(s) < Len(Strip(t)) => g[s] = h[s]
      BY <2>3
    <3> HIDE DEF h
    <3> QED BY <3>1, <3>2, ChunksDepend
  <2>5. CutsOf(h, Upto(n + 1))
    BY <2>4 DEF CutsOf
  <2> HIDE DEF h
  <2> QED BY <2>2, <2>5
<1>3. T \in SUBSET Nat
  OBVIOUS
<1> HIDE DEF T
<1>4. T = Nat
  BY <1>1, <1>2, <1>3, SetInduction
<1> QED BY <1>4 DEF T

(* Two ways to cut texts agree where they both cut.                           *)
LEMMA CutsAgree ==
  ASSUME NEW n \in Nat, NEW m \in Nat, NEW g, NEW h, CutsOf(g, Upto(n)), CutsOf(h, Upto(m))
  PROVE  \A t \in Strings : Len(t) <= n /\ Len(t) <= m => g[t] = h[t]
<1> DEFINE T == {l \in Nat : \A t \in Strings : Len(t) <= l /\ Len(t) <= n /\ Len(t) <= m => g[t] = h[t]}
<1>0. \A t \in Strings : /\ Strip(t) \in Strings /\ Len(Strip(t)) \in Nat /\ Len(t) \in Nat
                         /\ Len(Strip(t)) <= Len(t)
  BY StripIs, LenProperties DEF Strings
<1>1. ASSUME NEW t \in Strings, Len(t) <= n, Len(t) <= m,
             \A s \in Strings : Len(s) < Len(t) => g[s] = h[s]
      PROVE  g[t] = h[t]
  <2>1. t \in Upto(n) /\ t \in Upto(m)
    BY <1>1 DEF Upto
  <2>2. g[t] = Chunks(Strip(t), g) /\ h[t] = Chunks(Strip(t), h)
    BY <2>1 DEF CutsOf
  <2>3. \A s \in Strings : Len(s) < Len(Strip(t)) => g[s] = h[s]
    BY <1>0, <1>1
  <2>4. Chunks(Strip(t), g) = Chunks(Strip(t), h)
    BY <1>0, <2>3, ChunksDepend
  <2> QED BY <2>2, <2>4
<1>2. 0 \in T
  BY <1>0, <1>1
<1>3. ASSUME NEW l \in T PROVE l + 1 \in T
  <2> SUFFICES ASSUME NEW t \in Strings, Len(t) <= l + 1, Len(t) <= n, Len(t) <= m PROVE g[t] = h[t]
    OBVIOUS
  <2>1. ASSUME NEW s \in Strings, Len(s) < Len(t) PROVE g[s] = h[s]
    <3>1. Len(s) <= l /\ Len(s) <= n /\ Len(s) <= m
      BY <1>0, <2>1
    <3> QED BY <3>1
  <2> QED BY <1>1, <2>1
<1>4. T \in SUBSET Nat
  OBVIOUS
<1> HIDE DEF T
<1>5. T = Nat
  BY <1>2, <1>3, <1>4, SetInduction
<1>6. ASSUME NEW t \in Strings, Len(t) <= n, Len(t) <= m PROVE g[t] = h[t]
  <2>1. Len(t) \in T
    BY <1>0, <1>5
  <2> QED BY <1>0, <1>6, <2>1 DEF T
<1> QED BY <1>6

(* split_text is defined: it cuts every text from what it makes of shorter ones. *)
LEMMA SplitTextIs == \A t \in Strings : split_text[t] = Chunks(Strip(t), split_text)
<1>0. \A t \in Strings : /\ Strip(t) \in Strings /\ Len(Strip(t)) \in Nat /\ Len(t) \in Nat
                         /\ Len(Strip(t)) <= Len(t)
  BY StripIs, LenProperties DEF Strings
<1> DEFINE cuts == [n \in Nat |-> CHOOSE g : CutsOf(g, Upto(n))]
           all == [t \in Strings |-> Chunks(Strip(t), cuts[Len(t)])]
<1>1. \A n \in Nat : CutsOf(cuts[n], Upto(n))
  BY CutsUptoExist
<1> HIDE DEF cuts
<1>2. ASSUME NEW t \in Strings, NEW s \in Strings, Len(s) < Len(Strip(t)) PROVE cuts[Len(t)][s] = all[s]
  <2>1. Len(s) \in Nat /\ Len(t) \in Nat /\ Len(s) <= Len(t)
    BY <1>0, <1>2
  <2>2. cuts[Len(t)][s] = cuts[Len(s)][s]
    BY <1>1, <2>1, CutsAgree
  <2>a. CutsOf(cuts[Len(s)], Upto(Len(s)))
    BY <1>1, <2>1
  <2>3. s \in Upto(Len(s)) /\ CutsOf(cuts[Len(s)], Upto(Len(s)))
    BY <2>1, <2>a DEF Upto
  <2>4. cuts[Len(s)][s] = Chunks(Strip(s), cuts[Len(s)])
    BY <2>3 DEF CutsOf
  <2> QED BY <2>2, <2>4
<1>3. ASSUME NEW t \in Strings PROVE Chunks(Strip(t), cuts[Len(t)]) = Chunks(Strip(t), all)
  <2>1. \A s \in Strings : Len(s) < Len(Strip(t)) => cuts[Len(t)][s] = all[s]
    BY <1>2
  <2> HIDE DEF all
  <2> QED BY <1>0, <2>1, ChunksDepend
<1>4. CutsOf(all, Strings)
  BY <1>3 DEF CutsOf
<1> HIDE DEF all
<1>5. split_text = CHOOSE g : g = [t \in Strings |-> Chunks(Strip(t), g)]
  BY DEF split_text
<1>6. split_text = [t \in Strings |-> Chunks(Strip(t), split_text)]
  BY <1>4, <1>5 DEF CutsOf
<1> QED BY <1>6

(* Every text is cut into parts that can be sent and say what it says.        *)
LEMMA SplitTextSends == \A t \in Strings : CutsWell(split_text, t)
<1> DEFINE T == {l \in Nat : \A t \in Strings : Len(t) <= l => CutsWell(split_text, t)}
<1>0. \A t \in Strings : Len(t) \in Nat
  BY LenProperties DEF Strings
<1>1. ASSUME NEW t \in Strings, \A s \in Strings : Len(s) < Len(t) => CutsWell(split_text, s)
      PROVE  CutsWell(split_text, t)
  <2>1. Chunks(Strip(t), split_text) \in Seq(Sendable) /\ SaidBy(Chunks(Strip(t), split_text)) = Said(t)
    BY <1>1, ChunksAreSendable
  <2> QED BY <2>1, SplitTextIs DEF CutsWell
<1>2. 0 \in T
  BY <1>0, <1>1
<1>3. ASSUME NEW l \in T PROVE l + 1 \in T
  <2> SUFFICES ASSUME NEW t \in Strings, Len(t) <= l + 1 PROVE CutsWell(split_text, t)
    OBVIOUS
  <2>1. \A s \in Strings : Len(s) < Len(t) => CutsWell(split_text, s)
    BY <1>0
  <2> QED BY <1>1, <2>1
<1>4. T \in SUBSET Nat
  OBVIOUS
<1> HIDE DEF T
<1>5. T = Nat
  BY <1>2, <1>3, <1>4, SetInduction
<1>6. ASSUME NEW t \in Strings PROVE CutsWell(split_text, t)
  <2>1. Len(t) \in T
    BY <1>0, <1>5
  <2> QED BY <1>0, <2>1 DEF T
<1> QED BY <1>6

(* Whatever text is sent, of any length and for any limit of two or more: what Telegram
   counts it takes, no part is blank, and nothing that was written is lost, doubled or
   put in another order. *)
THEOREM TextHolds == TextSpec => []SplitIsSendable
<1>1. ASSUME text \in Answers PROVE SplitIsSendable
  <2>1. text \in Strings
    BY <1>1, TextAssumption
  <2> DEFINE chunks == split_text[text]
  <2>2. chunks \in Seq(Sendable) /\ SaidBy(chunks) = Said(text)
    BY <2>1, SplitTextSends DEF CutsWell
  <2> HIDE DEF chunks
  <2>3. \A n \in DOMAIN chunks : chunks[n] \in Sendable
    BY <2>2, LenProperties, ElementOfSeq
  <2>4. \A n \in DOMAIN chunks : utf16_len(chunks[n]) <= TELEGRAM_LIMIT /\ Said(chunks[n]) # << >>
    BY <2>3 DEF Sendable, Narrow
  <2> QED BY <2>2, <2>4 DEF SplitIsSendable, chunks
<1>2. ASSUME text \in Answers, [FALSE]_text PROVE (text \in Answers)'
  BY <1>2
<1> QED BY <1>1, <1>2, PTL DEF TextSpec
===========================================================================
