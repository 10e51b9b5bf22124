--------------------------- MODULE AccountsProofs ---------------------------
(******************************************************************************)
(* Accounts, for any number of people, requests, invitations, payments and    *)
(* invoices: whom a store lets in, and what a seller pays for.  What carries  *)
(* the proofs of both is what a request in progress has read: a row under a   *)
(* lock is held by no other, and until somebody is overtaken what was read    *)
(* is still so.                                                               *)
(******************************************************************************)
EXTENDS StoreAccess, Billing, FiniteSetTheorems, SequenceTheorems, TLAPS

(* Access to a store. *)

Holding == {"accept", "register"}

(* Whoever has or had access has an account, and so has who is to get it.     *)
PeopleAreKnown ==
  /\ \A e \in Emails : grants[e] # "none" => e \in users
  /\ \A r \in ShareRequests :
       /\ sharing[r].pc \in {"accept", "give", "take"} => sharing[r].email \in users
       /\ sharing[r].pc = "register" => sharing[r].grant = "none"

(* A held invitation is pending, one that is pending was never accepted.      *)
LockInv ==
  /\ \A r \in ShareRequests : sharing[r].pc \in Holding =>
       /\ sharing[r].id \in DOMAIN invites
       /\ invites[sharing[r].id] = [email |-> sharing[r].email, status |-> "pending"]
  /\ \A r, o \in ShareRequests :
       sharing[r].pc \in Holding /\ sharing[o].pc \in Holding /\ sharing[r].id = sharing[o].id => r = o
  /\ \A r \in ShareRequests :
       /\ sharing[r].pc = "withdraw" => sharing[r].id \in DOMAIN invites
       /\ sharing[r].pc = "invite" => sharing[r].old \subseteq DOMAIN invites
  /\ \A i \in InviteIds :
       accepts[i] = 0 \/ (accepts[i] = 1 /\ i \in DOMAIN invites /\ invites[i].status # "pending")

(* What a request has read is still so, unless it was overtaken.              *)
ReadIsCurrent ==
  ~overtaken => \A r \in ShareRequests :
    /\ sharing[r].pc \in {"accept", "register", "give", "take"} => sharing[r].grant = grants[sharing[r].email]
    /\ sharing[r].pc = "invite" => sharing[r].old = Pending(sharing[r].email)

(* The audit has a last event of everyone it tells of.                        *)
EventsOf(e) == {n \in DOMAIN audit : audit[n].email = e}
LastOf(e) == {n \in EventsOf(e) : \A m \in EventsOf(e) : m <= n}
AuditHasLast == \A e \in Emails : EventsOf(e) # {} => LastOf(e) # {}

OnePending == ~overtaken => \A e \in Emails : \A i, j \in Pending(e) : i = j

AccessIInv == /\ AccessTypeOK /\ PeopleAreKnown /\ LockInv /\ JoinedHaveAccess
              /\ ReadIsCurrent /\ AuditHasLast /\ AuditTellsAccess /\ OnePending

--------------------------------------------------------------------------------
(* What the record of a request holds, by what it is about.                   *)
LEMMA RequestShape ==
  ASSUME AccessTypeOK, NEW r \in ShareRequests
  PROVE  /\ sharing[r].pc = "invite" => sharing[r].email \in Emails /\ sharing[r].old \subseteq InviteIds
         /\ sharing[r].pc = "withdraw" => sharing[r].id \in InviteIds
         /\ sharing[r].pc \in Holding =>
              sharing[r].id \in InviteIds /\ sharing[r].email \in Emails /\ sharing[r].grant \in GrantStates
         /\ sharing[r].pc \in {"give", "take"} => sharing[r].email \in Emails /\ sharing[r].grant \in GrantStates
BY DEF AccessTypeOK, AccessRequestState, Unasked, Holding

(* The invitations are a sequence within its bound.                           *)
LEMMA InvitesShape ==
  ASSUME AccessTypeOK
  PROVE  /\ invites \in Seq(Invites) /\ Len(invites) \in Nat /\ DOMAIN invites = 1..Len(invites)
         /\ DOMAIN invites \subseteq InviteIds /\ MaxInvites \in Nat
         /\ \A i \in DOMAIN invites : invites[i] \in Invites
BY StoreAccessBounds DEF AccessTypeOK, InviteIds

(* An answered request is idle; the others are as they were.                  *)
LEMMA Answered ==
  ASSUME AccessTypeOK, NEW r \in ShareRequests, Answer(r)
  PROVE  /\ sharing' \in [ShareRequests -> AccessRequestState]
         /\ sharing'[r] = Unasked /\ \A o \in ShareRequests \ {r} : sharing'[o] = sharing[o]
         /\ sharing'[r].pc = "idle"
BY DEF AccessTypeOK, Answer, AccessRequestState, Unasked

(* A request notes what it is about.                                          *)
LEMMA Asked ==
  ASSUME AccessTypeOK, NEW r \in ShareRequests, NEW q \in AccessRequestState, Ask(r, q)
  PROVE  /\ sharing' \in [ShareRequests -> AccessRequestState]
         /\ sharing'[r] = q /\ \A o \in ShareRequests \ {r} : sharing'[o] = sharing[o]
BY DEF AccessTypeOK, Ask

(* The invitations after create_invite: the old ones revoked, one more at the *)
(* end.                                                                       *)
LEMMA MadeInvite ==
  ASSUME AccessTypeOK, LockInv, NEW r \in ShareRequests, MakeInvite(r)
  PROVE  /\ invites' \in Seq(Invites) /\ Len(invites') = Len(invites) + 1
         /\ DOMAIN invites' = 1..(Len(invites) + 1) /\ Len(invites) + 1 \in InviteIds
         /\ invites'[Len(invites) + 1] = [email |-> sharing[r].email, status |-> "pending"]
         /\ \A i \in DOMAIN invites :
              /\ i \in DOMAIN invites' /\ i # Len(invites) + 1
              /\ invites'[i] = IF i \in sharing[r].old THEN [invites[i] EXCEPT !.status = "revoked"] ELSE invites[i]
<1> DEFINE q == sharing[r]
           new == [email |-> q.email, status |-> "pending"]
<1>1. invites \in Seq(Invites) /\ Len(invites) \in Nat /\ DOMAIN invites = 1..Len(invites)
      /\ Len(invites) < MaxInvites /\ MaxInvites \in Nat /\ \A i \in DOMAIN invites : invites[i] \in Invites
  BY InvitesShape DEF MakeInvite
<1>2. new \in Invites
  BY RequestShape DEF MakeInvite, Invites, Statuses
<1>3. \A i \in DOMAIN invites : [invites[i] EXCEPT !.status = "revoked"] \in Invites
  BY <1>1 DEF Invites, Statuses
<1>4. RevokeOld(q) \in Seq(Invites) /\ Len(RevokeOld(q)) = Len(invites) /\ DOMAIN RevokeOld(q) = DOMAIN invites
  <2>1. \A i \in 1..Len(invites) :
          (IF i \in q.old THEN [invites[i] EXCEPT !.status = "revoked"] ELSE invites[i]) \in Invites
    BY <1>1, <1>3
  <2>2. RevokeOld(q) = [i \in 1..Len(invites) |->
                          IF i \in q.old THEN [invites[i] EXCEPT !.status = "revoked"] ELSE invites[i]]
    BY <1>1 DEF RevokeOld
  <2> QED BY <1>1, <2>1, <2>2
<1>5. invites' = Append(RevokeOld(q), new)
  BY DEF MakeInvite
<1>6. /\ invites' \in Seq(Invites) /\ Len(invites') = Len(invites) + 1
      /\ invites'[Len(invites) + 1] = new
      /\ \A i \in 1..Len(invites) : invites'[i] = RevokeOld(q)[i]
  BY <1>1, <1>2, <1>4, <1>5, AppendProperties
<1> QED BY <1>1, <1>6 DEF RevokeOld, InviteIds

(* The invitations after one changed its status.                              *)
LEMMA StatusWritten ==
  ASSUME AccessTypeOK, NEW i \in DOMAIN invites, NEW s \in Statuses, invites' = [invites EXCEPT ![i].status = s]
  PROVE  /\ invites' \in Seq(Invites) /\ Len(invites') = Len(invites) /\ DOMAIN invites' = DOMAIN invites
         /\ invites'[i] = [invites[i] EXCEPT !.status = s]
         /\ \A j \in DOMAIN invites \ {i} : invites'[j] = invites[j]
<1>1. invites \in Seq(Invites) /\ DOMAIN invites = 1..Len(invites) /\ invites[i] \in Invites
  BY InvitesShape
<1>2. [invites[i] EXCEPT !.status = s] \in Invites
  BY <1>1 DEF Invites
<1>3. invites' = [invites EXCEPT ![i] = [invites[i] EXCEPT !.status = s]]
  BY DEF Seq
<1> QED BY <1>1, <1>2, <1>3

(* An event is appended to the audit.                                         *)
LEMMA Recorded ==
  ASSUME AccessTypeOK, AuditHasLast, NEW action \in {"grant", "revoke"}, NEW e \in Emails, Record(action, e)
  PROVE  /\ audit' \in Seq(AuditEvents) /\ AuditHasLast'
         /\ LastAction(e)' = action /\ \A f \in Emails \ {e} : LastAction(f)' = LastAction(f)
         /\ \A n \in DOMAIN audit : n \in DOMAIN audit' /\ audit'[n] = audit[n]
         /\ \E n \in DOMAIN audit' : audit'[n] = [action |-> action, email |-> e]
<1> DEFINE new == [action |-> action, email |-> e]
           N == Len(audit) + 1
<1>1. audit \in Seq(AuditEvents) /\ new \in AuditEvents /\ Len(audit) \in Nat /\ DOMAIN audit = 1..Len(audit)
  BY DEF AccessTypeOK, AuditEvents
<1>2. audit' = Append(audit, new)
  BY DEF Record
<1>3. /\ audit' \in Seq(AuditEvents) /\ DOMAIN audit' = 1..N /\ audit'[N] = new
      /\ \A n \in 1..Len(audit) : audit'[n] = audit[n]
  BY <1>1, <1>2, AppendProperties
<1>4. LastAction(e)' = action /\ N \in LastOf(e)'
  <2>1. N \in EventsOf(e)' /\ \A m \in EventsOf(e)' : m <= N
    BY <1>1, <1>3 DEF EventsOf
  <2>2. \A n \in EventsOf(e)' : (\A m \in EventsOf(e)' : m <= n) => n = N
    BY <1>1, <1>3, <2>1 DEF EventsOf
  <2> DEFINE last == CHOOSE n \in EventsOf(e)' : \A m \in EventsOf(e)' : m <= n
  <2>3. last = N
    BY <2>1, <2>2
  <2>4. LastAction(e)' = audit'[last].action
    BY <2>1 DEF LastAction, EventsOf
  <2>5. LastAction(e)' = action
    <3> HIDE DEF last
    <3> QED BY <1>3, <2>3, <2>4
  <2> QED BY <2>1, <2>5 DEF LastOf
<1>5. ASSUME NEW f \in Emails \ {e} PROVE LastAction(f)' = LastAction(f) /\ (EventsOf(f)' # {} => LastOf(f)' # {})
  <2>1. EventsOf(f)' = EventsOf(f)
    BY <1>1, <1>3 DEF EventsOf
  <2>2. CASE EventsOf(f) = {}
    BY <2>1, <2>2 DEF LastAction, EventsOf
  <2>3. CASE EventsOf(f) # {}
    <3>1. PICK n \in EventsOf(f) : \A m \in EventsOf(f) : m <= n
      BY <2>3 DEF AuditHasLast, LastOf
    <3> DEFINE last == CHOOSE k \in EventsOf(f) : \A m \in EventsOf(f) : m <= k
    <3>2. last \in EventsOf(f)
      BY <3>1
    <3>3. audit'[last] = audit[last]
      BY <1>1, <1>3, <3>2 DEF EventsOf
    <3>4. LastAction(f) = audit[last].action
      BY <2>3 DEF LastAction, EventsOf
    <3>5. LastAction(f)' = audit'[CHOOSE k \in EventsOf(f)' : \A m \in EventsOf(f)' : m <= k].action
      BY <2>1, <2>3 DEF LastAction, EventsOf
    <3>6. LastOf(f)' # {}
      BY <2>1, <3>1 DEF LastOf
    <3> QED BY <2>1, <3>3, <3>4, <3>5, <3>6
  <2> QED BY <2>2, <2>3
<1>6. AuditHasLast'
  BY <1>4, <1>5 DEF AuditHasLast
<1> QED BY <1>1, <1>3, <1>4, <1>5, <1>6

--------------------------------------------------------------------------------
(* A commit under which rows changed marks whoever had read them.             *)
LEMMA CommitKeepsReads ==
  ASSUME AccessTypeOK, ReadIsCurrent, NEW r \in ShareRequests, Answer(r), Overtake(r)
  PROVE  ReadIsCurrent' /\ overtaken' \in BOOLEAN /\ (~overtaken' => ~overtaken)
<1>1. overtaken' \in BOOLEAN /\ (~overtaken' => ~overtaken)
  BY DEF Overtake, AccessTypeOK
<1>2. ASSUME ~overtaken', NEW o \in ShareRequests
      PROVE  /\ sharing'[o].pc \in {"accept", "register", "give", "take"} => sharing'[o].grant = grants'[sharing'[o].email]
             /\ sharing'[o].pc = "invite" =>
                  sharing'[o].old = {i \in DOMAIN invites' : invites'[i].email = sharing'[o].email /\ invites'[i].status = "pending"}
  <2>1. CASE o = r
    BY <2>1, Answered
  <2>2. CASE o # r /\ accessRows' = accessRows
    <3>1. sharing'[o] = sharing[o] /\ grants' = grants /\ invites' = invites
      BY <2>2, Answered DEF accessRows
    <3> QED BY <1>1, <1>2, <3>1 DEF ReadIsCurrent, Pending
  <2>3. CASE o # r /\ accessRows' # accessRows
    <3>1. sharing'[o] = Unasked
      BY <1>2, <2>3, Answered DEF Overtake, IsUnasked
    <3> QED BY <3>1 DEF Unasked
  <2> QED BY <2>1, <2>2, <2>3
<1> QED BY <1>1, <1>2 DEF ReadIsCurrent, Pending

(* A request begins with what it reads.                                       *)
LEMMA AskKeeps ==
  ASSUME AccessIInv, NEW r \in ShareRequests, NEW q \in AccessRequestState, Ask(r, q),
         q.pc \in {"accept", "give", "take"} => q.email \in users,
         q.pc = "register" => q.grant = "none",
         q.pc \in {"accept", "register", "give", "take"} => q.grant = grants[q.email],
         q.pc \in Holding => /\ q.id \in DOMAIN invites
                             /\ invites[q.id] = [email |-> q.email, status |-> "pending"]
                             /\ \A o \in ShareRequests : ~Holds(o, q.id),
         q.pc = "withdraw" => q.id \in DOMAIN invites,
         q.pc = "invite" => q.old = Pending(q.email)
  PROVE  AccessIInv'
<1>1. AccessTypeOK /\ PeopleAreKnown /\ LockInv /\ ReadIsCurrent
  BY DEF AccessIInv
<1>2. /\ sharing' \in [ShareRequests -> AccessRequestState]
      /\ sharing'[r] = q /\ \A o \in ShareRequests \ {r} : sharing'[o] = sharing[o]
  BY <1>1, Asked
<1>3. UNCHANGED <<users, invites, expired, grants, audit, accepts, joined, overtaken>>
  BY DEF Ask
<1>4. AccessTypeOK'
  BY <1>1, <1>2, <1>3 DEF AccessTypeOK
<1>5. PeopleAreKnown'
  BY <1>1, <1>2, <1>3 DEF PeopleAreKnown
<1>6. LockInv'
  <2>1. q.pc = "invite" => q.old \subseteq DOMAIN invites
    BY DEF Pending
  <2> QED BY <1>1, <1>2, <1>3, <2>1 DEF LockInv, Holds, Holding
<1>7. ReadIsCurrent'
  BY <1>1, <1>2, <1>3 DEF ReadIsCurrent, Pending
<1>8. JoinedHaveAccess' /\ AuditHasLast' /\ AuditTellsAccess' /\ OnePending'
  BY <1>3 DEF AccessIInv, JoinedHaveAccess, AuditHasLast, EventsOf, LastOf, AuditTellsAccess, LastAction,
              OnePending, Pending
<1> QED BY <1>4, <1>5, <1>6, <1>7, <1>8 DEF AccessIInv

(* Audit and access are as they were.                                         *)
LEMMA AccessUntouched ==
  ASSUME AccessIInv, UNCHANGED <<grants, audit, joined>>, ~overtaken' => ~overtaken
  PROVE  JoinedHaveAccess' /\ AuditHasLast' /\ AuditTellsAccess'
BY DEF AccessIInv, JoinedHaveAccess, AuditHasLast, EventsOf, LastOf, AuditTellsAccess, LastAction

(* create_invite: held invitations are not among the revoked ones.            *)
LEMMA MakeInviteKeeps ==
  ASSUME AccessIInv, NEW r \in ShareRequests, MakeInvite(r)
  PROVE  AccessIInv'
<1> DEFINE n == Len(invites) + 1
<1>1. AccessTypeOK /\ PeopleAreKnown /\ LockInv /\ ReadIsCurrent /\ OnePending
  BY DEF AccessIInv
<1>2. /\ invites' \in Seq(Invites) /\ Len(invites') = n
      /\ DOMAIN invites' = 1..n /\ n \in InviteIds
      /\ invites'[n] = [email |-> sharing[r].email, status |-> "pending"]
      /\ \A i \in DOMAIN invites :
           /\ i \in DOMAIN invites' /\ i # n
           /\ invites'[i] = IF i \in sharing[r].old THEN [invites[i] EXCEPT !.status = "revoked"] ELSE invites[i]
  BY <1>1, MadeInvite
<1>3. Answer(r) /\ Overtake(r) /\ UNCHANGED <<users, grants, audit, expired, accepts, joined>>
      /\ sharing[r].pc = "invite" /\ \A i \in sharing[r].old : RowIsFree(i)
  BY DEF MakeInvite
<1>4. /\ sharing' \in [ShareRequests -> AccessRequestState] /\ sharing'[r].pc = "idle"
      /\ \A o \in ShareRequests \ {r} : sharing'[o] = sharing[o]
  BY <1>1, <1>3, Answered
<1>5. ReadIsCurrent' /\ overtaken' \in BOOLEAN /\ (~overtaken' => ~overtaken)
  BY <1>1, <1>3, CommitKeepsReads
<1>s. DOMAIN invites = 1..Len(invites) /\ Len(invites) \in Nat /\ MaxInvites \in Nat
      /\ \A i \in DOMAIN invites : invites[i] \in Invites
  BY <1>1, InvitesShape
<1>6. AccessTypeOK'
  <2>1. Len(invites') <= MaxInvites
    BY <1>2, <1>s DEF InviteIds
  <2> QED BY <1>1, <1>2, <1>3, <1>4, <1>5, <1>s, <2>1 DEF AccessTypeOK
<1>7. PeopleAreKnown'
  BY <1>1, <1>3, <1>4 DEF PeopleAreKnown
<1>8. LockInv'
  <2>1. ASSUME NEW o \in ShareRequests, sharing'[o].pc \in Holding
        PROVE  /\ sharing'[o] = sharing[o] /\ sharing[o].id \in DOMAIN invites'
               /\ invites'[sharing[o].id] = [email |-> sharing[o].email, status |-> "pending"]
    <3>1. sharing'[o] = sharing[o] /\ sharing[o].id \in DOMAIN invites
      BY <1>1, <1>4, <2>1 DEF LockInv, Holding
    <3>2. sharing[o].id \notin sharing[r].old
      BY <1>3, <2>1, <3>1 DEF RowIsFree, Holds, Holding
    <3> QED BY <1>1, <1>2, <2>1, <3>1, <3>2 DEF LockInv
  <2>2. ASSUME NEW i \in InviteIds
        PROVE accepts'[i] = 0 \/ (accepts'[i] = 1 /\ i \in DOMAIN invites' /\ invites'[i].status # "pending")
    <3>1. CASE accepts[i] = 0
      BY <1>3, <3>1
    <3>2. CASE accepts[i] = 1 /\ i \in DOMAIN invites /\ invites[i].status # "pending"
      BY <1>2, <1>3, <1>s, <3>2 DEF Invites
    <3> QED BY <1>1, <3>1, <3>2 DEF LockInv
  <2>3. \A o \in ShareRequests :
          /\ sharing'[o].pc = "withdraw" => sharing'[o].id \in DOMAIN invites'
          /\ sharing'[o].pc = "invite" => sharing'[o].old \subseteq DOMAIN invites'
    BY <1>1, <1>2, <1>4 DEF LockInv
  <2>4. \A o, g \in ShareRequests :
          sharing'[o].pc \in Holding /\ sharing'[g].pc \in Holding /\ sharing'[o].id = sharing'[g].id => o = g
    BY <1>1, <2>1 DEF LockInv
  <2> QED BY <2>1, <2>2, <2>3, <2>4 DEF LockInv
<1>9. OnePending'
  <2>1. SUFFICES ASSUME ~overtaken', NEW e \in Emails, NEW i \in Pending(e)', NEW j \in Pending(e)' PROVE i = j
    BY DEF OnePending
  <2>2. sharing[r].old = Pending(sharing[r].email)
    BY <1>1, <1>3, <1>5, <2>1 DEF ReadIsCurrent
  <2>3. CASE e = sharing[r].email
    <3>1. ASSUME NEW k \in Pending(e)' PROVE k = n
      <4>1. SUFFICES ASSUME k # n PROVE FALSE
        OBVIOUS
      <4>2. k \in DOMAIN invites
        BY <1>2, <1>s, <3>1, <4>1 DEF Pending
      <4>3. invites'[k].email = invites[k].email
        BY <1>2, <1>s, <4>2 DEF Invites
      <4>4. k \notin sharing[r].old
        BY <1>2, <1>s, <3>1, <4>2 DEF Pending, Invites
      <4> QED BY <1>2, <2>2, <2>3, <3>1, <4>2, <4>4 DEF Pending
    <3> QED BY <2>1, <3>1
  <2>4. CASE e # sharing[r].email
    <3>1. ASSUME NEW k \in Pending(e)' PROVE k \in Pending(e)
      <4>1. k \in DOMAIN invites
        BY <1>2, <1>s, <2>4, <3>1 DEF Pending
      <4>2. k \notin sharing[r].old
        BY <1>2, <1>s, <3>1, <4>1 DEF Pending, Invites
      <4> QED BY <1>2, <3>1, <4>1, <4>2 DEF Pending
    <3> QED BY <1>1, <1>5, <2>1, <3>1 DEF OnePending
  <2> QED BY <2>3, <2>4
<1> QED BY <1>3, <1>5, <1>6, <1>7, <1>8, <1>9, AccessUntouched DEF AccessIInv

(* An invitation that nobody else holds gets another status than pending.     *)
LEMMA StatusKeeps ==
  ASSUME AccessIInv, NEW r \in ShareRequests, NEW i \in DOMAIN invites, NEW s \in {"accepted", "revoked"},
         invites' = [invites EXCEPT ![i].status = s], Answer(r),
         \A o \in ShareRequests \ {r} : ~Holds(o, i),
         \/ UNCHANGED accepts
         \/ invites[i].status = "pending" /\ accepts' = [accepts EXCEPT ![i] = @ + 1]
  PROVE  /\ LockInv' /\ (~overtaken /\ ~overtaken' => OnePending')
         /\ accepts' \in [InviteIds -> Nat]
<1>1. AccessTypeOK /\ LockInv /\ OnePending
  BY DEF AccessIInv
<1>2. /\ DOMAIN invites' = DOMAIN invites /\ invites'[i] = [invites[i] EXCEPT !.status = s]
      /\ \A j \in DOMAIN invites \ {i} : invites'[j] = invites[j]
  BY <1>1, StatusWritten DEF Statuses
<1>3. /\ sharing'[r].pc = "idle" /\ \A o \in ShareRequests \ {r} : sharing'[o] = sharing[o]
  BY <1>1, Answered
<1>s. DOMAIN invites \subseteq InviteIds /\ invites[i] \in Invites
  BY <1>1, InvitesShape
<1>4. ASSUME NEW o \in ShareRequests, sharing'[o].pc \in Holding
      PROVE  /\ sharing'[o] = sharing[o] /\ sharing[o].id \in DOMAIN invites'
             /\ invites'[sharing[o].id] = [email |-> sharing[o].email, status |-> "pending"]
  <2>1. o # r /\ sharing'[o] = sharing[o]
    BY <1>3, <1>4 DEF Holding
  <2>2. sharing[o].id # i
    BY <1>4, <2>1 DEF Holds, Holding
  <2> QED BY <1>1, <1>2, <1>4, <2>1, <2>2 DEF LockInv
<1>5. ASSUME NEW j \in InviteIds
      PROVE accepts'[j] = 0 \/ (accepts'[j] = 1 /\ j \in DOMAIN invites' /\ invites'[j].status # "pending")
  <2>1. accepts[j] = 0 \/ (accepts[j] = 1 /\ j \in DOMAIN invites /\ invites[j].status # "pending")
    BY <1>1 DEF LockInv
  <2>2. CASE j # i
    <3>1. accepts'[j] = accepts[j]
      BY <2>2, <1>1 DEF AccessTypeOK
    <3> QED BY <1>2, <2>1, <2>2, <3>1
  <2>3. CASE j = i
    <3>1. invites'[i].status # "pending" /\ i \in DOMAIN invites'
      BY <1>2, <1>s DEF Invites
    <3>2. accepts'[i] \in {0, 1}
      <4>1. CASE UNCHANGED accepts
        BY <2>1, <2>3, <4>1
      <4>2. CASE invites[i].status = "pending" /\ accepts' = [accepts EXCEPT ![i] = @ + 1]
        BY <1>1, <1>s, <2>1, <2>3, <4>2 DEF AccessTypeOK
      <4> QED BY <4>1, <4>2
    <3> QED BY <2>3, <3>1, <3>2
  <2> QED BY <2>2, <2>3
<1>6. LockInv'
  <2>1. \A o \in ShareRequests :
          /\ sharing'[o].pc = "withdraw" => sharing'[o].id \in DOMAIN invites'
          /\ sharing'[o].pc = "invite" => sharing'[o].old \subseteq DOMAIN invites'
    BY <1>1, <1>2, <1>3 DEF LockInv
  <2>2. \A o, g \in ShareRequests :
          sharing'[o].pc \in Holding /\ sharing'[g].pc \in Holding /\ sharing'[o].id = sharing'[g].id => o = g
    BY <1>1, <1>4 DEF LockInv
  <2> QED BY <1>4, <1>5, <2>1, <2>2 DEF LockInv
<1>7. ASSUME ~overtaken PROVE OnePending'
  <2>1. \A e \in Emails : Pending(e)' \subseteq Pending(e)
    BY <1>2, <1>s DEF Pending, Invites
  <2> QED BY <1>1, <1>7, <2>1 DEF OnePending
<1>8. accepts' \in [InviteIds -> Nat]
  BY <1>1, <1>s DEF AccessTypeOK
<1> QED BY <1>6, <1>7, <1>8

(* The owner withdraws an invitation that nobody holds.                       *)
LEMMA WithdrawKeeps ==
  ASSUME AccessIInv, NEW r \in ShareRequests, Withdraw(r)
  PROVE  AccessIInv'
<1>1. AccessTypeOK /\ PeopleAreKnown /\ LockInv /\ ReadIsCurrent
  BY DEF AccessIInv
<1>2. /\ Answer(r) /\ Overtake(r) /\ UNCHANGED <<users, grants, audit, expired, accepts, joined>>
      /\ invites' = [invites EXCEPT ![sharing[r].id].status = "revoked"]
      /\ sharing[r].id \in DOMAIN invites /\ \A o \in ShareRequests : ~Holds(o, sharing[r].id)
  BY <1>1 DEF Withdraw, LockInv, RowIsFree
<1>3. ReadIsCurrent' /\ overtaken' \in BOOLEAN /\ (~overtaken' => ~overtaken)
  BY <1>1, <1>2, CommitKeepsReads
<1>4. LockInv' /\ (~overtaken /\ ~overtaken' => OnePending')
  BY <1>2, StatusKeeps
<1>5. OnePending'
  BY <1>3, <1>4 DEF OnePending
<1>6. /\ sharing' \in [ShareRequests -> AccessRequestState] /\ sharing'[r].pc = "idle"
      /\ \A o \in ShareRequests \ {r} : sharing'[o] = sharing[o]
  BY <1>1, <1>2, Answered
<1>7. invites' \in Seq(Invites) /\ Len(invites') = Len(invites) /\ DOMAIN invites' = DOMAIN invites
  BY <1>1, <1>2, StatusWritten DEF Statuses
<1>8. AccessTypeOK'
  BY <1>1, <1>2, <1>3, <1>6, <1>7 DEF AccessTypeOK
<1>9. PeopleAreKnown'
  BY <1>1, <1>2, <1>6 DEF PeopleAreKnown
<1> QED BY <1>2, <1>3, <1>4, <1>5, <1>8, <1>9, AccessUntouched DEF AccessIInv

(* Access is given: whoever had some keeps it, and the audit tells of it.     *)
LEMMA GrantKeeps ==
  ASSUME AccessIInv, NEW r \in ShareRequests, sharing[r].pc \in {"accept", "register", "give"},
         grants' = Activated(sharing[r]), Record("grant", sharing[r].email), Answer(r), Overtake(r)
  PROVE  /\ grants' \in [Emails -> GrantStates] /\ audit' \in Seq(AuditEvents)
         /\ AuditHasLast' /\ AuditTellsAccess'
         /\ \A e \in Emails : grants[e] # "none" => grants'[e] # "none"
         /\ \A e \in Emails : grants'[e] # "none" => grants[e] # "none" \/ e = sharing[r].email
         /\ sharing[r].grant = "none" => grants'[sharing[r].email] # "none"
         /\ \A e \in joined : grants'[e] # "none" /\ \E n \in DOMAIN audit' : audit'[n] = [action |-> "grant", email |-> e]
         /\ \E n \in DOMAIN audit' : audit'[n] = [action |-> "grant", email |-> sharing[r].email]
<1>1. AccessTypeOK /\ ReadIsCurrent /\ AuditHasLast /\ AuditTellsAccess /\ JoinedHaveAccess
  BY DEF AccessIInv
<1>2. PICK f \in Emails : f = sharing[r].email
  BY <1>1, RequestShape DEF Holding
<1>3. /\ audit' \in Seq(AuditEvents) /\ AuditHasLast'
      /\ LastAction(f)' = "grant" /\ \A e \in Emails \ {f} : LastAction(e)' = LastAction(e)
      /\ \A n \in DOMAIN audit : n \in DOMAIN audit' /\ audit'[n] = audit[n]
      /\ \E n \in DOMAIN audit' : audit'[n] = [action |-> "grant", email |-> f]
  BY <1>1, <1>2, Recorded
<1>4. /\ grants' \in [Emails -> GrantStates]
      /\ \A e \in Emails \ {f} : grants'[e] = grants[e]
      /\ grants'[f] = IF sharing[r].grant = "active" THEN grants[f] ELSE "active"
  BY <1>1, <1>2, RequestShape DEF Activated, AccessTypeOK, GrantStates
<1>5. AuditTellsAccess'
  <2>1. SUFFICES ASSUME ~overtaken', NEW e \in Emails PROVE grants'[e] = "active" <=> LastAction(e)' = "grant"
    BY DEF AuditTellsAccess
  <2>2. ~overtaken
    BY <1>1, <2>1, CommitKeepsReads
  <2>3. sharing[r].grant = grants[f]
    BY <1>1, <1>2, <2>2 DEF ReadIsCurrent
  <2>4. CASE e = f
    BY <1>3, <1>4, <2>3, <2>4
  <2>5. CASE e # f
    BY <1>1, <1>3, <1>4, <2>2, <2>5 DEF AuditTellsAccess
  <2> QED BY <2>4, <2>5
<1>6. \A e \in Emails : /\ grants[e] # "none" => grants'[e] # "none"
                        /\ grants'[e] # "none" => grants[e] # "none" \/ e = f
  BY <1>4
<1>7. \A e \in joined : e \in Emails
  BY <1>1 DEF AccessTypeOK
<1>8. \A e \in joined : grants'[e] # "none" /\ \E n \in DOMAIN audit' : audit'[n] = [action |-> "grant", email |-> e]
  BY <1>1, <1>3, <1>6, <1>7 DEF JoinedHaveAccess
<1> QED BY <1>2, <1>3, <1>4, <1>5, <1>6, <1>8

(* The owner gives access to somebody who has an account.                     *)
LEMMA GiveKeeps ==
  ASSUME AccessIInv, NEW r \in ShareRequests, Give(r)
  PROVE  AccessIInv'
<1>1. AccessTypeOK /\ PeopleAreKnown /\ LockInv /\ ReadIsCurrent /\ OnePending
  BY DEF AccessIInv
<1>2. /\ Answer(r) /\ Overtake(r) /\ UNCHANGED <<users, invites, expired, accepts, joined>>
      /\ sharing[r].pc = "give" /\ grants' = Activated(sharing[r]) /\ Record("grant", sharing[r].email)
  BY DEF Give
<1>3. ReadIsCurrent' /\ overtaken' \in BOOLEAN /\ (~overtaken' => ~overtaken)
  BY <1>1, <1>2, CommitKeepsReads
<1>4. /\ grants' \in [Emails -> GrantStates] /\ audit' \in Seq(AuditEvents)
      /\ AuditHasLast' /\ AuditTellsAccess'
      /\ \A e \in Emails : grants'[e] # "none" => grants[e] # "none" \/ e = sharing[r].email
      /\ \A e \in joined : grants'[e] # "none" /\ \E n \in DOMAIN audit' : audit'[n] = [action |-> "grant", email |-> e]
  BY <1>2, GrantKeeps
<1>5. /\ sharing' \in [ShareRequests -> AccessRequestState] /\ sharing'[r].pc = "idle"
      /\ \A o \in ShareRequests \ {r} : sharing'[o] = sharing[o]
  BY <1>1, <1>2, Answered
<1>6. AccessTypeOK'
  BY <1>1, <1>2, <1>3, <1>4, <1>5 DEF AccessTypeOK
<1>7. PeopleAreKnown'
  BY <1>1, <1>2, <1>4, <1>5 DEF PeopleAreKnown
<1>8. LockInv'
  BY <1>1, <1>2, <1>5 DEF LockInv, Holding
<1>9. JoinedHaveAccess' /\ OnePending'
  BY <1>1, <1>2, <1>3, <1>4 DEF JoinedHaveAccess, OnePending, Pending
<1> QED BY <1>3, <1>4, <1>6, <1>7, <1>8, <1>9 DEF AccessIInv

(* The owner takes access away.                                               *)
LEMMA TakeKeeps ==
  ASSUME AccessIInv, NEW r \in ShareRequests, Take(r)
  PROVE  AccessIInv'
<1>1. AccessTypeOK /\ PeopleAreKnown /\ LockInv /\ ReadIsCurrent /\ OnePending /\ AuditHasLast
      /\ AuditTellsAccess /\ JoinedHaveAccess
  BY DEF AccessIInv
<1>f. PICK f \in Emails : f = sharing[r].email
  BY <1>1, RequestShape DEF Take
<1>2. /\ Answer(r) /\ Overtake(r) /\ UNCHANGED <<users, invites, expired, accepts, joined>>
      /\ sharing[r].pc = "take" /\ grants' = [grants EXCEPT ![f] = "revoked"] /\ Record("revoke", f)
  BY <1>f DEF Take
<1>3. ReadIsCurrent' /\ overtaken' \in BOOLEAN /\ (~overtaken' => ~overtaken)
  BY <1>1, <1>2, CommitKeepsReads
<1>4. f \in users
  BY <1>1, <1>2, <1>f DEF PeopleAreKnown
<1>5. /\ audit' \in Seq(AuditEvents) /\ AuditHasLast'
      /\ LastAction(f)' = "revoke" /\ \A e \in Emails \ {f} : LastAction(e)' = LastAction(e)
      /\ \A n \in DOMAIN audit : n \in DOMAIN audit' /\ audit'[n] = audit[n]
  BY <1>1, <1>2, <1>4, Recorded
<1>6. /\ grants' \in [Emails -> GrantStates] /\ grants'[f] = "revoked"
      /\ \A e \in Emails \ {f} : grants'[e] = grants[e]
  BY <1>1, <1>2, <1>4 DEF AccessTypeOK, GrantStates
<1>7. AuditTellsAccess'
  BY <1>1, <1>3, <1>5, <1>6 DEF AuditTellsAccess
<1>8. JoinedHaveAccess' /\ OnePending'
  <2>1. \A e \in joined : e \in Emails
    BY <1>1 DEF AccessTypeOK
  <2> QED BY <1>1, <1>2, <1>3, <1>5, <1>6, <2>1 DEF JoinedHaveAccess, OnePending, Pending
<1>9. /\ sharing' \in [ShareRequests -> AccessRequestState] /\ sharing'[r].pc = "idle"
      /\ \A o \in ShareRequests \ {r} : sharing'[o] = sharing[o]
  BY <1>1, <1>2, Answered
<1>10. AccessTypeOK'
  BY <1>1, <1>2, <1>3, <1>5, <1>6, <1>9 DEF AccessTypeOK
<1>11. PeopleAreKnown'
  BY <1>1, <1>2, <1>4, <1>6, <1>9 DEF PeopleAreKnown
<1>12. LockInv'
  BY <1>1, <1>2, <1>9 DEF LockInv, Holding
<1> QED BY <1>3, <1>5, <1>7, <1>8, <1>10, <1>11, <1>12 DEF AccessIInv

(* Accepting and registering consume the invitation that was held.            *)
LEMMA ConsumeKeeps ==
  ASSUME AccessIInv, NEW r \in ShareRequests, Accept(r) \/ Register(r)
  PROVE  AccessIInv'
<1> DEFINE f == sharing[r].email
           i == sharing[r].id
<1>1. AccessTypeOK /\ PeopleAreKnown /\ LockInv /\ ReadIsCurrent /\ OnePending
  BY DEF AccessIInv
<1>2. /\ Answer(r) /\ Overtake(r) /\ UNCHANGED expired
      /\ sharing[r].pc \in Holding /\ grants' = Activated(sharing[r]) /\ Record("grant", f)
      /\ invites' = [invites EXCEPT ![i].status = "accepted"]
      /\ accepts' = [accepts EXCEPT ![i] = @ + 1]
  BY DEF Accept, Register, Consume, Holding
<1>3. /\ users \subseteq users' /\ users' \subseteq users \cup {f} /\ f \in users'
      /\ joined' \in {joined, joined \cup {f}} /\ (joined' # joined => sharing[r].pc = "register")
  BY <1>1 DEF Accept, Register, PeopleAreKnown
<1>4. i \in DOMAIN invites /\ invites[i] = [email |-> f, status |-> "pending"] /\ f \in Emails
      /\ \A o \in ShareRequests \ {r} : ~Holds(o, i)
  BY <1>1, <1>2, RequestShape DEF LockInv, Holds, Holding
<1>5. ReadIsCurrent' /\ overtaken' \in BOOLEAN /\ (~overtaken' => ~overtaken)
  BY <1>1, <1>2, CommitKeepsReads
<1>6. /\ grants' \in [Emails -> GrantStates] /\ audit' \in Seq(AuditEvents)
      /\ AuditHasLast' /\ AuditTellsAccess'
      /\ \A e \in Emails : grants'[e] # "none" => grants[e] # "none" \/ e = f
      /\ sharing[r].grant = "none" => grants'[f] # "none"
      /\ \A e \in joined : grants'[e] # "none" /\ \E n \in DOMAIN audit' : audit'[n] = [action |-> "grant", email |-> e]
      /\ \E n \in DOMAIN audit' : audit'[n] = [action |-> "grant", email |-> f]
  BY <1>2, GrantKeeps DEF Holding
<1>7. LockInv' /\ (~overtaken /\ ~overtaken' => OnePending') /\ accepts' \in [InviteIds -> Nat]
  <2>1. invites[i].status = "pending"
    BY <1>4
  <2> QED BY <1>2, <1>4, <2>1, StatusKeeps
<1>8. OnePending'
  BY <1>5, <1>7 DEF OnePending
<1>9. /\ sharing' \in [ShareRequests -> AccessRequestState] /\ sharing'[r].pc = "idle"
      /\ \A o \in ShareRequests \ {r} : sharing'[o] = sharing[o]
  BY <1>1, <1>2, Answered
<1>10. invites' \in Seq(Invites) /\ Len(invites') = Len(invites) /\ DOMAIN invites' = DOMAIN invites
  BY <1>1, <1>2, <1>4, StatusWritten DEF Statuses
<1>11. AccessTypeOK'
  BY <1>1, <1>2, <1>3, <1>4, <1>5, <1>6, <1>7, <1>9, <1>10 DEF AccessTypeOK
<1>12. PeopleAreKnown'
  BY <1>1, <1>3, <1>6, <1>9 DEF PeopleAreKnown
<1>13. JoinedHaveAccess'
  <2>1. sharing[r].pc = "register" => sharing[r].grant = "none"
    BY <1>1 DEF PeopleAreKnown
  <2> QED BY <1>3, <1>6, <2>1 DEF JoinedHaveAccess
<1> QED BY <1>5, <1>6, <1>7, <1>8, <1>11, <1>12, <1>13 DEF AccessIInv

(* A request that fails leaves the rows alone and the lock free.              *)
LEMMA RollBackKeeps ==
  ASSUME AccessIInv, NEW r \in ShareRequests, RollBack(r)
  PROVE  AccessIInv'
<1>1. AccessTypeOK /\ PeopleAreKnown /\ LockInv /\ ReadIsCurrent
  BY DEF AccessIInv
<1>2. Answer(r) /\ UNCHANGED <<users, invites, expired, grants, audit, accepts, joined, overtaken>>
  BY DEF RollBack
<1>3. /\ sharing' \in [ShareRequests -> AccessRequestState] /\ sharing'[r].pc = "idle"
      /\ \A o \in ShareRequests \ {r} : sharing'[o] = sharing[o]
  BY <1>1, <1>2, Answered
<1>4. AccessTypeOK'
  BY <1>1, <1>2, <1>3 DEF AccessTypeOK
<1>5. PeopleAreKnown' /\ LockInv'
  BY <1>1, <1>2, <1>3 DEF PeopleAreKnown, LockInv, Holding
<1>6. ReadIsCurrent'
  BY <1>1, <1>2, <1>3 DEF ReadIsCurrent, Pending
<1>7. OnePending'
  BY <1>2 DEF AccessIInv, OnePending, Pending
<1> QED BY <1>2, <1>4, <1>5, <1>6, <1>7, AccessUntouched DEF AccessIInv

(* Somebody makes an account without an invitation.                           *)
LEMMA RegisterAloneKeeps ==
  ASSUME AccessIInv, NEW e \in Emails, RegisterAlone(e)
  PROVE  AccessIInv'
<1>1. AccessTypeOK /\ PeopleAreKnown /\ LockInv /\ ReadIsCurrent
  BY DEF AccessIInv
<1>2. /\ users' = users \cup {e} /\ UNCHANGED <<invites, expired, grants, audit, sharing, accepts, joined>>
      /\ overtaken' \in BOOLEAN /\ (~overtaken' => ~overtaken)
  BY <1>1 DEF RegisterAlone, AccessTypeOK
<1>3. AccessTypeOK'
  BY <1>1, <1>2 DEF AccessTypeOK
<1>4. PeopleAreKnown' /\ LockInv'
  BY <1>1, <1>2 DEF PeopleAreKnown, LockInv
<1>5. ReadIsCurrent' /\ OnePending'
  BY <1>1, <1>2 DEF AccessIInv, ReadIsCurrent, OnePending, Pending
<1> QED BY <1>2, <1>3, <1>4, <1>5, AccessUntouched DEF AccessIInv

(* An invitation runs out of its time; its row stays as it is.                *)
LEMMA InviteExpiresKeeps ==
  ASSUME AccessIInv, InviteExpires
  PROVE  AccessIInv'
<1>1. AccessTypeOK /\ UNCHANGED <<users, invites, grants, audit, sharing, accepts, joined, overtaken>>
  BY DEF AccessIInv, InviteExpires
<1>2. DOMAIN invites = 1..Len(invites) /\ Len(invites) \in Nat
  BY <1>1, InvitesShape
<1>3. expired' \subseteq DOMAIN invites
  <2>1. IsFiniteSet(expired)
    <3>1. IsFiniteSet(1..Len(invites))
      BY <1>2, FS_Interval
    <3> QED BY <1>1, <1>2, <3>1, FS_Subset DEF AccessTypeOK
  <2>2. Cardinality(expired) \in Nat
    BY <2>1, FS_CardinalityType
  <2> QED BY <1>2, <2>2 DEF InviteExpires
<1>4. AccessTypeOK'
  BY <1>1, <1>3 DEF AccessTypeOK
<1>5. PeopleAreKnown' /\ LockInv' /\ ReadIsCurrent' /\ OnePending'
  BY <1>1 DEF AccessIInv, PeopleAreKnown, LockInv, ReadIsCurrent, OnePending, Pending
<1> QED BY <1>1, <1>4, <1>5, AccessUntouched DEF AccessIInv

(* At the start nobody has access and nothing is asked.                       *)
LEMMA AccessStart == AccessInit => AccessIInv
<1> SUFFICES ASSUME AccessInit PROVE AccessIInv
  OBVIOUS
<1>1. invites = << >> /\ DOMAIN invites = {} /\ Len(invites) = 0 /\ audit = << >> /\ DOMAIN audit = {}
  BY DEF AccessInit
<1>2. invites \in Seq(Invites) /\ audit \in Seq(AuditEvents)
  BY <1>1
<1>3. \A r \in ShareRequests : sharing[r] = Unasked /\ sharing[r].pc = "idle"
  BY DEF AccessInit, Unasked
<1>4. sharing \in [ShareRequests -> AccessRequestState]
  BY DEF AccessInit, AccessRequestState
<1>5. AccessTypeOK
  <2>1. Len(invites) <= MaxInvites
    BY <1>1, StoreAccessBounds
  <2>2. users \subseteq Emails /\ expired \subseteq DOMAIN invites /\ joined \subseteq users /\ overtaken \in BOOLEAN
    BY DEF AccessInit
  <2>3. grants \in [Emails -> GrantStates] /\ accepts \in [InviteIds -> Nat]
    BY DEF AccessInit, GrantStates
  <2> QED BY <1>2, <1>4, <2>1, <2>2, <2>3 DEF AccessTypeOK
<1>6. PeopleAreKnown /\ LockInv /\ ReadIsCurrent
  BY <1>3 DEF AccessInit, PeopleAreKnown, LockInv, ReadIsCurrent, Holding
<1>7. JoinedHaveAccess /\ OnePending
  BY <1>1 DEF AccessInit, JoinedHaveAccess, OnePending, Pending
<1>8. AuditHasLast /\ AuditTellsAccess
  BY <1>1 DEF AccessInit, AuditHasLast, EventsOf, AuditTellsAccess, LastAction
<1> QED BY <1>5, <1>6, <1>7, <1>8 DEF AccessIInv

(* What every request reads as it begins.                                     *)
LEMMA AsksKeep ==
  ASSUME AccessIInv, NEW r \in ShareRequests
  PROVE  /\ \A e \in Emails : AskInvite(r, e) \/ AskGive(r, e) \/ AskTake(r, e) => AccessIInv'
         /\ \A i \in DOMAIN invites : AskWithdraw(r, i) => AccessIInv'
         /\ \A e \in Emails, i \in DOMAIN invites : AskAccept(r, i, e) \/ AskRegister(r, i, e) => AccessIInv'
<1>1. /\ DOMAIN invites \subseteq InviteIds /\ grants \in [Emails -> GrantStates] /\ "none" \in GrantStates
      /\ \A e \in Emails : Pending(e) \in SUBSET InviteIds /\ (grants[e] # "none" => e \in users)
      /\ \A i \in DOMAIN invites : invites[i] \in Invites
  BY InvitesShape DEF AccessIInv, AccessTypeOK, PeopleAreKnown, Pending, GrantStates
<1>2. ASSUME NEW e \in Emails, AskInvite(r, e) PROVE AccessIInv'
  <2> DEFINE q == [pc |-> "invite", email |-> e, old |-> Pending(e)]
  <2>1. q \in AccessRequestState /\ Ask(r, q)
    BY <1>1, <1>2 DEF AskInvite, AccessRequestState
  <2> QED BY <2>1, AskKeeps DEF Holding
<1>3. ASSUME NEW e \in Emails, AskGive(r, e) PROVE AccessIInv'
  <2> DEFINE q == [pc |-> "give", email |-> e, grant |-> grants[e]]
  <2>1. q \in AccessRequestState /\ Ask(r, q) /\ e \in users
    BY <1>1, <1>3 DEF AskGive, AccessRequestState
  <2> QED BY <2>1, AskKeeps DEF Holding
<1>4. ASSUME NEW e \in Emails, AskTake(r, e) PROVE AccessIInv'
  <2> DEFINE q == [pc |-> "take", email |-> e, grant |-> "active"]
  <2>1. q \in AccessRequestState /\ Ask(r, q) /\ e \in users /\ grants[e] = "active"
    BY <1>1, <1>4 DEF AskTake, AccessRequestState, GrantStates
  <2> QED BY <2>1, AskKeeps DEF Holding
<1>5. ASSUME NEW i \in DOMAIN invites, AskWithdraw(r, i) PROVE AccessIInv'
  <2> DEFINE q == [pc |-> "withdraw", id |-> i]
  <2>1. q \in AccessRequestState /\ Ask(r, q)
    BY <1>1, <1>5 DEF AskWithdraw, AccessRequestState
  <2> QED BY <2>1, AskKeeps DEF Holding
<1>6. ASSUME NEW e \in Emails, NEW i \in DOMAIN invites, AskAccept(r, i, e) PROVE AccessIInv'
  <2> DEFINE q == [pc |-> "accept", id |-> i, email |-> e, grant |-> grants[e]]
  <2>1. q \in AccessRequestState /\ Ask(r, q) /\ e \in users /\ \A o \in ShareRequests : ~Holds(o, i)
    BY <1>1, <1>6 DEF AskAccept, AccessRequestState, RowIsFree
  <2>2. invites[i] = [email |-> e, status |-> "pending"]
    BY <1>1, <1>6 DEF AskAccept, Acceptable, Invites
  <2> QED BY <2>1, <2>2, AskKeeps DEF Holding
<1>7. ASSUME NEW e \in Emails, NEW i \in DOMAIN invites, AskRegister(r, i, e) PROVE AccessIInv'
  <2> DEFINE q == [pc |-> "register", id |-> i, email |-> e, grant |-> "none"]
  <2>1. q \in AccessRequestState /\ Ask(r, q) /\ \A o \in ShareRequests : ~Holds(o, i)
    BY <1>1, <1>7 DEF AskRegister, AccessRequestState, RowIsFree
  <2>2. invites[i] = [email |-> e, status |-> "pending"] /\ grants[e] = "none"
    BY <1>1, <1>7 DEF AskRegister, Acceptable, Invites
  <2> QED BY <2>1, <2>2, AskKeeps DEF Holding
<1> QED BY <1>2, <1>3, <1>4, <1>5, <1>6, <1>7

(* Every step keeps all of it.                                                *)
LEMMA AccessStep == AccessIInv /\ [AccessNext]_accessVars => AccessIInv'
<1> SUFFICES ASSUME AccessIInv, [AccessNext]_accessVars PROVE AccessIInv'
  OBVIOUS
<1>1. CASE UNCHANGED accessVars
  <2>1. UNCHANGED <<users, invites, expired, grants, audit, sharing, accepts, joined, overtaken>>
    BY <1>1 DEF accessVars
  <2>2. AccessTypeOK' /\ PeopleAreKnown' /\ LockInv'
    BY <2>1 DEF AccessIInv, AccessTypeOK, PeopleAreKnown, LockInv
  <2>3. ReadIsCurrent' /\ OnePending'
    BY <2>1 DEF AccessIInv, ReadIsCurrent, OnePending, Pending
  <2> QED BY <2>1, <2>2, <2>3, AccessUntouched DEF AccessIInv
<1>2. CASE AccessNext
  <2>1. ASSUME NEW r \in ShareRequests, NEW e \in Emails,
               \/ AskInvite(r, e) \/ AskGive(r, e) \/ AskTake(r, e)
               \/ \E i \in DOMAIN invites : AskAccept(r, i, e) \/ AskRegister(r, i, e)
        PROVE  AccessIInv'
    BY <2>1, AsksKeep
  <2>2. ASSUME NEW r \in ShareRequests,
               \/ \E i \in DOMAIN invites : AskWithdraw(r, i)
               \/ MakeInvite(r) \/ Withdraw(r) \/ Accept(r) \/ Register(r)
               \/ Give(r) \/ Take(r) \/ RollBack(r)
        PROVE  AccessIInv'
    BY <2>2, AsksKeep, MakeInviteKeeps, WithdrawKeeps, ConsumeKeeps, GiveKeeps, TakeKeeps, RollBackKeeps
  <2>3. ASSUME NEW e \in Emails, RegisterAlone(e) PROVE AccessIInv'
    BY <2>3, RegisterAloneKeeps
  <2> QED BY <1>2, <2>1, <2>2, <2>3, InviteExpiresKeeps DEF AccessNext
<1> QED BY <1>1, <1>2

(* All of it together, at every moment.                                       *)
LEMMA AccessAlways == AccessSpec => []AccessIInv
BY AccessStart, AccessStep, PTL DEF AccessSpec

(* An invitation is accepted once, who came by it has access, and to an owner *)
(* whom nobody overtook the audit and the list of invitations tell the truth. *)
THEOREM AccessHolds == AccessSpec => []AccessInv
<1>1. AccessIInv => AccessInv
  <2> SUFFICES ASSUME AccessIInv PROVE AccessInv
    OBVIOUS
  <2>1. AcceptedOnce
    BY DEF AccessIInv, LockInv, AcceptedOnce
  <2>2. OneCurrentInvite
    <3>1. SUFFICES ASSUME ~overtaken, NEW e \in Emails PROVE Cardinality(Pending(e)) <= 1
      BY DEF OneCurrentInvite
    <3>2. CASE Pending(e) = {}
      BY <3>2, FS_EmptySet
    <3>3. CASE Pending(e) # {}
      <4>1. PICK i \in Pending(e) : \A j \in Pending(e) : i = j
        BY <3>1, <3>3 DEF AccessIInv, OnePending
      <4>2. Pending(e) = {i}
        BY <4>1
      <4> QED BY <4>2, FS_Singleton
    <3> QED BY <3>2, <3>3
  <2> QED BY <2>1, <2>2 DEF AccessIInv, AccessInv
<1> QED BY <1>1, AccessAlways, PTL

(* What is accepted was pending then: neither withdrawn nor replaced by an    *)
(* owner who read before the lock and wrote after it.                         *)
THEOREM WithdrawnStaysOut == AccessSpec => WithdrawnIsNotAccepted
<1>1. AccessIInv /\ [AccessNext]_accessVars =>
        [\A i \in DOMAIN invites : accepts'[i] > accepts[i] => invites[i].status = "pending"]_accessVars
  <2> SUFFICES ASSUME AccessIInv, AccessNext, NEW i \in DOMAIN invites, accepts'[i] > accepts[i]
               PROVE  invites[i].status = "pending"
    OBVIOUS
  <2>1. accepts[i] \in Nat /\ accepts \in [InviteIds -> Nat]
    BY InvitesShape DEF AccessIInv, AccessTypeOK
  <2>2. PICK r \in ShareRequests : Accept(r) \/ Register(r)
    <3>1. accepts' # accepts
      BY <2>1
    <3> QED BY <3>1 DEF AccessNext, AskInvite, AskGive, AskTake, AskAccept, AskRegister, AskWithdraw, Ask,
            MakeInvite, Withdraw, Give, Take, RollBack, RegisterAlone, InviteExpires
  <2>3. sharing[r].pc \in Holding /\ accepts' = [accepts EXCEPT ![sharing[r].id] = @ + 1]
    BY <2>2 DEF Accept, Register, Consume, Holding
  <2>4. i = sharing[r].id
    BY <2>1, <2>3
  <2>5. invites[i] = [email |-> sharing[r].email, status |-> "pending"]
    BY <2>3, <2>4 DEF AccessIInv, LockInv
  <2> QED BY <2>5
<1> QED BY <1>1, AccessAlways, PTL DEF AccessSpec, WithdrawnIsNotAccepted

-----------------------------------------------------------------------------
(* Trial, subscription, payments and invoices. *)

SellerOps == {"trial", "expire", "hook", "sync", "paid"}
PaymentOps == {"hook", "sync"}
Reading(r) == request[r].pc \in {"license", "commit"}

(* What a running request is about is there, and was paid at the provider.    *)
RequestsKnowTheirRows ==
  \A r \in Requests :
    /\ Reading(r) /\ request[r].op \in PaymentOps =>
         request[r].id \in PaymentIds /\ provider[request[r].id] = "succeeded"
    /\ Reading(r) /\ request[r].op = "paid" => request[r].id \in DOMAIN invoices
    /\ request[r].pc = "locked" => request[r].issued \subseteq DOMAIN invoices

(* Payments are numbered as they are made.                                    *)
PaymentsAreNumbered ==
  \E n \in 0..MaxPayments : \A p \in PaymentIds : provider[p] # "none" <=> p <= n

(* One request holds the lock, and it has every invoice that is to be paid.   *)
LockedKnowsIssued ==
  /\ \A r, o \in Requests : request[r].pc = "locked" /\ request[o].pc = "locked" => r = o
  /\ \A r \in Requests : request[r].pc = "locked" => Issued \subseteq request[r].issued
  /\ \A m, n \in Issued : m = n

(* As long as nobody was overtaken, what was read is still so, and whoever is *)
(* about to be shut out has no paid time ahead.                               *)
ReadIsStillSo ==
  ~raced => \A r \in Requests : Reading(r) =>
    /\ request[r].seen = sub
    /\ request[r].pc = "commit" => request[r].lic = lic
    /\ request[r].op = "expire" => sub.periodEnd <= today

BillingIInv == /\ BillingInv /\ RequestsKnowTheirRows /\ PaymentsAreNumbered
               /\ LockedKnowsIssued /\ ReadIsStillSo

(* A flush writes the columns that changed in memory.                         *)
LEMMA FlushedRow ==
  ASSUME NEW row \in SubRow, NEW seen \in SubRow, NEW new \in SubRow
  PROVE  /\ Flush(row, seen, new) \in SubRow
         /\ row = seen => Flush(row, seen, new) = new
<1>1. /\ DOMAIN row = {"status", "trialEnd", "periodEnd"}
      /\ DOMAIN new = {"status", "trialEnd", "periodEnd"}
  BY DEF SubRow
<1>2. Flush(row, seen, new) =
        [status   |-> IF new.status # seen.status THEN new.status ELSE row.status,
         trialEnd |-> IF new.trialEnd # seen.trialEnd THEN new.trialEnd ELSE row.trialEnd,
         periodEnd |-> IF new.periodEnd # seen.periodEnd THEN new.periodEnd ELSE row.periodEnd]
  BY <1>1 DEF Flush
<1>3. new = [status |-> new.status, trialEnd |-> new.trialEnd, periodEnd |-> new.periodEnd]
  BY DEF SubRow
<1> QED BY <1>2, <1>3 DEF SubRow

LicenseState == [pc : {"license"}, op : SellerOps, id : Nat, seen : SubRow]
CommitState == [pc : {"commit"}, op : SellerOps, id : Nat, seen : SubRow, lic : LicStatuses]
LockState == [pc : {"lock"}, kind : Kinds, from : Nat]
LockedState == [pc : {"locked"}, kind : Kinds, from : Nat, issued : SUBSET Nat]

(* A request is idle, or has what its step needs.                             *)
LEMMA RequestShapes ==
  ASSUME TypeOK, NEW r \in Requests
  PROVE  /\ request[r] \in RequestState
         /\ request[r].pc \in {"idle", "get", "license", "commit", "lock", "locked"}
         /\ request[r].pc = "idle" <=> request[r] = Idle
         /\ request[r].pc = "get" => request[r].pay \in PaymentIds
         /\ request[r].pc = "license" => request[r] \in LicenseState
         /\ request[r].pc = "commit" => request[r] \in CommitState
         /\ Reading(r) => /\ request[r].op \in SellerOps /\ request[r].id \in Nat /\ request[r].seen \in SubRow
                          /\ request[r].pc = "commit" => request[r].lic \in LicStatuses
         /\ request[r].pc = "lock" => request[r] \in LockState
         /\ request[r].pc = "locked" => request[r] \in LockedState
<1>1. request[r] \in RequestState
  BY DEF TypeOK
<1>2. CASE request[r] = Idle
  BY <1>1, <1>2 DEF Idle, Reading
<1>3. CASE request[r] \in [pc : {"get"}, pay : PaymentIds]
  BY <1>1, <1>3 DEF Idle, Reading
<1>4. CASE request[r] \in LicenseState
  BY <1>1, <1>4 DEF Idle, Reading, LicenseState
<1>5. CASE request[r] \in CommitState
  BY <1>1, <1>5 DEF Idle, Reading, CommitState
<1>6. CASE request[r] \in LockState \cup LockedState
  BY <1>1, <1>6 DEF Idle, Reading, LockState, LockedState
<1> QED BY <1>1, <1>2, <1>3, <1>4, <1>5, <1>6
        DEF RequestState, LicenseState, CommitState, LockState, LockedState, SellerOps

(* The states a request can be in.                                            *)
LEMMA StatesOfRequests ==
  /\ Idle \in RequestState /\ LicenseState \subseteq RequestState /\ CommitState \subseteq RequestState
  /\ LockState \subseteq RequestState /\ LockedState \subseteq RequestState
  /\ [pc : {"get"}, pay : PaymentIds] \subseteq RequestState
  /\ Idle.pc = "idle"
BY DEF RequestState, LicenseState, CommitState, LockState, LockedState, SellerOps, Idle

(* What a request writes about itself.                                        *)
LEMMA RequestWrites ==
  ASSUME TypeOK, NEW r \in Requests, NEW q \in RequestState, request' = [request EXCEPT ![r] = q]
  PROVE  /\ request' \in [Requests -> RequestState] /\ request'[r] = q
         /\ \A o \in Requests \ {r} : request'[o] = request[o]
BY DEF TypeOK

(* A request that has read the subscription goes on to the licence.           *)
LEMMA Waits ==
  ASSUME TypeOK, NEW r \in Requests, NEW op \in SellerOps, NEW id \in Nat, Wait(r, op, id)
  PROVE  /\ request' \in [Requests -> RequestState]
         /\ request'[r].pc = "license" /\ request'[r].op = op /\ request'[r].id = id /\ request'[r].seen = sub
         /\ \A o \in Requests \ {r} : request'[o] = request[o]
<1> DEFINE q == [pc |-> "license", op |-> op, id |-> id, seen |-> sub]
<1>1. q \in LicenseState /\ q \in RequestState
  BY StatesOfRequests DEF TypeOK, LicenseState
<1>2. request' = [request EXCEPT ![r] = q]
  BY DEF Wait
<1>3. q.pc = "license" /\ q.op = op /\ q.id = id /\ q.seen = sub
  OBVIOUS
<1> HIDE DEF q
<1> QED BY <1>1, <1>2, <1>3, RequestWrites

(* A request that commits or dies is idle again.                              *)
LEMMA Ends ==
  ASSUME TypeOK, NEW r \in Requests, Done(r)
  PROVE  /\ request' \in [Requests -> RequestState] /\ request'[r] = Idle /\ request'[r].pc = "idle"
         /\ \A o \in Requests \ {r} : request'[o] = request[o]
BY StatesOfRequests, RequestWrites DEF Done

(* The licence is read, and what was read before is kept.                     *)
LEMMA LicenseRead ==
  ASSUME TypeOK, NEW r \in Requests, ReadLicense(r)
  PROVE  /\ request' \in [Requests -> RequestState]
         /\ request'[r].pc = "commit" /\ request'[r].op = request[r].op /\ request'[r].id = request[r].id
         /\ request'[r].seen = request[r].seen /\ request'[r].lic = lic
         /\ \A o \in Requests \ {r} : request'[o] = request[o]
<1> DEFINE q == [pc |-> "commit", op |-> request[r].op, id |-> request[r].id, seen |-> request[r].seen, lic |-> lic]
<1>1. request[r].op \in SellerOps /\ request[r].id \in Nat /\ request[r].seen \in SubRow /\ lic \in LicStatuses
  BY RequestShapes DEF ReadLicense, Reading, TypeOK
<1>2. q \in CommitState /\ q \in RequestState
  BY <1>1, StatesOfRequests DEF CommitState
<1>3. request' = [request EXCEPT ![r] = q]
  BY DEF ReadLicense
<1>4. q.pc = "commit" /\ q.op = request[r].op /\ q.id = request[r].id /\ q.seen = request[r].seen /\ q.lic = lic
  OBVIOUS
<1> HIDE DEF q
<1> QED BY <1>2, <1>3, <1>4, RequestWrites

(* A request for an invoice waits for the lock.                               *)
LEMMA InvoiceAsked ==
  ASSUME TypeOK, NEW r \in Requests, NEW k \in Kinds, AskInvoice(r, k)
  PROVE  /\ request' \in [Requests -> RequestState] /\ request'[r].pc = "lock"
         /\ \A o \in Requests \ {r} : request'[o] = request[o]
<1> DEFINE q == [pc |-> "lock", kind |-> k, from |-> InvoiceStart(sub, today)]
<1>1. InvoiceStart(sub, today) \in Nat
  BY DEF InvoiceStart, TypeOK, SubRow
<1>2. q \in LockState /\ q \in RequestState /\ q.pc = "lock"
  BY <1>1, StatesOfRequests DEF LockState
<1>3. request' = [request EXCEPT ![r] = q]
  BY DEF AskInvoice
<1> HIDE DEF q
<1> QED BY <1>2, <1>3, RequestWrites

(* A request that gets the lock knows what is still to be paid.               *)
LEMMA InvoicesLocked ==
  ASSUME TypeOK, NEW r \in Requests, LockInvoices(r)
  PROVE  /\ request' \in [Requests -> RequestState] /\ request'[r].pc = "locked"
         /\ request'[r].issued = Issued
         /\ \A o \in Requests \ {r} : request'[o] = request[o]
<1> DEFINE q == [pc |-> "locked", kind |-> request[r].kind, from |-> request[r].from, issued |-> Issued]
<1>1. request[r].kind \in Kinds /\ request[r].from \in Nat
  BY RequestShapes DEF LockInvoices, LockState
<1>2. Issued \in SUBSET Nat
  BY DEF Issued
<1>3. q \in LockedState /\ q \in RequestState /\ q.pc = "locked" /\ q.issued = Issued
  BY <1>1, <1>2, StatesOfRequests DEF LockedState
<1>4. request' = [request EXCEPT ![r] = q]
  BY DEF LockInvoices
<1> HIDE DEF q
<1> QED BY <1>3, <1>4, RequestWrites

(* What the four changes of a subscription do to it.                          *)
LEMMA SubscriptionChanges ==
  ASSUME NEW row \in SubRow, NEW d \in Nat
  PROVE  /\ StartTrial(row, d) \in SubRow /\ StartTrial(row, d).status = "trial"
         /\ StartTrial(row, d).periodEnd = row.periodEnd
         /\ Expire(row) \in SubRow /\ Expire(row).periodEnd = row.periodEnd
         /\ Activate(row, d) \in SubRow /\ Activate(row, d).status = "active"
         /\ Activate(row, d).periodEnd >= row.periodEnd
         /\ PayInvoice(row, d) \in SubRow /\ PayInvoice(row, d).status = "active"
         /\ PayInvoice(row, d).periodEnd >= row.periodEnd
         /\ row.periodEnd \in Nat
<1>1. /\ TrialDays \in Nat /\ SubscriptionDays \in Nat
      /\ row \in [status : SubStatuses, trialEnd : Nat, periodEnd : Nat]
      /\ {"trial", "active", "expired"} \subseteq SubStatuses
  BY BillingAssumption DEF SubRow, SubStatuses
<1>2. d + TrialDays \in Nat /\ ActivateFrom(row, d) \in Nat /\ ActivateFrom(row, d) >= row.periodEnd
  BY <1>1 DEF ActivateFrom
<1>3. ActivateFrom(row, d) + SubscriptionDays \in Nat /\ ActivateFrom(row, d) + SubscriptionDays >= row.periodEnd
  BY <1>1, <1>2
<1>4. /\ StartTrial(row, d) \in SubRow /\ StartTrial(row, d).status = "trial"
      /\ StartTrial(row, d).periodEnd = row.periodEnd
  BY <1>1, <1>2 DEF StartTrial, SubRow
<1>5. Expire(row) \in SubRow /\ Expire(row).periodEnd = row.periodEnd
  BY <1>1 DEF Expire, SubRow
<1>6. /\ Activate(row, d) \in SubRow /\ Activate(row, d).status = "active"
      /\ Activate(row, d).periodEnd >= row.periodEnd
  BY <1>1, <1>3 DEF Activate, SubRow
<1>7. /\ PayInvoice(row, d) \in SubRow /\ PayInvoice(row, d).status = "active"
      /\ PayInvoice(row, d).periodEnd >= row.periodEnd
  <2> DEFINE e == IF row.periodEnd = 0 \/ row.periodEnd < d THEN d ELSE row.periodEnd
  <2>1. row.periodEnd \in Nat /\ e \in Nat /\ e >= row.periodEnd
    BY <1>1
  <2>2. PayInvoice(row, d) = [row EXCEPT !.status = "active", !.periodEnd = e]
    BY <1>1 DEF PayInvoice
  <2> HIDE DEF e
  <2> QED BY <1>1, <2>1, <2>2 DEF SubRow
<1> QED BY <1>1, <1>4, <1>5, <1>6, <1>7

(* What a commit leaves in the two rows of the account.  If nobody wrote them *)
(* since they were read, paid time and a lifetime licence are still there,    *)
(* and all but one who is shut out are let in.                                *)
LEMMA AccountWritten ==
  ASSUME TypeOK, NEW q \in CommitState, q.op = "paid" => q.id \in DOMAIN invoices, WriteAccount(q)
  PROVE  /\ sub' \in SubRow /\ lic' \in LicStatuses
         /\ q.seen = sub /\ q.lic = lic =>
              /\ sub'.periodEnd >= sub.periodEnd
              /\ lic = "lifetime" => lic' = "lifetime"
              /\ q.op = "expire" => sub'.periodEnd = sub.periodEnd
              /\ q.op # "expire" => sub'.status \in {"trial", "active"}
<1>1. /\ q.seen \in SubRow /\ q.lic \in LicStatuses /\ q.op \in SellerOps
      /\ sub \in SubRow /\ lic \in LicStatuses /\ today \in Nat /\ today > 0
  BY DEF TypeOK, CommitState
<1>2. /\ NewSub(q) \in SubRow
      /\ NewSub(q).periodEnd >= q.seen.periodEnd
      /\ q.op = "expire" => NewSub(q).periodEnd = q.seen.periodEnd
      /\ q.op # "expire" => NewSub(q).status \in {"trial", "active"}
  <2>1. CASE q.op = "trial"
    BY <1>1, <2>1, SubscriptionChanges DEF NewSub
  <2>2. CASE q.op = "expire"
    BY <1>1, <2>2, SubscriptionChanges DEF NewSub
  <2>3. CASE q.op \in PaymentOps
    BY <1>1, <2>3, SubscriptionChanges DEF NewSub, PaymentOps
  <2>4. CASE q.op = "paid"
    <3>1. invoices[q.id].to \in Nat
      <4>1. invoices[q.id] \in Invoice
        BY <2>4 DEF TypeOK
      <4> QED BY <4>1 DEF Invoice
    <3> QED BY <1>1, <2>4, <3>1, SubscriptionChanges DEF NewSub
  <2> QED BY <1>1, <2>1, <2>2, <2>3, <2>4 DEF SellerOps, PaymentOps
<1>3. sub' \in SubRow /\ (q.seen = sub => sub' = NewSub(q))
  BY <1>1, <1>2, FlushedRow DEF WriteAccount
<1>4. NewLicense(q) \in LicStatuses /\ (q.lic = "lifetime" => NewLicense(q) = "lifetime")
  BY <1>1 DEF NewLicense, UpsertLicense, LicStatuses, SellerOps
<1>5. lic' \in LicStatuses /\ (q.lic = lic /\ lic = "lifetime" => lic' = "lifetime")
  BY <1>1, <1>4 DEF WriteAccount, FlushLicense
<1> QED BY <1>2, <1>3, <1>5

(* All but the invoice that is given again are cancelled.                     *)
LEMMA OthersCancelled ==
  ASSUME invoices \in Seq(Invoice), NEW q
  PROVE  /\ CancelOthers(q) \in Seq(Invoice) /\ Len(CancelOthers(q)) = Len(invoices)
         /\ DOMAIN CancelOthers(q) = 1..Len(invoices)
         /\ \A n \in 1..Len(invoices) :
              CancelOthers(q)[n].status = IF n \in q.issued \ Reusable(q) THEN "cancelled" ELSE invoices[n].status
<1>1. /\ DOMAIN invoices = 1..Len(invoices) /\ Len(invoices) \in Nat
      /\ \A n \in 1..Len(invoices) : invoices[n] \in Invoice
  OBVIOUS
<1> DEFINE new(n) == IF n \in q.issued \ Reusable(q) THEN [invoices[n] EXCEPT !.status = "cancelled"] ELSE invoices[n]
<1>2. CancelOthers(q) = [n \in 1..Len(invoices) |-> new(n)]
  BY <1>1 DEF CancelOthers
<1>3. \A n \in 1..Len(invoices) :
        /\ new(n) \in Invoice
        /\ new(n).status = IF n \in q.issued \ Reusable(q) THEN "cancelled" ELSE invoices[n].status
  BY <1>1 DEF Invoice
<1> HIDE DEF new
<1>4. CancelOthers(q) \in [1..Len(invoices) -> Invoice]
  BY <1>2, <1>3
<1>5. CancelOthers(q) \in Seq(Invoice) /\ Len(CancelOthers(q)) = Len(invoices)
  BY <1>1, <1>4, IsASeq
<1> QED BY <1>2, <1>3, <1>4, <1>5

(* An invoice that is paid is a paid one, and the others are as before.       *)
LEMMA InvoicePaid ==
  ASSUME invoices \in Seq(Invoice), NEW n \in DOMAIN invoices, invoices' = [invoices EXCEPT ![n].status = "paid"]
  PROVE  /\ invoices' \in Seq(Invoice) /\ Len(invoices') = Len(invoices) /\ DOMAIN invoices' = DOMAIN invoices
         /\ invoices'[n].status = "paid"
         /\ \A m \in DOMAIN invoices \ {n} : invoices'[m] = invoices[m]
<1>1. /\ DOMAIN invoices = 1..Len(invoices) /\ Len(invoices) \in Nat
      /\ invoices \in [1..Len(invoices) -> Invoice] /\ invoices[n] \in Invoice
  OBVIOUS
<1>2. [invoices[n] EXCEPT !.status = "paid"] \in Invoice /\ [invoices[n] EXCEPT !.status = "paid"].status = "paid"
  BY <1>1 DEF Invoice
<1>3. invoices' = [invoices EXCEPT ![n] = [invoices[n] EXCEPT !.status = "paid"]]
  OBVIOUS
<1>4. /\ invoices' \in [1..Len(invoices) -> Invoice] /\ invoices'[n].status = "paid"
      /\ \A m \in DOMAIN invoices \ {n} : invoices'[m] = invoices[m]
  BY <1>1, <1>2, <1>3
<1> QED BY <1>1, <1>4, IsASeq

(* An invoice is given again or added, and all others are cancelled.          *)
LEMMA InvoiceIssued ==
  ASSUME TypeOK, NEW r \in Requests, IssueInvoice(r)
  PROVE  /\ invoices' \in Seq(Invoice) /\ Len(invoices) <= Len(invoices')
         /\ \A n \in Issued' : \/ n \in Issued \ (request[r].issued \ Reusable(request[r]))
                               \/ n = Len(invoices) + 1 /\ Reusable(request[r]) = {}
<1> DEFINE q == request[r]
           new == [from |-> q.from, to |-> InvoiceEnd(q.from), kind |-> q.kind, status |-> "issued"]
<1>1. q.from \in Nat /\ q.kind \in Kinds /\ invoices \in Seq(Invoice) /\ Len(invoices) \in Nat
  BY RequestShapes DEF IssueInvoice, LockedState, TypeOK
<1>2. new \in Invoice
  BY <1>1, BillingAssumption DEF Invoice, InvoiceEnd
<1>3. invoices' = IF Reusable(q) # {} THEN CancelOthers(q) ELSE Append(CancelOthers(q), new)
  BY DEF IssueInvoice
<1> HIDE DEF q, new
<1>4. /\ CancelOthers(q) \in Seq(Invoice) /\ Len(CancelOthers(q)) = Len(invoices)
      /\ \A n \in 1..Len(invoices) :
            CancelOthers(q)[n].status = IF n \in q.issued \ Reusable(q) THEN "cancelled" ELSE invoices[n].status
  BY <1>1, OthersCancelled
<1>5. CASE Reusable(q) # {}
  <2>1. invoices' = CancelOthers(q)
    BY <1>3, <1>5
  <2> QED BY <1>1, <1>4, <2>1 DEF Issued, q
<1>6. CASE Reusable(q) = {}
  <2>1. invoices' = Append(CancelOthers(q), new)
    BY <1>3, <1>6
  <2>2. /\ invoices' \in Seq(Invoice) /\ Len(invoices') = Len(invoices) + 1
        /\ \A n \in 1..Len(invoices) : invoices'[n] = CancelOthers(q)[n]
    BY <1>1, <1>2, <1>4, <2>1, AppendProperties
  <2> QED BY <1>1, <1>4, <1>6, <2>2 DEF Issued, q
<1> QED BY <1>5, <1>6

(* The types of the rows, the requests and the history after any step.        *)
LEMMA BillingTypeStep ==
  ASSUME BillingIInv, [Next]_vars PROVE TypeOK'
<1> DEFINE Rest == /\ today' \in 1..LastDay /\ hasStore' \in BOOLEAN /\ raced' \in BOOLEAN
           Account == sub' \in SubRow /\ lic' \in LicStatuses
           Money == /\ payment' \in [PaymentIds -> {"none", "pending", "succeeded", "failed"}]
                    /\ provider' \in [PaymentIds -> {"none", "pending", "succeeded", "canceled"}]
                    /\ events' \subseteq PaymentIds /\ credits' \in [PaymentIds -> Nat]
                    /\ returned' \subseteq PaymentIds
           Goal == Rest /\ Account /\ Money /\ invoices' \in Seq(Invoice) /\ request' \in [Requests -> RequestState]
<1>0. /\ TypeOK /\ RequestsKnowTheirRows /\ LastDay \in Nat
      /\ today \in 1..LastDay /\ hasStore \in BOOLEAN /\ raced \in BOOLEAN
      /\ sub \in SubRow /\ lic \in LicStatuses
      /\ payment \in [PaymentIds -> {"none", "pending", "succeeded", "failed"}]
      /\ provider \in [PaymentIds -> {"none", "pending", "succeeded", "canceled"}]
      /\ events \subseteq PaymentIds /\ credits \in [PaymentIds -> Nat] /\ returned \subseteq PaymentIds
      /\ invoices \in Seq(Invoice) /\ request \in [Requests -> RequestState]
      /\ PaymentIds \subseteq Nat /\ SellerOps = {"trial", "expire", "hook", "sync", "paid"}
  BY BillingBounds DEF BillingIInv, BillingInv, TypeOK, PaymentIds, SellerOps
<1>1. ASSUME NEW r \in Requests,
             \/ VisitStartsTrial(r) \/ VisitExpires(r) \/ (\E p \in PaymentIds : HookArrives(r, p))
             \/ (\E n \in DOMAIN invoices : AskPaid(r, n)) \/ ReadLicense(r) \/ RequestDies(r)
             \/ (\E k \in Kinds : AskInvoice(r, k)) \/ LockInvoices(r) \/ SyncPicks(r)
      PROVE  Goal
  <2>1. Rest /\ Account /\ Money /\ invoices' \in Seq(Invoice)
    BY <1>0, <1>1 DEF VisitStartsTrial, VisitExpires, HookArrives, AskPaid, ReadLicense, RequestDies,
                      AskInvoice, LockInvoices, SyncPicks, Unread
  <2>2. request' \in [Requests -> RequestState]
    <3>1. CASE VisitStartsTrial(r) \/ VisitExpires(r)
      BY <1>0, <3>1, Waits DEF VisitStartsTrial, VisitExpires
    <3>2. CASE \E p \in PaymentIds : HookArrives(r, p)
      BY <1>0, <3>2, Waits DEF HookArrives
    <3>3. CASE \E n \in DOMAIN invoices : AskPaid(r, n)
      BY <1>0, <3>3, Waits DEF AskPaid
    <3>4. CASE RequestDies(r)
      BY <1>0, <3>4, Ends DEF RequestDies
    <3>5. CASE SyncPicks(r)
      <4>1. PICK p \in PaymentIds : request' = [request EXCEPT ![r] = [pc |-> "get", pay |-> p]]
        BY <3>5 DEF SyncPicks
      <4>2. [pc |-> "get", pay |-> p] \in [pc : {"get"}, pay : PaymentIds]
        OBVIOUS
      <4> QED BY <1>0, <4>1, <4>2, StatesOfRequests, RequestWrites
    <3> QED BY <1>0, <1>1, <3>1, <3>2, <3>3, <3>4, <3>5, LicenseRead, InvoiceAsked, InvoicesLocked
  <2> QED BY <2>1, <2>2
<1>2. ASSUME NEW r \in Requests, SaveStore(r) PROVE Goal
  <2>1. Rest /\ Account /\ Money /\ invoices' \in Seq(Invoice)
    BY <1>0, <1>2 DEF SaveStore
  <2>2. UNCHANGED request \/ Wait(r, "trial", 0)
    BY <1>2 DEF SaveStore, Wait
  <2> QED BY <1>0, <2>1, <2>2, Waits
<1>3. ASSUME NEW r \in Requests, SyncGets(r) PROVE Goal
  <2>1. Rest /\ Account /\ Money /\ invoices' \in Seq(Invoice)
    <3>1. payment' \in [PaymentIds -> {"none", "pending", "succeeded", "failed"}]
      BY <1>0, <1>3 DEF SyncGets
    <3> QED BY <1>0, <1>3, <3>1 DEF SyncGets
  <2>2. request[r].pay \in Nat
    BY <1>0, <1>3, RequestShapes DEF SyncGets
  <2>3. Wait(r, "sync", request[r].pay) \/ Done(r)
    BY <1>3 DEF SyncGets
  <2> QED BY <1>0, <2>1, <2>2, <2>3, Waits, Ends
<1>4. ASSUME NEW r \in Requests, CommitAccount(r) \/ CommitHook(r) \/ CommitSync(r) \/ CommitPaid(r) PROVE Goal
  <2>1. /\ Done(r) /\ raced' \in BOOLEAN /\ UNCHANGED <<today, hasStore, provider>> /\ request[r].pc = "commit"
    BY <1>4 DEF CommitAccount, CommitHook, CommitSync, CommitPaid, Race
  <2>2. request[r] \in CommitState /\ (request[r].op = "paid" => request[r].id \in DOMAIN invoices)
        /\ (request[r].op \in PaymentOps => request[r].id \in PaymentIds)
    BY <1>0, <2>1, RequestShapes DEF RequestsKnowTheirRows, Reading
  <2>3. Account
    <3>1. WriteAccount(request[r]) \/ UNCHANGED <<sub, lic>>
      BY <1>4 DEF CommitAccount, CommitHook, CommitSync, CommitPaid
    <3> QED BY <1>0, <2>2, <3>1, AccountWritten
  <2>4. Money
    <3>1. CASE CommitAccount(r) \/ CommitPaid(r)
      BY <1>0, <3>1 DEF CommitAccount, CommitPaid
    <3>2. CASE CommitHook(r)
      <4>1. request[r].id \in PaymentIds
        BY <2>2, <3>2 DEF CommitHook, PaymentOps
      <4>2. credits' \in [PaymentIds -> Nat]
        BY <1>0, <3>2, <4>1 DEF CommitHook
      <4>3. payment' \in [PaymentIds -> {"none", "pending", "succeeded", "failed"}]
        BY <1>0, <3>2, <4>1 DEF CommitHook
      <4>4. events' \subseteq PaymentIds /\ UNCHANGED <<provider, returned>>
        BY <1>0, <3>2, <4>1 DEF CommitHook
      <4> QED BY <1>0, <4>2, <4>3, <4>4
    <3>3. CASE CommitSync(r)
      <4>1. request[r].id \in PaymentIds
        BY <2>2, <3>3 DEF CommitSync, PaymentOps
      <4> QED BY <1>0, <3>3, <4>1 DEF CommitSync
    <3> QED BY <1>4, <3>1, <3>2, <3>3
  <2>5. invoices' \in Seq(Invoice)
    <3>1. CASE CommitPaid(r)
      BY <1>0, <2>2, <3>1, InvoicePaid DEF CommitPaid
    <3> QED BY <1>0, <1>4, <3>1 DEF CommitAccount, CommitHook, CommitSync
  <2> QED BY <1>0, <2>1, <2>3, <2>4, <2>5, Ends
<1>5. ASSUME NEW r \in Requests, IssueInvoice(r) PROVE Goal
  BY <1>0, <1>5, Ends, InvoiceIssued DEF IssueInvoice, Race
<1>6. ASSUME \/ Checkout \/ CheckoutDies \/ (\E p \in PaymentIds : ProviderSettles(p) \/ HookCancels(p))
      PROVE  Goal
  <2>1. Money
    <3>1. CASE Checkout
      <4>1. provider' \in [PaymentIds -> {"none", "pending", "succeeded", "canceled"}]
        BY <1>0, <3>1 DEF Checkout
      <4>2. payment' \in [PaymentIds -> {"none", "pending", "succeeded", "failed"}]
        BY <1>0, <3>1 DEF Checkout
      <4> QED BY <1>0, <3>1, <4>1, <4>2 DEF Checkout
    <3>2. CASE CheckoutDies
      <4>1. provider' \in [PaymentIds -> {"none", "pending", "succeeded", "canceled"}]
        BY <1>0, <3>2 DEF CheckoutDies
      <4> QED BY <1>0, <3>2, <4>1 DEF CheckoutDies
    <3>3. CASE \E p \in PaymentIds : ProviderSettles(p)
      <4>1. provider' \in [PaymentIds -> {"none", "pending", "succeeded", "canceled"}]
        BY <1>0, <3>3 DEF ProviderSettles
      <4> QED BY <1>0, <3>3, <4>1 DEF ProviderSettles
    <3>4. CASE \E p \in PaymentIds : HookCancels(p)
      <4>1. payment' \in [PaymentIds -> {"none", "pending", "succeeded", "failed"}]
        BY <1>0, <3>4 DEF HookCancels
      <4> QED BY <1>0, <3>4, <4>1 DEF HookCancels
    <3> QED BY <1>6, <3>1, <3>2, <3>3, <3>4
  <2>2. UNCHANGED <<today, hasStore, raced, sub, lic, invoices, request>>
    BY <1>6 DEF Checkout, CheckoutDies, ProviderSettles, HookCancels
  <2> QED BY <1>0, <2>1, <2>2
<1>7. ASSUME GrantLifetime \/ DayPasses \/ UNCHANGED vars PROVE Goal
  <2>1. CASE GrantLifetime
    <3>1. lic' \in LicStatuses /\ raced' \in BOOLEAN
      BY <2>1 DEF GrantLifetime, LicStatuses
    <3> QED BY <1>0, <2>1, <3>1 DEF GrantLifetime
  <2>2. CASE DayPasses
    <3>1. today' \in 1..LastDay
      BY <1>0, <2>2 DEF DayPasses
    <3> QED BY <1>0, <2>2, <3>1 DEF DayPasses
  <2>3. CASE UNCHANGED vars
    BY <1>0, <2>3 DEF vars
  <2> QED BY <1>7, <2>1, <2>2, <2>3
<1>8. Goal
  BY <1>1, <1>2, <1>3, <1>4, <1>5, <1>6, <1>7 DEF Next, Step
<1> QED BY <1>8 DEF TypeOK

(* At the start there is no payment, no invoice and no request.               *)
LEMMA BillingStart == Init => BillingIInv
<1> SUFFICES ASSUME Init PROVE BillingIInv
  OBVIOUS
<1>1. PaymentIds \subseteq Nat /\ LastDay \in Nat /\ LastDay > 0 /\ 0 \in 0..MaxPayments
  BY BillingBounds DEF PaymentIds
<1>2. TypeOK
  <2>1. sub \in SubRow /\ lic \in LicStatuses
    BY DEF Init, NewSubRow, SubRow, SubStatuses, LicStatuses
  <2>2. today \in 1..LastDay /\ invoices \in Seq(Invoice)
    BY <1>1 DEF Init
  <2>3. request \in [Requests -> RequestState]
    BY StatesOfRequests DEF Init
  <2> QED BY <2>1, <2>2, <2>3 DEF Init, TypeOK
<1>3. Issued = {} /\ \A r \in Requests : request[r] = Idle /\ request[r].pc = "idle"
  BY StatesOfRequests DEF Init, Issued
<1>4. Cardinality(Issued) = 0
  BY <1>3, FS_EmptySet
<1>5. sub.periodEnd = 0 /\ today = 1
  BY DEF Init, NewSubRow
<1>6. EventAppliedOnce /\ CreditedMoneyWasPaid /\ OneIssuedInvoice /\ PaidSellerIsLetIn
  BY <1>4, <1>5 DEF Init, EventAppliedOnce, CreditedMoneyWasPaid, OneIssuedInvoice, PaidSellerIsLetIn
<1>7. RequestsKnowTheirRows /\ LockedKnowsIssued /\ ReadIsStillSo
  BY <1>3 DEF RequestsKnowTheirRows, LockedKnowsIssued, ReadIsStillSo, Reading
<1>8. PaymentsAreNumbered
  BY <1>1 DEF Init, PaymentsAreNumbered, PaymentIds
<1> QED BY <1>2, <1>6, <1>7, <1>8 DEF BillingIInv, BillingInv

(* A request goes on, ends, or has just read the rows it will work on.        *)
Starts(o) ==
  /\ request'[o].pc = "license" /\ request'[o].seen = sub
  /\ UNCHANGED <<today, sub, lic, provider, invoices, raced>>
  /\ \/ request'[o].op = "trial"
     \/ request'[o].op = "expire" /\ ~HasAccess(sub, today)
     \/ request'[o].op \in PaymentOps /\ request'[o].id \in PaymentIds /\ provider[request'[o].id] = "succeeded"
     \/ request'[o].op = "paid" /\ request'[o].id \in DOMAIN invoices

(* What a step makes of each request.                                         *)
LEMMA RequestSteps ==
  ASSUME BillingIInv, [Next]_vars, NEW o \in Requests
  PROVE  \/ request'[o] = request[o]
         \/ request'[o].pc \in {"idle", "get", "lock"}
         \/ Starts(o)
         \/ ReadLicense(o)
         \/ LockInvoices(o)
<1> DEFINE Goal == \/ request'[o] = request[o]
                   \/ request'[o].pc \in {"idle", "get", "lock"}
                   \/ Starts(o)
                   \/ ReadLicense(o)
                   \/ LockInvoices(o)
<1>0. TypeOK /\ PaymentIds \subseteq Nat /\ DOMAIN invoices \subseteq Nat /\ 0 \in Nat
      /\ {"trial", "expire", "hook", "sync", "paid"} = SellerOps
  <2>1. TypeOK
    BY DEF BillingIInv, BillingInv
  <2>2. DOMAIN invoices \subseteq Nat
    <3>1. invoices \in Seq(Invoice)
      BY <2>1 DEF TypeOK
    <3> QED BY <3>1
  <2> QED BY <2>1, <2>2 DEF PaymentIds, SellerOps
<1>1. CASE UNCHANGED request
  BY <1>1
<1>2. ASSUME NEW r \in Requests, Done(r) PROVE Goal
  BY <1>0, <1>2, Ends
<1>3. ASSUME NEW r \in Requests, VisitStartsTrial(r) \/ (Wait(r, "trial", 0) /\ SaveStore(r)) PROVE Goal
  <2>1. Wait(r, "trial", 0) /\ UNCHANGED <<today, sub, lic, provider, invoices, raced>>
    BY <1>3 DEF VisitStartsTrial, SaveStore, Unread
  <2> QED BY <1>0, <2>1, Waits DEF Starts
<1>4. ASSUME NEW r \in Requests, VisitExpires(r) PROVE Goal
  <2>1. Wait(r, "expire", 0) /\ UNCHANGED <<today, sub, lic, provider, invoices, raced>> /\ ~HasAccess(sub, today)
    BY <1>4 DEF VisitExpires, Unread
  <2> QED BY <1>0, <2>1, Waits DEF Starts
<1>5. ASSUME NEW r \in Requests, NEW p \in PaymentIds, HookArrives(r, p) PROVE Goal
  <2>1. Wait(r, "hook", p) /\ UNCHANGED <<today, sub, lic, provider, invoices, raced>> /\ provider[p] = "succeeded"
    BY <1>5 DEF HookArrives, Unread
  <2> QED BY <1>0, <2>1, Waits DEF Starts, PaymentOps
<1>6. ASSUME NEW r \in Requests, NEW n \in DOMAIN invoices, AskPaid(r, n) PROVE Goal
  <2>1. Wait(r, "paid", n) /\ UNCHANGED <<today, sub, lic, provider, invoices, raced>>
    BY <1>6 DEF AskPaid, Unread
  <2> QED BY <1>0, <2>1, Waits DEF Starts
<1>7. ASSUME NEW r \in Requests, SyncGets(r) PROVE Goal
  <2>1. CASE Done(r)
    BY <2>1, <1>2
  <2>2. CASE Wait(r, "sync", request[r].pay) /\ PaidAtProvider(request[r].pay)
    <3>1. UNCHANGED <<today, sub, lic, provider, invoices, raced>>
      BY <1>7 DEF SyncGets
    <3>2. request[r].pay \in PaymentIds /\ provider[request[r].pay] = "succeeded"
      BY <1>0, <1>7, <2>2, RequestShapes DEF SyncGets, PaidAtProvider
    <3>3. request[r].pay \in Nat /\ "sync" \in SellerOps
      BY <1>0, <3>2
    <3>4. /\ request'[r].pc = "license" /\ request'[r].op = "sync" /\ request'[r].id = request[r].pay
          /\ request'[r].seen = sub
          /\ \A q \in Requests \ {r} : request'[q] = request[q]
      BY <1>0, <2>2, <3>3, Waits
    <3>5. Starts(r)
      BY <3>1, <3>2, <3>4 DEF Starts, PaymentOps
    <3> QED BY <3>4, <3>5
  <2> QED BY <1>7, <2>1, <2>2 DEF SyncGets
<1>8. ASSUME NEW r \in Requests, SyncPicks(r) PROVE Goal
  <2>1. PICK p \in PaymentIds : request' = [request EXCEPT ![r] = [pc |-> "get", pay |-> p]]
    BY <1>8 DEF SyncPicks
  <2>2. [pc |-> "get", pay |-> p] \in [pc : {"get"}, pay : PaymentIds] /\ [pc |-> "get", pay |-> p].pc = "get"
    OBVIOUS
  <2> QED BY <1>0, <2>1, <2>2, StatesOfRequests, RequestWrites
<1>9. ASSUME NEW r \in Requests, (\E k \in Kinds : AskInvoice(r, k)) \/ ReadLicense(r) \/ LockInvoices(r) PROVE Goal
  BY <1>0, <1>9, InvoiceAsked, LicenseRead, InvoicesLocked
<1>10. ASSUME NEW r \in Requests, SaveStore(r) PROVE Goal
  <2>1. UNCHANGED request \/ Wait(r, "trial", 0)
    BY <1>10 DEF SaveStore, Wait
  <2> QED BY <1>1, <1>3, <1>10, <2>1
<1>11. ASSUME NEW r \in Requests, \/ CommitAccount(r) \/ CommitHook(r) \/ CommitSync(r) \/ CommitPaid(r)
                                  \/ IssueInvoice(r) \/ RequestDies(r)
       PROVE  Goal
  <2>1. Done(r)
    BY <1>11 DEF CommitAccount, CommitHook, CommitSync, CommitPaid, IssueInvoice, RequestDies
  <2> QED BY <1>2, <2>1
<1>12. ASSUME \/ Checkout \/ CheckoutDies \/ (\E p \in PaymentIds : ProviderSettles(p) \/ HookCancels(p))
              \/ GrantLifetime \/ DayPasses \/ UNCHANGED vars
       PROVE  Goal
  <2>1. UNCHANGED request
    BY <1>12 DEF Checkout, CheckoutDies, ProviderSettles, HookCancels, GrantLifetime, DayPasses, vars
  <2> QED BY <1>1, <2>1
<1> HIDE DEF Goal
<1>13. ASSUME NEW r \in Requests, Step(r) PROVE Goal
  BY <1>7, <1>9, <1>11, <1>13 DEF Step
<1>14. ASSUME NEW r \in Requests,
              \/ VisitStartsTrial(r) \/ VisitExpires(r) \/ SaveStore(r) \/ (\E p \in PaymentIds : HookArrives(r, p))
              \/ SyncPicks(r) \/ (\E k \in Kinds : AskInvoice(r, k)) \/ (\E n \in DOMAIN invoices : AskPaid(r, n))
              \/ RequestDies(r)
       PROVE  Goal
  <2>1. CASE \E p \in PaymentIds : HookArrives(r, p)
    BY <1>5, <2>1
  <2>2. CASE \E n \in DOMAIN invoices : AskPaid(r, n)
    BY <1>6, <2>2
  <2>3. CASE \E k \in Kinds : AskInvoice(r, k)
    BY <1>9, <2>3
  <2>4. CASE VisitStartsTrial(r) \/ VisitExpires(r)
    BY <1>3, <1>4, <2>4
  <2>5. CASE SaveStore(r)
    BY <1>10, <2>5
  <2>6. CASE SyncPicks(r) \/ RequestDies(r)
    BY <1>8, <1>11, <2>6
  <2> QED BY <1>14, <2>1, <2>2, <2>3, <2>4, <2>5, <2>6
<1>15. Goal
  BY <1>12, <1>13, <1>14 DEF Next
<1> QED BY <1>15 DEF Goal

(* Payments are numbered without a gap, and what was paid stays paid.         *)
LEMMA ProviderSteps ==
  ASSUME BillingIInv, [Next]_vars
  PROVE  /\ PaymentsAreNumbered'
         /\ \A p \in PaymentIds : provider[p] = "succeeded" => provider'[p] = "succeeded"
<1>0. /\ TypeOK /\ PaymentsAreNumbered /\ PaymentIds = 1..MaxPayments /\ MaxPayments \in Nat
      /\ provider \in [PaymentIds -> {"none", "pending", "succeeded", "canceled"}]
  BY BillingBounds DEF BillingIInv, BillingInv, TypeOK, PaymentIds
<1>1. PICK n \in 0..MaxPayments : \A p \in PaymentIds : provider[p] # "none" <=> p <= n
  BY <1>0 DEF PaymentsAreNumbered
<1>2. NextPayment = n + 1
  <2>1. {p \in PaymentIds : provider[p] # "none"} = 1..n
    BY <1>0, <1>1
  <2>2. Cardinality(1..n) = n
    BY FS_Interval
  <2> QED BY <2>1, <2>2 DEF NextPayment
<1>3. CASE Checkout \/ CheckoutDies
  <2>1. n + 1 \in PaymentIds /\ provider' = [provider EXCEPT ![n + 1] = "pending"]
    BY <1>2, <1>3 DEF Checkout, CheckoutDies
  <2>2. provider[n + 1] = "none"
    BY <1>0, <1>1, <2>1
  <2>3. \A p \in PaymentIds : provider'[p] = IF p = n + 1 THEN "pending" ELSE provider[p]
    BY <1>0, <2>1
  <2>4. n + 1 \in 0..MaxPayments /\ \A p \in PaymentIds : provider'[p] # "none" <=> p <= n + 1
    BY <1>0, <1>1, <2>1, <2>3
  <2> QED BY <2>2, <2>3, <2>4 DEF PaymentsAreNumbered
<1>4. CASE \E p \in PaymentIds : ProviderSettles(p)
  <2>1. PICK p \in PaymentIds, s \in {"succeeded", "canceled"} :
          provider[p] = "pending" /\ provider' = [provider EXCEPT ![p] = s]
    BY <1>4 DEF ProviderSettles
  <2>2. \A o \in PaymentIds : provider'[o] = IF o = p THEN s ELSE provider[o]
    BY <1>0, <2>1
  <2>3. \A o \in PaymentIds : provider'[o] # "none" <=> o <= n
    BY <1>1, <2>1, <2>2
  <2> QED BY <2>1, <2>2, <2>3 DEF PaymentsAreNumbered
<1>5. CASE UNCHANGED provider
  BY <1>0, <1>5 DEF PaymentsAreNumbered
<1>6. \/ Checkout \/ CheckoutDies \/ (\E p \in PaymentIds : ProviderSettles(p)) \/ UNCHANGED provider
  BY DEF Next, Step, vars, VisitStartsTrial, VisitExpires, SaveStore, HookArrives, SyncPicks, AskInvoice, AskPaid,
         ReadLicense, CommitAccount, CommitHook, SyncGets, CommitSync, LockInvoices, IssueInvoice, CommitPaid,
         RequestDies, HookCancels, GrantLifetime, DayPasses, Unread
<1> QED BY <1>3, <1>4, <1>5, <1>6

(* Who may write the account, the invoices and the record of the money.       *)
LEMMA WhoWrites ==
  ASSUME [Next]_vars
  PROVE  /\ \/ UNCHANGED <<sub, lic>>
            \/ GrantLifetime
            \/ \E r \in Requests : /\ request[r].pc = "commit" /\ WriteAccount(request[r]) /\ Done(r) /\ Race(r)
                                   /\ UNCHANGED today
         /\ \/ UNCHANGED invoices
            \/ \E r \in Requests : IssueInvoice(r) \/ CommitPaid(r)
         /\ \/ UNCHANGED <<credits, events, returned>>
            \/ \E r \in Requests : CommitHook(r) \/ CommitSync(r)
         /\ raced => raced'
         /\ UNCHANGED today \/ DayPasses
<1> DEFINE Wrote(r) == /\ request[r].pc = "commit" /\ WriteAccount(request[r]) /\ Done(r) /\ Race(r)
                       /\ UNCHANGED today
           Account == UNCHANGED <<sub, lic>> \/ GrantLifetime \/ \E r \in Requests : Wrote(r)
           Papers == UNCHANGED invoices \/ \E r \in Requests : IssueInvoice(r) \/ CommitPaid(r)
           Money == UNCHANGED <<credits, events, returned>> \/ \E r \in Requests : CommitHook(r) \/ CommitSync(r)
           Clock == (raced => raced') /\ (UNCHANGED today \/ DayPasses)
           Goal == Account /\ Papers /\ Money /\ Clock
<1>1. ASSUME NEW r \in Requests,
             \/ VisitStartsTrial(r) \/ VisitExpires(r) \/ SaveStore(r) \/ (\E p \in PaymentIds : HookArrives(r, p))
             \/ SyncPicks(r) \/ (\E k \in Kinds : AskInvoice(r, k)) \/ (\E n \in DOMAIN invoices : AskPaid(r, n))
             \/ RequestDies(r) \/ ReadLicense(r) \/ SyncGets(r) \/ LockInvoices(r)
      PROVE  UNCHANGED <<sub, lic, invoices, credits, events, returned, raced, today>>
  BY <1>1 DEF VisitStartsTrial, VisitExpires, SaveStore, HookArrives, SyncPicks, AskInvoice, AskPaid, RequestDies,
              ReadLicense, SyncGets, LockInvoices, Unread
<1>2. ASSUME \/ Checkout \/ CheckoutDies \/ (\E p \in PaymentIds : ProviderSettles(p) \/ HookCancels(p)) \/ UNCHANGED vars
      PROVE  UNCHANGED <<sub, lic, invoices, credits, events, returned, raced, today>>
  BY <1>2 DEF Checkout, CheckoutDies, ProviderSettles, HookCancels, vars
<1>3. ASSUME GrantLifetime PROVE Goal
  BY <1>3 DEF GrantLifetime
<1>4. ASSUME DayPasses PROVE Goal
  BY <1>4 DEF DayPasses
<1>5. ASSUME NEW r \in Requests, CommitAccount(r) \/ CommitPaid(r) PROVE Goal
  <2>1. Wrote(r)
    BY <1>5 DEF CommitAccount, CommitPaid
  <2>2. UNCHANGED <<credits, events, returned>> /\ (raced => raced') /\ UNCHANGED today
    BY <1>5 DEF CommitAccount, CommitPaid, Race
  <2>3. UNCHANGED invoices \/ CommitPaid(r)
    BY <1>5 DEF CommitAccount
  <2> QED BY <2>1, <2>2, <2>3
<1>6. ASSUME NEW r \in Requests, CommitHook(r) \/ CommitSync(r) PROVE Goal
  <2>1. UNCHANGED <<sub, lic>> \/ Wrote(r)
    BY <1>6 DEF CommitHook, CommitSync
  <2>2. UNCHANGED invoices /\ (raced => raced') /\ UNCHANGED today
    BY <1>6 DEF CommitHook, CommitSync, Race
  <2> HIDE DEF Wrote
  <2> QED BY <1>6, <2>1, <2>2
<1>7. ASSUME NEW r \in Requests, IssueInvoice(r) PROVE Goal
  <2>1. UNCHANGED <<sub, lic, credits, events, returned, today>> /\ (raced => raced')
    BY <1>7 DEF IssueInvoice, Race
  <2> QED BY <1>7, <2>1
<1>8. UNCHANGED <<sub, lic, invoices, credits, events, returned, raced, today>> => Goal
  OBVIOUS
<1> HIDE DEF Goal
<1>9. ASSUME NEW r \in Requests, Step(r) PROVE Goal
  BY <1>1, <1>5, <1>6, <1>7, <1>8, <1>9 DEF Step
<1>10. ASSUME NEW r \in Requests,
              \/ VisitStartsTrial(r) \/ VisitExpires(r) \/ SaveStore(r) \/ (\E p \in PaymentIds : HookArrives(r, p))
              \/ SyncPicks(r) \/ (\E k \in Kinds : AskInvoice(r, k)) \/ (\E n \in DOMAIN invoices : AskPaid(r, n))
              \/ RequestDies(r)
       PROVE  Goal
  BY <1>1, <1>8, <1>10
<1>11. Goal
  BY <1>2, <1>3, <1>4, <1>8, <1>9, <1>10 DEF Next
<1> QED BY <1>11 DEF Goal

(* What a request is about stays there.                                       *)
LEMMA RowsStay ==
  ASSUME BillingIInv, [Next]_vars
  PROVE  RequestsKnowTheirRows'
<1>0. TypeOK /\ RequestsKnowTheirRows /\ TypeOK' /\ invoices \in Seq(Invoice)
  BY BillingTypeStep DEF BillingIInv, BillingInv, TypeOK
<1>1. DOMAIN invoices \subseteq DOMAIN invoices'
  <2>1. CASE UNCHANGED invoices
    BY <2>1
  <2>2. ASSUME NEW r \in Requests, IssueInvoice(r) PROVE DOMAIN invoices \subseteq DOMAIN invoices'
    <3>1. invoices' \in Seq(Invoice) /\ Len(invoices) <= Len(invoices')
      BY <1>0, <2>2, InvoiceIssued
    <3> QED BY <1>0, <3>1
  <2>3. ASSUME NEW r \in Requests, CommitPaid(r) PROVE DOMAIN invoices \subseteq DOMAIN invoices'
    BY <2>3 DEF CommitPaid
  <2> QED BY <2>1, <2>2, <2>3, WhoWrites
<1>2. \A p \in PaymentIds : provider[p] = "succeeded" => provider'[p] = "succeeded"
  BY ProviderSteps
<1> SUFFICES ASSUME NEW o \in Requests
             PROVE  /\ Reading(o)' /\ request'[o].op \in PaymentOps =>
                         request'[o].id \in PaymentIds /\ provider'[request'[o].id] = "succeeded"
                    /\ Reading(o)' /\ request'[o].op = "paid" => request'[o].id \in DOMAIN invoices'
                    /\ request'[o].pc = "locked" => request'[o].issued \subseteq DOMAIN invoices'
  BY DEF RequestsKnowTheirRows
<1>3. CASE request'[o] = request[o]
  BY <1>0, <1>1, <1>2, <1>3 DEF RequestsKnowTheirRows, Reading
<1>4. CASE request'[o].pc \in {"idle", "get", "lock"}
  BY <1>4 DEF Reading
<1>5. CASE Starts(o)
  BY <1>1, <1>2, <1>5 DEF Starts, Reading, PaymentOps
<1>6. CASE ReadLicense(o)
  <2>1. request[o].pc = "license"
    BY <1>6 DEF ReadLicense
  <2> QED BY <1>0, <1>1, <1>2, <1>6, <2>1, LicenseRead DEF RequestsKnowTheirRows, Reading
<1>7. CASE LockInvoices(o)
  <2>1. Issued \subseteq DOMAIN invoices
    BY <1>0 DEF Issued
  <2> QED BY <1>0, <1>1, <1>7, <2>1, InvoicesLocked DEF Reading
<1> QED BY <1>3, <1>4, <1>5, <1>6, <1>7, RequestSteps

(* The money: a notification counts once, and only what was paid counts.      *)
LEMMA MoneyStep ==
  ASSUME BillingIInv, [Next]_vars
  PROVE  EventAppliedOnce' /\ CreditedMoneyWasPaid'
<1>0. /\ TypeOK /\ RequestsKnowTheirRows /\ EventAppliedOnce /\ CreditedMoneyWasPaid
      /\ credits \in [PaymentIds -> Nat]
  BY DEF BillingIInv, BillingInv, TypeOK
<1>1. \A p \in PaymentIds : provider[p] = "succeeded" => provider'[p] = "succeeded"
  BY ProviderSteps
<1>2. CASE UNCHANGED <<credits, events, returned>>
  BY <1>0, <1>1, <1>2 DEF EventAppliedOnce, CreditedMoneyWasPaid
<1>3. ASSUME NEW r \in Requests, CommitHook(r) PROVE EventAppliedOnce' /\ CreditedMoneyWasPaid'
  <2> DEFINE i == request[r].id
  <2>1. i \in PaymentIds /\ provider[i] = "succeeded"
    BY <1>0, <1>3 DEF CommitHook, RequestsKnowTheirRows, Reading, PaymentOps
  <2>2. CASE EventIsNew(i)
    <3>1. /\ events' = events \cup {i} /\ credits' = [credits EXCEPT ![i] = @ + 1] /\ returned' = returned
          /\ i \notin events
      BY <1>3, <2>2 DEF CommitHook, EventIsNew
    <3>2. \A p \in PaymentIds : credits'[p] = IF p = i THEN credits[p] + 1 ELSE credits[p]
      BY <1>0, <2>1, <3>1
    <3>3. credits[i] = 0
      BY <1>0, <2>1, <3>1 DEF EventAppliedOnce
    <3> HIDE DEF i
    <3>4. \A p \in PaymentIds : credits'[p] = IF p \in events' THEN 1 ELSE 0
      BY <1>0, <3>1, <3>2, <3>3 DEF EventAppliedOnce
    <3>5. \A p \in PaymentIds : credits'[p] > 0 \/ p \in returned' => provider'[p] = "succeeded"
      BY <1>0, <1>1, <2>1, <3>1, <3>2 DEF CreditedMoneyWasPaid
    <3> QED BY <3>4, <3>5 DEF EventAppliedOnce, CreditedMoneyWasPaid
  <2>3. CASE ~EventIsNew(i)
    <3>1. UNCHANGED <<credits, events, returned>>
      BY <1>3, <2>3 DEF CommitHook
    <3> QED BY <1>2, <3>1
  <2> QED BY <2>2, <2>3
<1>4. ASSUME NEW r \in Requests, CommitSync(r) PROVE EventAppliedOnce' /\ CreditedMoneyWasPaid'
  <2>1. request[r].id \in PaymentIds /\ provider[request[r].id] = "succeeded"
    BY <1>0, <1>4 DEF CommitSync, RequestsKnowTheirRows, Reading, PaymentOps
  <2>2. UNCHANGED <<credits, events>> /\ returned' = returned \cup {request[r].id}
    BY <1>4 DEF CommitSync
  <2> QED BY <1>0, <1>1, <2>1, <2>2 DEF EventAppliedOnce, CreditedMoneyWasPaid
<1> QED BY <1>2, <1>3, <1>4, WhoWrites

(* One request holds the lock, and leaves one invoice to be paid.             *)
LEMMA InvoiceStep ==
  ASSUME BillingIInv, [Next]_vars
  PROVE  LockedKnowsIssued' /\ OneIssuedInvoice'
<1>0. /\ TypeOK /\ RequestsKnowTheirRows /\ LockedKnowsIssued /\ TypeOK' /\ invoices \in Seq(Invoice)
  BY BillingTypeStep DEF BillingIInv, BillingInv, TypeOK
<1> DEFINE Alone == \A r, o \in Requests : request'[r].pc = "locked" /\ request'[o].pc = "locked" => r = o
           Knows == \A r \in Requests : request'[r].pc = "locked" => Issued' \subseteq request'[r].issued
           One == \A m, n \in Issued' : m = n
<1>1. \A o \in Requests : \/ request'[o].pc = "locked" /\ request'[o] = request[o]
                          \/ request'[o].pc # "locked"
                          \/ LockInvoices(o)
  <2> SUFFICES ASSUME NEW o \in Requests, request'[o].pc = "locked", request'[o] # request[o]
               PROVE  LockInvoices(o)
    OBVIOUS
  <2>1. ~Starts(o)
    BY DEF Starts
  <2>2. ~ReadLicense(o)
    BY <1>0, LicenseRead
  <2> QED BY <2>1, <2>2, RequestSteps
<1>2. ASSUME NEW r \in Requests, LockInvoices(r) PROVE Alone /\ Knows /\ One
  <2>1. /\ request'[r].issued = Issued /\ \A o \in Requests \ {r} : request'[o] = request[o]
    BY <1>0, <1>2, InvoicesLocked
  <2>2. invoices' = invoices /\ Issued' = Issued /\ \A o \in Requests : request[o].pc # "locked"
    BY <1>2 DEF LockInvoices, Unread, Issued, LockIsFree
  <2> QED BY <1>0, <2>1, <2>2 DEF LockedKnowsIssued
<1>3. ASSUME \A o \in Requests : ~LockInvoices(o), Issued' \subseteq Issued PROVE Alone /\ Knows /\ One
  <2>1. \A o \in Requests : request'[o].pc = "locked" => request'[o] = request[o]
    BY <1>1, <1>3
  <2> QED BY <1>0, <1>3, <2>1 DEF LockedKnowsIssued
<1>4. ASSUME NEW r \in Requests, IssueInvoice(r) PROVE Alone /\ Knows /\ One
  <2>1. request[r].pc = "locked" /\ request'[r].pc = "idle" /\ \A o \in Requests \ {r} : request'[o] = request[o]
    BY <1>0, <1>4, Ends DEF IssueInvoice
  <2>2. \A o \in Requests : request'[o].pc # "locked"
    BY <1>0, <2>1 DEF LockedKnowsIssued
  <2>3. Issued \subseteq request[r].issued
    BY <1>0, <2>1 DEF LockedKnowsIssued
  <2>4. \A n \in Issued' : \/ n \in Issued \ (request[r].issued \ Reusable(request[r]))
                           \/ n = Len(invoices) + 1 /\ Reusable(request[r]) = {}
    <3> HIDE DEF Alone, Knows, One
    <3> QED BY <1>0, <1>4, InvoiceIssued
  <2>5. \A m, n \in Reusable(request[r]) : m = n
    BY DEF Reusable
  <2>6. One
    BY <2>3, <2>4, <2>5
  <2> QED BY <2>2, <2>6
<1>5. ASSUME NEW r \in Requests, CommitPaid(r) PROVE Issued' \subseteq Issued
  <2>1. request[r].id \in DOMAIN invoices
    BY <1>0, <1>5 DEF CommitPaid, RequestsKnowTheirRows, Reading
  <2>2. /\ Len(invoices') = Len(invoices) /\ invoices'[request[r].id].status = "paid"
        /\ \A m \in DOMAIN invoices \ {request[r].id} : invoices'[m] = invoices[m]
        /\ DOMAIN invoices = 1..Len(invoices)
    <3>1. invoices' = [invoices EXCEPT ![request[r].id].status = "paid"]
      BY <1>5 DEF CommitPaid
    <3>2. DOMAIN invoices = 1..Len(invoices)
      BY <1>0
    <3> QED BY <1>0, <2>1, <3>1, <3>2, InvoicePaid
  <2> QED BY <2>2 DEF Issued
<1>6. Alone /\ Knows /\ One
  <2>1. CASE \E r \in Requests : LockInvoices(r)
    BY <1>2, <2>1
  <2>2. CASE (\A r \in Requests : ~LockInvoices(r)) /\ UNCHANGED invoices
    <3>1. Issued' = Issued
      BY <2>2 DEF Issued
    <3> QED BY <1>3, <2>2, <3>1
  <2>3. CASE (\A r \in Requests : ~LockInvoices(r)) /\ \E r \in Requests : CommitPaid(r)
    BY <1>3, <1>5, <2>3
  <2>4. CASE \E r \in Requests : IssueInvoice(r)
    BY <1>4, <2>4
  <2> HIDE DEF Alone, Knows, One
  <2> QED BY <2>1, <2>2, <2>3, <2>4, WhoWrites
<1>7. LockedKnowsIssued'
  BY <1>6 DEF LockedKnowsIssued
<1>8. Cardinality(Issued') <= 1
  <2>1. CASE Issued' = {}
    BY <2>1, FS_EmptySet
  <2>2. CASE Issued' # {}
    <3>1. PICK n : n \in Issued'
      BY <2>2
    <3>2. Issued' = {n}
      BY <1>6, <3>1
    <3> QED BY <3>2, FS_Singleton
  <2> QED BY <2>1, <2>2
<1> QED BY <1>7, <1>8 DEF OneIssuedInvoice

(* What one commit does to the account, when nobody was overtaken.            *)
LEMMA CommitKeepsAccess ==
  ASSUME BillingIInv, NEW r \in Requests, request[r].pc = "commit", WriteAccount(request[r]), ~raced
  PROVE  /\ sub'.periodEnd >= sub.periodEnd
         /\ lic = "lifetime" => lic' = "lifetime"
         /\ sub'.periodEnd > today => sub'.status \in {"trial", "active"}
<1>1. /\ TypeOK /\ request[r] \in CommitState /\ (request[r].op = "paid" => request[r].id \in DOMAIN invoices)
      /\ sub \in SubRow /\ today \in 1..LastDay
  BY RequestShapes DEF BillingIInv, BillingInv, RequestsKnowTheirRows, Reading, TypeOK
<1>2. /\ request[r].seen = sub /\ request[r].lic = lic
      /\ request[r].op = "expire" => sub.periodEnd <= today
  BY DEF BillingIInv, ReadIsStillSo, Reading
<1>3. /\ sub'.periodEnd >= sub.periodEnd
      /\ lic = "lifetime" => lic' = "lifetime"
      /\ request[r].op = "expire" => sub'.periodEnd = sub.periodEnd
      /\ request[r].op # "expire" => sub'.status \in {"trial", "active"}
  BY <1>1, <1>2, AccountWritten
<1>4. sub.periodEnd \in Nat /\ today \in Nat
  BY <1>1, BillingBounds DEF SubRow
<1> QED BY <1>2, <1>3, <1>4

(* As long as nobody was overtaken, what was read is so and paid time opens.  *)
LEMMA PaidAccessStep ==
  ASSUME BillingIInv, [Next]_vars
  PROVE  ReadIsStillSo' /\ PaidSellerIsLetIn'
<1>0. /\ TypeOK /\ ReadIsStillSo /\ PaidSellerIsLetIn /\ sub \in SubRow /\ sub' \in SubRow
      /\ today \in Nat /\ today' \in Nat /\ today' >= today /\ today > 0
  <2>1. TypeOK /\ TypeOK'
    BY BillingTypeStep DEF BillingIInv, BillingInv
  <2>2. today \in Nat /\ today' \in Nat /\ today > 0
    BY <2>1, BillingBounds DEF TypeOK
  <2>3. today' >= today
    BY <2>2, WhoWrites DEF DayPasses
  <2> QED BY <2>1, <2>2, <2>3 DEF TypeOK, BillingIInv, BillingInv
<1>1. sub.periodEnd \in Nat /\ sub'.periodEnd \in Nat /\ sub.trialEnd \in Nat /\ sub'.trialEnd \in Nat
  BY <1>0 DEF SubRow
<1>2. ReadIsStillSo'
  <2> SUFFICES ASSUME ~raced', NEW o \in Requests, Reading(o)'
               PROVE  /\ request'[o].seen = sub'
                      /\ request'[o].pc = "commit" => request'[o].lic = lic'
                      /\ request'[o].op = "expire" => sub'.periodEnd <= today'
    BY DEF ReadIsStillSo
  <2>0. ~raced
    BY WhoWrites
  <2>1. CASE request'[o] = request[o]
    <3>1. Reading(o) /\ HasRead(o)
      BY <2>1 DEF Reading, HasRead
    <3>2. /\ request[o].seen = sub
          /\ request[o].pc = "commit" => request[o].lic = lic
          /\ request[o].op = "expire" => sub.periodEnd <= today
      BY <1>0, <2>0, <3>1 DEF ReadIsStillSo
    <3>3. UNCHANGED <<sub, lic>>
      <4>1. ~GrantLifetime
        BY <3>1 DEF GrantLifetime
      <4>2. ASSUME NEW r \in Requests, request[r].pc = "commit", Done(r), Race(r)
            PROVE  UNCHANGED <<sub, lic>>
        <5>1. r # o
          BY <1>0, <3>1, <4>2, <2>1, Ends DEF Reading
        <5>2. rows' = rows
          BY <3>1, <4>2, <5>1 DEF Race
        <5> QED BY <5>2 DEF rows
      <4> QED BY <4>1, <4>2, WhoWrites
    <3> QED BY <1>0, <1>1, <2>1, <3>2, <3>3
  <2>2. CASE request'[o].pc \in {"idle", "get", "lock"}
    BY <2>2 DEF Reading
  <2>3. CASE Starts(o)
    <3>1. request'[o].seen = sub /\ UNCHANGED <<today, sub>> /\ request'[o].pc = "license"
      BY <2>3 DEF Starts
    <3>2. request'[o].op = "expire" => sub.periodEnd <= today
      <4>1. request'[o].op = "expire" => ~HasAccess(sub, today)
        BY <2>3 DEF Starts, PaymentOps
      <4> QED BY <1>0, <1>1, <2>0, <4>1 DEF PaidSellerIsLetIn
    <3> QED BY <3>1, <3>2
  <2>4. CASE ReadLicense(o)
    <3>1. request[o].pc = "license" /\ UNCHANGED <<sub, lic, today>>
      BY <2>4 DEF ReadLicense, Unread
    <3>2. request[o].seen = sub /\ (request[o].op = "expire" => sub.periodEnd <= today)
      BY <1>0, <2>0, <3>1 DEF ReadIsStillSo, Reading
    <3> QED BY <1>0, <2>4, <3>1, <3>2, LicenseRead
  <2>5. CASE LockInvoices(o)
    BY <1>0, <2>5, InvoicesLocked DEF Reading
  <2> QED BY <2>1, <2>2, <2>3, <2>4, <2>5, RequestSteps
<1>3. PaidSellerIsLetIn'
  <2> SUFFICES ASSUME ~raced', sub'.periodEnd > today'
               PROVE  sub'.status \in {"trial", "active"}
    <3>1. sub'.periodEnd > today' => ValidUntil(sub') > today'
      BY <1>0, <1>1 DEF ValidUntil
    <3> QED BY <3>1 DEF PaidSellerIsLetIn, HasAccess
  <2>0. ~raced
    BY WhoWrites
  <2>1. CASE UNCHANGED sub
    <3>1. sub.periodEnd > today
      BY <1>0, <1>1, <2>1
    <3> QED BY <1>0, <2>0, <2>1, <3>1 DEF PaidSellerIsLetIn, HasAccess
  <2>2. ASSUME NEW r \in Requests, request[r].pc = "commit", WriteAccount(request[r]), UNCHANGED today
        PROVE  sub'.status \in {"trial", "active"}
    BY <2>0, <2>2, CommitKeepsAccess
  <2>3. CASE GrantLifetime
    BY <2>1, <2>3 DEF GrantLifetime
  <2> QED BY <2>1, <2>2, <2>3, WhoWrites
<1> QED BY <1>2, <1>3

(* The inductive invariant of billing: what a request in progress has read,   *)
(* holds and is about is part of it, because a commit is right only then.     *)
LEMMA BillingInductive == Spec => []BillingIInv
<1>1. Init => BillingIInv
  BY BillingStart
<1>2. BillingIInv /\ [Next]_vars => BillingIInv'
  <2> SUFFICES ASSUME BillingIInv, [Next]_vars PROVE BillingIInv'
    OBVIOUS
  <2> QED BY BillingTypeStep, RowsStay, ProviderSteps, MoneyStep, InvoiceStep, PaidAccessStep DEF BillingIInv, BillingInv
<1> QED BY <1>1, <1>2, PTL DEF Spec

(* billing_service and billing_invoice_service: a notification counts once,   *)
(* only paid money counts, one invoice is open, paid time opens the door.     *)
THEOREM BillingHolds == Spec => []BillingInv
<1>1. BillingIInv => BillingInv
  BY DEF BillingIInv
<1> QED BY <1>1, BillingInductive, PTL

(* No step takes paid time or a lifetime licence away, as long as no request  *)
(* wrote over rows that another one had read.                                 *)
THEOREM PaidTime == Spec => PaidTimeIsKept
<1> DEFINE Kept == ~raced' => /\ sub'.periodEnd >= sub.periodEnd
                              /\ lic = "lifetime" => lic' = "lifetime"
<1>1. BillingIInv /\ [Next]_vars => [Kept]_vars
  <2> SUFFICES ASSUME BillingIInv, [Next]_vars, ~raced'
               PROVE  sub'.periodEnd >= sub.periodEnd /\ (lic = "lifetime" => lic' = "lifetime")
    OBVIOUS
  <2>0. ~raced
    BY WhoWrites
  <2>1. sub.periodEnd \in Nat
    BY DEF BillingIInv, BillingInv, TypeOK, SubRow
  <2>2. CASE UNCHANGED <<sub, lic>>
    BY <2>1, <2>2
  <2>3. CASE GrantLifetime
    BY <2>1, <2>3 DEF GrantLifetime
  <2>4. ASSUME NEW r \in Requests, request[r].pc = "commit", WriteAccount(request[r])
        PROVE  sub'.periodEnd >= sub.periodEnd /\ (lic = "lifetime" => lic' = "lifetime")
    BY <2>0, <2>4, CommitKeepsAccess
  <2> QED BY <2>2, <2>3, <2>4, WhoWrites
<1>2. [][Kept]_vars <=> PaidTimeIsKept
  BY DEF PaidTimeIsKept
<1> QED BY <1>1, <1>2, BillingInductive, PTL DEF Spec
=============================================================================
