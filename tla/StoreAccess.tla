--------------------------- MODULE StoreAccess ---------------------------
(***************************************************************************)
(* Employees of one store: the owner invites an email, gives and takes     *)
(* back access; the invited person accepts as a user or registers by the   *)
(* invitation.  Requests overlap: each reads rows, then writes at its      *)
(* commit; only accepting and registering lock the row of the invitation.  *)
(***************************************************************************)
EXTENDS Integers, Sequences, FiniteSets

CONSTANTS Emails,        \* people who may become employees
          ShareRequests, \* request slots: so many transactions at a time
          MaxInvites,    \* bound: invitations the owner makes
          MaxAudit       \* bound: grants and revocations recorded

ASSUME StoreAccessBounds == MaxInvites \in Nat /\ MaxAudit \in Nat

VARIABLES
  users,     \* emails with an account
  invites,   \* store_invites in order of creation
  expired,   \* invitations older than INVITE_TTL
  grants,    \* store_access_grants of the store by employee
  audit,     \* store_access_audit_events in order of commit
  sharing,   \* what each running request has read and is about to do
  accepts,   \* history: how often each invitation was accepted
  joined,    \* history: emails registered by an invitation
  overtaken  \* history: a row was written under a request that had read it

accessRows == <<users, invites, grants, audit>>
accessVars == <<users, invites, expired, grants, audit, sharing, accepts, joined,
                overtaken>>

InviteIds == 1..MaxInvites
Unasked == [pc |-> "idle"]
IsUnasked(r) == sharing[r] = Unasked

Statuses == {"pending", "accepted", "revoked"}
Invites == [email : Emails, status : Statuses]
AuditEvents == [action : {"grant", "revoke"}, email : Emails]
GrantStates == {"none", "active", "revoked"}

AccessRequestState ==
  {Unasked}
  \cup [pc : {"invite"}, email : Emails, old : SUBSET InviteIds]
  \cup [pc : {"withdraw"}, id : InviteIds]
  \cup [pc : {"accept", "register"}, id : InviteIds, email : Emails, grant : GrantStates]
  \cup [pc : {"give", "take"}, email : Emails, grant : GrantStates]

AccessTypeOK ==
  /\ users \subseteq Emails
  /\ invites \in Seq(Invites)
  /\ Len(invites) <= MaxInvites
  /\ expired \subseteq DOMAIN invites
  /\ grants \in [Emails -> GrantStates]
  /\ audit \in Seq(AuditEvents)
  /\ sharing \in [ShareRequests -> AccessRequestState]
  /\ accepts \in [InviteIds -> Nat]
  /\ joined \subseteq users
  /\ overtaken \in BOOLEAN

AccessInit ==
  /\ users \in SUBSET Emails
  /\ invites = << >>
  /\ expired = {}
  /\ grants = [e \in Emails |-> "none"]
  /\ audit = << >>
  /\ sharing = [r \in ShareRequests |-> Unasked]
  /\ accepts = [i \in InviteIds |-> 0]
  /\ joined = {}
  /\ overtaken = FALSE

-----------------------------------------------------------------------------
Ask(r, q) ==
  /\ IsUnasked(r)
  /\ sharing' = [sharing EXCEPT ![r] = q]
  /\ UNCHANGED <<users, invites, expired, grants, audit, accepts, joined, overtaken>>

Answer(r) == sharing' = [sharing EXCEPT ![r] = Unasked]

Overtake(r) ==
  overtaken' = (overtaken \/ (/\ accessRows' # accessRows
                              /\ \E o \in ShareRequests \ {r} : ~IsUnasked(o)))

Pending(e) == {i \in DOMAIN invites : invites[i].email = e /\ invites[i].status = "pending"}

\* ensure_invite_acceptable, for the email the invitation was made out to.
Acceptable(i, e) ==
  /\ invites[i].email = e
  /\ invites[i].status = "pending"
  /\ i \notin expired

\* Accepting and registering hold the row of the invitation to the end.
Holds(r, i) == sharing[r].pc \in {"accept", "register"} /\ sharing[r].id = i
RowIsNotLocked(i) == i \in InviteIds
RowIsFree(i) == \A r \in ShareRequests : ~Holds(r, i)

\* activate_grant_no_commit: a new row, a row made active again, or nothing to write.
\* A row that another request has inserted meanwhile breaks the unique constraint.
GrantFits(q) == q.grant = "none" => grants[q.email] = "none"

ActivatedIfKnown(q) ==
  [grants EXCEPT ![q.email] = IF q.grant = "none" THEN @ ELSE "active"]

Activated(q) ==
  [grants EXCEPT ![q.email] = IF q.grant = "active" THEN @ ELSE "active"]

Record(action, e) == audit' = Append(audit, [action |-> action, email |-> e])

-----------------------------------------------------------------------------
(* create_invite *)
AskInvite(r, e) ==
  /\ ~(e \in users /\ grants[e] = "active")
  /\ Len(invites) < MaxInvites
  /\ Ask(r, [pc |-> "invite", email |-> e, old |-> Pending(e)])

RevokeOld(q) ==
  [i \in DOMAIN invites |->
     IF i \in q.old THEN [invites[i] EXCEPT !.status = "revoked"] ELSE invites[i]]

MakeInvite(r) ==
  LET q == sharing[r] IN
  /\ q.pc = "invite"
  /\ Len(invites) < MaxInvites
  /\ \A i \in q.old : RowIsFree(i)
  /\ invites' = Append(RevokeOld(q), [email |-> q.email, status |-> "pending"])
  /\ Answer(r)
  /\ UNCHANGED <<users, grants, audit>>
  /\ Overtake(r)
  /\ UNCHANGED <<expired, accepts, joined>>

(* revoke_invite *)
AskWithdraw(r, i) ==
  /\ invites[i].status = "pending"
  /\ Ask(r, [pc |-> "withdraw", id |-> i])

Withdraw(r) ==
  LET q == sharing[r] IN
  /\ q.pc = "withdraw"
  /\ RowIsFree(q.id)
  /\ invites' = [invites EXCEPT ![q.id].status = "revoked"]
  /\ Answer(r)
  /\ UNCHANGED <<users, grants, audit>>
  /\ Overtake(r)
  /\ UNCHANGED <<expired, accepts, joined>>

(* accept_invite and register: the row is locked, checked, and held. *)
AskAccept(r, i, e) ==
  /\ e \in users
  /\ RowIsFree(i)
  /\ Acceptable(i, e)
  /\ Ask(r, [pc |-> "accept", id |-> i, email |-> e, grant |-> grants[e]])

AskRegister(r, i, e) ==
  /\ e \notin users
  /\ RowIsFree(i)
  /\ Acceptable(i, e)
  /\ Ask(r, [pc |-> "register", id |-> i, email |-> e, grant |-> "none"])

\* consume_invite_no_commit and the commit of the caller, all or nothing.
Consume(r) ==
  LET q == sharing[r] IN
  /\ Len(audit) < MaxAudit
  /\ grants' = Activated(q)
  /\ invites' = [invites EXCEPT ![q.id].status = "accepted"]
  /\ Record("grant", q.email)
  /\ accepts' = [accepts EXCEPT ![q.id] = @ + 1]

Accept(r) ==
  /\ sharing[r].pc = "accept"
  /\ GrantFits(sharing[r])
  /\ Consume(r)
  /\ Answer(r)
  /\ UNCHANGED users
  /\ Overtake(r)
  /\ UNCHANGED <<expired, joined>>

\* users.email is unique: the account may exist by now.
Register(r) ==
  LET q == sharing[r] IN
  /\ q.pc = "register"
  /\ q.email \notin users
  /\ users' = users \cup {q.email}
  /\ joined' = joined \cup {q.email}
  /\ Consume(r)
  /\ Answer(r)
  /\ Overtake(r)
  /\ UNCHANGED expired

\* An account made without the invitation.
RegisterAlone(e) ==
  /\ e \notin users
  /\ users' = users \cup {e}
  /\ overtaken' = (overtaken \/ \E r \in ShareRequests : ~IsUnasked(r))
  /\ UNCHANGED <<invites, expired, grants, audit, sharing, accepts, joined>>

-----------------------------------------------------------------------------
(* grant_store_access and revoke_store_access *)
AskGive(r, e) ==
  /\ e \in users
  /\ Ask(r, [pc |-> "give", email |-> e, grant |-> grants[e]])

Give(r) ==
  LET q == sharing[r] IN
  /\ q.pc = "give"
  /\ GrantFits(q)
  /\ Len(audit) < MaxAudit
  /\ grants' = Activated(q)
  /\ Record("grant", q.email)
  /\ Answer(r)
  /\ UNCHANGED <<users, invites>>
  /\ Overtake(r)
  /\ UNCHANGED <<expired, accepts, joined>>

AskTake(r, e) ==
  /\ e \in users
  /\ grants[e] = "active"
  /\ Ask(r, [pc |-> "take", email |-> e, grant |-> "active"])

Take(r) ==
  LET q == sharing[r] IN
  /\ q.pc = "take"
  /\ Len(audit) < MaxAudit
  /\ grants' = [grants EXCEPT ![q.email] = "revoked"]
  /\ Record("revoke", q.email)
  /\ Answer(r)
  /\ UNCHANGED <<users, invites>>
  /\ Overtake(r)
  /\ UNCHANGED <<expired, accepts, joined>>

\* A broken constraint, a dead worker or a dropped connection: nothing is written.
RollBack(r) ==
  /\ ~IsUnasked(r)
  /\ Answer(r)
  /\ UNCHANGED <<users, invites, expired, grants, audit, accepts, joined, overtaken>>

\* INVITE_TTL passes for the oldest invitations first.
InviteExpires ==
  /\ Cardinality(expired) < Len(invites)
  /\ expired' = 1..(Cardinality(expired) + 1)
  /\ UNCHANGED <<users, invites, grants, audit, sharing, accepts, joined, overtaken>>

-----------------------------------------------------------------------------
AccessNext ==
  \/ \E r \in ShareRequests, e \in Emails :
       \/ AskInvite(r, e) \/ AskGive(r, e) \/ AskTake(r, e)
       \/ \E i \in DOMAIN invites : AskAccept(r, i, e) \/ AskRegister(r, i, e)
  \/ \E r \in ShareRequests :
       \/ \E i \in DOMAIN invites : AskWithdraw(r, i)
       \/ MakeInvite(r) \/ Withdraw(r) \/ Accept(r) \/ Register(r)
       \/ Give(r) \/ Take(r) \/ RollBack(r)
  \/ \E e \in Emails : RegisterAlone(e)
  \/ InviteExpires

AccessSpec == AccessInit /\ [][AccessNext]_accessVars

-----------------------------------------------------------------------------
(* The lock of validate_invite_for_registration and accept_invite: an invitation is
   accepted at most once, by users and registrations that overlap. *)
AcceptedOnce == \A i \in InviteIds : accepts[i] <= 1

(* The same lock against the owner: what is accepted was neither withdrawn nor replaced
   when the access was given, although both write without reading under the lock. *)
WithdrawnIsNotAccepted ==
  [][\A i \in DOMAIN invites :
       accepts'[i] > accepts[i] => invites[i].status = "pending"]_accessVars

(* An account made by an invitation has its access: the account, the access and the
   acceptance are one transaction. *)
JoinedHaveAccess ==
  \A e \in joined :
    /\ grants[e] # "none"
    /\ \E n \in DOMAIN audit : audit[n] = [action |-> "grant", email |-> e]

LastAction(e) ==
  LET of == {n \in DOMAIN audit : audit[n].email = e}
  IN IF of = {} THEN "none"
     ELSE audit[CHOOSE n \in of : \A m \in of : m <= n].action

(* As long as no request was overtaken, the audit tells who has access. *)
AuditTellsAccess ==
  ~overtaken => \A e \in Emails : grants[e] = "active" <=> LastAction(e) = "grant"

(* What the docstring of create_invite promises, as long as no request was overtaken:
   one current invitation for an email. *)
OneCurrentInvite == ~overtaken => \A e \in Emails : Cardinality(Pending(e)) <= 1

(* What store_invite_service and store_access_service keep true at every commit: an
   invitation is accepted once, who came by it has access, the audit and the list of
   current invitations tell the truth to an owner nobody overtook. *)
AccessInv ==
  /\ AccessTypeOK
  /\ AcceptedOnce /\ JoinedHaveAccess
  /\ AuditTellsAccess /\ OneCurrentInvite
=============================================================================
