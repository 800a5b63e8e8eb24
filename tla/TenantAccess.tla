---------------------------- MODULE TenantAccess ----------------------------
(***************************************************************************)
(* Who gets into a tenant (modules/tenantAdmin and the tenant's login): the*)
(* rows of tenant_user and tenant_user_invitation_token while              *)
(* administrators create, invite, patch, deactivate and reactivate users,  *)
(* users follow the links they were mailed, and log in.                    *)
(*                                                                         *)
(* A call is a READ COMMITTED transaction, or two with the sending of a    *)
(* mail between them.  It is cut where it may wait: for the tenant's       *)
(* advisory lifecycle lock, for the row of a user, for the row of a link.  *)
(* Nobody sees what it wrote before it commits, so it changes the tables   *)
(* in its last step.                                                       *)
(***************************************************************************)
EXTENDS Integers, FiniteSets

CONSTANTS
  Users,        \* rows of tenant_user of one tenant, by id
  FirstAdmins,  \* the administrators the tenant begins with
  Links,        \* rows of tenant_user_invitation_token: bounds the invitations
  Callers,      \* server calls that may be under way at the same time
  Patches,      \* the bodies of PATCH /users/:userId, None for an absent field
  MaxEndings,   \* bound on the deactivations of a user
  None

ASSUME AccessAssumption ==
  /\ IsFiniteSet(Users) /\ FirstAdmins \subseteq Users /\ FirstAdmins # {}
  /\ Users \cap Links = {} /\ "tenant" \notin Users \cup Links
  /\ None \notin Users \cup Links \cup Patches
  /\ MaxEndings \in Nat

Roles == {"tenant_admin", "technician"}
ManualStatuses == {"active", "suspended", "invited", "deleted"}
Lifecycle == {"deactivated", "pending_reactivation"}
OpenStatuses == {"pending", "sent", "send_failed"}
Flows == {"initial_setup", "reactivation"}

ASSUME PatchAssumption ==
  Patches \subseteq [role : Roles \cup {None}, status : ManualStatuses \cup {None}]
ASSUME NoneIsNoValue == None \notin Roles \cup ManualStatuses

VARIABLES
  users,     \* tenant_user; status "absent" where there is no row
  links,     \* tenant_user_invitation_token; status "none" where there is no row
  mailed,    \* the links that have arrived in a mailbox
  sessions,  \* the access tokens issued
  calls,     \* the server calls
  holds,     \* the locks each call holds
  endings,   \* history: how often a user was deactivated
  byHand,    \* history: the users whose status a PATCH has set
  readyMade  \* history: the users created "active"

vars == <<users, links, mailed, sessions, calls, holds, endings, byHand, readyMade>>

Row == [status : {"absent"} \cup ManualStatuses \cup Lifecycle,
        login  : {"imported_no_login", "pending_invite", "invited", "active",
                  "disabled", "pending_reactivation"},
        role   : Roles,
        version : Nat,
        own    : BOOLEAN]  \* the password is one the user chose

Link == [user : Users \cup {None}, flow : Flows,
         status : OpenStatuses \cup {"none", "used", "revoked"}]

Session == [user : Users, version : Nat, since : Nat]

Absent == [status |-> "absent", login |-> "imported_no_login",
           role |-> "technician", version |-> 0, own |-> FALSE]
FirstAdmin == [status |-> "active", login |-> "active",
               role |-> "tenant_admin", version |-> 0, own |-> TRUE]

Places == {"idle", "user", "revoke", "mail", "sent", "failed", "sentRow",
           "failedRow", "row", "tenant", "read", "update", "verify"}
Call == [op : {"none", "accept", "deactivate", "patch", "login"} \cup Flows, at : Places,
         user : Users \cup {None}, link : Links \cup {None},
         patch : Patches \cup {None}, version : Nat, since : Nat]
Idle == [op |-> "none", at |-> "idle", user |-> None, link |-> None,
         patch |-> None, version |-> 0, since |-> 0]

-----------------------------------------------------------------------------
(* What the code asks about rows.                                          *)

\* isActiveLoginUser; requireAuth's isActiveTenantUser
Active(u) == users[u].status = "active" /\ users[u].login = "active"

\* countActiveTenantAdmins
ActiveAdmins == {u \in Users : Active(u) /\ users[u].role = "tenant_admin"}

Open(i) == links[i].status \in OpenStatuses
OpenLinks(u) == {i \in Links : links[i].user = u /\ Open(i)}

\* isInitialSetupUserState, pending_reactivation: the flow a link must have.
Fits(i) ==
  LET row == users[links[i].user] IN
  IF links[i].flow = "reactivation"
  THEN row.status = "pending_reactivation"
  ELSE \/ row.status = "invited"
       \/ /\ row.status = "active"
          /\ row.login \in {"pending_invite", "invited", "imported_no_login"}

\* Mutant: only the link is looked at, as it was when it was inserted.
StillThere(i, flow) == links[i].status # "revoked" /\ links[i].flow = flow

\* isValidInvitationCompletionState: may the outcome of mailing i be recorded?
StillWaiting(i, flow) ==
  LET row == users[links[i].user] IN
  /\ links[i].status = "pending" /\ links[i].flow = flow
  /\ IF flow = "reactivation"
     THEN row.status = "pending_reactivation" /\ row.login = "pending_reactivation"
     ELSE /\ row.status \in {"active", "invited"}
          /\ row.login \in {"pending_invite", "imported_no_login", "invited"}

\* Who may be sent a link: sendTenantUserInvitation, ...ReactivationInvitation.
Sendable(u, flow) ==
  IF flow = "reactivation" THEN users[u].status \in Lifecycle
  ELSE users[u].status \in {"absent", "active", "invited"} /\ ~Active(u)

\* requireAuth: an access token the tenant's routes accept.
Accepted(s) == Active(s.user) /\ s.version = users[s.user].version

-----------------------------------------------------------------------------
(* Locks.                                                                  *)

Free(l, c) == \A d \in Callers \ {c} : l \notin holds[d]
AllFree(S, c) == \A l \in S : Free(l, c)

Go(c, place, locks) ==
  /\ calls' = [calls EXCEPT ![c].at = place]
  /\ holds' = [holds EXCEPT ![c] = locks]
End(c) ==
  /\ calls' = [calls EXCEPT ![c] = Idle]
  /\ holds' = [holds EXCEPT ![c] = {}]
NothingWritten == UNCHANGED <<users, links, mailed, sessions, endings, byHand, readyMade>>

\* Mutant: only deactivations take the lifecycle lock.
PatchLocksNothing(p) == {}

\* The locks a PATCH begins with: a role takes the lifecycle lock, a status none.
PatchLocks(p) == IF p.role # None THEN {"tenant"} ELSE {}

\* Mutant: the row is read without FOR UPDATE.
SendLocksNothing(u) == {}

\* What a call that sends a link holds while it revokes and inserts.
SendLocks(u) == {u}

Revoked(u) ==
  [i \in Links |->
     IF i \in OpenLinks(u) THEN [links[i] EXCEPT !.status = "revoked"] ELSE links[i]]

-----------------------------------------------------------------------------
(* Administrators' calls begin: requireAuth and requireTenantAdmin, then    *)
(* what is checked before the transaction.                                 *)

AdminActs(actor) ==
  \E s \in sessions : s.user = actor /\ Accepted(s) /\ actor \in ActiveAdmins

Begin(c, call) ==
  /\ calls[c] = Idle
  /\ calls' = [calls EXCEPT ![c] = call]
  /\ UNCHANGED holds /\ NothingWritten

Sending == {c \in Callers : calls[c].op \in Flows /\ calls[c].link = None}
Unused == {i \in Links : links[i].status = "none"}
Ending(u) == {c \in Callers : calls[c].op = "deactivate" /\ calls[c].user = u}

\* sendTenantUserInvitation and sendTenantUserReactivationInvitation.
StartSend(c) ==
  \E actor \in Users, u \in Users, flow \in Flows :
    /\ AdminActs(actor)
    /\ Cardinality(Sending) < Cardinality(Unused)
    /\ Begin(c, [Idle EXCEPT !.op = flow, !.at = "user", !.user = u])

StartDeactivate(c) ==
  \E actor \in Users, u \in Users :
    /\ AdminActs(actor) /\ actor # u
    /\ endings[u] + Cardinality(Ending(u)) < MaxEndings
    /\ Begin(c, [Idle EXCEPT !.op = "deactivate", !.at = "tenant", !.user = u])

StartPatch(c) ==
  \E actor \in Users, u \in Users, p \in Patches :
    /\ AdminActs(actor)
    /\ Begin(c, [Idle EXCEPT !.op = "patch", !.at = "read", !.user = u, !.patch = p])

\* createManualUser: one INSERT, refused by the address of an existing row.
Create(u) ==
  \E actor \in Users, role \in Roles, status \in ManualStatuses :
    /\ AdminActs(actor)
    /\ users[u].status = "absent"
    /\ \A c \in Callers : u \notin holds[c]
    /\ users' = [users EXCEPT ![u] =
         [Absent EXCEPT !.status = status, !.role = role,
                        !.login = IF status = "active" THEN "active" ELSE @]]
    /\ readyMade' = IF status = "active" THEN readyMade \cup {u} ELSE readyMade
    /\ UNCHANGED <<links, mailed, sessions, calls, holds, endings, byHand>>

-----------------------------------------------------------------------------
(* Sending a link.                                                         *)

\* The row under its lock: the refusals, or on to the links.  (An invitation
\* of an absent user is ensureTenantUserForFitter's, which makes the row.)
SendLocksUser(c) ==
  LET u == calls[c].user IN
  /\ calls[c].op \in Flows /\ calls[c].at = "user"
  /\ AllFree(SendLocks(u), c)
  /\ IF Sendable(u, calls[c].op) THEN Go(c, "revoke", SendLocks(u)) ELSE End(c)
  /\ NothingWritten

\* The row while its user is waited for: the first transaction's UPDATE or INSERT.
Asked(row, flow) ==
  IF flow = "reactivation"
  THEN [row EXCEPT !.status = "pending_reactivation",
                   !.login = "pending_reactivation", !.own = FALSE]
  ELSE [row EXCEPT !.status = IF @ = "active" THEN @ ELSE "invited",
                   !.login = "pending_invite"]

\* The open links are revoked, the new one is inserted, the user is waited for.
SendCommits(c) ==
  LET u == calls[c].user IN
  /\ calls[c].op \in Flows /\ calls[c].at = "revoke"
  /\ AllFree(OpenLinks(u), c)
  /\ \E i \in Unused :
       /\ links' = [Revoked(u) EXCEPT ![i] =
            [user |-> u, flow |-> calls[c].op, status |-> "pending"]]
       /\ calls' = [calls EXCEPT ![c].at = "mail", ![c].link = i]
  /\ users' = [users EXCEPT ![u] = Asked(@, calls[c].op)]
  /\ holds' = [holds EXCEPT ![c] = {}]
  /\ UNCHANGED <<mailed, sessions, endings, byHand, readyMade>>

\* sendEmail: an error may hide that the mail went out.
Mail(c) ==
  \E arrives \in BOOLEAN, answer \in {"sent", "failed"} :
    /\ calls[c].at = "mail"
    /\ answer = "sent" => arrives
    /\ mailed' = IF arrives THEN mailed \cup {calls[c].link} ELSE mailed
    /\ Go(c, answer, {})
    /\ UNCHANGED <<users, links, sessions, endings, byHand, readyMade>>

\* getInvitationForCompletionForUpdate: the link first ...
CompletionLocksLink(c) ==
  /\ calls[c].at \in {"sent", "failed"}
  /\ Free(calls[c].link, c)
  /\ Go(c, IF calls[c].at = "sent" THEN "sentRow" ELSE "failedRow", {calls[c].link})
  /\ NothingWritten

\* What the outcome of the mail makes of the user's row.
Told(row, flow, at) ==
  IF flow = "reactivation" THEN row
  ELSE IF at = "sentRow"
  THEN [row EXCEPT !.login = "invited",
                   !.status = IF @ = "active" THEN @ ELSE "invited"]
  ELSE [row EXCEPT !.login = "pending_invite"]

\* ... then the user, and the outcome is recorded unless it comes too late.
CompletionCommits(c) ==
  LET u == calls[c].user
      i == calls[c].link IN
  /\ calls[c].at \in {"sentRow", "failedRow"}
  /\ Free(u, c)
  /\ IF StillWaiting(i, calls[c].op)
     THEN /\ links' = [links EXCEPT ![i].status =
                         IF calls[c].at = "sentRow" THEN "sent" ELSE "send_failed"]
          /\ users' = [users EXCEPT ![u] = Told(@, calls[c].op, calls[c].at)]
     ELSE UNCHANGED <<links, users>>
  /\ End(c)
  /\ UNCHANGED <<mailed, sessions, endings, byHand, readyMade>>

-----------------------------------------------------------------------------
(* Following a link.                                                       *)

\* findInvitationByToken FOR UPDATE locks the link's row and then the user's.
StartAccept(c) ==
  \E i \in mailed :
    /\ calls[c] = Idle
    /\ Free(i, c)
    /\ calls' = [calls EXCEPT ![c] =
         [Idle EXCEPT !.op = "accept", !.at = "row", !.user = links[i].user, !.link = i]]
    /\ holds' = [holds EXCEPT ![c] = {i}]
    /\ NothingWritten

\* The rest of acceptTenantUserInvitation: refused, or the user is active.
AcceptCommits(c) ==
  LET u == calls[c].user
      i == calls[c].link IN
  /\ calls[c].at = "row"
  /\ Free(u, c)
  /\ AllFree(OpenLinks(u), c)
  /\ IF Open(i) /\ Fits(i)
     THEN /\ users' = [users EXCEPT ![u] =
                [@ EXCEPT !.status = "active", !.login = "active", !.own = TRUE]]
          /\ links' = [Revoked(u) EXCEPT ![i].status = "used"]
     ELSE UNCHANGED <<users, links>>
  /\ End(c)
  /\ UNCHANGED <<mailed, sessions, endings, byHand, readyMade>>

-----------------------------------------------------------------------------
(* deactivateUser.                                                         *)

DeactivateLocksTenant(c) ==
  /\ calls[c].op = "deactivate" /\ calls[c].at = "tenant"
  /\ Free("tenant", c)
  /\ Go(c, "user", {"tenant"})
  /\ NothingWritten

\* The row FOR UPDATE, and the administrators counted while it is held.
DeactivateLocksUser(c) ==
  LET u == calls[c].user IN
  /\ calls[c].op = "deactivate" /\ calls[c].at = "user"
  /\ Free(u, c)
  /\ IF /\ users[u].status = "active"
        /\ users[u].role = "tenant_admin" => Cardinality(ActiveAdmins) > 1
     THEN Go(c, "revoke", {"tenant", u})
     ELSE End(c)
  /\ NothingWritten

\* Mutant: the sessions' version stays.
EndedKeepingSessions(row) ==
  [row EXCEPT !.status = "deactivated", !.login = "disabled", !.own = FALSE]

\* deactivateTenantUser: the password becomes a random one.
Ended(row) ==
  [row EXCEPT !.status = "deactivated", !.login = "disabled",
              !.version = @ + 1, !.own = FALSE]

DeactivateCommits(c) ==
  LET u == calls[c].user IN
  /\ calls[c].op = "deactivate" /\ calls[c].at = "revoke"
  /\ AllFree(OpenLinks(u), c)
  /\ links' = Revoked(u)
  /\ users' = [users EXCEPT ![u] = Ended(@)]
  /\ endings' = [endings EXCEPT ![u] = @ + 1]
  /\ End(c)
  /\ UNCHANGED <<mailed, sessions, byHand, readyMade>>

-----------------------------------------------------------------------------
(* updateManualUser.                                                       *)

\* findTenantUser reads without a lock: what it allows is decided here.
PatchReads(c) ==
  LET u == calls[c].user
      p == calls[c].patch IN
  /\ calls[c].op = "patch" /\ calls[c].at = "read"
  /\ AllFree(PatchLocks(p), c)
  /\ IF /\ users[u].status # "absent"
        /\ p.status # None => users[u].status \notin Lifecycle
        /\ (p.role \notin {None, "tenant_admin"} /\ u \in ActiveAdmins) =>
             Cardinality(ActiveAdmins) > 1
     THEN Go(c, "update", PatchLocks(p))
     ELSE End(c)
  /\ NothingWritten

\* updateManualTenantUser: COALESCE and CASE over the row as it is by then.
Patched(row, p) ==
  [row EXCEPT
     !.role = IF p.role = None THEN @ ELSE p.role,
     !.status = IF p.status = None THEN @ ELSE p.status,
     !.login = IF p.status \in {"suspended", "deleted"} THEN "disabled"
               ELSE IF p.status = "active" THEN "active" ELSE @]

PatchCommits(c) ==
  LET u == calls[c].user
      p == calls[c].patch IN
  /\ calls[c].op = "patch" /\ calls[c].at = "update"
  /\ Free(u, c)
  /\ users' = [users EXCEPT ![u] = Patched(@, p)]
  /\ byHand' = IF p.status = None THEN byHand ELSE byHand \cup {u}
  /\ End(c)
  /\ UNCHANGED <<links, mailed, sessions, endings, readyMade>>

-----------------------------------------------------------------------------
(* POST /v1/auth/login.                                                    *)

\* One SELECT gives status, password hash and session version; the password
\* is then compared with the hash, which takes its time.
LoginReads(c) ==
  \E u \in Users :
    /\ calls[c] = Idle
    /\ Active(u) /\ users[u].own
    /\ calls' = [calls EXCEPT ![c] =
         [Idle EXCEPT !.op = "login", !.at = "verify", !.user = u,
                      !.version = users[u].version, !.since = endings[u]]]
    /\ UNCHANGED holds /\ NothingWritten

LoginIssues(c) ==
  /\ calls[c].op = "login" /\ calls[c].at = "verify"
  /\ sessions' = sessions \cup {[user |-> calls[c].user, version |-> calls[c].version,
                                 since |-> calls[c].since]}
  /\ End(c)
  /\ UNCHANGED <<users, links, mailed, endings, byHand, readyMade>>

-----------------------------------------------------------------------------
(* Failures.                                                               *)

\* A transaction that records the mail as sent is aborted (as the victim of a
\* deadlock, say): the catch block records a failure instead.
Catch(c) ==
  /\ calls[c].at \in {"sent", "sentRow"}
  /\ Go(c, "failed", {})
  /\ NothingWritten

\* Any other transaction is aborted, or the process stops.
Break(c) ==
  /\ calls[c] # Idle
  /\ End(c)
  /\ NothingWritten

-----------------------------------------------------------------------------
Init ==
  /\ users = [u \in Users |-> IF u \in FirstAdmins THEN FirstAdmin ELSE Absent]
  /\ links = [i \in Links |-> [user |-> None, flow |-> "initial_setup", status |-> "none"]]
  /\ mailed = {}
  /\ sessions = [user : FirstAdmins, version : {0}, since : {0}]
  /\ calls = [c \in Callers |-> Idle]
  /\ holds = [c \in Callers |-> {}]
  /\ endings = [u \in Users |-> 0]
  /\ byHand = {}
  /\ readyMade = {}

Send(c) == StartSend(c) \/ SendLocksUser(c) \/ SendCommits(c) \/ Mail(c)
             \/ CompletionLocksLink(c) \/ CompletionCommits(c)
Accept(c) == StartAccept(c) \/ AcceptCommits(c)
Deactivate(c) == StartDeactivate(c) \/ DeactivateLocksTenant(c)
                   \/ DeactivateLocksUser(c) \/ DeactivateCommits(c)
Patch(c) == StartPatch(c) \/ PatchReads(c) \/ PatchCommits(c)
Login(c) == LoginReads(c) \/ LoginIssues(c)

Next ==
  \/ \E u \in Users : Create(u)
  \/ \E c \in Callers : \/ Send(c) \/ Accept(c) \/ Deactivate(c) \/ Patch(c)
                        \/ Login(c) \/ Catch(c) \/ Break(c)

Spec == Init /\ [][Next]_vars

-----------------------------------------------------------------------------
(* Properties.                                                             *)

\* Every variable keeps its type.
TablesTypeOK ==
  /\ users \in [Users -> Row]
  /\ links \in [Links -> Link]
  /\ mailed \subseteq Links
  /\ sessions \subseteq Session
  /\ endings \in [Users -> Nat]
  /\ byHand \subseteq Users
  /\ readyMade \subseteq Users
TypeOK ==
  /\ TablesTypeOK
  /\ calls \in [Callers -> Call]
  /\ holds \in [Callers -> SUBSET ({"tenant"} \cup Users \cup Links)]

\* However sends, acceptances, completions and deactivations of one user
\* overlap, he has at most one open link (the partial unique index
\* ux_tenant_user_invitation_token_open never refuses an invitation), and as
\* long as nobody has set his status by hand, that link is of the flow his
\* account waits for: following it is not answered by a mismatch.
OpenLinkIsCurrent ==
  \A i \in Links : Open(i) =>
    /\ \A j \in OpenLinks(links[i].user) : j = i
    /\ links[i].user \notin byHand => Fits(i)

\* A user who can log in stays able to as long as his account stays active: the
\* late outcome of a mail, or another invitation under way, never turns his login
\* back to that of an invited one.
NoLockout ==
  [][\A u \in Users :
       (Active(u) /\ users'[u].status = "active") => users'[u].login = "active"]_vars

\* However deactivations, changes of role and invitations overlap, the tenant
\* keeps an administrator who can log in, one with a password of his own.  Not
\* covered are tenants where a PATCH has set a status, which counts nobody, or
\* where an administrator counted now was created "active": such an account has
\* a random password nobody knows, and countActiveTenantAdmins counts it.
LastAdminStays ==
  (byHand = {} /\ readyMade \cap ActiveAdmins = {}) => \E u \in ActiveAdmins : users[u].own

\* A session that began before a deactivation is never accepted after it, not
\* even when the user is active again: also if the login read the row before
\* the deactivation and issued the token after it.
SessionsEnd ==
  \A s \in sessions : Accepted(s) => s.since = endings[s.user]

\* "Reactivation does not directly activate a user": a deactivated account
\* becomes active only with the use of a reactivation link.
ReactivatedByLink ==
  [][\A u \in Users :
       (users[u].status \in Lifecycle /\ users'[u].status = "active") =>
         \E i \in Links : /\ links[i].user = u /\ links[i].flow = "reactivation"
                          /\ Open(i) /\ links'[i].status = "used"]_vars

=============================================================================
