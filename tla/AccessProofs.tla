---------------------------- MODULE AccessProofs ----------------------------
(***************************************************************************)
(* Theorems about TenantAccess, for any number of users, links, calls and  *)
(* deactivations and any bodies of PATCH.                                  *)
(*                                                                         *)
(* The invariant has two layers.  Discipline says which locks a call holds *)
(* where it is, and that no lock is held twice.  Accounts says what a call *)
(* has made sure of and may still rely on: of the user whose row it has    *)
(* locked, because every writer of a row waits for that lock; and of the   *)
(* other administrators, because only the holder of the lifecycle lock, or *)
(* a status set by hand, takes an administrator away.                      *)
(***************************************************************************)
EXTENDS TenantAccess, TLAPS, FiniteSetTheorems

-----------------------------------------------------------------------------
(* Discipline.                                                             *)

Exists(i) == links[i].status # "none"
Existing == /\ \A i \in Links : Exists(i) => links[i].user \in Users
            /\ \A i \in mailed : Exists(i)

Names(k) == k.link \in Links /\ Exists(k.link) /\ links[k.link].user = k.user

Mailing == {"mail", "sent", "failed", "sentRow", "failedRow"}

\* Where a call may be, and what it knows there.
Shaped(k) ==
  \/ k = Idle
  \/ k.op \in Flows /\ k.user \in Users /\ k.at \in {"user", "revoke"}
  \/ k.op \in Flows /\ k.user \in Users /\ k.at \in Mailing /\ Names(k)
  \/ k.op = "accept" /\ k.user \in Users /\ k.at = "row" /\ Names(k)
  \/ k.op = "deactivate" /\ k.user \in Users /\ k.at \in {"tenant", "user", "revoke"}
  \/ /\ k.op = "patch" /\ k.user \in Users /\ k.at \in {"read", "update"}
     /\ k.patch \in Patches
  \/ k.op = "login" /\ k.user \in Users /\ k.at = "verify"

\* The locks of a call follow from where it is.
Held(k) ==
  {l \in {"tenant"} : \/ k.op = "deactivate" /\ k.at \in {"user", "revoke"}
                      \/ k.op = "patch" /\ k.at = "update" /\ k.patch.role # None}
  \cup {l \in {k.user} : k.at = "revoke"}
  \cup {l \in {k.link} : k.at \in {"sentRow", "failedRow", "row"}}

Exclusive == \A c, d \in Callers : c # d => holds[c] \cap holds[d] = {}

Discipline ==
  /\ TypeOK
  /\ Existing
  /\ \A c \in Callers : Shaped(calls[c]) /\ holds[c] = Held(calls[c])
  /\ Exclusive

\* No step forgets a link or gives it to another user.
LinksStay == \A i \in Links : Exists(i) => Exists(i)' /\ links'[i].user = links[i].user

\* What a step of one call has to show.
LEMMA CallStep ==
  ASSUME Discipline, NEW c \in Callers, NEW k \in Call,
         calls' = [calls EXCEPT ![c] = k], holds' = [holds EXCEPT ![c] = Held(k)],
         TablesTypeOK', Existing', LinksStay, Shaped(k)',
         Held(k) \subseteq {"tenant"} \cup Users \cup Links,
         \A d \in Callers \ {c} : Held(k) \cap holds[d] = {}
  PROVE  Discipline'
<1>1. TypeOK'
  BY DEF Discipline, TypeOK
<1>2. \A d \in Callers : d # c => calls'[d] = calls[d] /\ holds'[d] = holds[d]
  BY DEF Discipline, TypeOK
<1>3. calls'[c] = k /\ holds'[c] = Held(k)
  BY DEF Discipline, TypeOK
<1>4. \A d \in Callers : Shaped(calls[d])'
  <2> TAKE d \in Callers
  <2>1. CASE d = c
    BY <2>1, <1>3 DEF Shaped, Names, Exists
  <2>2. CASE d # c
    <3>1. Shaped(calls[d]) /\ calls'[d] = calls[d]
      BY <2>2, <1>2 DEF Discipline
    <3>2. Names(calls[d]) => Names(calls[d])'
      BY <3>1 DEF Names, LinksStay
    <3> QED BY <3>1, <3>2 DEF Shaped
  <2> QED BY <2>1, <2>2
<1>5. \A d \in Callers : holds'[d] = Held(calls[d])'
  <2> TAKE d \in Callers
  <2>1. CASE d = c
    BY <2>1, <1>3 DEF Held
  <2>2. CASE d # c
    BY <2>2, <1>2 DEF Discipline, Held
  <2> QED BY <2>1, <2>2
<1>6. Exclusive'
  BY <1>2, <1>3 DEF Discipline, Exclusive
<1> QED BY <1>1, <1>4, <1>5, <1>6 DEF Discipline

LEMMA IdleTyped == Idle \in Call /\ Held(Idle) = {} /\ Idle.op = "none" /\ Idle.at = "idle"
BY DEF Idle, Call, Places, Held

\* A call that ends lets go of everything.
LEMMA EndStep ==
  ASSUME Discipline, NEW c \in Callers, End(c), TablesTypeOK', Existing', LinksStay
  PROVE  Discipline'
<1>1. holds' = [holds EXCEPT ![c] = Held(Idle)] /\ calls' = [calls EXCEPT ![c] = Idle]
  BY IdleTyped DEF End
<1>2. Shaped(Idle)'
  BY DEF Shaped, Idle
<1> QED BY <1>1, <1>2, IdleTyped, CallStep

\* A step that writes nothing.
LEMMA Unwritten ==
  ASSUME Discipline, NothingWritten PROVE TablesTypeOK' /\ Existing' /\ LinksStay
<1>1. TablesTypeOK'
  BY DEF Discipline, TypeOK, TablesTypeOK, NothingWritten
<1>2. Existing' /\ LinksStay
  BY DEF Discipline, Existing, Exists, LinksStay, NothingWritten
<1> QED BY <1>1, <1>2

\* A call that goes on to another place.
LEMMA GoStep ==
  ASSUME Discipline, NEW c \in Callers, NEW p, NEW S, NEW k \in Call, Go(c, p, S),
         k = [calls[c] EXCEPT !.at = p], Shaped(k)', S = Held(k),
         S \subseteq {"tenant"} \cup Users \cup Links, AllFree(S, c),
         TablesTypeOK', Existing', LinksStay
  PROVE  Discipline'
<1>1. calls' = [calls EXCEPT ![c] = k] /\ holds' = [holds EXCEPT ![c] = Held(k)]
  BY DEF Go, Discipline, TypeOK
<1>2. \A d \in Callers \ {c} : Held(k) \cap holds[d] = {}
  BY DEF AllFree, Free
<1> QED BY <1>1, <1>2, CallStep

\* A call that begins, holding nothing yet.
LEMMA BeginStep ==
  ASSUME Discipline, NEW c \in Callers, NEW k \in Call, Begin(c, k),
         Shaped(k), Held(k) = {}
  PROVE  Discipline'
<1>1. calls' = [calls EXCEPT ![c] = k] /\ NothingWritten
  BY DEF Begin
<1>2. holds[c] = {}
  BY IdleTyped DEF Begin, Discipline
<1>3. holds' = [holds EXCEPT ![c] = Held(k)]
  BY <1>2 DEF Begin, Discipline, TypeOK
<1>4. Shaped(k)'
  BY <1>1 DEF Shaped, Names, Exists, NothingWritten
<1> QED BY <1>1, <1>3, <1>4, Unwritten, CallStep

-----------------------------------------------------------------------------
(* Discipline: every step keeps it.                                        *)

LEMMA StartSendKeeps == ASSUME Discipline, NEW c \in Callers, StartSend(c) PROVE Discipline'
<1>1. PICK u \in Users, flow \in Flows :
        Begin(c, [Idle EXCEPT !.op = flow, !.at = "user", !.user = u])
  BY DEF StartSend
<1> DEFINE k == [Idle EXCEPT !.op = flow, !.at = "user", !.user = u]
<1>2. k \in Call /\ k.op = flow /\ k.at = "user" /\ k.user = u
  BY DEF Idle, Call, Places
<1>3. Shaped(k)
  BY <1>2 DEF Shaped
<1>4. Held(k) = {}
  BY <1>2 DEF Held, Flows
<1> HIDE DEF k
<1> QED BY <1>1, <1>2, <1>3, <1>4, BeginStep DEF k

LEMMA StartDeactivateKeeps ==
  ASSUME Discipline, NEW c \in Callers, StartDeactivate(c) PROVE Discipline'
<1>1. PICK u \in Users :
        Begin(c, [Idle EXCEPT !.op = "deactivate", !.at = "tenant", !.user = u])
  BY DEF StartDeactivate
<1> DEFINE k == [Idle EXCEPT !.op = "deactivate", !.at = "tenant", !.user = u]
<1>2. k \in Call /\ k.op = "deactivate" /\ k.at = "tenant" /\ k.user = u
  BY DEF Idle, Call, Places
<1>3. Shaped(k)
  BY <1>2 DEF Shaped
<1>4. Held(k) = {}
  BY <1>2 DEF Held
<1> HIDE DEF k
<1> QED BY <1>1, <1>2, <1>3, <1>4, BeginStep DEF k

LEMMA StartPatchKeeps == ASSUME Discipline, NEW c \in Callers, StartPatch(c) PROVE Discipline'
<1>1. PICK u \in Users, p \in Patches :
        Begin(c, [Idle EXCEPT !.op = "patch", !.at = "read", !.user = u, !.patch = p])
  BY DEF StartPatch
<1> DEFINE k == [Idle EXCEPT !.op = "patch", !.at = "read", !.user = u, !.patch = p]
<1>2. k \in Call /\ k.op = "patch" /\ k.at = "read" /\ k.user = u /\ k.patch = p
  BY DEF Idle, Call, Places
<1>3. Shaped(k)
  BY <1>2 DEF Shaped
<1>4. Held(k) = {}
  BY <1>2 DEF Held
<1> HIDE DEF k
<1> QED BY <1>1, <1>2, <1>3, <1>4, BeginStep DEF k

\* A call moved to another place is a call, alike but for the place.
LEMMA Moved ==
  ASSUME Discipline, NEW c \in Callers, NEW p \in Places,
         NEW k, k = [calls[c] EXCEPT !.at = p]
  PROVE  /\ k \in Call /\ k.at = p /\ k.op = calls[c].op /\ k.user = calls[c].user
         /\ k.link = calls[c].link /\ k.patch = calls[c].patch
         /\ calls[c] \in Call /\ Shaped(calls[c]) /\ holds[c] = Held(calls[c])
BY DEF Discipline, TypeOK, Call

LEMMA SendLocksUserKeeps ==
  ASSUME Discipline, NEW c \in Callers, SendLocksUser(c) PROVE Discipline'
<1> DEFINE u == calls[c].user
<1>0. TablesTypeOK' /\ Existing' /\ LinksStay /\ NothingWritten
  BY Unwritten DEF SendLocksUser
<1>1. CASE End(c)
  BY <1>0, <1>1, EndStep
<1>2. CASE Go(c, "revoke", {u})
  <2>1. PICK k : k = [calls[c] EXCEPT !.at = "revoke"]
    OBVIOUS
  <2>2. /\ k \in Call /\ k.at = "revoke" /\ k.op = calls[c].op /\ k.user = u
        /\ Shaped(calls[c]) /\ calls[c].op \in Flows /\ calls[c].at = "user"
    BY <2>1, Moved DEF Places, SendLocksUser
  <2>3. u \in Users
    BY <2>2 DEF Shaped, Idle
  <2>4. Shaped(k)'
    BY <2>2, <2>3 DEF Shaped
  <2>5. Held(k) = {u}
    BY <2>2 DEF Held, Flows
  <2>6. AllFree({u}, c)
    BY DEF SendLocksUser, SendLocks
  <2> HIDE DEF u
  <2> QED BY <1>0, <1>2, <2>1, <2>2, <2>3, <2>4, <2>5, <2>6, GoStep
<1> QED BY <1>1, <1>2 DEF SendLocksUser, SendLocks

LEMMA DeactivateLocksTenantKeeps ==
  ASSUME Discipline, NEW c \in Callers, DeactivateLocksTenant(c) PROVE Discipline'
<1>0. TablesTypeOK' /\ Existing' /\ LinksStay /\ NothingWritten
  BY Unwritten DEF DeactivateLocksTenant
<1>1. PICK k : k = [calls[c] EXCEPT !.at = "user"]
  OBVIOUS
<1>2. /\ k \in Call /\ k.at = "user" /\ k.op = "deactivate" /\ k.user = calls[c].user
      /\ Shaped(calls[c]) /\ calls[c].op = "deactivate"
  BY <1>1, Moved DEF Places, DeactivateLocksTenant
<1>3. k.user \in Users
  BY <1>2 DEF Shaped, Idle, Flows
<1>4. Shaped(k)'
  BY <1>2, <1>3 DEF Shaped
<1>5. Held(k) = {"tenant"}
  BY <1>2 DEF Held
<1>6. Go(c, "user", {"tenant"}) /\ AllFree({"tenant"}, c)
  BY DEF DeactivateLocksTenant, AllFree
<1> QED BY <1>0, <1>1, <1>2, <1>4, <1>5, <1>6, GoStep

LEMMA DeactivateLocksUserKeeps ==
  ASSUME Discipline, NEW c \in Callers, DeactivateLocksUser(c) PROVE Discipline'
<1> DEFINE u == calls[c].user
<1>0. TablesTypeOK' /\ Existing' /\ LinksStay /\ NothingWritten
  BY Unwritten DEF DeactivateLocksUser
<1>1. CASE End(c)
  BY <1>0, <1>1, EndStep
<1>2. CASE Go(c, "revoke", {"tenant", u})
  <2>1. PICK k : k = [calls[c] EXCEPT !.at = "revoke"]
    OBVIOUS
  <2>2. /\ k \in Call /\ k.at = "revoke" /\ k.op = "deactivate" /\ k.user = u
        /\ Shaped(calls[c]) /\ calls[c].op = "deactivate" /\ calls[c].at = "user"
        /\ holds[c] = Held(calls[c])
    BY <2>1, Moved DEF Places, DeactivateLocksUser
  <2>3. u \in Users
    BY <2>2 DEF Shaped, Idle, Flows
  <2>4. Shaped(k)'
    BY <2>2, <2>3 DEF Shaped
  <2>5. Held(k) = {"tenant", u}
    BY <2>2 DEF Held
  <2>6. "tenant" \in holds[c]
    BY <2>2 DEF Held
  <2>7. AllFree({"tenant", u}, c)
    BY <2>6 DEF DeactivateLocksUser, AllFree, Free, Discipline, Exclusive
  <2> HIDE DEF u
  <2> QED BY <1>0, <1>2, <2>1, <2>2, <2>3, <2>4, <2>5, <2>7, GoStep
<1> QED BY <1>1, <1>2 DEF DeactivateLocksUser

LEMMA PatchReadsKeeps ==
  ASSUME Discipline, NEW c \in Callers, PatchReads(c) PROVE Discipline'
<1> DEFINE p == calls[c].patch
<1>0. TablesTypeOK' /\ Existing' /\ LinksStay /\ NothingWritten
  BY Unwritten DEF PatchReads
<1>1. CASE End(c)
  BY <1>0, <1>1, EndStep
<1>2. CASE Go(c, "update", PatchLocks(p))
  <2>1. PICK k : k = [calls[c] EXCEPT !.at = "update"]
    OBVIOUS
  <2>2. /\ k \in Call /\ k.at = "update" /\ k.op = "patch" /\ k.user = calls[c].user
        /\ k.patch = p /\ Shaped(calls[c]) /\ calls[c].op = "patch"
    BY <2>1, Moved DEF Places, PatchReads
  <2>3. k.user \in Users /\ p \in Patches
    BY <2>2 DEF Shaped, Idle, Flows
  <2>4. Shaped(k)'
    BY <2>2, <2>3 DEF Shaped
  <2>5. Held(k) = PatchLocks(p)
    BY <2>2 DEF Held, PatchLocks
  <2>6. AllFree(PatchLocks(p), c) /\ PatchLocks(p) \subseteq {"tenant"}
    BY DEF PatchReads, PatchLocks
  <2> HIDE DEF p
  <2> QED BY <1>0, <1>2, <2>1, <2>2, <2>4, <2>5, <2>6, GoStep
<1> QED BY <1>1, <1>2 DEF PatchReads

LEMMA CompletionLocksLinkKeeps ==
  ASSUME Discipline, NEW c \in Callers, CompletionLocksLink(c) PROVE Discipline'
<1>0. TablesTypeOK' /\ Existing' /\ LinksStay /\ NothingWritten
  BY Unwritten DEF CompletionLocksLink
<1>1. PICK p : p = IF calls[c].at = "sent" THEN "sentRow" ELSE "failedRow"
  OBVIOUS
<1>2. PICK k : k = [calls[c] EXCEPT !.at = p]
  OBVIOUS
<1>3. /\ k \in Call /\ k.at = p /\ p \in {"sentRow", "failedRow"} /\ k.op = calls[c].op
      /\ k.user = calls[c].user /\ k.link = calls[c].link
      /\ Shaped(calls[c]) /\ calls[c].at \in {"sent", "failed"}
  BY <1>1, <1>2, Moved DEF Places, CompletionLocksLink
<1>4. k.op \in Flows /\ k.user \in Users /\ Names(k)
  BY <1>3 DEF Shaped, Idle, Names, Mailing
<1>5. Names(k)'
  BY <1>0, <1>4 DEF Names, LinksStay
<1>6. Shaped(k)'
  BY <1>3, <1>4, <1>5 DEF Shaped, Mailing
<1>7. Held(k) = {k.link} /\ k.link \in Links
  BY <1>3, <1>4 DEF Held, Flows, Names
<1>8. Go(c, p, {k.link}) /\ AllFree({k.link}, c)
  BY <1>1, <1>3 DEF CompletionLocksLink, AllFree
<1> QED BY <1>0, <1>2, <1>3, <1>6, <1>7, <1>8, GoStep

\* What the writing steps make of rows and links is typed, and names no link anew.
LEMMA RowsTyped ==
  ASSUME NEW row \in Row
  PROVE  /\ \A flow \in Flows : Asked(row, flow) \in Row
         /\ \A flow \in Flows, at \in {"sentRow", "failedRow"} : Told(row, flow, at) \in Row
         /\ [row EXCEPT !.status = "active", !.login = "active", !.own = TRUE] \in Row
         /\ Ended(row) \in Row
         /\ \A p \in Patches : Patched(row, p) \in Row
<1>1. \A flow \in Flows : Asked(row, flow) \in Row
  BY DEF Row, Asked, ManualStatuses, Lifecycle
<1>2. \A flow \in Flows, at \in {"sentRow", "failedRow"} : Told(row, flow, at) \in Row
  BY DEF Row, Told, ManualStatuses, Lifecycle
<1>3. [row EXCEPT !.status = "active", !.login = "active", !.own = TRUE] \in Row
  BY DEF Row, ManualStatuses, Lifecycle
<1>4. Ended(row) \in Row
  <2>1. row.version + 1 \in Nat
    BY DEF Row
  <2>2. \A n \in Nat : [row EXCEPT !.status = "deactivated", !.login = "disabled",
                                  !.version = n, !.own = FALSE] \in Row
    BY DEF Row, ManualStatuses, Lifecycle
  <2> QED BY <2>1, <2>2 DEF Ended
<1>5. ASSUME NEW p \in Patches PROVE Patched(row, p) \in Row
  <2>1. p.role \in Roles \cup {None} /\ p.status \in ManualStatuses \cup {None}
    BY PatchAssumption
  <2> QED BY <2>1 DEF Row, Patched
<1> QED BY <1>1, <1>2, <1>3, <1>4, <1>5

LEMMA LinksTyped ==
  ASSUME Discipline, NEW u \in Users
  PROVE  /\ Revoked(u) \in [Links -> Link]
         /\ \A i \in Links : /\ Revoked(u)[i].user = links[i].user
                             /\ Revoked(u)[i].flow = links[i].flow
                             /\ Revoked(u)[i].status = "none" <=> links[i].status = "none"
                             /\ i \in OpenLinks(u) => Revoked(u)[i].status = "revoked"
                             /\ i \notin OpenLinks(u) => Revoked(u)[i] = links[i]
BY DEF Discipline, TypeOK, TablesTypeOK, Link, Revoked, OpenLinks, Open, OpenStatuses

LEMMA CreateKeeps == ASSUME Discipline, NEW u \in Users, Create(u) PROVE Discipline'
<1>1. PICK role \in Roles, status \in ManualStatuses :
        users' = [users EXCEPT ![u] =
          [Absent EXCEPT !.status = status, !.role = role,
                         !.login = IF status = "active" THEN "active" ELSE @]]
  BY DEF Create
<1>2. UNCHANGED <<links, mailed, sessions, calls, holds, endings, byHand>>
  BY DEF Create
<1>3. TypeOK'
  BY <1>1, <1>2 DEF Create, Discipline, TypeOK, TablesTypeOK, Row, Absent, ManualStatuses, Roles
<1>4. Existing' /\ Exclusive'
  BY <1>2 DEF Discipline, Existing, Exists, Exclusive
<1>5. \A c \in Callers : Shaped(calls[c])' /\ holds'[c] = Held(calls[c])'
  BY <1>2 DEF Discipline, Shaped, Names, Exists, Held
<1> QED BY <1>3, <1>4, <1>5 DEF Discipline

LEMMA SendCommitsKeeps == ASSUME Discipline, NEW c \in Callers, SendCommits(c) PROVE Discipline'
<1> DEFINE u == calls[c].user
           op == calls[c].op
<1>0. calls[c] \in Call /\ Shaped(calls[c]) /\ op \in Flows /\ calls[c].at = "revoke"
  BY DEF Discipline, TypeOK, SendCommits
<1>1. u \in Users
  BY <1>0 DEF Shaped, Idle
<1>2. PICK i \in Unused :
        /\ links' = [Revoked(u) EXCEPT ![i] = [user |-> u, flow |-> op, status |-> "pending"]]
        /\ calls' = [calls EXCEPT ![c].at = "mail", ![c].link = i]
  BY DEF SendCommits
<1>3. i \in Links /\ ~Exists(i)
  BY DEF Unused, Exists
<1>4. users' = [users EXCEPT ![u] = Asked(@, op)] /\ holds' = [holds EXCEPT ![c] = {}]
      /\ UNCHANGED <<mailed, sessions, endings, byHand, readyMade>>
  BY DEF SendCommits
<1>5. TablesTypeOK'
  <2>1. users' \in [Users -> Row]
    BY <1>0, <1>1, <1>4, RowsTyped DEF Discipline, TypeOK, TablesTypeOK
  <2>2. links' \in [Links -> Link]
    BY <1>0, <1>1, <1>2, <1>3, LinksTyped DEF Link, OpenStatuses
  <2> QED BY <1>4, <2>1, <2>2 DEF Discipline, TypeOK, TablesTypeOK
<1>6. LinksStay /\ Exists(i)' /\ links'[i].user = u
  BY <1>1, <1>2, <1>3, LinksTyped DEF LinksStay, Exists
<1>7. Existing'
  <2>1. \A j \in Links : j # i => links'[j].user = links[j].user /\ (Exists(j)' => Exists(j))
    BY <1>1, <1>2, <1>3, LinksTyped DEF Exists
  <2>2. \A j \in Links : Exists(j)' => links'[j].user \in Users
    BY <1>1, <1>6, <2>1 DEF Discipline, Existing
  <2>3. \A j \in mailed : j \in Links /\ Exists(j)
    BY DEF Discipline, TypeOK, TablesTypeOK, Existing
  <2> QED BY <1>4, <1>6, <2>2, <2>3 DEF Existing, LinksStay
<1>8. PICK k : k = [calls[c] EXCEPT !.at = "mail", !.link = i]
  OBVIOUS
<1>9. k \in Call /\ k.at = "mail" /\ k.op = op /\ k.user = u /\ k.link = i
  BY <1>0, <1>3, <1>8 DEF Call, Places
<1>10. Shaped(k)'
  BY <1>0, <1>1, <1>3, <1>6, <1>9 DEF Shaped, Names, Mailing
<1>11. Held(k) = {}
  BY <1>0, <1>9 DEF Held, Flows
<1>12. calls' = [calls EXCEPT ![c] = k]
  BY <1>2, <1>8 DEF Discipline, TypeOK
<1> QED BY <1>4, <1>5, <1>6, <1>7, <1>9, <1>10, <1>11, <1>12, CallStep

LEMMA MailKeeps == ASSUME Discipline, NEW c \in Callers, Mail(c) PROVE Discipline'
<1>1. PICK arrives \in BOOLEAN, p \in {"sent", "failed"} :
        /\ calls[c].at = "mail"
        /\ mailed' = IF arrives THEN mailed \cup {calls[c].link} ELSE mailed
        /\ Go(c, p, {})
        /\ UNCHANGED <<users, links, sessions, endings, byHand, readyMade>>
  BY DEF Mail
<1>2. PICK k : k = [calls[c] EXCEPT !.at = p]
  OBVIOUS
<1>3. /\ k \in Call /\ k.at = p /\ k.op = calls[c].op /\ k.user = calls[c].user
      /\ k.link = calls[c].link /\ Shaped(calls[c]) /\ calls[c].at = "mail"
  BY <1>1, <1>2, Moved DEF Places
<1>4. k.op \in Flows /\ k.user \in Users /\ Names(k)
  BY <1>3 DEF Shaped, Idle, Names, Mailing
<1>5. TablesTypeOK' /\ Existing' /\ LinksStay
  BY <1>1, <1>3, <1>4
     DEF Discipline, TypeOK, TablesTypeOK, Existing, Exists, Names, LinksStay
<1>6. Shaped(k)'
  BY <1>3, <1>4, <1>5 DEF Shaped, Names, LinksStay, Mailing
<1>7. Held(k) = {} /\ AllFree({}, c)
  BY <1>3, <1>4 DEF Held, Flows, AllFree
<1> QED BY <1>1, <1>2, <1>3, <1>5, <1>6, <1>7, GoStep

LEMMA CompletionCommitsKeeps ==
  ASSUME Discipline, NEW c \in Callers, CompletionCommits(c) PROVE Discipline'
<1> DEFINE u == calls[c].user
           i == calls[c].link
<1>1. calls[c].op \in Flows /\ u \in Users /\ Names(calls[c]) /\ calls[c].at \in {"sentRow", "failedRow"}
  BY DEF Discipline, CompletionCommits, Shaped, Idle, Mailing
<1>2. CASE UNCHANGED <<links, users>>
  BY <1>2, Unwritten, EndStep DEF CompletionCommits, NothingWritten
<1>3. CASE /\ links' = [links EXCEPT ![i].status =
                         IF calls[c].at = "sentRow" THEN "sent" ELSE "send_failed"]
           /\ users' = [users EXCEPT ![u] = Told(@, calls[c].op, calls[c].at)]
  <2>1. users' \in [Users -> Row]
    BY <1>1, <1>3, RowsTyped DEF Discipline, TypeOK, TablesTypeOK
  <2>2. i \in Links
    BY <1>1 DEF Names
  <2>3. /\ links' \in [Links -> Link] /\ LinksStay
        /\ \A j \in Links : links'[j].user = links[j].user /\ (Exists(j)' => Exists(j))
    BY <1>1, <1>3, <2>2
       DEF Discipline, TypeOK, TablesTypeOK, Link, OpenStatuses, LinksStay, Exists, Names
  <2>4. UNCHANGED <<mailed, sessions, endings, byHand, readyMade>> /\ End(c)
    BY DEF CompletionCommits
  <2>5. TablesTypeOK'
    BY <2>1, <2>3, <2>4 DEF Discipline, TypeOK, TablesTypeOK
  <2>6. Existing'
    BY <2>3, <2>4 DEF Discipline, TypeOK, TablesTypeOK, Existing, LinksStay
  <2> QED BY <2>3, <2>4, <2>5, <2>6, EndStep
<1> QED BY <1>2, <1>3 DEF CompletionCommits

LEMMA StartAcceptKeeps == ASSUME Discipline, NEW c \in Callers, StartAccept(c) PROVE Discipline'
<1>1. PICK i \in mailed :
        /\ Free(i, c)
        /\ calls' = [calls EXCEPT ![c] = [Idle EXCEPT !.op = "accept", !.at = "row",
                                                      !.user = links[i].user, !.link = i]]
        /\ holds' = [holds EXCEPT ![c] = {i}]
        /\ NothingWritten
  BY DEF StartAccept
<1>2. i \in Links /\ Exists(i) /\ links[i].user \in Users
  BY DEF Discipline, TypeOK, TablesTypeOK, Existing
<1>3. PICK k : k = [Idle EXCEPT !.op = "accept", !.at = "row",
                                !.user = links[i].user, !.link = i]
  OBVIOUS
<1>4. /\ k \in Call /\ k.op = "accept" /\ k.at = "row" /\ k.user = links[i].user
      /\ k.link = i
  BY <1>2, <1>3 DEF Idle, Call, Places
<1>5. TablesTypeOK' /\ Existing' /\ LinksStay
  BY <1>1, Unwritten
<1>6. Shaped(k)'
  BY <1>2, <1>4, <1>5 DEF Shaped, Names, LinksStay
<1>7. Held(k) = {i}
  BY <1>4 DEF Held
<1>8. \A d \in Callers \ {c} : Held(k) \cap holds[d] = {}
  BY <1>1, <1>7 DEF Free
<1> QED BY <1>1, <1>2, <1>3, <1>4, <1>5, <1>6, <1>7, <1>8, CallStep

LEMMA AcceptCommitsKeeps == ASSUME Discipline, NEW c \in Callers, AcceptCommits(c) PROVE Discipline'
<1> DEFINE u == calls[c].user
           i == calls[c].link
<1>1. u \in Users /\ Names(calls[c])
  BY DEF Discipline, AcceptCommits, Shaped, Idle, Mailing
<1>2. CASE UNCHANGED <<users, links>>
  BY <1>2, Unwritten, EndStep DEF AcceptCommits, NothingWritten
<1>3. CASE /\ users' = [users EXCEPT ![u] =
                [@ EXCEPT !.status = "active", !.login = "active", !.own = TRUE]]
           /\ links' = [Revoked(u) EXCEPT ![i].status = "used"]
  <2>1. users' \in [Users -> Row]
    BY <1>1, <1>3, RowsTyped DEF Discipline, TypeOK, TablesTypeOK
  <2>2. i \in Links /\ Exists(i)
    BY <1>1 DEF Names
  <2>3. /\ links' \in [Links -> Link] /\ LinksStay
        /\ \A j \in Links : links'[j].user = links[j].user /\ (Exists(j)' => Exists(j))
    BY <1>1, <1>3, <2>2, LinksTyped DEF Link, LinksStay, Exists
  <2>4. UNCHANGED <<mailed, sessions, endings, byHand, readyMade>> /\ End(c)
    BY DEF AcceptCommits
  <2>5. TablesTypeOK'
    BY <2>1, <2>3, <2>4 DEF Discipline, TypeOK, TablesTypeOK
  <2>6. Existing'
    BY <2>3, <2>4 DEF Discipline, TypeOK, TablesTypeOK, Existing, LinksStay
  <2> QED BY <2>3, <2>4, <2>5, <2>6, EndStep
<1> QED BY <1>2, <1>3 DEF AcceptCommits

LEMMA DeactivateCommitsKeeps ==
  ASSUME Discipline, NEW c \in Callers, DeactivateCommits(c) PROVE Discipline'
<1> DEFINE u == calls[c].user
<1>1. u \in Users
  BY DEF Discipline, DeactivateCommits, Shaped, Idle, Flows
<1>2. /\ links' = Revoked(u) /\ users' = [users EXCEPT ![u] = Ended(@)]
      /\ endings' = [endings EXCEPT ![u] = @ + 1] /\ End(c)
      /\ UNCHANGED <<mailed, sessions, byHand, readyMade>>
  BY DEF DeactivateCommits
<1>3. users' \in [Users -> Row] /\ endings' \in [Users -> Nat]
  <2>1. users' \in [Users -> Row]
    BY <1>1, <1>2, RowsTyped DEF Discipline, TypeOK, TablesTypeOK
  <2>2. endings[u] + 1 \in Nat
    BY <1>1 DEF Discipline, TypeOK, TablesTypeOK
  <2>3. endings' \in [Users -> Nat]
    BY <1>2, <2>2 DEF Discipline, TypeOK, TablesTypeOK
  <2> QED BY <2>1, <2>3
<1>4. /\ links' \in [Links -> Link] /\ LinksStay
      /\ \A j \in Links : links'[j].user = links[j].user /\ (Exists(j)' => Exists(j))
  BY <1>1, <1>2, LinksTyped DEF LinksStay, Exists
<1>5. TablesTypeOK'
  BY <1>2, <1>3, <1>4 DEF Discipline, TypeOK, TablesTypeOK
<1>6. Existing'
  BY <1>2, <1>4 DEF Discipline, TypeOK, TablesTypeOK, Existing, LinksStay
<1> QED BY <1>2, <1>4, <1>5, <1>6, EndStep

LEMMA PatchCommitsKeeps == ASSUME Discipline, NEW c \in Callers, PatchCommits(c) PROVE Discipline'
<1> DEFINE u == calls[c].user
           p == calls[c].patch
<1>1. u \in Users /\ p \in Patches
  BY DEF Discipline, PatchCommits, Shaped, Idle, Flows
<1>2. /\ users' = [users EXCEPT ![u] = Patched(@, p)] /\ End(c)
      /\ byHand' = IF p.status = None THEN byHand ELSE byHand \cup {u}
      /\ UNCHANGED <<links, mailed, sessions, endings, readyMade>>
  BY DEF PatchCommits
<1>3. users' \in [Users -> Row] /\ byHand' \subseteq Users
  BY <1>1, <1>2, RowsTyped DEF Discipline, TypeOK, TablesTypeOK
<1>4. TablesTypeOK'
  BY <1>2, <1>3 DEF Discipline, TypeOK, TablesTypeOK
<1>5. Existing' /\ LinksStay
  BY <1>2 DEF Discipline, Existing, Exists, LinksStay
<1> QED BY <1>2, <1>4, <1>5, EndStep

LEMMA LoginReadsKeeps == ASSUME Discipline, NEW c \in Callers, LoginReads(c) PROVE Discipline'
<1>1. PICK u \in Users :
        Begin(c, [Idle EXCEPT !.op = "login", !.at = "verify", !.user = u,
                              !.version = users[u].version, !.since = endings[u]])
  BY DEF LoginReads, Begin
<1>2. users[u].version \in Nat /\ endings[u] \in Nat
  BY DEF Discipline, TypeOK, TablesTypeOK, Row
<1>3. PICK k : k = [Idle EXCEPT !.op = "login", !.at = "verify", !.user = u,
                                !.version = users[u].version, !.since = endings[u]]
  OBVIOUS
<1>4. k \in Call /\ k.op = "login" /\ k.at = "verify" /\ k.user = u
  BY <1>2, <1>3 DEF Idle, Call, Places
<1>5. Shaped(k)
  BY <1>4 DEF Shaped
<1>6. Held(k) = {}
  BY <1>4 DEF Held
<1> QED BY <1>1, <1>3, <1>4, <1>5, <1>6, BeginStep

LEMMA LoginIssuesKeeps == ASSUME Discipline, NEW c \in Callers, LoginIssues(c) PROVE Discipline'
<1>1. /\ calls[c] \in Call /\ Shaped(calls[c]) /\ calls[c].op = "login"
  BY DEF Discipline, TypeOK, LoginIssues
<1>2. calls[c].user \in Users
  BY <1>1 DEF Shaped, Idle, Flows
<1>3. TablesTypeOK'
  BY <1>1, <1>2 DEF Discipline, TypeOK, TablesTypeOK, LoginIssues, Session, Call
<1>4. Existing' /\ LinksStay /\ End(c)
  BY DEF Discipline, Existing, Exists, LinksStay, LoginIssues
<1> QED BY <1>3, <1>4, EndStep

LEMMA CatchKeeps == ASSUME Discipline, NEW c \in Callers, Catch(c) PROVE Discipline'
<1>0. TablesTypeOK' /\ Existing' /\ LinksStay /\ NothingWritten
  BY Unwritten DEF Catch
<1>1. PICK k : k = [calls[c] EXCEPT !.at = "failed"]
  OBVIOUS
<1>2. /\ k \in Call /\ k.at = "failed" /\ k.op = calls[c].op /\ k.user = calls[c].user
      /\ k.link = calls[c].link /\ Shaped(calls[c]) /\ calls[c].at \in {"sent", "sentRow"}
  BY <1>1, Moved DEF Places, Catch
<1>3. k.op \in Flows /\ k.user \in Users /\ Names(k)
  BY <1>2 DEF Shaped, Idle, Names, Mailing
<1>4. Shaped(k)'
  BY <1>0, <1>2, <1>3 DEF Shaped, Names, LinksStay, Mailing
<1>5. Held(k) = {} /\ AllFree({}, c) /\ Go(c, "failed", {})
  BY <1>2, <1>3 DEF Held, Flows, AllFree, Catch
<1> QED BY <1>0, <1>1, <1>2, <1>4, <1>5, GoStep

LEMMA BreakKeeps == ASSUME Discipline, NEW c \in Callers, Break(c) PROVE Discipline'
BY Unwritten, EndStep DEF Break

LEMMA InitDiscipline == Init => Discipline
<1> SUFFICES ASSUME Init PROVE Discipline
  OBVIOUS
<1>1. TablesTypeOK
  BY AccessAssumption DEF Init, TablesTypeOK, Row, Link, Session, FirstAdmin, Absent,
     Flows, ManualStatuses, Lifecycle, Roles, OpenStatuses
<1>2. TypeOK
  BY <1>1, IdleTyped DEF Init, TypeOK
<1>3. Existing
  BY DEF Init, Existing, Exists
<1>4. \A c \in Callers : Shaped(calls[c]) /\ holds[c] = Held(calls[c])
  BY IdleTyped DEF Init, Shaped
<1>5. Exclusive
  BY DEF Init, Exclusive
<1> QED BY <1>2, <1>3, <1>4, <1>5 DEF Discipline

LEMMA StutterDiscipline == ASSUME Discipline, UNCHANGED vars PROVE Discipline'
BY DEF vars, Discipline, TypeOK, TablesTypeOK, Existing, Exists, Exclusive, Shaped, Names, Held

LEMMA NextDiscipline == Discipline /\ [Next]_vars => Discipline'
<1> SUFFICES ASSUME Discipline, [Next]_vars PROVE Discipline'
  OBVIOUS
<1>1. CASE \E u \in Users : Create(u)
  BY <1>1, CreateKeeps
<1>2. ASSUME NEW c \in Callers, Send(c) PROVE Discipline'
  BY <1>2, StartSendKeeps, SendLocksUserKeeps, SendCommitsKeeps, MailKeeps,
     CompletionLocksLinkKeeps, CompletionCommitsKeeps DEF Send
<1>3. ASSUME NEW c \in Callers, Accept(c) PROVE Discipline'
  BY <1>3, StartAcceptKeeps, AcceptCommitsKeeps DEF Accept
<1>4. ASSUME NEW c \in Callers, Deactivate(c) PROVE Discipline'
  BY <1>4, StartDeactivateKeeps, DeactivateLocksTenantKeeps, DeactivateLocksUserKeeps,
     DeactivateCommitsKeeps DEF Deactivate
<1>5. ASSUME NEW c \in Callers, Patch(c) PROVE Discipline'
  BY <1>5, StartPatchKeeps, PatchReadsKeeps, PatchCommitsKeeps DEF Patch
<1>6. ASSUME NEW c \in Callers, Login(c) PROVE Discipline'
  BY <1>6, LoginReadsKeeps, LoginIssuesKeeps DEF Login
<1>7. ASSUME NEW c \in Callers, Catch(c) \/ Break(c) PROVE Discipline'
  BY <1>7, CatchKeeps, BreakKeeps
<1>8. CASE UNCHANGED vars
  BY <1>8, StutterDiscipline
<1> QED BY <1>1, <1>2, <1>3, <1>4, <1>5, <1>6, <1>7, <1>8 DEF Next

\* Every variable keeps its type, a call holds the locks its place says, and no
\* two calls hold the same lock.
THEOREM LocksAreKept == Spec => []Discipline
BY InitDiscipline, NextDiscipline, PTL DEF Spec

\* The type invariant.
THEOREM AccessTyped == Spec => []TypeOK
<1>1. Discipline => TypeOK
  BY DEF Discipline
<1> QED BY <1>1, LocksAreKept, PTL

-----------------------------------------------------------------------------
(* Accounts: what is true of the tables, and what a call has made sure of.  *)

Others(u) == byHand = {} => \E v \in ActiveAdmins : v # u

Ready(k) ==
  /\ k.op \in Flows /\ k.at = "revoke" => Sendable(k.user, k.op)
  /\ k.op = "deactivate" /\ k.at = "revoke" =>
       users[k.user].status = "active" /\ Others(k.user)
  /\ k.op = "patch" /\ k.at = "update" =>
       /\ users[k.user].status # "absent"
       /\ k.patch.role \notin {None, "tenant_admin"} => Others(k.user)
  /\ k.op = "login" => k.version = k.since

OneOpen == \A i, j \in Links :
  Open(i) /\ Open(j) /\ links[i].user = links[j].user => i = j
OpenFits == \A i \in Links : Open(i) /\ links[i].user \notin byHand => Fits(i)
AdminCounted == byHand = {} => ActiveAdmins # {}
Versions == /\ \A u \in Users : users[u].version = endings[u]
            /\ \A u \in Users : users[u].status = "absent" => users[u] = Absent
            /\ \A s \in sessions : s.version = s.since

Accounts ==
  /\ OneOpen /\ OpenFits /\ Versions /\ AdminCounted
  /\ \A c \in Callers : Ready(calls[c])

\* A step of one call that changes no row and no session.
LEMMA QuietStep ==
  ASSUME Discipline, Accounts, NEW c \in Callers, NEW k,
         UNCHANGED <<users, links, sessions, endings, byHand, readyMade>>,
         calls' = [calls EXCEPT ![c] = k], Ready(k)
  PROVE  Accounts'
<1>1. OneOpen' /\ OpenFits' /\ Versions' /\ AdminCounted'
  BY DEF Accounts, OneOpen, OpenFits, Versions, AdminCounted, Open, Fits, Active,
         ActiveAdmins
<1>2. \A d \in Callers : calls'[d] = IF d = c THEN k ELSE calls[d]
  BY DEF Discipline, TypeOK
<1>3. \A d \in Callers : Ready(calls'[d])
  BY <1>2 DEF Accounts
<1>4. \A d \in Callers : Ready(calls[d])'
  BY <1>3 DEF Ready, Sendable, Others, Active, ActiveAdmins
<1> QED BY <1>1, <1>4 DEF Accounts

LEMMA IdleReady == Ready(Idle)
BY DEF Ready, Idle, Flows

\* Calls that do not hold the row of u keep what they have made sure of when u
\* changes: another row is as it was, and an administrator is taken away only by
\* the holder of the lifecycle lock or by hand.
LEMMA OthersStayReady ==
  ASSUME Discipline, Accounts, NEW u \in Users, NEW D \in SUBSET Callers,
         \A d \in D : calls'[d] = calls[d] /\ u \notin holds[d],
         \A v \in Users : v # u => users'[v] = users[v],
         users[u].status # "absent" => users'[u].status # "absent",
         byHand \subseteq byHand',
         \/ ActiveAdmins \subseteq ActiveAdmins'
         \/ byHand' # {}
         \/ \A d \in D : "tenant" \notin holds[d]
  PROVE  \A d \in D : Ready(calls[d])'
<1> TAKE d \in D
<1>0. PICK k : k = calls[d]
  OBVIOUS
<1>1. k \in Call /\ Shaped(k) /\ Ready(k) /\ holds[d] = Held(k) /\ calls'[d] = k
  BY <1>0 DEF Discipline, TypeOK, Accounts
<1>2. ("tenant" \in holds[d] /\ Others(k.user)) => Others(k.user)'
  BY DEF Others
<1>3. k.op \in Flows /\ k.at = "revoke" => Sendable(k.user, k.op)'
  <2> HAVE k.op \in Flows /\ k.at = "revoke"
  <2>1. k.user \in holds[d] /\ k.user \in Users
    BY <1>1 DEF Held, Shaped, Idle
  <2>2. users'[k.user] = users[k.user]
    BY <2>1
  <2> QED BY <1>1, <2>2 DEF Ready, Sendable, Active
<1>4. k.op = "deactivate" /\ k.at = "revoke" =>
        users'[k.user].status = "active" /\ Others(k.user)'
  <2> HAVE k.op = "deactivate" /\ k.at = "revoke"
  <2>1. k.user \in holds[d] /\ "tenant" \in holds[d] /\ k.user \in Users
    BY <1>1 DEF Held, Shaped, Idle, Flows
  <2>2. users'[k.user] = users[k.user]
    BY <2>1
  <2> QED BY <1>1, <1>2, <2>1, <2>2 DEF Ready
<1>5. k.op = "patch" /\ k.at = "update" =>
        /\ users'[k.user].status # "absent"
        /\ k.patch.role \notin {None, "tenant_admin"} => Others(k.user)'
  <2> HAVE k.op = "patch" /\ k.at = "update"
  <2>1. k.user \in Users /\ (k.patch.role # None => "tenant" \in holds[d])
    BY <1>1 DEF Held, Shaped, Idle, Flows
  <2> QED BY <1>1, <1>2, <2>1 DEF Ready
<1>6. k.op = "login" => k.version = k.since
  BY <1>1 DEF Ready
<1>7. Ready(k)'
  BY <1>3, <1>4, <1>5, <1>6 DEF Ready
<1> QED BY <1>1, <1>7 DEF Ready, Sendable, Others

\* A link that is open belongs to somebody.
LEMMA OpenExists ==
  ASSUME Discipline, NEW i \in Links, Open(i) PROVE Exists(i) /\ links[i].user \in Users
BY DEF Discipline, Existing, Exists, Open, OpenStatuses

LEMMA EndsQuietly ==
  ASSUME Discipline, Accounts, NEW c \in Callers, NothingWritten, End(c) PROVE Accounts'
BY QuietStep, IdleReady DEF End, NothingWritten

LEMMA GoesQuietly ==
  ASSUME Discipline, Accounts, NEW c \in Callers, NEW p, NEW S, Go(c, p, S),
         UNCHANGED <<users, links, sessions, endings, byHand, readyMade>>,
         Ready([calls[c] EXCEPT !.at = p])
  PROVE  Accounts'
<1>1. PICK k : k = [calls[c] EXCEPT !.at = p]
  OBVIOUS
<1>2. calls' = [calls EXCEPT ![c] = k]
  BY <1>1 DEF Go, Discipline, TypeOK
<1> QED BY <1>1, <1>2, QuietStep

LEMMA BeginsQuietly ==
  ASSUME Discipline, Accounts, NEW c \in Callers, NEW k, Begin(c, k), Ready(k)
  PROVE  Accounts'
BY QuietStep DEF Begin, NothingWritten

\* If u is not the only administrator, somebody else is one.
LEMMA AnotherAdmin ==
  ASSUME Discipline, Accounts, NEW u \in Users,
         u \in ActiveAdmins => Cardinality(ActiveAdmins) > 1
  PROVE  Others(u)
<1> SUFFICES ASSUME byHand = {}, \A v \in ActiveAdmins : v = u PROVE FALSE
  BY DEF Others
<1>1. ActiveAdmins # {}
  BY DEF Accounts, AdminCounted
<1>2. u \in ActiveAdmins /\ ActiveAdmins = {u}
  BY <1>1
<1>3. Cardinality({u}) = 1
  BY FS_Singleton
<1> QED BY <1>2, <1>3

LEMMA StartsReady ==
  ASSUME NEW u, NEW flow \in Flows, NEW p
  PROVE  /\ Ready([Idle EXCEPT !.op = flow, !.at = "user", !.user = u])
         /\ Ready([Idle EXCEPT !.op = "deactivate", !.at = "tenant", !.user = u])
         /\ Ready([Idle EXCEPT !.op = "patch", !.at = "read", !.user = u, !.patch = p])
BY DEF Ready, Idle, Flows

LEMMA StartSendAccounts ==
  ASSUME Discipline, Accounts, NEW c \in Callers, StartSend(c) PROVE Accounts'
BY StartsReady, BeginsQuietly DEF StartSend

LEMMA StartDeactivateAccounts ==
  ASSUME Discipline, Accounts, NEW c \in Callers, StartDeactivate(c) PROVE Accounts'
<1>1. "reactivation" \in Flows
  BY DEF Flows
<1> QED BY <1>1, StartsReady, BeginsQuietly DEF StartDeactivate

LEMMA StartPatchAccounts ==
  ASSUME Discipline, Accounts, NEW c \in Callers, StartPatch(c) PROVE Accounts'
<1>1. "reactivation" \in Flows
  BY DEF Flows
<1> QED BY <1>1, StartsReady, BeginsQuietly DEF StartPatch

LEMMA SendLocksUserAccounts ==
  ASSUME Discipline, Accounts, NEW c \in Callers, SendLocksUser(c) PROVE Accounts'
<1> DEFINE u == calls[c].user
<1>0. NothingWritten /\ calls[c].op \in Flows /\ calls[c] \in Call
  BY DEF SendLocksUser, Discipline, TypeOK
<1>1. CASE End(c)
  BY <1>0, <1>1, EndsQuietly
<1>2. CASE Sendable(u, calls[c].op) /\ Go(c, "revoke", {u})
  <2>1. Ready([calls[c] EXCEPT !.at = "revoke"])
    BY <1>0, <1>2 DEF Ready, Call, Flows
  <2> QED BY <1>0, <1>2, <2>1, GoesQuietly DEF NothingWritten
<1> QED BY <1>1, <1>2 DEF SendLocksUser, SendLocks

LEMMA MailAccounts ==
  ASSUME Discipline, Accounts, NEW c \in Callers, Mail(c) PROVE Accounts'
<1>1. PICK p \in {"sent", "failed"} :
        Go(c, p, {}) /\ UNCHANGED <<users, links, sessions, endings, byHand, readyMade>>
  BY DEF Mail
<1>2. calls[c] \in Call /\ Shaped(calls[c]) /\ calls[c].at = "mail"
  BY DEF Mail, Discipline, TypeOK
<1>3. calls[c].op \in Flows
  BY <1>2 DEF Shaped, Idle, Mailing
<1>4. Ready([calls[c] EXCEPT !.at = p])
  BY <1>2, <1>3 DEF Ready, Call, Flows
<1> QED BY <1>1, <1>4, GoesQuietly

LEMMA CompletionLocksLinkAccounts ==
  ASSUME Discipline, Accounts, NEW c \in Callers, CompletionLocksLink(c) PROVE Accounts'
<1>1. PICK p \in {"sentRow", "failedRow"} : Go(c, p, {calls[c].link}) /\ NothingWritten
  BY DEF CompletionLocksLink
<1>2. calls[c] \in Call /\ Shaped(calls[c]) /\ calls[c].at \in {"sent", "failed"}
  BY DEF CompletionLocksLink, Discipline, TypeOK
<1>3. calls[c].op \in Flows
  BY <1>2 DEF Shaped, Idle, Mailing
<1>4. Ready([calls[c] EXCEPT !.at = p])
  BY <1>2, <1>3 DEF Ready, Call, Flows
<1> QED BY <1>1, <1>4, GoesQuietly DEF NothingWritten

LEMMA StartAcceptAccounts ==
  ASSUME Discipline, Accounts, NEW c \in Callers, StartAccept(c) PROVE Accounts'
<1>1. PICK i \in mailed :
        /\ calls' = [calls EXCEPT ![c] = [Idle EXCEPT !.op = "accept", !.at = "row",
                                                      !.user = links[i].user, !.link = i]]
        /\ NothingWritten
  BY DEF StartAccept
<1>2. Ready([Idle EXCEPT !.op = "accept", !.at = "row", !.user = links[i].user, !.link = i])
  BY DEF Ready, Idle, Flows
<1> QED BY <1>1, <1>2, QuietStep DEF NothingWritten

LEMMA DeactivateLocksTenantAccounts ==
  ASSUME Discipline, Accounts, NEW c \in Callers, DeactivateLocksTenant(c) PROVE Accounts'
<1>1. calls[c] \in Call /\ calls[c].op = "deactivate"
  BY DEF DeactivateLocksTenant, Discipline, TypeOK
<1>2. Ready([calls[c] EXCEPT !.at = "user"])
  BY <1>1 DEF Ready, Call, Flows
<1> QED BY <1>2, GoesQuietly DEF DeactivateLocksTenant, NothingWritten

LEMMA DeactivateLocksUserAccounts ==
  ASSUME Discipline, Accounts, NEW c \in Callers, DeactivateLocksUser(c) PROVE Accounts'
<1> DEFINE u == calls[c].user
<1>0. NothingWritten /\ calls[c].op = "deactivate" /\ calls[c] \in Call /\ u \in Users
  BY DEF DeactivateLocksUser, Discipline, TypeOK, Shaped, Idle, Flows
<1>1. CASE End(c)
  BY <1>0, <1>1, EndsQuietly
<1>2. CASE /\ users[u].status = "active"
           /\ users[u].role = "tenant_admin" => Cardinality(ActiveAdmins) > 1
           /\ Go(c, "revoke", {"tenant", u})
  <2>1. Others(u)
    BY <1>0, <1>2, AnotherAdmin DEF ActiveAdmins
  <2>2. Ready([calls[c] EXCEPT !.at = "revoke"])
    BY <1>0, <1>2, <2>1 DEF Ready, Call, Flows
  <2> QED BY <1>0, <1>2, <2>2, GoesQuietly DEF NothingWritten
<1> QED BY <1>1, <1>2 DEF DeactivateLocksUser

LEMMA PatchReadsAccounts ==
  ASSUME Discipline, Accounts, NEW c \in Callers, PatchReads(c) PROVE Accounts'
<1> DEFINE u == calls[c].user
           p == calls[c].patch
<1>0. NothingWritten /\ calls[c].op = "patch" /\ calls[c] \in Call /\ u \in Users
  BY DEF PatchReads, Discipline, TypeOK, Shaped, Idle, Flows
<1>1. CASE End(c)
  BY <1>0, <1>1, EndsQuietly
<1>2. CASE /\ users[u].status # "absent"
           /\ (p.role \notin {None, "tenant_admin"} /\ u \in ActiveAdmins) =>
                Cardinality(ActiveAdmins) > 1
           /\ Go(c, "update", PatchLocks(p))
  <2>1. p.role \notin {None, "tenant_admin"} => Others(u)
    BY <1>0, <1>2, AnotherAdmin
  <2>2. Ready([calls[c] EXCEPT !.at = "update"])
    BY <1>0, <1>2, <2>1 DEF Ready, Call, Flows
  <2> QED BY <1>0, <1>2, <2>2, GoesQuietly DEF NothingWritten
<1> QED BY <1>1, <1>2 DEF PatchReads

LEMMA LoginReadsAccounts ==
  ASSUME Discipline, Accounts, NEW c \in Callers, LoginReads(c) PROVE Accounts'
<1>1. PICK u \in Users :
        Begin(c, [Idle EXCEPT !.op = "login", !.at = "verify", !.user = u,
                              !.version = users[u].version, !.since = endings[u]])
  BY DEF LoginReads, Begin
<1>2. users[u].version = endings[u]
  BY DEF Accounts, Versions
<1>3. Ready([Idle EXCEPT !.op = "login", !.at = "verify", !.user = u,
                         !.version = users[u].version, !.since = endings[u]])
  BY <1>2 DEF Ready, Idle, Flows
<1> QED BY <1>1, <1>3, BeginsQuietly

LEMMA CatchAccounts == ASSUME Discipline, Accounts, NEW c \in Callers, Catch(c) PROVE Accounts'
<1>1. calls[c] \in Call /\ Shaped(calls[c]) /\ calls[c].at \in {"sent", "sentRow"}
  BY DEF Catch, Discipline, TypeOK
<1>2. calls[c].op \in Flows
  BY <1>1 DEF Shaped, Idle, Mailing
<1>3. Ready([calls[c] EXCEPT !.at = "failed"])
  BY <1>1, <1>2 DEF Ready, Call, Flows
<1> QED BY <1>3, GoesQuietly DEF Catch, NothingWritten

LEMMA BreakAccounts == ASSUME Discipline, Accounts, NEW c \in Callers, Break(c) PROVE Accounts'
BY EndsQuietly DEF Break

LEMMA StutterAccounts == ASSUME Discipline, Accounts, UNCHANGED vars PROVE Accounts'
<1>1. OneOpen' /\ OpenFits' /\ Versions' /\ AdminCounted'
  BY DEF vars, Accounts, OneOpen, OpenFits, Versions, AdminCounted, Open, Fits, Active,
         ActiveAdmins
<1>2. \A d \in Callers : Ready(calls[d])'
  BY DEF vars, Accounts, Ready, Sendable, Others, Active, ActiveAdmins
<1> QED BY <1>1, <1>2 DEF Accounts

-----------------------------------------------------------------------------
(* Accounts: the steps that write.                                         *)

\* What a step of one call has to show that writes the row of u and ends or goes
\* on where nothing is to be sure of.
LEMMA WritingStep ==
  ASSUME Discipline, Accounts, NEW c \in Callers, NEW u \in Users, NEW k,
         calls' = [calls EXCEPT ![c] = k], Ready(k)',
         \A d \in Callers \ {c} : u \notin holds[d],
         \A v \in Users : v # u => users'[v] = users[v],
         users[u].status # "absent" => users'[u].status # "absent",
         byHand \subseteq byHand',
         \/ ActiveAdmins \subseteq ActiveAdmins'
         \/ byHand' # {}
         \/ \A d \in Callers \ {c} : "tenant" \notin holds[d],
         OneOpen', OpenFits', Versions', AdminCounted'
  PROVE  Accounts'
<1>1. \A d \in Callers \ {c} : calls'[d] = calls[d]
  BY DEF Discipline, TypeOK
<1>2. \A d \in Callers \ {c} : Ready(calls[d])'
  BY <1>1, OthersStayReady
<1>3. Ready(calls[c])'
  BY DEF Discipline, TypeOK, Ready, Sendable, Others
<1> QED BY <1>2, <1>3 DEF Accounts

LEMMA EndedReady == Ready(Idle)'
BY DEF Ready, Idle, Flows

\* The links of another user fit him as before, if his row is as before.
LEMMA OthersStillFit ==
  ASSUME Discipline, Accounts, NEW u \in Users,
         \A v \in Users : v # u => users'[v] = users[v],
         \A v \in Users : v # u /\ v \notin byHand' => v \notin byHand,
         \A j \in Links : /\ Open(j)' /\ links'[j].user # u => Open(j) /\ links'[j] = links[j]
                          /\ Open(j)' /\ links'[j].user = u /\ u \notin byHand' => Fits(j)'
  PROVE  OpenFits'
<1> SUFFICES ASSUME NEW j \in Links, Open(j)', links'[j].user \notin byHand' PROVE Fits(j)'
  BY DEF OpenFits
<1>1. CASE links'[j].user = u
  BY <1>1
<1>2. CASE links'[j].user # u
  <2>1. Open(j) /\ links'[j] = links[j]
    BY <1>2
  <2>2. links[j].user \in Users
    BY <2>1, OpenExists
  <2>3. Fits(j) /\ users'[links[j].user] = users[links[j].user]
    BY <1>2, <2>1, <2>2 DEF Accounts, OpenFits
  <2> QED BY <2>1, <2>3 DEF Fits
<1> QED BY <1>1, <1>2

LEMMA CreateAccounts == ASSUME Discipline, Accounts, NEW u \in Users, Create(u) PROVE Accounts'
<1>1. PICK role \in Roles, status \in ManualStatuses :
        users' = [users EXCEPT ![u] =
          [Absent EXCEPT !.status = status, !.role = role,
                         !.login = IF status = "active" THEN "active" ELSE @]]
  BY DEF Create
<1>2. /\ UNCHANGED <<links, mailed, sessions, calls, holds, endings, byHand>>
      /\ users[u].status = "absent" /\ \A c \in Callers : u \notin holds[c]
  BY DEF Create
<1>3. /\ \A v \in Users : v # u => users'[v] = users[v]
      /\ users'[u].status # "absent" /\ users'[u].version = 0
  BY <1>1 DEF Discipline, TypeOK, TablesTypeOK, Absent, ManualStatuses
<1>4. ActiveAdmins \subseteq ActiveAdmins'
  BY <1>2, <1>3 DEF ActiveAdmins, Active
<1>5. OneOpen' /\ AdminCounted'
  BY <1>2, <1>4 DEF Accounts, OneOpen, Open, AdminCounted
<1>6. Versions'
  BY <1>2, <1>3 DEF Accounts, Versions, Absent
<1>7. \A j \in Links : Open(j) /\ links[j].user = u => u \in byHand
  BY <1>2 DEF Accounts, OpenFits, Fits, Flows
<1>8. OpenFits'
  BY <1>2, <1>3, <1>7, OthersStillFit DEF Open
<1>9. \A d \in Callers : Ready(calls[d])'
  BY <1>2, <1>3, <1>4, OthersStayReady
<1> QED BY <1>5, <1>6, <1>8, <1>9 DEF Accounts

\* Where a call that writes the row of its user stands: nobody else holds it.
LEMMA Alone ==
  ASSUME Discipline, NEW c \in Callers, NEW l, l \in holds[c]
  PROVE  \A d \in Callers \ {c} : l \notin holds[d]
BY DEF Discipline, Exclusive

LEMMA SendCommitsAccounts ==
  ASSUME Discipline, Accounts, NEW c \in Callers, SendCommits(c) PROVE Accounts'
<1>a. PICK u, op : u = calls[c].user /\ op = calls[c].op
  OBVIOUS
<1>0. /\ calls[c] \in Call /\ Shaped(calls[c]) /\ op \in Flows /\ calls[c].at = "revoke"
      /\ holds[c] = Held(calls[c]) /\ Ready(calls[c])
  BY <1>a DEF Discipline, TypeOK, SendCommits, Accounts
<1>1. u \in Users /\ u \in holds[c] /\ Sendable(u, op)
  BY <1>a, <1>0 DEF Shaped, Idle, Held, Ready
<1>2. PICK i \in Unused :
        /\ links' = [Revoked(u) EXCEPT ![i] = [user |-> u, flow |-> op, status |-> "pending"]]
        /\ calls' = [calls EXCEPT ![c].at = "mail", ![c].link = i]
  BY <1>a DEF SendCommits
<1>3. i \in Links /\ ~Open(i)
  BY DEF Unused, Open, OpenStatuses
<1>4. users' = [users EXCEPT ![u] = Asked(@, op)]
      /\ UNCHANGED <<mailed, sessions, endings, byHand, readyMade>>
  BY <1>a DEF SendCommits
<1>5. users'[u] = Asked(users[u], op) /\ (\A v \in Users : v # u => users'[v] = users[v])
      /\ users[u] \in Row
  BY <1>1, <1>4 DEF Discipline, TypeOK, TablesTypeOK
<1>6. /\ users'[u].version = users[u].version /\ users'[u].status # "absent"
      /\ op = "reactivation" => users'[u].status = "pending_reactivation"
      /\ op = "initial_setup" =>
           /\ users'[u].status \in {"invited", "active"}
           /\ users'[u].login = "pending_invite"
  BY <1>0, <1>1, <1>5 DEF Asked, Row, Sendable, Flows
<1>7. u \notin ActiveAdmins
  BY <1>0, <1>1 DEF Sendable, ActiveAdmins, Active, Flows, Lifecycle
<1>8. ActiveAdmins \subseteq ActiveAdmins'
  BY <1>5, <1>7 DEF ActiveAdmins, Active
<1>9. AdminCounted'
  BY <1>4, <1>8 DEF Accounts, AdminCounted
<1>10. /\ links'[i] = [user |-> u, flow |-> op, status |-> "pending"]
       /\ \A j \in Links : j # i => links'[j] = Revoked(u)[j]
  BY <1>1, <1>2, <1>3, LinksTyped
<1>11. \A j \in Links : j # i /\ Open(j)' =>
         links'[j] = links[j] /\ Open(j) /\ links[j].user # u
  BY <1>1, <1>10, LinksTyped DEF Open, OpenLinks, OpenStatuses
<1>12. OneOpen'
  BY <1>10, <1>11 DEF Accounts, OneOpen
<1>13. Fits(i)'
  BY <1>0, <1>6, <1>10 DEF Fits, Flows
<1>14. OpenFits'
  BY <1>1, <1>3, <1>4, <1>5, <1>10, <1>11, <1>13, OthersStillFit
<1>15. Versions'
  BY <1>1, <1>4, <1>5, <1>6 DEF Accounts, Versions
<1>16. PICK k : k = [calls[c] EXCEPT !.at = "mail", !.link = i]
  OBVIOUS
<1>17. calls' = [calls EXCEPT ![c] = k]
  BY <1>2, <1>16 DEF Discipline, TypeOK
<1>18. Ready(k)'
  BY <1>a, <1>0, <1>16 DEF Ready, Call, Flows
<1>19. users[u].status # "absent" => users'[u].status # "absent"
  BY <1>6
<1>20. \A d \in Callers \ {c} : u \notin holds[d]
  BY <1>1, Alone
<1> QED BY <1>1, <1>4, <1>5, <1>19, <1>20, <1>8, <1>9, <1>12, <1>14, <1>15, <1>17, <1>18,
           WritingStep

LEMMA CompletionCommitsAccounts ==
  ASSUME Discipline, Accounts, NEW c \in Callers, CompletionCommits(c) PROVE Accounts'
<1>a. PICK u, i, op, at : /\ u = calls[c].user /\ i = calls[c].link
                         /\ op = calls[c].op /\ at = calls[c].at
  OBVIOUS
<1>1. /\ op \in Flows /\ u \in Users /\ Names(calls[c]) /\ at \in {"sentRow", "failedRow"}
      /\ Free(u, c) /\ End(c) /\ UNCHANGED <<mailed, sessions, endings, byHand, readyMade>>
  BY <1>a DEF Discipline, CompletionCommits, Shaped, Idle, Mailing
<1>2. i \in Links /\ links[i].user = u /\ users[u] \in Row
  BY <1>a, <1>1 DEF Names, Discipline, TypeOK, TablesTypeOK
<1>3. CASE UNCHANGED <<links, users>>
  BY <1>1, <1>3, EndsQuietly DEF NothingWritten
<1>4. CASE /\ StillWaiting(i, op)
           /\ links' = [links EXCEPT ![i].status =
                         IF at = "sentRow" THEN "sent" ELSE "send_failed"]
           /\ users' = [users EXCEPT ![u] = Told(@, op, at)]
  <2>1. users'[u] = Told(users[u], op, at) /\ (\A v \in Users : v # u => users'[v] = users[v])
    BY <1>1, <1>4 DEF Discipline, TypeOK, TablesTypeOK
  <2>2. /\ Open(i) /\ links[i].flow = op
        /\ users[u].status # "absent" /\ users[u].login # "active"
        /\ op = "reactivation" => users[u].status = "pending_reactivation"
        /\ op = "initial_setup" => users[u].status \in {"active", "invited"}
    BY <1>1, <1>2, <1>4 DEF StillWaiting, Open, OpenStatuses, Flows
  <2>3. /\ users'[u].version = users[u].version /\ users'[u].status = users[u].status
        /\ op = "initial_setup" => users'[u].login \in {"invited", "pending_invite"}
    BY <1>1, <1>2, <2>1, <2>2 DEF Told, Row, Flows
  <2>4. ActiveAdmins \subseteq ActiveAdmins'
    BY <2>1, <2>2 DEF ActiveAdmins, Active
  <2>5. AdminCounted'
    BY <1>1, <2>4 DEF Accounts, AdminCounted
  <2>6. /\ links'[i].user = u /\ links'[i].flow = op
        /\ \A j \in Links : /\ j # i => links'[j] = links[j]
                            /\ links'[j].user = links[j].user
                            /\ Open(j)' => Open(j)
    BY <1>2, <1>4, <2>2 DEF Discipline, TypeOK, TablesTypeOK, Link, Open
  <2>7. OneOpen'
    BY <2>6 DEF Accounts, OneOpen
  <2>8. Fits(i)'
    BY <1>1, <2>2, <2>3, <2>6 DEF Fits, Flows
  <2>9. \A j \in Links : Open(j)' /\ links'[j].user = u => j = i
    BY <1>2, <2>2, <2>6 DEF Accounts, OneOpen
  <2>10. OpenFits'
    BY <1>1, <1>2, <2>1, <2>6, <2>8, <2>9, OthersStillFit
  <2>11. Versions'
    BY <1>1, <2>1, <2>2, <2>3 DEF Accounts, Versions
  <2>12. calls' = [calls EXCEPT ![c] = Idle] /\ \A d \in Callers \ {c} : u \notin holds[d]
    BY <1>1 DEF End, Free
  <2> QED BY <1>1, <2>1, <2>2, <2>3, <2>4, <2>5, <2>7, <2>10, <2>11, <2>12,
             EndedReady, WritingStep
<1> QED BY <1>a, <1>3, <1>4 DEF CompletionCommits

\* When the open links of u are closed, none of his is left to fit.
LEMMA ClosesLinks ==
  ASSUME Discipline, Accounts, NEW u \in Users,
         \A v \in Users : v # u => users'[v] = users[v],
         \A v \in Users : v # u /\ v \notin byHand' => v \notin byHand,
         \A j \in Links : Open(j)' => links'[j] = links[j] /\ Open(j) /\ links[j].user # u
  PROVE  OneOpen' /\ OpenFits'
<1>1. OneOpen'
  BY DEF Accounts, OneOpen
<1>2. OpenFits'
  BY OthersStillFit
<1> QED BY <1>1, <1>2

LEMMA AcceptCommitsAccounts ==
  ASSUME Discipline, Accounts, NEW c \in Callers, AcceptCommits(c) PROVE Accounts'
<1>a. PICK u, i : u = calls[c].user /\ i = calls[c].link
  OBVIOUS
<1>1. /\ u \in Users /\ Names(calls[c]) /\ Free(u, c) /\ End(c)
      /\ UNCHANGED <<mailed, sessions, endings, byHand, readyMade>>
  BY <1>a DEF Discipline, AcceptCommits, Shaped, Idle, Mailing
<1>2. i \in Links /\ links[i].user = u /\ users[u] \in Row
  BY <1>a, <1>1 DEF Names, Discipline, TypeOK, TablesTypeOK
<1>3. CASE UNCHANGED <<users, links>>
  BY <1>1, <1>3, EndsQuietly DEF NothingWritten
<1>4. CASE /\ Open(i) /\ Fits(i)
           /\ users' = [users EXCEPT ![u] =
                [@ EXCEPT !.status = "active", !.login = "active", !.own = TRUE]]
           /\ links' = [Revoked(u) EXCEPT ![i].status = "used"]
  <2>1. /\ users'[u].status = "active" /\ users'[u].login = "active"
        /\ users'[u].version = users[u].version /\ users'[u].role = users[u].role
        /\ \A v \in Users : v # u => users'[v] = users[v]
    BY <1>1, <1>2, <1>4 DEF Discipline, TypeOK, TablesTypeOK, Row
  <2>2. users[u].status # "absent"
    BY <1>2, <1>4 DEF Fits
  <2>3. ActiveAdmins \subseteq ActiveAdmins'
    BY <2>1 DEF ActiveAdmins, Active
  <2>4. AdminCounted'
    BY <1>1, <2>3 DEF Accounts, AdminCounted
  <2>5. links'[i].status = "used" /\ \A j \in Links : j # i => links'[j] = Revoked(u)[j]
    BY <1>1, <1>2, <1>4, LinksTyped DEF Link
  <2>6. \A j \in Links : Open(j)' => links'[j] = links[j] /\ Open(j) /\ links[j].user # u
    BY <1>1, <2>5, LinksTyped DEF Open, OpenLinks, OpenStatuses
  <2>7. OneOpen' /\ OpenFits'
    BY <1>1, <2>1, <2>6, ClosesLinks
  <2>8. Versions'
    BY <1>1, <2>1, <2>2 DEF Accounts, Versions
  <2>9. calls' = [calls EXCEPT ![c] = Idle] /\ \A d \in Callers \ {c} : u \notin holds[d]
    BY <1>1 DEF End, Free
  <2> QED BY <1>1, <2>1, <2>3, <2>4, <2>7, <2>8, <2>9, EndedReady, WritingStep
<1> QED BY <1>a, <1>3, <1>4 DEF AcceptCommits

LEMMA DeactivateCommitsAccounts ==
  ASSUME Discipline, Accounts, NEW c \in Callers, DeactivateCommits(c) PROVE Accounts'
<1>a. PICK u : u = calls[c].user
  OBVIOUS
<1>0. /\ Shaped(calls[c]) /\ calls[c].op = "deactivate" /\ calls[c].at = "revoke"
      /\ holds[c] = Held(calls[c]) /\ Ready(calls[c])
  BY DEF Discipline, DeactivateCommits, Accounts
<1>1. /\ u \in Users /\ u \in holds[c] /\ "tenant" \in holds[c]
      /\ users[u].status = "active" /\ Others(u) /\ users[u] \in Row
  BY <1>a, <1>0 DEF Shaped, Idle, Flows, Held, Ready, Discipline, TypeOK, TablesTypeOK
<1>2. /\ links' = Revoked(u) /\ users' = [users EXCEPT ![u] = Ended(@)]
      /\ endings' = [endings EXCEPT ![u] = @ + 1] /\ End(c)
      /\ UNCHANGED <<mailed, sessions, byHand, readyMade>>
  BY <1>a DEF DeactivateCommits
<1>3. /\ users'[u].status = "deactivated" /\ users'[u].version = users[u].version + 1
      /\ \A v \in Users : v # u => users'[v] = users[v]
  <2>1. users'[u] = Ended(users[u]) /\ \A v \in Users : v # u => users'[v] = users[v]
    BY <1>1, <1>2 DEF Discipline, TypeOK, TablesTypeOK
  <2>2. \A n \in Nat : /\ [users[u] EXCEPT !.status = "deactivated", !.login = "disabled",
                              !.version = n, !.own = FALSE].status = "deactivated"
                       /\ [users[u] EXCEPT !.status = "deactivated", !.login = "disabled",
                              !.version = n, !.own = FALSE].version = n
    BY <1>1 DEF Row
  <2>3. users[u].version + 1 \in Nat
    BY <1>1 DEF Row
  <2> QED BY <2>1, <2>2, <2>3 DEF Ended
<1>4. AdminCounted'
  <2> SUFFICES ASSUME byHand' = {} PROVE ActiveAdmins' # {}
    BY DEF AdminCounted
  <2>1. PICK v \in ActiveAdmins : v # u
    BY <1>1, <1>2 DEF Others
  <2>2. v \in ActiveAdmins'
    BY <1>3, <2>1 DEF ActiveAdmins, Active
  <2> QED BY <2>2
<1>5. \A j \in Links : Open(j)' => links'[j] = links[j] /\ Open(j) /\ links[j].user # u
  BY <1>1, <1>2, LinksTyped DEF Open, OpenLinks, OpenStatuses
<1>6. OneOpen' /\ OpenFits'
  BY <1>1, <1>2, <1>3, <1>5, ClosesLinks
<1>7. \A v \in Users : endings'[v] = IF v = u THEN endings[v] + 1 ELSE endings[v]
  BY <1>1, <1>2 DEF Discipline, TypeOK, TablesTypeOK
<1>8. Versions'
  BY <1>1, <1>2, <1>3, <1>7 DEF Accounts, Versions
<1>9. \A d \in Callers \ {c} : u \notin holds[d] /\ "tenant" \notin holds[d]
  BY <1>1, Alone
<1>10. calls' = [calls EXCEPT ![c] = Idle]
  BY <1>2 DEF End
<1> QED BY <1>1, <1>2, <1>3, <1>4, <1>6, <1>8, <1>9, <1>10, EndedReady, WritingStep

LEMMA PatchCommitsAccounts ==
  ASSUME Discipline, Accounts, NEW c \in Callers, PatchCommits(c) PROVE Accounts'
<1>a. PICK u, p : u = calls[c].user /\ p = calls[c].patch
  OBVIOUS
<1>0. /\ Shaped(calls[c]) /\ calls[c].op = "patch" /\ calls[c].at = "update"
      /\ holds[c] = Held(calls[c]) /\ Ready(calls[c])
  BY DEF Discipline, PatchCommits, Accounts
<1>1. /\ u \in Users /\ p \in Patches /\ users[u] \in Row
      /\ p.role # None => "tenant" \in holds[c]
      /\ users[u].status # "absent"
      /\ p.role \notin {None, "tenant_admin"} => Others(u)
  BY <1>a, <1>0 DEF Shaped, Idle, Flows, Held, Ready, Discipline, TypeOK, TablesTypeOK
<1>2. /\ users' = [users EXCEPT ![u] = Patched(@, p)] /\ End(c) /\ Free(u, c)
      /\ byHand' = IF p.status = None THEN byHand ELSE byHand \cup {u}
      /\ UNCHANGED <<links, mailed, sessions, endings, readyMade>>
  BY <1>a DEF PatchCommits
<1>3. p.role \in Roles \cup {None} /\ p.status \in ManualStatuses \cup {None}
  BY <1>1, PatchAssumption
<1>4. /\ users'[u] = Patched(users[u], p)
      /\ \A v \in Users : v # u => users'[v] = users[v]
  BY <1>1, <1>2 DEF Discipline, TypeOK, TablesTypeOK
<1>5. /\ users'[u].version = users[u].version /\ users'[u].status # "absent"
      /\ p.status = None => /\ users'[u].status = users[u].status
                            /\ users'[u].login = users[u].login
      /\ p.role \in {None, "tenant_admin"} => users'[u].role \in {users[u].role, "tenant_admin"}
  BY <1>1, <1>3, <1>4, NoneIsNoValue DEF Patched, Row, ManualStatuses
<1>6. \/ ActiveAdmins \subseteq ActiveAdmins'
      \/ byHand' # {}
      \/ \A d \in Callers \ {c} : "tenant" \notin holds[d]
  <2>1. CASE p.status # None
    BY <1>2, <2>1
  <2>2. CASE p.role \notin {None, "tenant_admin"}
    BY <1>1, <2>2, Alone
  <2>3. CASE p.status = None /\ p.role \in {None, "tenant_admin"}
    BY <1>4, <1>5, <2>3 DEF ActiveAdmins, Active
  <2> QED BY <2>1, <2>2, <2>3
<1>7. AdminCounted'
  <2> SUFFICES ASSUME byHand' = {} PROVE ActiveAdmins' # {}
    BY DEF AdminCounted
  <2>1. p.status = None /\ byHand = {}
    BY <1>2
  <2>2. CASE p.role \notin {None, "tenant_admin"}
    <3>1. PICK v \in ActiveAdmins : v # u
      BY <1>1, <2>1, <2>2 DEF Others
    <3>2. v \in ActiveAdmins'
      BY <1>4, <3>1 DEF ActiveAdmins, Active
    <3> QED BY <3>2
  <2>3. CASE p.role \in {None, "tenant_admin"}
    <3>1. PICK v : v \in ActiveAdmins
      BY <2>1 DEF Accounts, AdminCounted
    <3>2. v \in ActiveAdmins'
      BY <1>4, <1>5, <2>1, <2>3, <3>1 DEF ActiveAdmins, Active
    <3> QED BY <3>2
  <2> QED BY <2>2, <2>3
<1>8. OneOpen' /\ (\A j \in Links : Open(j)' <=> Open(j))
  BY <1>2 DEF Accounts, OneOpen, Open
<1>9. \A j \in Links : Open(j) /\ links[j].user = u /\ u \notin byHand' => Fits(j)'
  <2> SUFFICES ASSUME NEW j \in Links, Open(j), links[j].user = u, u \notin byHand'
               PROVE  Fits(j)'
    OBVIOUS
  <2>1. p.status = None /\ u \notin byHand
    BY <1>2
  <2>2. Fits(j)
    BY <2>1 DEF Accounts, OpenFits
  <2> QED BY <1>2, <1>5, <2>1, <2>2 DEF Fits
<1>10. OpenFits'
  BY <1>1, <1>2, <1>4, <1>8, <1>9, OthersStillFit
<1>11. Versions'
  BY <1>1, <1>2, <1>4, <1>5 DEF Accounts, Versions
<1>12. calls' = [calls EXCEPT ![c] = Idle] /\ \A d \in Callers \ {c} : u \notin holds[d]
  BY <1>2 DEF End, Free
<1>13. byHand \subseteq byHand'
  BY <1>2
<1> QED BY <1>1, <1>4, <1>5, <1>6, <1>7, <1>8, <1>10, <1>11, <1>12, <1>13,
           EndedReady, WritingStep

LEMMA LoginIssuesAccounts ==
  ASSUME Discipline, Accounts, NEW c \in Callers, LoginIssues(c) PROVE Accounts'
<1>1. /\ calls' = [calls EXCEPT ![c] = Idle]
      /\ UNCHANGED <<users, links, mailed, endings, byHand, readyMade>>
      /\ sessions' = sessions \cup {[user |-> calls[c].user, version |-> calls[c].version,
                                     since |-> calls[c].since]}
  BY DEF LoginIssues, End
<1>2. calls[c].version = calls[c].since
  BY DEF LoginIssues, Accounts, Ready
<1>3. Versions'
  BY <1>1, <1>2 DEF Accounts, Versions
<1>4. OneOpen' /\ OpenFits' /\ AdminCounted'
  BY <1>1 DEF Accounts, OneOpen, OpenFits, AdminCounted, Open, Fits, Active, ActiveAdmins
<1>5. \A d \in Callers : calls'[d] = IF d = c THEN Idle ELSE calls[d]
  BY <1>1 DEF Discipline, TypeOK
<1>6. \A d \in Callers : Ready(calls'[d])
  BY <1>5, IdleReady DEF Accounts
<1>7. \A d \in Callers : Ready(calls[d])'
  BY <1>1, <1>6 DEF Ready, Sendable, Others, Active, ActiveAdmins
<1> QED BY <1>3, <1>4, <1>7 DEF Accounts

LEMMA InitAccounts == Init => Accounts
<1> SUFFICES ASSUME Init PROVE Accounts
  OBVIOUS
<1>1. OneOpen /\ OpenFits
  BY DEF Init, OneOpen, OpenFits, Open, OpenStatuses
<1>2. Versions
  BY AccessAssumption DEF Init, Versions, FirstAdmin, Absent
<1>3. PICK a \in FirstAdmins : TRUE
  BY AccessAssumption
<1>4. a \in ActiveAdmins
  BY <1>3, AccessAssumption DEF Init, ActiveAdmins, Active, FirstAdmin
<1>5. AdminCounted
  BY <1>4 DEF AdminCounted
<1>6. \A c \in Callers : Ready(calls[c])
  BY IdleReady DEF Init
<1> QED BY <1>1, <1>2, <1>5, <1>6 DEF Accounts

LEMMA NextAccounts == Discipline /\ Accounts /\ [Next]_vars => Accounts'
<1> SUFFICES ASSUME Discipline, Accounts, [Next]_vars PROVE Accounts'
  OBVIOUS
<1>1. CASE \E u \in Users : Create(u)
  BY <1>1, CreateAccounts
<1>2. ASSUME NEW c \in Callers, Send(c) PROVE Accounts'
  BY <1>2, StartSendAccounts, SendLocksUserAccounts, SendCommitsAccounts, MailAccounts,
     CompletionLocksLinkAccounts, CompletionCommitsAccounts DEF Send
<1>3. ASSUME NEW c \in Callers, Accept(c) PROVE Accounts'
  BY <1>3, StartAcceptAccounts, AcceptCommitsAccounts DEF Accept
<1>4. ASSUME NEW c \in Callers, Deactivate(c) PROVE Accounts'
  BY <1>4, StartDeactivateAccounts, DeactivateLocksTenantAccounts,
     DeactivateLocksUserAccounts, DeactivateCommitsAccounts DEF Deactivate
<1>5. ASSUME NEW c \in Callers, Patch(c) PROVE Accounts'
  BY <1>5, StartPatchAccounts, PatchReadsAccounts, PatchCommitsAccounts DEF Patch
<1>6. ASSUME NEW c \in Callers, Login(c) PROVE Accounts'
  BY <1>6, LoginReadsAccounts, LoginIssuesAccounts DEF Login
<1>7. ASSUME NEW c \in Callers, Catch(c) \/ Break(c) PROVE Accounts'
  BY <1>7, CatchAccounts, BreakAccounts
<1>8. CASE UNCHANGED vars
  BY <1>8, StutterAccounts
<1> QED BY <1>1, <1>2, <1>3, <1>4, <1>5, <1>6, <1>7, <1>8 DEF Next

LEMMA AccountsAreKept == Spec => [](Discipline /\ Accounts)
BY InitDiscipline, NextDiscipline, InitAccounts, NextAccounts, PTL DEF Spec

\* One open link a user, and the one his account waits for.
THEOREM OneCurrentLink == Spec => []OpenLinkIsCurrent
<1>1. Discipline /\ Accounts => OpenLinkIsCurrent
  BY DEF Accounts, OneOpen, OpenFits, OpenLinkIsCurrent, OpenLinks
<1> QED BY <1>1, AccountsAreKept, PTL

\* Who can log in by his status, with a status no administrator has set, has a
\* password of his own: he came through a link, or was there from the beginning.
OwnPasswords == \A u \in Users \ (byHand \cup readyMade) : Active(u) => users[u].own

LEMMA NextOwn == Discipline /\ OwnPasswords /\ [Next]_vars => OwnPasswords'
<1> SUFFICES ASSUME Discipline, OwnPasswords, [Next]_vars PROVE OwnPasswords'
  OBVIOUS
<1>0. users \in [Users -> Row] /\ \A c \in Callers : calls[c] \in Call
  BY DEF Discipline, TypeOK, TablesTypeOK
<1>1. UNCHANGED <<users, byHand, readyMade>> => OwnPasswords'
  BY DEF OwnPasswords, Active
<1>2. ASSUME NEW u \in Users, \A v \in Users : v # u => users'[v] = users[v],
             byHand \cup readyMade \subseteq byHand' \cup readyMade',
             \/ u \in byHand' \cup readyMade'
             \/ Active(u)' => users'[u].own
      PROVE  OwnPasswords'
  BY <1>2 DEF OwnPasswords, Active
<1>3. ASSUME NEW u \in Users, Create(u) PROVE OwnPasswords'
  BY <1>0, <1>2, <1>3 DEF Create, Absent, Active
<1>4. ASSUME NEW c \in Callers, SendCommits(c) PROVE OwnPasswords'
  <2>1. calls[c].user \in Users \/ calls[c].user \notin Users
    OBVIOUS
  <2>2. CASE calls[c].user \in Users
    <3>1. ~(users'[calls[c].user].status = "active" /\ users'[calls[c].user].login = "active")
      BY <1>0, <1>4, <2>2 DEF SendCommits, Asked, Row
    <3> QED
      BY <1>0, <1>2, <1>4, <2>2, <3>1 DEF SendCommits, Active
  <2>3. CASE calls[c].user \notin Users
    BY <1>0, <1>1, <1>4, <2>3 DEF SendCommits
  <2> QED
    BY <2>1, <2>2, <2>3
<1>5. ASSUME NEW c \in Callers, CompletionCommits(c) PROVE OwnPasswords'
  <2>1. CASE UNCHANGED users
    BY <1>1, <1>5, <2>1 DEF CompletionCommits
  <2>2. CASE /\ users' = [users EXCEPT ![calls[c].user] = Told(@, calls[c].op, calls[c].at)]
             /\ calls[c].user \in Users
    <3>1. users'[calls[c].user].login = "active" =>
            users'[calls[c].user] = users[calls[c].user]
      BY <1>0, <2>2 DEF Told, Row
    <3> QED
      BY <1>0, <1>5, <2>2, <3>1 DEF CompletionCommits, OwnPasswords, Active
  <2>3. CASE /\ users' = [users EXCEPT ![calls[c].user] = Told(@, calls[c].op, calls[c].at)]
             /\ calls[c].user \notin Users
    BY <1>0, <1>1, <1>5, <2>3 DEF CompletionCommits
  <2> QED
    BY <1>5, <2>1, <2>2, <2>3 DEF CompletionCommits
<1>6. ASSUME NEW c \in Callers, AcceptCommits(c) PROVE OwnPasswords'
  <2>1. CASE UNCHANGED users
    BY <1>1, <1>6, <2>1 DEF AcceptCommits
  <2>2. CASE users' = [users EXCEPT ![calls[c].user] =
                         [@ EXCEPT !.status = "active", !.login = "active", !.own = TRUE]]
    BY <1>0, <1>6, <2>2 DEF AcceptCommits, OwnPasswords, Active, Row
  <2> QED
    BY <1>6, <2>1, <2>2 DEF AcceptCommits
<1>7. ASSUME NEW c \in Callers, DeactivateCommits(c) PROVE OwnPasswords'
  BY <1>0, <1>7 DEF DeactivateCommits, Ended, OwnPasswords, Active, Row
<1>8. ASSUME NEW c \in Callers, PatchCommits(c) PROVE OwnPasswords'
  <2>1. CASE calls[c].patch.status = None
    BY <1>0, <1>8, <2>1, NoneIsNoValue DEF PatchCommits, Patched, OwnPasswords, Active, Row, ManualStatuses
  <2>2. CASE calls[c].patch.status # None
    BY <1>0, <1>8, <2>2 DEF PatchCommits, OwnPasswords, Active
  <2> QED
    BY <2>1, <2>2
<1>9. ASSUME NEW c \in Callers, Login(c) \/ Catch(c) \/ Break(c) \/ StartAccept(c) \/ StartPatch(c) \/ PatchReads(c)
             \/ StartDeactivate(c) \/ DeactivateLocksTenant(c) \/ DeactivateLocksUser(c)
      PROVE  OwnPasswords'
  BY <1>1, <1>9 DEF Login, LoginReads, LoginIssues, Catch, Break, StartAccept, StartPatch, PatchReads, StartDeactivate,
     DeactivateLocksTenant, DeactivateLocksUser, Begin, NothingWritten
<1>10. ASSUME NEW c \in Callers, StartSend(c) \/ SendLocksUser(c) \/ Mail(c) \/ CompletionLocksLink(c)
       PROVE  OwnPasswords'
  BY <1>1, <1>10 DEF StartSend, SendLocksUser, Mail, CompletionLocksLink, Begin, NothingWritten
<1>11. CASE UNCHANGED vars
  BY <1>1, <1>11 DEF vars
<1> QED
  BY <1>3, <1>4, <1>5, <1>6, <1>7, <1>8, <1>9, <1>10, <1>11 DEF Next, Send, Accept, Deactivate, Patch

\* No overlap of deactivations, changes of role and invitations leaves a tenant
\* without an administrator who knows his password.
THEOREM AdministratorStays == Spec => []LastAdminStays
<1>1. Init => OwnPasswords
  BY DEF Init, OwnPasswords, Active, FirstAdmin, Absent
<1>2. Accounts /\ OwnPasswords => LastAdminStays
  BY DEF Accounts, AdminCounted, OwnPasswords, LastAdminStays, ActiveAdmins
<1> QED
  BY <1>1, <1>2, NextOwn, AccountsAreKept, PTL DEF Spec

\* A deactivation ends the sessions begun before it, for good.
THEOREM DeactivationEndsSessions == Spec => []SessionsEnd
<1>1. Discipline /\ Accounts => SessionsEnd
  BY DEF Discipline, TypeOK, TablesTypeOK, Session, Accounts, Versions, SessionsEnd, Accepted
<1> QED BY <1>1, AccountsAreKept, PTL

-----------------------------------------------------------------------------
(* No step locks a user out.                                               *)

Kept == \A u \in Users :
  (Active(u) /\ users'[u].status = "active") => users'[u].login = "active"

\* A step that writes at most one row has to answer for that row.
LEMMA KeptElsewhere ==
  ASSUME NEW u \in Users, \A v \in Users : v # u => users'[v] = users[v],
         Active(u) /\ users'[u].status = "active" => users'[u].login = "active"
  PROVE  Kept
BY DEF Kept, Active

LEMMA SendCommitsKept ==
  ASSUME Discipline, Accounts, NEW c \in Callers, SendCommits(c) PROVE Kept
<1>a. PICK u, op : u = calls[c].user /\ op = calls[c].op
  OBVIOUS
<1>0. Shaped(calls[c]) /\ op \in Flows /\ calls[c].at = "revoke" /\ Ready(calls[c])
  BY <1>a DEF Discipline, SendCommits, Accounts
<1>1. u \in Users /\ Sendable(u, op)
  BY <1>a, <1>0 DEF Shaped, Idle, Ready
<1>2. \A v \in Users : v # u => users'[v] = users[v]
  BY <1>a, <1>1 DEF SendCommits, Discipline, TypeOK, TablesTypeOK
<1>3. ~Active(u)
  BY <1>0, <1>1 DEF Sendable, Active, Flows, Lifecycle
<1> QED BY <1>1, <1>2, <1>3, KeptElsewhere

LEMMA CompletionCommitsKept ==
  ASSUME Discipline, NEW c \in Callers, CompletionCommits(c) PROVE Kept
<1>a. PICK u, i, op : u = calls[c].user /\ i = calls[c].link /\ op = calls[c].op
  OBVIOUS
<1>1. u \in Users /\ links[i].user = u
  BY <1>a DEF Discipline, CompletionCommits, Shaped, Names, Idle, Mailing
<1>2. \A v \in Users : v # u => users'[v] = users[v]
  BY <1>a, <1>1 DEF CompletionCommits, Discipline, TypeOK, TablesTypeOK
<1>3. CASE users' = users
  BY <1>3 DEF Kept, Active
<1>4. CASE StillWaiting(i, op)
  <2>1. ~Active(u)
    BY <1>1, <1>4 DEF StillWaiting, Active
  <2> QED BY <1>1, <1>2, <2>1, KeptElsewhere
<1> QED BY <1>a, <1>3, <1>4 DEF CompletionCommits

LEMMA AcceptCommitsKept ==
  ASSUME Discipline, NEW c \in Callers, AcceptCommits(c) PROVE Kept
<1>a. PICK u : u = calls[c].user
  OBVIOUS
<1>1. u \in Users /\ users[u] \in Row
  BY <1>a DEF Discipline, AcceptCommits, Shaped, Idle, Mailing, TypeOK, TablesTypeOK
<1>2. CASE users' = users
  BY <1>2 DEF Kept, Active
<1>3. CASE users' = [users EXCEPT ![u] =
             [@ EXCEPT !.status = "active", !.login = "active", !.own = TRUE]]
  <2>1. users'[u].login = "active" /\ \A v \in Users : v # u => users'[v] = users[v]
    BY <1>1, <1>3 DEF Discipline, TypeOK, TablesTypeOK, Row
  <2> QED BY <1>1, <2>1, KeptElsewhere
<1> QED BY <1>a, <1>2, <1>3 DEF AcceptCommits

LEMMA DeactivateCommitsKept ==
  ASSUME Discipline, NEW c \in Callers, DeactivateCommits(c) PROVE Kept
<1>a. PICK u : u = calls[c].user
  OBVIOUS
<1>1. u \in Users
  BY <1>a DEF Discipline, DeactivateCommits, Shaped, Idle, Flows
<1>2. users'[u] = Ended(users[u]) /\ \A v \in Users : v # u => users'[v] = users[v]
  BY <1>a, <1>1 DEF DeactivateCommits, Discipline, TypeOK, TablesTypeOK
<1>3. users[u] \in Row
  BY <1>1 DEF Discipline, TypeOK, TablesTypeOK
<1>4. \A n : [users[u] EXCEPT !.status = "deactivated", !.login = "disabled",
                              !.version = n, !.own = FALSE].status = "deactivated"
  BY <1>3 DEF Row
<1>5. users'[u].status = "deactivated"
  BY <1>2, <1>4 DEF Ended
<1> QED BY <1>1, <1>2, <1>5, KeptElsewhere

LEMMA PatchCommitsKept == ASSUME Discipline, NEW c \in Callers, PatchCommits(c) PROVE Kept
<1>a. PICK u, p : u = calls[c].user /\ p = calls[c].patch
  OBVIOUS
<1>1. u \in Users /\ p \in Patches /\ users[u] \in Row
  BY <1>a DEF Discipline, PatchCommits, Shaped, Idle, Flows, TypeOK, TablesTypeOK
<1>2. users'[u] = Patched(users[u], p) /\ \A v \in Users : v # u => users'[v] = users[v]
  BY <1>a, <1>1 DEF PatchCommits, Discipline, TypeOK, TablesTypeOK
<1>3. p.status \in ManualStatuses \cup {None}
  BY <1>1, PatchAssumption
<1>4. users'[u].status = "active" /\ users[u].login = "active" => users'[u].login = "active"
  BY <1>1, <1>2, <1>3, NoneIsNoValue DEF Patched, Row, ManualStatuses
<1> QED BY <1>1, <1>2, <1>4, KeptElsewhere DEF Active

LEMMA NextKept == Discipline /\ Accounts /\ [Next]_vars => Kept
<1> SUFFICES ASSUME Discipline, Accounts, [Next]_vars PROVE Kept
  OBVIOUS
<1>0. users' = users => Kept
  BY DEF Kept, Active
<1>1. ASSUME NEW u \in Users, Create(u) PROVE Kept
  <2>1. ~Active(u) /\ \A v \in Users : v # u => users'[v] = users[v]
    BY <1>1 DEF Create, Active, Discipline, TypeOK, TablesTypeOK
  <2> QED BY <2>1, KeptElsewhere
<1>2. ASSUME NEW c \in Callers, Send(c) PROVE Kept
  <2>1. SendCommits(c) \/ CompletionCommits(c) \/ users' = users
    BY <1>2 DEF Send, StartSend, Begin, SendLocksUser, Mail, CompletionLocksLink,
       NothingWritten
  <2> QED BY <1>0, <2>1, SendCommitsKept, CompletionCommitsKept
<1>3. ASSUME NEW c \in Callers, Accept(c) PROVE Kept
  <2>1. AcceptCommits(c) \/ users' = users
    BY <1>3 DEF Accept, StartAccept, NothingWritten
  <2> QED BY <1>0, <2>1, AcceptCommitsKept
<1>4. ASSUME NEW c \in Callers, Deactivate(c) PROVE Kept
  <2>1. DeactivateCommits(c) \/ users' = users
    BY <1>4 DEF Deactivate, StartDeactivate, Begin, DeactivateLocksTenant,
       DeactivateLocksUser, NothingWritten
  <2> QED BY <1>0, <2>1, DeactivateCommitsKept
<1>5. ASSUME NEW c \in Callers, Patch(c) PROVE Kept
  <2>1. PatchCommits(c) \/ users' = users
    BY <1>5 DEF Patch, StartPatch, Begin, PatchReads, NothingWritten
  <2> QED BY <1>0, <2>1, PatchCommitsKept
<1>6. ASSUME NEW c \in Callers, Login(c) \/ Catch(c) \/ Break(c) PROVE Kept
  <2>1. users' = users
    BY <1>6 DEF Login, LoginReads, LoginIssues, Catch, Break, NothingWritten
  <2> QED BY <1>0, <2>1
<1>7. CASE UNCHANGED vars
  BY <1>0, <1>7 DEF vars
<1> QED BY <1>1, <1>2, <1>3, <1>4, <1>5, <1>6, <1>7 DEF Next

\* Neither a late outcome of a mail nor a second invitation takes the login from
\* a user who has it.
THEOREM NobodyIsLockedOut == Spec => NoLockout
<1>1. Discipline /\ Accounts /\ [Next]_vars => [Kept]_vars
  BY NextKept
<1>2. Spec => [][Kept]_vars
  BY <1>1, AccountsAreKept, PTL DEF Spec
<1> QED BY <1>2 DEF NoLockout, Kept
=============================================================================
