---------------------------- MODULE TenantUsers ----------------------------
(***************************************************************************)
(* One tenant and its users: the tenant's status and contact, the users'   *)
(* activation, suspension and deletion, the onboarding links, and the      *)
(* roster of administrators that must not become empty.  The tenant is the *)
(* Default Organisation, whose roster holds the platform ADMINs, or an     *)
(* institution, whose roster holds its TENANT ADMINs.                      *)
(*                                                                         *)
(* A request reads its tenant and target without a lock, decides, may take *)
(* the tenant's advisory lock and count the roster, and commits.  It keeps *)
(* the copy it read to the end: SQLAlchemy's identity map does not refresh *)
(* it, and an UPDATE carries only the columns that differ from the copy.   *)
(***************************************************************************)
EXTENDS Naturals, FiniteSets

CONSTANTS
    User, Worker,       \* accounts; requests handled at the same time
    NoOne,              \* holder of a free advisory lock
    MaxOps, MaxLinks    \* bounds: requests of a behaviour, links of an account

ASSUME TenantUsersAssumption ==
    /\ IsFiniteSet(User) /\ NoOne \notin Worker
    /\ MaxOps \in Nat /\ MaxLinks \in Nat

VARIABLES
    org,        \* "default" or "institution"
    status,     \* tenants.status
    contact,    \* the account whose address is tenants.email
    user,       \* the users' rows, credentials and rows of user_role
    links,      \* the account's token_verification rows still is_active
    issued,     \* how many links the account has been sent
    lock,       \* holder of pg_advisory_xact_lock(tenant.id)
    req,        \* what each worker is doing
    slipped,    \* history: an administrator was removed and not counted
    ops

vars == <<org, status, contact, user, links, issued, lock, req, slipped, ops>>

Statuses == {"PENDING", "ACTIVE", "SUSPENDED", "DEACTIVATED"}
Absent == [state |-> "absent", active |-> FALSE, activated |-> FALSE, access |-> TRUE,
           creds |-> FALSE, admin |-> 0, self |-> FALSE]
Provisioned(n) == [Absent EXCEPT !.state = "live", !.admin = n]
Established(n) == [Provisioned(n) EXCEPT !.active = TRUE, !.activated = TRUE, !.creds = TRUE]
Idle == [pc |-> "idle"]

Live(u) == user[u].state = "live"

\* count_admins_in_tenant and count_tenant_admins_in_tenant: distinct accounts.
Roster == {u \in User : Live(u) /\ user[u].active /\ user[u].admin > 0}

\* The seeded Default Organisation.
DefaultOrganisation(c) ==
    /\ org = "default" /\ status = "ACTIVE"
    /\ user = [u \in User |-> IF u = c THEN Established(1) ELSE Absent]
    /\ links = [u \in User |-> {}]

\* create_tenant: PENDING, its contact provisioned and sent a link.
NewInstitution(c) ==
    /\ org = "institution" /\ status = "PENDING"
    /\ user = [u \in User |-> IF u = c THEN Provisioned(1) ELSE Absent]
    /\ links = [u \in User |-> IF u = c THEN {1} ELSE {}]

\* An institution that has been running with two administrators.
RunningInstitution(c) ==
    /\ org = "institution" /\ status = "ACTIVE"
    /\ \E d \in User \ {c} :
          user = [u \in User |-> IF u \in {c, d} THEN Established(1) ELSE Absent]
    /\ links = [u \in User |-> {}]

Init ==
    /\ \E c \in User :
          /\ contact = c
          /\ DefaultOrganisation(c) \/ NewInstitution(c) \/ RunningInstitution(c)
    /\ issued = [u \in User |-> Cardinality(links[u])]
    /\ lock = NoOne
    /\ req = [w \in Worker |-> Idle]
    /\ slipped = FALSE
    /\ ops = 0

Starts(w) ==
    /\ req[w] = Idle
    /\ ops < MaxOps
    /\ ops' = ops + 1

Done(w) ==
    /\ req' = [req EXCEPT ![w] = Idle]
    /\ lock' = IF lock = w THEN NoOne ELSE lock

-----------------------------------------------------------------------------
(* The tenant                                                               *)

ALLOWED_TENANT_STATUS_TRANSITIONS ==
    [PENDING     |-> {"DEACTIVATED"},
     ACTIVE      |-> {"SUSPENDED", "DEACTIVATED"},
     SUSPENDED   |-> {"ACTIVE", "DEACTIVATED"},
     DEACTIVATED |-> {"ACTIVE"}]

TENANT_ONBOARDING_STATUSES == {"PENDING", "ACTIVE"}

\* Mistake: an account suspended on its own is not unlocked with the others.
SyncUsersActiveOnly(rows, s) ==
    [u \in User |->
        IF rows[u].state # "live" THEN rows[u]
        ELSE IF s = "ACTIVE" THEN [rows[u] EXCEPT !.access = @ \/ rows[u].active]
        ELSE [rows[u] EXCEPT !.access = @ /\ ~rows[u].activated]]

\* sync_tenant_users_for_status: everyone is unlocked, only accounts that were
\* activated are locked.
SyncUsers(rows, s) ==
    [u \in User |->
        IF rows[u].state # "live" THEN rows[u]
        ELSE IF s = "ACTIVE" THEN [rows[u] EXCEPT !.access = TRUE]
        ELSE [rows[u] EXCEPT !.access = @ /\ ~rows[u].activated]]

\* The tenant's row is locked from the read to the commit.
UpdateTenantStatus(w, s) ==
    /\ Starts(w)
    /\ s # "ACTIVE" => org # "default"
    /\ s \in ALLOWED_TENANT_STATUS_TRANSITIONS[status]
    /\ user' = SyncUsers(user, s)
    /\ status' = s
    /\ UNCHANGED <<org, contact, links, issued, lock, req, slipped>>

-----------------------------------------------------------------------------
(* Accounts                                                                 *)

\* The account and its role are committed by assign_role; the link follows in
\* a transaction of its own.
Creates(w, u, row) ==
    /\ Starts(w)
    /\ user[u].state = "absent"
    /\ user' = [user EXCEPT ![u] = row]
    /\ req' = [req EXCEPT ![w] = [pc |-> "link", user |-> u]]
    /\ UNCHANGED <<org, status, contact, links, issued, lock, slipped>>

\* The tenant's row is locked until the account is committed.
CreateTenantUser(w, u, n) ==
    /\ status = "ACTIVE"
    /\ n = 1 => org # "default"
    /\ Creates(w, u, Provisioned(n))

Register(w, u) ==
    /\ org = "default"
    /\ Creates(w, u, [Provisioned(0) EXCEPT !.creds = TRUE, !.self = TRUE])

\* An account made by the first sign-in with a provider needs no link.
OAuthSignup(w, u) ==
    /\ org = "default"
    /\ Starts(w)
    /\ user[u].state = "absent"
    /\ user' = [user EXCEPT ![u] =
          [Provisioned(0) EXCEPT !.active = TRUE, !.activated = TRUE, !.self = TRUE]]
    /\ UNCHANGED <<org, status, contact, links, issued, lock, req, slipped>>

FirstLink(w) ==
    /\ req[w].pc = "link"
    /\ LET u == req[w].user
       IN  /\ issued[u] < MaxLinks
           /\ issued' = [issued EXCEPT ![u] = @ + 1]
           /\ links' = [links EXCEPT ![u] = @ \cup {issued'[u]}]
    /\ Done(w)
    /\ UNCHANGED <<org, status, contact, user, slipped, ops>>

-----------------------------------------------------------------------------
(* What a request may do to an account, decided on what it read             *)

\* assign_role: a self-registered account stays a USER, a role held is kept.
MayPromote(row) == ~row.self /\ row.admin = 0

\* _assert_tenant_admin_demotable: the contact stays an administrator.
MayDemote(u) == org = "institution" /\ user[u].admin > 0 /\ contact # u

\* _assert_tenant_active_for_user_deactivation.
MaySuspend == status = "ACTIVE"

\* _resolve_new_contact_email: an active, set-up administrator.
MayBeContact(u) ==
    /\ org = "institution" /\ status = "ACTIVE" /\ contact # u
    /\ user[u].active /\ user[u].admin > 0 /\ user[u].creds

\* assert_tenant_allows_onboarding; a verification link (the account has a
\* password) only ever activates an account that never was.
MayRedeem(row) == status \in TENANT_ONBOARDING_STATUSES /\ (row.creds => ~row.activated)

\* reissue_verify_token: credentials, and the account was never activated;
\* reissue_setup_token: no credentials.
MayVerify(row) == row.creds /\ ~row.active /\ ~row.activated

MaySetUp(row) == ~row.creds

\* The three ways to ask for another link: /auth/resend-setup-link and
\* /auth/resend-verification look at the account alone, the administrators'
\* also at the tenant and at is_tenant_active.
MayResendSetup(row) == MaySetUp(row)

MayResendVerification(row) == MayVerify(row)

MayResendForTenant(row) ==
    status \in TENANT_ONBOARDING_STATUSES /\ row.access /\ (MayVerify(row) \/ MaySetUp(row))

\* _resolve_pending_email_admin: only a PENDING tenant's address is corrected.
MayCorrect(u) == org = "institution" /\ status = "PENDING" /\ contact = u

Permitted(op, u) ==
    CASE op = "promote" -> MayPromote(user[u])
      [] op = "demote"  -> MayDemote(u)
      [] op = "suspend" -> MaySuspend
      [] op = "contact" -> MayBeContact(u)
      [] op = "redeem"  -> MayRedeem(user[u])
      [] op = "resend"  -> \/ MayResendSetup(user[u])
                           \/ MayResendVerification(user[u])
                           \/ MayResendForTenant(user[u])
      [] op = "correct" -> MayCorrect(u)
      [] OTHER -> TRUE

\* The reads of a request up to the advisory lock.
Read(w, op, u) ==
    /\ Starts(w)
    /\ Live(u)
    /\ Permitted(op, u)
    /\ \E link \in IF op = "redeem" THEN links[u] ELSE {0} :
          req' = [req EXCEPT ![w] =
             [pc |-> "read", op |-> op, user |-> u, row |-> user[u], status |-> status,
              contact |-> contact, links |-> links[u], link |-> link, counted |-> FALSE]]
    /\ UNCHANGED <<org, status, contact, user, links, issued, lock, slipped>>

\* _assert_not_last_platform_admin skips a target that was inactive when read,
\* _assert_role_removal_keeps_a_platform_admin too.
CountsPlatformAdmins(q) ==
    q.op \in {"suspend", "delete"} /\ q.row.active /\ q.row.admin > 0

CountsBeforeRemoval(q) == q.op = "remove" /\ q.row.active

\* _assert_not_last_tenant_admin looks at the role alone; a demotion skips an
\* inactive target before it, and neither suspending nor /roles/remove counts.
CountsTenantAdmins(q) ==
    q.row.admin > 0 /\ (q.op = "delete" \/ (q.op = "demote" /\ q.row.active))

MustCount(q) == IF org = "default" THEN CountsPlatformAdmins(q) \/ CountsBeforeRemoval(q)
                ELSE CountsTenantAdmins(q)

\* _lock_default_org_admin_roster: granting ADMIN takes the lock too.
MustLock(q) == MustCount(q) \/ (org = "default" /\ q.op = "promote")

\* Mistake: the lock does not last until the commit.
TakeLockOnly(w) ==
    /\ req[w].pc = "read" /\ MustLock(req[w])
    /\ lock = NoOne
    /\ IF ~MustCount(req[w]) THEN
          req' = [req EXCEPT ![w].pc = "checked", ![w].row.admin = user[req[w].user].admin]
       ELSE IF Cardinality(Roster) <= 1 THEN req' = [req EXCEPT ![w] = Idle]
       ELSE req' = [req EXCEPT ![w].pc = "checked", ![w].counted = TRUE]
    /\ UNCHANGED <<org, status, contact, user, links, issued, lock, slipped, ops>>

\* The lock is kept to the end of the transaction.  The roster is counted, and
\* a grant looks for the role, only once it is held.
TakeLock(w) ==
    /\ req[w].pc = "read" /\ MustLock(req[w])
    /\ lock = NoOne
    /\ IF ~MustCount(req[w]) THEN
          /\ req' = [req EXCEPT ![w].pc = "checked", ![w].row.admin = user[req[w].user].admin]
          /\ lock' = w
       ELSE IF Cardinality(Roster) <= 1 THEN Done(w)
       ELSE /\ req' = [req EXCEPT ![w].pc = "checked", ![w].counted = TRUE]
            /\ lock' = w
    /\ UNCHANGED <<org, status, contact, user, links, issued, slipped, ops>>

MayCommit(w) == req[w].pc = "checked" \/ (req[w].pc = "read" /\ ~MustLock(req[w]))

\* The row after the columns that differ from the request's copy are written.
SetActive(row, copy) == [row EXCEPT !.active = @ \/ ~copy.active,
                                    !.activated = @ \/ ~copy.activated]

SetInactive(row, copy) == [row EXCEPT !.active = @ /\ ~copy.active]

\* Removing the role needs exactly one row of it: none is NOT_FOUND, and two
\* make scalar_one_or_none raise.
Removable(u) == user[u].admin = 1

Finish(w, row) ==
    /\ user' = [user EXCEPT ![req[w].user] = row]
    /\ slipped' = (slipped \/ (~req[w].counted /\ req[w].user \in Roster \ Roster'))
    /\ Done(w)
    /\ UNCHANGED <<org, status, contact, links, issued, ops>>

\* The role was not there when the request looked: one more row of it.
CommitPromote(w) ==
    LET now == user[req[w].user] IN
    /\ MayCommit(w) /\ req[w].op = "promote"
    /\ now.admin < 2
    /\ Finish(w, [now EXCEPT !.admin = IF req[w].row.admin = 0 THEN @ + 1 ELSE @])

\* update_tenant_user with the USER role: _set_tenant_user_role takes the other away.
CommitDemote(w) ==
    /\ MayCommit(w) /\ req[w].op = "demote"
    /\ Removable(req[w].user)
    /\ Finish(w, [user[req[w].user] EXCEPT !.admin = @ - 1])

\* /roles/remove.
CommitRemove(w) ==
    /\ MayCommit(w) /\ req[w].op = "remove"
    /\ Removable(req[w].user)
    /\ Finish(w, [user[req[w].user] EXCEPT !.admin = @ - 1])

\* update_tenant_user_status writes is_active, and activated_at.  is_tenant_active is no
\* field of TenantUserStatusUpdate: the tenant's status alone writes it.
CommitStatus(w) ==
    LET q == req[w] IN
    /\ MayCommit(w)
    /\ \/ q.op = "suspend" /\ Finish(w, SetInactive(user[q.user], q.row))
       \/ q.op = "activate" /\ Finish(w, SetActive(user[q.user], q.row))

CommitDelete(w) ==
    LET q == req[w] IN
    /\ MayCommit(w) /\ q.op = "delete"
    /\ Finish(w, [SetInactive(user[q.user], q.row) EXCEPT !.state = "deleted"])

\* update_tenant with contact_user_id.
CommitContact(w) ==
    /\ MayCommit(w) /\ req[w].op = "contact"
    /\ contact' = req[w].user
    /\ Done(w)
    /\ UNCHANGED <<org, status, user, links, issued, slipped, ops>>

\* _is_pending_tenant_contact_admin, on the copies.
Opens(q) == q.status = "PENDING" /\ q.contact = q.user

\* set_password_with_token.  The credentials' UNIQUE user_id lets one password
\* be set; the tenant is written from the copy.
CommitSetPassword(w) ==
    LET q == req[w]
        u == q.user
        rows == [user EXCEPT ![u] = [SetActive(user[u], q.row) EXCEPT !.creds = TRUE]]
    IN  /\ MayCommit(w) /\ q.op = "redeem" /\ ~q.row.creds
        /\ ~user[u].creds
        /\ IF Opens(q) THEN status' = "ACTIVE" /\ user' = SyncUsers(rows, "ACTIVE")
           ELSE status' = status /\ user' = rows
        /\ links' = [links EXCEPT ![u] = @ \ {q.link}]
        /\ Done(w)
        /\ UNCHANGED <<org, contact, issued, slipped, ops>>

\* verify_email_token.
CommitVerify(w) ==
    LET q == req[w] IN
    /\ MayCommit(w) /\ q.op = "redeem" /\ q.row.creds
    /\ user' = [user EXCEPT ![q.user] = SetActive(@, q.row)]
    /\ links' = [links EXCEPT ![q.user] = @ \ {q.link}]
    /\ Done(w)
    /\ UNCHANGED <<org, status, contact, issued, slipped, ops>>

\* The links that were live are switched off and one more is sent.
Reissue(q) ==
    /\ issued[q.user] < MaxLinks
    /\ issued' = [issued EXCEPT ![q.user] = @ + 1]
    /\ links' = [links EXCEPT ![q.user] = (@ \ q.links) \cup {issued'[q.user]}]

CommitResend(w) ==
    /\ MayCommit(w) /\ req[w].op = "resend"
    /\ Reissue(req[w])
    /\ Done(w)
    /\ UNCHANGED <<org, status, contact, user, slipped, ops>>

\* update_tenant with the address of a PENDING tenant's contact: the tenant and
\* the account get it together, and a new link goes there.
CommitCorrect(w) ==
    /\ MayCommit(w) /\ req[w].op = "correct"
    /\ IF MaySetUp(user[req[w].user]) THEN Reissue(req[w]) ELSE UNCHANGED <<links, issued>>
    /\ Done(w)
    /\ UNCHANGED <<org, status, contact, user, slipped, ops>>

\* The request fails, or its process dies: the transaction is rolled back.
Abort(w) ==
    /\ req[w] # Idle
    /\ Done(w)
    /\ UNCHANGED <<org, status, contact, user, links, issued, slipped, ops>>

Ops == {"promote", "demote", "remove", "suspend", "activate", "delete",
        "contact", "redeem", "resend", "correct"}

Next ==
    \E w \in Worker :
        \/ \E s \in Statuses : UpdateTenantStatus(w, s)
        \/ \E u \in User : \/ \E n \in {0, 1} : CreateTenantUser(w, u, n)
                           \/ Register(w, u)
                           \/ OAuthSignup(w, u)
                           \/ \E op \in Ops : Read(w, op, u)
        \/ FirstLink(w)
        \/ TakeLock(w)
        \/ CommitPromote(w) \/ CommitDemote(w) \/ CommitRemove(w)
        \/ CommitStatus(w) \/ CommitDelete(w) \/ CommitContact(w)
        \/ CommitSetPassword(w) \/ CommitVerify(w)
        \/ CommitResend(w) \/ CommitCorrect(w)
        \/ Abort(w)

Spec == Init /\ [][Next]_vars

-----------------------------------------------------------------------------
(* Properties                                                               *)

\* Two administrators removed at the same moment: each removal that counts the
\* roster does so under the tenant's advisory lock, so the last administrator
\* is lost only when one was removed by a request that did not count.
RosterSurvives == [][Roster # {} /\ ~slipped' => Roster' # {}]_vars

\* Whatever the order of suspensions, reactivations and onboarding, no account of
\* a PENDING or ACTIVE tenant is left with is_tenant_active cleared: its sign-in is
\* not refused for its tenant, nor the resend of its link (USER_SUSPENDED), which
\* nothing short of another suspension of the tenant would then undo.
NobodyStranded ==
    status \in TENANT_ONBOARDING_STATUSES => \A u \in User : Live(u) => user[u].access

=============================================================================
