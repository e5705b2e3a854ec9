---------------------------- MODULE UserSessions ----------------------------
(***************************************************************************)
(* The sessions of one account: passwords, the one refresh token kept in   *)
(* the database, the access tokens in the hands of clients, and the logout *)
(* timestamp in Redis that rejects the tokens issued before it.            *)
(*                                                                         *)
(* Time is in seconds, the precision of a token's iat and of the           *)
(* timestamp.  A password check takes long (it runs in a thread), so the   *)
(* session of a login is issued in a later step than its checks.           *)
(***************************************************************************)
EXTENDS Naturals, FiniteSets

CONSTANTS
    Worker,                 \* requests handled at the same time
    Lifetime,               \* access_token_expire_minutes
    MaxTime, MaxSessions, MaxOps, MaxFaults     \* bounds of a behaviour

VARIABLES
    clock,
    password,   \* the current password, numbered in the order they were set
    account,    \* "active" while users.is_active, else "suspended" or "deleted"
    open,       \* the tenant is ACTIVE and is_tenant_active not cleared
    since,      \* when the account and the tenant last ceased to be
    grants,     \* version of the account's roles
    changed,    \* history: when they last changed
    sessions,   \* how many sessions were issued
    refresh,    \* the row of refresh_tokens, a set of at most one session
    tokens,     \* access tokens issued
    stamp,      \* the logout timestamp
    link, linkLive,     \* the newest reset link, and whether it is_active
    req,        \* what each worker is doing
    revoked,    \* history: sessions that were there when a completed logout began
    unstamped,  \* history: versions of the roles whose end set no timestamp
    cut,        \* history: a change of password died before its own session
    ops, faults

env == <<account, open, since>>
resets == <<link, linkLive>>
roles == <<grants, changed>>
history == <<revoked, unstamped, cut>>
vars == <<clock, password, account, open, since, grants, changed, sessions, refresh, tokens, stamp,
          link, linkLive, req, revoked, unstamped, cut, ops, faults>>

Idle == [pc |-> "idle"]

Init ==
    /\ clock = 1 /\ password = 1 /\ grants = 1 /\ changed = 0
    /\ account = "active" /\ open = TRUE /\ since = [account |-> 0, tenant |-> 0]
    /\ sessions = 0 /\ refresh = {} /\ tokens = {} /\ stamp = 0
    /\ link = 0 /\ linkLive = FALSE
    /\ req = [w \in Worker |-> Idle]
    /\ revoked = 0 /\ unstamped = {} /\ cut = FALSE
    /\ ops = 0 /\ faults = 0

Starts(w) ==
    /\ req[w] = Idle
    /\ ops < MaxOps
    /\ ops' = ops + 1

Continue(w, q) == req' = [req EXCEPT ![w] = q]

Tick ==
    /\ clock < MaxTime
    /\ clock' = clock + 1
    /\ tokens' = {t \in tokens : clock' < t.iat + Lifetime}
    /\ UNCHANGED <<password, env, roles, sessions, refresh, stamp, req, history, ops, faults, resets>>

(* What administrators do to the account and to its tenant (module TenantUsers) *)

\* update_tenant_user_status; an account is suspended in an ACTIVE tenant only.
Suspend ==
    /\ account = "active" /\ open /\ ops < MaxOps
    /\ account' = "suspended" /\ since' = [since EXCEPT !.account = clock] /\ ops' = ops + 1
    /\ UNCHANGED <<clock, password, open, roles, sessions, refresh, tokens, stamp, req, history, faults, resets>>

Reinstate ==
    /\ account = "suspended" /\ ops < MaxOps
    /\ account' = "active" /\ ops' = ops + 1
    /\ UNCHANGED <<clock, password, open, since, roles, sessions, refresh, tokens, stamp, req, history, faults, resets>>

\* delete_tenant_user takes the refresh token with it.
Delete ==
    /\ account # "deleted" /\ ops < MaxOps
    /\ account' = "deleted" /\ since' = [since EXCEPT !.account = clock] /\ ops' = ops + 1
    /\ refresh' = {}
    /\ UNCHANGED <<clock, password, open, roles, sessions, tokens, stamp, req, history, faults, resets>>

\* update_tenant_status: the tenant and the users' is_tenant_active, no token.
CloseTenant ==
    /\ open /\ ops < MaxOps
    /\ open' = FALSE /\ since' = [since EXCEPT !.tenant = clock] /\ ops' = ops + 1
    /\ UNCHANGED <<clock, password, account, roles, sessions, refresh, tokens, stamp, req, history, faults, resets>>

ReopenTenant ==
    /\ ~open /\ ops < MaxOps
    /\ open' = TRUE /\ ops' = ops + 1
    /\ UNCHANGED <<clock, password, account, since, roles, sessions, refresh, tokens, stamp, req, history, faults, resets>>

-----------------------------------------------------------------------------
(* Tokens                                                                   *)

\* _check_logout_revocation, while the timestamp's own lifetime lasts; a token
\* past its own is not kept in the model.
Valid(t) ==
    ~(stamp > 0 /\ clock < stamp + Lifetime /\ t.iat < stamp)

Token(id, via, late) == [iat |-> clock, session |-> id, via |-> via, grants |-> grants, late |-> late]

\* What each way to a session looks at: login and refresh_token at the account and
\* its tenant, change_password at the account (get_current_user), a provider's
\* sign-in finds any account that is not deleted.
Admits(via) ==
    /\ account # "deleted"
    /\ via # "oauth" => account = "active"
    /\ via \notin {"oauth", "change"} => open

\* issue_session: the new pair, and the row of the one refresh token overwritten.
Issue(w) ==
    /\ req[w].pc = "issue" /\ sessions < MaxSessions
    /\ LET late == req[w].password # password \/ ~Admits(req[w].via)
           s == [id |-> sessions + 1, via |-> req[w].via, password |-> req[w].password, late |-> late]
       IN  /\ sessions' = s.id
           /\ refresh' = {s}
           /\ tokens' = tokens \cup {Token(s.id, s.via, late)}
    /\ Continue(w, Idle)
    /\ UNCHANGED <<clock, password, env, roles, stamp, history, ops, faults, resets>>

\* login: the account and tenant are checked, then the password.
Login(w) ==
    /\ Starts(w)
    /\ account = "active" /\ open
    /\ Continue(w, [pc |-> "issue", via |-> "login", password |-> password])
    /\ UNCHANGED <<clock, password, env, roles, sessions, refresh, tokens, stamp, history, faults, resets>>

\* complete_oauth_login resolves the account by its address, which a deleted one has
\* lost, and looks neither at is_active nor at the tenant.
OAuthLogin(w) ==
    /\ Starts(w)
    /\ account # "deleted"
    /\ Continue(w, [pc |-> "issue", via |-> "oauth", password |-> password])
    /\ UNCHANGED <<clock, password, env, roles, sessions, refresh, tokens, stamp, history, faults, resets>>

\* Mistake: the account and its tenant are not looked at again.
RefreshUnchecked(w) ==
    /\ Starts(w)
    /\ \E s \in refresh : Continue(w, [pc |-> "mint", session |-> s, admitted |-> Admits("refresh")])
    /\ UNCHANGED <<clock, password, env, roles, sessions, refresh, tokens, stamp, history, faults, resets>>

\* refresh_token: the presented token is the row's, account and tenant are checked.
Refresh(w) ==
    /\ Starts(w)
    /\ account = "active" /\ open
    /\ \E s \in refresh : Continue(w, [pc |-> "mint", session |-> s, admitted |-> TRUE])
    /\ UNCHANGED <<clock, password, env, roles, sessions, refresh, tokens, stamp, history, faults, resets>>

\* The access token, with the permissions of that moment.
Mint(w) ==
    /\ req[w].pc = "mint"
    /\ LET s == req[w].session
       IN  tokens' = tokens \cup
              {Token(s.id, "refresh", s.late \/ s \notin refresh \/ req[w].admitted # Admits("refresh"))}
    /\ Continue(w, Idle)
    /\ UNCHANGED <<clock, password, env, roles, sessions, refresh, stamp, history, ops, faults, resets>>

-----------------------------------------------------------------------------
(* Signing out                                                              *)

\* revoke_all_sessions, after the request's commit.  Only logout reports a
\* failure; the others log it and go on.
Stamp(w, then) ==
    /\ req[w].pc = "stamp"
    /\ stamp' = clock
    /\ revoked' = IF req[w].ends > revoked THEN req[w].ends ELSE revoked
    /\ Continue(w, then)
    /\ UNCHANGED <<clock, password, env, roles, sessions, refresh, tokens, unstamped, cut, ops, faults, resets>>

StampFails(w, then) ==
    /\ req[w].pc = "stamp" /\ faults < MaxFaults
    /\ faults' = faults + 1
    /\ unstamped' = unstamped \cup req[w].versions
    /\ Continue(w, then)
    /\ UNCHANGED <<clock, password, env, roles, sessions, refresh, tokens, stamp, revoked, cut, ops, resets>>

\* Mistake: the pair in the database is kept for the caller.
AfterStampKeeps(q) == Idle

\* change_password goes on to issue the caller's new pair.
AfterStamp(q) == IF q.next = 0 THEN Idle
                 ELSE [pc |-> "issue", via |-> "change", password |-> q.next]

\* ends: the sessions that the timestamp is to end; versions: the roles it ends.
ToStamp(ends, versions, next) ==
    [pc |-> "stamp", ends |-> ends, versions |-> versions, next |-> next]

\* Mistake: the timestamp alone is relied on, the refresh token stays.
LogoutKeepsRow(w) ==
    /\ Starts(w)
    /\ Continue(w, ToStamp(sessions, {}, 0))
    /\ UNCHANGED <<clock, password, env, roles, sessions, refresh, tokens, stamp, history, faults, resets>>

\* The refresh token is deleted and committed, then the timestamp set.
Logout(w) ==
    /\ Starts(w)
    /\ refresh' = {}
    /\ Continue(w, ToStamp(sessions, {}, 0))
    /\ UNCHANGED <<clock, password, env, roles, sessions, tokens, stamp, history, faults, resets>>

\* request_password_reset: an older link is switched off.
RequestReset(w) ==
    /\ Starts(w)
    /\ account = "active"
    /\ link' = link + 1 /\ linkLive' = TRUE
    /\ UNCHANGED <<clock, password, env, roles, sessions, refresh, tokens, stamp, req, history, faults>>

\* reset_password_with_token finds the link live, hashes the new password...
ResetRead(w) ==
    /\ Starts(w)
    /\ linkLive /\ account # "deleted"
    /\ Continue(w, [pc |-> "reset", link |-> link])
    /\ UNCHANGED <<clock, password, env, roles, sessions, refresh, tokens, stamp, resets, history, faults>>

\* ... and commits it with the link and the refresh token switched off.
ResetCommit(w) ==
    /\ req[w].pc = "reset"
    /\ password' = password + 1
    /\ linkLive' = (linkLive /\ link # req[w].link)
    /\ refresh' = {}
    /\ Continue(w, ToStamp(sessions, {}, 0))
    /\ UNCHANGED <<clock, env, roles, sessions, tokens, stamp, link, history, ops, faults>>

\* change_password checks the account (get_current_user) and the current password,
\* hashes the new one...
ChangeRead(w) ==
    /\ Starts(w)
    /\ account = "active"
    /\ Continue(w, [pc |-> "change"])
    /\ UNCHANGED <<clock, password, env, roles, sessions, refresh, tokens, stamp, history, faults, resets>>

\* ... and commits it; the old refresh token is left to be overwritten.
ChangeCommit(w) ==
    /\ req[w].pc = "change"
    /\ password' = password + 1
    /\ Continue(w, ToStamp(0, {}, password'))
    /\ UNCHANGED <<clock, env, roles, sessions, refresh, tokens, stamp, history, ops, faults, resets>>

\* Mistake: a role change leaves the tokens alone.
ChangeRoleQuietly(w) ==
    /\ Starts(w)
    /\ grants' = grants + 1 /\ changed' = clock
    /\ UNCHANGED <<clock, password, env, sessions, refresh, tokens, stamp, req, history, faults, resets>>

\* PATCH of a tenant user with a new role signs the user out.
ChangeRole(w) ==
    /\ Starts(w)
    /\ account # "deleted"
    /\ grants' = grants + 1 /\ changed' = clock
    /\ Continue(w, ToStamp(0, {grants}, 0))
    /\ UNCHANGED <<clock, password, env, sessions, refresh, tokens, stamp, history, faults, resets>>

\* /roles/assign and /roles/remove do not.
AssignOrRemoveRole(w) ==
    /\ Starts(w)
    /\ grants' = grants + 1 /\ changed' = clock
    /\ unstamped' = unstamped \cup {grants}
    /\ UNCHANGED <<clock, password, env, sessions, refresh, tokens, stamp, req, revoked, cut, faults, resets>>

\* The process dies in the middle of a request.
Crash(w) ==
    /\ req[w] # Idle /\ faults < MaxFaults
    /\ faults' = faults + 1
    /\ cut' = (cut \/ (req[w].pc = "stamp" /\ req[w].next > 0)
                   \/ (req[w].pc = "issue" /\ req[w].via = "change"))
    /\ unstamped' = IF req[w].pc = "stamp" THEN unstamped \cup req[w].versions ELSE unstamped
    /\ Continue(w, Idle)
    /\ UNCHANGED <<clock, password, env, roles, sessions, refresh, tokens, stamp, revoked, ops, resets>>

Next ==
    \/ Tick \/ Suspend \/ Reinstate \/ Delete \/ CloseTenant \/ ReopenTenant
    \/ \E w \in Worker :
          \/ Issue(w) \/ Login(w) \/ OAuthLogin(w) \/ Refresh(w) \/ Mint(w)
          \/ Stamp(w, AfterStamp(req[w])) \/ StampFails(w, AfterStamp(req[w]))
          \/ Logout(w) \/ RequestReset(w) \/ ResetRead(w) \/ ResetCommit(w)
          \/ ChangeRead(w) \/ ChangeCommit(w)
          \/ ChangeRole(w) \/ AssignOrRemoveRole(w) \/ Crash(w)

Spec == Init /\ [][Next]_vars

-----------------------------------------------------------------------------
(* Properties                                                               *)

\* A session that a completed logout or reset ended is over: what still
\* validates of it was issued in the very second of the timestamp, or by a
\* refresh that had found its row before the logout deleted it.
EndedSessionsAreOver ==
    \A t \in tokens : Valid(t) /\ t.session <= revoked /\ ~t.late => t.iat <= stamp

\* The refresh token left in the database was obtained with the current
\* password, except by a request that had checked the old one before the
\* change, or when a change died before its own session replaced the row.
OldPasswordRenewsNothing ==
    \A s \in refresh : s.password # password /\ ~s.late =>
        \/ cut
        \/ \E w \in Worker : \/ req[w].pc = "stamp" /\ req[w].next > 0
                             \/ req[w].pc = "issue" /\ req[w].via = "change"

\* The token was issued after the account, or its tenant, had ceased to be active,
\* in a way that looks at what has ceased.
Barred(t) ==
    \/ account = "deleted" /\ t.iat > since.account
    \/ account = "suspended" /\ t.iat > since.account /\ t.via # "oauth"
    \/ ~open /\ t.iat > since.tenant /\ t.via \notin {"oauth", "change"}

\* The token's permissions are not the account's; excepted are the second of the
\* role change, a change that set no timestamp (the role routes never do), and
\* one that is about to.
Outdated(t) ==
    /\ t.grants # grants /\ t.iat < changed
    /\ ~\E v \in t.grants..grants : v \in unstamped
    /\ ~\E w \in Worker : req[w].pc = "stamp" /\ req[w].versions # {}

\* A token that validates agrees with the account.  A deleted account keeps what it
\* was issued before, and so nothing once a token's lifetime has passed; a suspended
\* one also what a sign-in with a provider gives it; an account whose tenant is
\* suspended also what a change of its password gives it.  None of them renews a
\* token by refresh_token, except by a request that had passed its checks (late).
\* A change of roles ends the tokens with the old permissions.
TokensFollowAccount ==
    \A t \in tokens : Valid(t) => (Barred(t) => t.late) /\ ~Outdated(t)
=============================================================================
