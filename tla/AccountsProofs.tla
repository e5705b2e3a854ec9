--------------------------- MODULE AccountsProofs ---------------------------
(***************************************************************************)
(* Proofs about the three components that MCAccounts runs side by side.    *)
(* TenantUsers: the roster of administrators survives every interleaving   *)
(* of the requests that count it, and no account of a PENDING or ACTIVE    *)
(* tenant is left locked, for any number of accounts and requests.         *)
(* UserSessions (S): ended sessions are over, an old password renews       *)
(* nothing and tokens follow the account, for any number of requests at a  *)
(* time.  UsageRollup (U): rows are in the partition of their day, no day  *)
(* is counted twice and a run that ends well has caught up, for any rows   *)
(* and any number of runs at a time.                                       *)
(***************************************************************************)
EXTENDS MCAccounts, FiniteSums

-----------------------------------------------------------------------------
(* Users: types                                                             *)

AccountRow == [state : {"absent", "live", "deleted"}, active : BOOLEAN, activated : BOOLEAN,
               access : BOOLEAN, creds : BOOLEAN, admin : Nat, self : BOOLEAN]

Linking == [pc : {"link"}, user : User]
Deciding == [pc : {"read", "checked"}, op : Ops, user : User, row : AccountRow, status : Statuses,
             contact : User, links : SUBSET Nat, link : Nat, counted : BOOLEAN]
UserRequest == {Idle} \cup Linking \cup Deciding

TenantTypes == status \in Statuses /\ contact \in User /\ slipped \in BOOLEAN

UserTypes ==
    /\ user \in [User -> AccountRow]
    /\ links \in [User -> SUBSET Nat] /\ issued \in [User -> Nat]

UserRequestTypes == req \in [Worker -> UserRequest]

UsersTyped == TenantTypes /\ UserTypes /\ UserRequestTypes

-----------------------------------------------------------------------------
(* Users: the inductive invariant                                           *)

\* The request has counted the roster and is about to remove an administrator.
Counting(w) == req[w].pc = "checked" /\ req[w].counted

TwoOnRoster == \E u, v \in Roster : u # v

\* A request that counted still holds the lock, and what it counted is still
\* true unless an administrator was removed uncounted in the meantime.
CountIsCurrent ==
    /\ \A w \in Worker : Counting(w) => lock = w /\ (slipped \/ TwoOnRoster)
    /\ \A w \in Worker : req[w].pc = "read" => ~req[w].counted

UsersInv == UsersTyped /\ CountIsCurrent /\ NobodyStranded

-----------------------------------------------------------------------------
(* Users: rows                                                              *)

\* Writing fields of a row leaves the others alone: activation and access...
LEMMA RowWithActive ==
    ASSUME NEW r \in AccountRow, NEW b \in BOOLEAN, NEW x, x = [r EXCEPT !.active = b]
    PROVE  /\ x \in AccountRow /\ x.state = r.state /\ x.access = r.access
           /\ x.admin = r.admin /\ x.active = b
BY DEF AccountRow

\* ... is_tenant_active ...
LEMMA RowWithAccess ==
    ASSUME NEW r \in AccountRow, NEW b \in BOOLEAN, NEW x, x = [r EXCEPT !.access = b]
    PROVE  /\ x \in AccountRow /\ x.state = r.state /\ x.access = b
           /\ x.admin = r.admin /\ x.active = r.active
BY DEF AccountRow

\* ... the credentials ...
LEMMA RowWithCreds ==
    ASSUME NEW r \in AccountRow, NEW x, x = [r EXCEPT !.creds = TRUE]
    PROVE  /\ x \in AccountRow /\ x.state = r.state /\ x.access = r.access
           /\ x.admin = r.admin /\ x.active = r.active
BY DEF AccountRow

\* ... the role and the end of the account.
LEMMA RowWithout ==
    ASSUME NEW r \in AccountRow, NEW n \in Nat
    PROVE  /\ [r EXCEPT !.state = "deleted"] \in AccountRow
           /\ [r EXCEPT !.state = "deleted"].state = "deleted"
           /\ [r EXCEPT !.admin = n] \in AccountRow
           /\ [r EXCEPT !.admin = n].state = r.state
           /\ [r EXCEPT !.admin = n].access = r.access
           /\ [r EXCEPT !.admin = n].admin = n
           /\ [r EXCEPT !.admin = n].active = r.active
BY DEF AccountRow

\* The rows of new accounts.
LEMMA NewRows ==
    ASSUME NEW n \in Nat
    PROVE  /\ Absent \in AccountRow /\ Absent.state = "absent"
           /\ Provisioned(n) \in AccountRow /\ Provisioned(n).access /\ Provisioned(n).state = "live"
           /\ Established(n) \in AccountRow /\ Established(n).access
  <1>1. Absent \in AccountRow /\ Absent.state = "absent" /\ Absent.access
    BY DEF Absent, AccountRow
  <1>2. Provisioned(n) \in AccountRow /\ Provisioned(n).access /\ Provisioned(n).state = "live"
    BY <1>1 DEF Provisioned, AccountRow
  <1>3. Established(n) \in AccountRow /\ Established(n).access
    BY <1>2 DEF Established, AccountRow
  <1> QED BY <1>1, <1>2, <1>3

\* Activation switches nothing off and leaves state, role and tenant access alone.
LEMMA SetActiveRow ==
    ASSUME NEW r \in AccountRow, NEW c \in AccountRow
    PROVE  /\ SetActive(r, c) \in AccountRow
           /\ SetActive(r, c).state = r.state /\ SetActive(r, c).access = r.access
           /\ SetActive(r, c).admin = r.admin /\ (r.active => SetActive(r, c).active)
  <1>1. PICK a \in BOOLEAN : a = (r.active \/ ~c.active)
    BY Zenon
  <1>2. PICK b \in BOOLEAN : b = (r.activated \/ ~c.activated)
    BY Zenon
  <1>3. SetActive(r, c) = [r EXCEPT !.active = a, !.activated = b]
    BY <1>1, <1>2, Zenon DEF SetActive
  <1>4. r.active => a
    BY <1>1
  <1>5. /\ SetActive(r, c) \in AccountRow /\ SetActive(r, c).active = a
        /\ SetActive(r, c).state = r.state /\ SetActive(r, c).access = r.access
        /\ SetActive(r, c).admin = r.admin
    <2> DEFINE x == SetActive(r, c)
    <2>1. x = [r EXCEPT !.active = a, !.activated = b]
      BY <1>3
    <2> HIDE DEF x
    <2>2. /\ x \in AccountRow /\ x.state = r.state /\ x.access = r.access
          /\ x.admin = r.admin /\ x.active = a
      BY <2>1 DEF AccountRow
    <2> QED BY <2>2 DEF x
  <1> QED BY <1>4, <1>5

\* Suspending a user touches nothing but the active flag.
LEMMA SetInactiveRow ==
    ASSUME NEW r \in AccountRow, NEW c \in AccountRow
    PROVE  /\ SetInactive(r, c) \in AccountRow
           /\ SetInactive(r, c).state = r.state /\ SetInactive(r, c).access = r.access
           /\ SetInactive(r, c).admin = r.admin
  <1>1. PICK a \in BOOLEAN : a = (r.active /\ ~c.active)
    BY Zenon
  <1>2. SetInactive(r, c) = [r EXCEPT !.active = a]
    BY <1>1, Zenon DEF SetInactive
  <1> QED BY <1>2, RowWithActive

\* A change of the tenant's status writes is_tenant_active only, and an ACTIVE
\* tenant unlocks everyone.
LEMMA SyncUsersRows ==
    ASSUME NEW rows \in [User -> AccountRow], NEW s
    PROVE  /\ SyncUsers(rows, s) \in [User -> AccountRow]
           /\ \A u \in User : /\ SyncUsers(rows, s)[u].state = rows[u].state
                              /\ SyncUsers(rows, s)[u].active = rows[u].active
                              /\ SyncUsers(rows, s)[u].admin = rows[u].admin
                              /\ s = "ACTIVE" /\ rows[u].state = "live"
                                    => SyncUsers(rows, s)[u].access
  <1>1. ASSUME NEW u \in User
        PROVE  /\ SyncUsers(rows, s)[u] \in AccountRow
               /\ SyncUsers(rows, s)[u].state = rows[u].state
               /\ SyncUsers(rows, s)[u].active = rows[u].active
               /\ SyncUsers(rows, s)[u].admin = rows[u].admin
               /\ s = "ACTIVE" /\ rows[u].state = "live" => SyncUsers(rows, s)[u].access
    <2>1. CASE rows[u].state # "live"
      BY <2>1 DEF SyncUsers
    <2>2. CASE rows[u].state = "live" /\ s = "ACTIVE"
      <3>1. SyncUsers(rows, s)[u] = [rows[u] EXCEPT !.access = TRUE]
        BY <2>2 DEF SyncUsers
      <3> QED BY <3>1, RowWithAccess
    <2>3. CASE rows[u].state = "live" /\ s # "ACTIVE"
      <3>1. PICK b \in BOOLEAN : b = (rows[u].access /\ ~rows[u].activated)
        BY Zenon
      <3>2. SyncUsers(rows, s)[u] = [rows[u] EXCEPT !.access = b]
        BY <2>3, <3>1, Zenon DEF SyncUsers
      <3> QED BY <2>3, <3>2, RowWithAccess
    <2> QED BY <2>1, <2>2, <2>3
  <1> QED BY <1>1 DEF SyncUsers

-----------------------------------------------------------------------------
(* Users: requests                                                          *)

\* A request has the fields of the place it has reached.
LEMMA UserRequestShapes ==
    ASSUME NEW q \in UserRequest
    PROVE  /\ q.pc = "link" => q \in Linking
           /\ q.pc \in {"read", "checked"} => q \in Deciding
  <1>1. CASE q = Idle
    BY <1>1 DEF Idle
  <1>2. CASE q \in Linking
    BY <1>2 DEF Linking
  <1>3. CASE q \in Deciding
    <2>1. q.pc # "link"
      BY <1>3 DEF Deciding
    <2> QED BY <1>3, <2>1
  <1> QED BY <1>1, <1>2, <1>3, Zenon DEF UserRequest

\* A step of w leaves the other requests and their lock alone...
Others(w) == \A v \in Worker \ {w} : req'[v] = req[v] /\ (lock = v => lock' = v)

\* ... and w is not about to remove anyone afterwards.
Leaves(w) ==
    /\ Others(w)
    /\ req'[w].pc # "checked" /\ (req'[w].pc = "read" => ~req'[w].counted)

\* The end of a transaction.
LEMMA DoneFacts ==
    ASSUME UsersTyped, NEW w \in Worker, Done(w)
    PROVE  Leaves(w) /\ UserRequestTypes'
BY DEF Done, Leaves, Others, UsersTyped, UserRequestTypes, UserRequest, Idle

\* What a request may commit: it has read its target.
LEMMA CommitFacts ==
    ASSUME UsersTyped, NEW w \in Worker, MayCommit(w)
    PROVE  /\ req[w].pc \in {"read", "checked"}
           /\ req[w].op \in Ops /\ req[w].user \in User /\ req[w].row \in AccountRow
           /\ req[w].links \subseteq Nat
  <1>1. req[w].pc \in {"read", "checked"}
    BY DEF MayCommit
  <1>2. req[w] \in Deciding
    BY <1>1, UserRequestShapes DEF UsersTyped, UserRequestTypes
  <1> QED BY <1>1, <1>2 DEF Deciding

-----------------------------------------------------------------------------
(* Users: what a step does to the roster                                    *)

\* Nobody leaves it.
Grows(w) == Leaves(w) /\ Roster \subseteq Roster' /\ slipped' = slipped

\* The target leaves it; when that was not counted, it slipped.
Removes(w) ==
    /\ Leaves(w) /\ MayCommit(w)
    /\ Roster \ Roster' \subseteq {req[w].user}
    /\ slipped => slipped'
    /\ Roster # Roster' /\ ~(Roster \subseteq Roster') => slipped' \/ req[w].counted

\* The lock is taken, and what needs two administrators has found them.
Counts(w) ==
    /\ Others(w) /\ UNCHANGED <<user, slipped>>
    /\ lock = NoOne /\ lock' = w /\ req'[w].pc = "checked"
    /\ req'[w].counted => TwoOnRoster

Steps(w) == Grows(w) \/ Removes(w) \/ Counts(w)

\* A row of the roster stays on it when it stays live, active and an administrator.
LEMMA RosterGrows ==
    ASSUME \A u \in User : /\ user[u].state = "live" => user'[u].state = "live"
                           /\ user[u].active => user'[u].active
                           /\ user[u].admin > 0 => user'[u].admin > 0
    PROVE  Roster \subseteq Roster'
BY DEF Roster, Live

\* More than one administrator is two.
LEMMA RosterOfTwo ==
    ASSUME ~(Cardinality(Roster) <= 1)
    PROVE  TwoOnRoster
  <1> SUFFICES ASSUME ~TwoOnRoster PROVE FALSE
    OBVIOUS
  <1>1. CASE Roster = {}
    BY <1>1, FS_EmptySet
  <1>2. CASE Roster # {}
    <2>1. PICK u : u \in Roster
      BY <1>2
    <2>2. Roster = {u}
      BY <2>1 DEF TwoOnRoster
    <2> QED BY <2>2, FS_Singleton
  <1> QED BY <1>1, <1>2

\* A commit that writes the target's row.
LEMMA FinishFacts ==
    ASSUME UsersTyped, NobodyStranded, NEW w \in Worker, MayCommit(w), NEW row \in AccountRow, Finish(w, row),
           \/ row.state = user[req[w].user].state /\ row.access = user[req[w].user].access
           \/ row.state = "deleted"
    PROVE  UsersTyped' /\ NobodyStranded' /\ Removes(w)
  <1>1. Leaves(w) /\ UserRequestTypes'
    BY DoneFacts DEF Finish
  <1>2. req[w].user \in User
    BY CommitFacts
  <1>3. /\ user' \in [User -> AccountRow] /\ user'[req[w].user] = row
        /\ \A u \in User \ {req[w].user} : user'[u] = user[u]
    BY <1>2 DEF Finish, UsersTyped, UserTypes
  <1>4. UsersTyped'
    <2>1. slipped' \in BOOLEAN
      BY Zenon DEF Finish
    <2> QED BY <1>1, <1>3, <2>1 DEF Finish, UsersTyped, TenantTypes, UserTypes
  <1>5. NobodyStranded'
    BY <1>2, <1>3 DEF Finish, NobodyStranded, Live
  <1>6. Removes(w)
    <2>1. Roster \ Roster' \subseteq {req[w].user}
      BY <1>3 DEF Roster, Live
    <2>2. slipped => slipped'
      BY DEF Finish
    <2>3. req[w].user \in Roster \ Roster' /\ ~req[w].counted => slipped'
      BY Zenon DEF Finish
    <2>4. ~(Roster \subseteq Roster') => req[w].user \in Roster \ Roster'
      BY <2>1
    <2> QED BY <1>1, <2>1, <2>2, <2>3, <2>4, Zenon DEF Removes
  <1> QED BY <1>4, <1>5, <1>6

\* A commit that leaves the accounts alone.
LEMMA DoneGrows ==
    ASSUME UsersTyped, NEW w \in Worker, Done(w), UNCHANGED <<user, slipped>>
    PROVE  Grows(w)
BY DoneFacts DEF Grows, Roster, Live

\* The links of one account written over by a commit.
LEMMA LinkTypes ==
    ASSUME UsersTyped, NEW q, q.user \in User, q.links \subseteq Nat, Reissue(q)
    PROVE  links' \in [User -> SUBSET Nat] /\ issued' \in [User -> Nat]
  <1>1. issued' \in [User -> Nat]
    BY DEF Reissue, UsersTyped, UserTypes
  <1> QED BY <1>1 DEF Reissue, UsersTyped, UserTypes

\* A row written for an account that has none.
LEMMA CreateFacts ==
    ASSUME UsersTyped, NobodyStranded, NEW w \in Worker, NEW u \in User, NEW row \in AccountRow, row.access,
           user[u].state = "absent", user' = [user EXCEPT ![u] = row], UNCHANGED status
    PROVE  user' \in [User -> AccountRow] /\ NobodyStranded' /\ Roster \subseteq Roster'
  <1>1. user' \in [User -> AccountRow] /\ user'[u] = row /\ \A v \in User \ {u} : user'[v] = user[v]
    BY DEF UsersTyped, UserTypes
  <1>2. NobodyStranded'
    BY <1>1 DEF NobodyStranded, Live
  <1>3. Roster \subseteq Roster'
    BY <1>1 DEF Roster, Live
  <1> QED BY <1>1, <1>2, <1>3

-----------------------------------------------------------------------------
(* Users: the steps                                                         *)

Kept(w) == UsersTyped' /\ NobodyStranded' /\ Steps(w)

\* Requests that have not begun, or stop where they are, do not move.
LEMMA RequestStarts ==
    ASSUME UsersTyped, NEW w \in Worker, req[w] = Idle, UNCHANGED <<req, lock>>
    PROVE  Leaves(w)
BY DEF Leaves, Others, Idle

\* A change of the tenant's status strands nobody.
LEMMA StatusStep ==
    ASSUME UsersTyped, NobodyStranded, NEW w \in Worker, NEW s \in Statuses, UpdateTenantStatus(w, s)
    PROVE  Kept(w)
  <1>1. /\ user' = SyncUsers(user, s) /\ status' = s
        /\ UNCHANGED <<org, contact, links, issued, lock, req, slipped>> /\ req[w] = Idle
    BY DEF UpdateTenantStatus, Starts
  <1>2. user \in [User -> AccountRow]
    BY DEF UsersTyped, UserTypes
  <1>3. UsersTyped'
    BY <1>1, <1>2, SyncUsersRows DEF UsersTyped, TenantTypes, UserTypes, UserRequestTypes
  <1>4. NobodyStranded'
    <2>1. s \in TENANT_ONBOARDING_STATUSES => s = "ACTIVE"
      <3>1. s \in ALLOWED_TENANT_STATUS_TRANSITIONS[status] /\ status \in Statuses
        BY DEF UpdateTenantStatus, UsersTyped, TenantTypes
      <3> QED BY <3>1 DEF ALLOWED_TENANT_STATUS_TRANSITIONS, Statuses, TENANT_ONBOARDING_STATUSES
    <2> QED BY <1>1, <1>2, <2>1, SyncUsersRows DEF NobodyStranded, Live
  <1>5. Roster \subseteq Roster'
    BY <1>1, <1>2, SyncUsersRows DEF Roster, Live
  <1> QED BY <1>1, <1>3, <1>4, <1>5, RequestStarts DEF Kept, Steps, Grows

\* An account made by an administrator or by its owner waits for its link.
LEMMA CreatesStep ==
    ASSUME UsersTyped, NobodyStranded, NEW w \in Worker, NEW u \in User, NEW row \in AccountRow, row.access,
           Creates(w, u, row)
    PROVE  Kept(w)
  <1>1. user' \in [User -> AccountRow] /\ NobodyStranded' /\ Roster \subseteq Roster'
    BY CreateFacts DEF Creates
  <1>2. UserRequestTypes' /\ Leaves(w)
    BY DEF Creates, Leaves, Others, UsersTyped, UserRequestTypes, UserRequest, Linking
  <1>3. UsersTyped'
    BY <1>1, <1>2 DEF Creates, UsersTyped, TenantTypes, UserTypes
  <1> QED BY <1>1, <1>2, <1>3 DEF Kept, Steps, Grows, Creates

\* A user who signs up with OAuth holds a row of their own.
LEMMA SignupStep ==
    ASSUME UsersTyped, NobodyStranded, NEW w \in Worker, NEW u \in User, OAuthSignup(w, u)
    PROVE  Kept(w)
  <1> DEFINE row == [Provisioned(0) EXCEPT !.active = TRUE, !.activated = TRUE, !.self = TRUE]
  <1>1. row \in AccountRow /\ row.access
    BY NewRows DEF AccountRow
  <1>2. user' = [user EXCEPT ![u] = row] /\ user[u].state = "absent" /\ req[w] = Idle
    BY DEF OAuthSignup, Starts
  <1> HIDE DEF row
  <1>3. user' \in [User -> AccountRow] /\ NobodyStranded' /\ Roster \subseteq Roster'
    BY <1>1, <1>2, CreateFacts DEF OAuthSignup
  <1>4. UsersTyped'
    BY <1>3 DEF OAuthSignup, UsersTyped, TenantTypes, UserTypes, UserRequestTypes
  <1> QED BY <1>2, <1>3, <1>4, RequestStarts DEF Kept, Steps, Grows, OAuthSignup

\* A request that has read its row holds what the tables held.
LEMMA ReadStep ==
    ASSUME UsersTyped, NobodyStranded, NEW w \in Worker, NEW u \in User, NEW op \in Ops, Read(w, op, u)
    PROVE  Kept(w)
  <1>1. PICK n \in IF op = "redeem" THEN links[u] ELSE {0} :
          req' = [req EXCEPT ![w] =
             [pc |-> "read", op |-> op, user |-> u, row |-> user[u], status |-> status,
              contact |-> contact, links |-> links[u], link |-> n, counted |-> FALSE]]
    BY DEF Read
  <1>2. n \in Nat /\ links[u] \subseteq Nat /\ user[u] \in AccountRow /\ status \in Statuses /\ contact \in User
    BY DEF UsersTyped, UserTypes, TenantTypes
  <1> DEFINE q == [pc |-> "read", op |-> op, user |-> u, row |-> user[u], status |-> status,
                   contact |-> contact, links |-> links[u], link |-> n, counted |-> FALSE]
  <1>3. q \in Deciding /\ q.pc = "read" /\ ~q.counted
    BY <1>2 DEF Deciding
  <1>4. req' = [req EXCEPT ![w] = q]
    BY <1>1
  <1> HIDE DEF q
  <1>5. UserRequestTypes' /\ Leaves(w)
    BY <1>3, <1>4 DEF Read, Leaves, Others, UsersTyped, UserRequestTypes, UserRequest
  <1>6. UsersTyped' /\ NobodyStranded' /\ Roster' = Roster
    BY <1>5 DEF Read, UsersTyped, TenantTypes, UserTypes, NobodyStranded, Roster, Live
  <1> QED BY <1>5, <1>6 DEF Kept, Steps, Grows, Read

\* The first set-password link is one more link.
LEMMA FirstLinkStep ==
    ASSUME UsersTyped, NobodyStranded, NEW w \in Worker, FirstLink(w)
    PROVE  Kept(w)
  <1>1. req[w].user \in User
    BY UserRequestShapes DEF FirstLink, UsersTyped, UserRequestTypes, Linking
  <1>2. issued' \in [User -> Nat] /\ links' \in [User -> SUBSET Nat]
    <2>1. issued' \in [User -> Nat]
      BY <1>1 DEF FirstLink, UsersTyped, UserTypes
    <2> QED BY <1>1, <2>1 DEF FirstLink, UsersTyped, UserTypes
  <1>3. UsersTyped' /\ NobodyStranded' /\ Grows(w)
    BY <1>2, DoneFacts, DoneGrows
    DEF FirstLink, UsersTyped, TenantTypes, UserTypes, NobodyStranded, Live
  <1> QED BY <1>3 DEF Kept, Steps

\* The lock is taken and the roster counted, or the request refused.
LEMMA TakeLockStep ==
    ASSUME UsersTyped, NobodyStranded, CountIsCurrent, NEW w \in Worker, TakeLock(w)
    PROVE  Kept(w)
  <1>1. req[w] \in Deciding /\ req[w].pc = "read" /\ lock = NoOne
    BY UserRequestShapes DEF TakeLock, UsersTyped, UserRequestTypes
  <1>2. ~req[w].counted
    BY <1>1 DEF CountIsCurrent
  <1>3. /\ UNCHANGED <<org, status, contact, user, links, issued, slipped>>
        /\ NobodyStranded' /\ (UserRequestTypes' => UsersTyped')
    BY DEF TakeLock, UsersTyped, TenantTypes, UserTypes, NobodyStranded, Live
  <1>4. CASE Done(w)
    BY <1>3, <1>4, DoneFacts, DoneGrows DEF Kept, Steps
  <1>5. ASSUME NEW q \in Deciding, req' = [req EXCEPT ![w] = q], lock' = w, q.pc = "checked",
               q.counted => TwoOnRoster
        PROVE  Kept(w)
    <2>1. UserRequestTypes'
      BY <1>5 DEF UsersTyped, UserRequestTypes, UserRequest
    <2>2. Counts(w)
      <3>1. Others(w) /\ req'[w] = q
        BY <1>1, <1>5, TenantUsersAssumption DEF Others, UsersTyped, UserRequestTypes
      <3> QED BY <1>1, <1>3, <1>5, <3>1 DEF Counts
    <2> QED BY <1>3, <2>1, <2>2 DEF Kept, Steps
  <1>6. CASE req' = [req EXCEPT ![w].pc = "checked", ![w].row.admin = user[req[w].user].admin]
             /\ lock' = w
    <2> DEFINE r == [req[w].row EXCEPT !.admin = user[req[w].user].admin]
               q == [req[w] EXCEPT !.pc = "checked", !.row = r]
    <2>1. r \in AccountRow
      <3>1. user[req[w].user].admin \in Nat /\ req[w].row \in AccountRow
        BY <1>1 DEF Deciding, AccountRow, UsersTyped, UserTypes
      <3> QED BY <3>1, RowWithout
    <2>2. req' = [req EXCEPT ![w] = q]
      BY <1>1, <1>6 DEF UsersTyped, UserRequestTypes, Deciding
    <2> HIDE DEF r
    <2>3. q \in Deciding /\ q.pc = "checked" /\ q.counted = req[w].counted
      BY <1>1, <2>1 DEF Deciding
    <2> HIDE DEF q
    <2> QED BY <1>2, <1>5, <1>6, <2>2, <2>3
  <1>7. CASE /\ ~(Cardinality(Roster) <= 1) /\ lock' = w
             /\ req' = [req EXCEPT ![w].pc = "checked", ![w].counted = TRUE]
    <2> DEFINE q == [req[w] EXCEPT !.pc = "checked", !.counted = TRUE]
    <2>1. req' = [req EXCEPT ![w] = q]
      BY <1>7 DEF UsersTyped, UserRequestTypes
    <2>2. q \in Deciding /\ q.pc = "checked"
      BY <1>1 DEF Deciding
    <2>3. TwoOnRoster
      BY <1>7, RosterOfTwo
    <2> HIDE DEF q
    <2> QED BY <1>5, <1>7, <2>1, <2>2, <2>3
  <1> QED BY <1>4, <1>6, <1>7 DEF TakeLock

\* The commits that write the target's row.
LEMMA WriteStep ==
    ASSUME UsersTyped, NobodyStranded, NEW w \in Worker,
           \/ CommitPromote(w) \/ CommitDemote(w) \/ CommitRemove(w)
           \/ CommitStatus(w) \/ CommitDelete(w)
    PROVE  Kept(w)
  <1> DEFINE now == user[req[w].user]
  <1>1. MayCommit(w)
    BY DEF CommitPromote, CommitDemote, CommitRemove, CommitStatus, CommitDelete
  <1>2. now \in AccountRow /\ req[w].row \in AccountRow /\ req[w].user \in User /\ now.admin \in Nat
    BY <1>1, CommitFacts DEF UsersTyped, UserTypes, AccountRow
  <1> HIDE DEF now
  <1>3. ASSUME NEW row \in AccountRow, Finish(w, row),
               (row.state = now.state /\ row.access = now.access) \/ row.state = "deleted"
        PROVE  Kept(w)
    BY <1>1, <1>3, FinishFacts DEF now, Kept, Steps
  <1>4. ASSUME NEW n \in Nat, Finish(w, [now EXCEPT !.admin = n])
        PROVE  Kept(w)
    BY <1>2, <1>3, <1>4, RowWithout
  <1>5. CASE CommitPromote(w)
    BY <1>2, <1>4, <1>5 DEF CommitPromote, now
  <1>6. CASE CommitDemote(w) \/ CommitRemove(w)
    <2>1. Finish(w, [now EXCEPT !.admin = now.admin - 1]) /\ now.admin = 1
      BY <1>6 DEF CommitDemote, CommitRemove, Removable, now
    <2> QED BY <1>4, <2>1
  <1>7. CASE CommitStatus(w)
    <2>1. \/ Finish(w, SetInactive(now, req[w].row))
          \/ Finish(w, SetActive(now, req[w].row))
      BY <1>7 DEF CommitStatus, now
    <2> QED BY <1>2, <1>3, <2>1, SetActiveRow, SetInactiveRow
  <1>8. CASE CommitDelete(w)
    <2>1. Finish(w, [SetInactive(now, req[w].row) EXCEPT !.state = "deleted"])
      BY <1>8 DEF CommitDelete, now
    <2>2. SetInactive(now, req[w].row) \in AccountRow
      BY <1>2, SetInactiveRow
    <2> QED BY <1>3, <2>1, <2>2, RowWithout
  <1> QED BY <1>5, <1>6, <1>7, <1>8

\* The commits that leave the accounts alone, and a request that fails.
LEMMA OtherStep ==
    ASSUME UsersTyped, NobodyStranded, NEW w \in Worker,
           CommitContact(w) \/ CommitResend(w) \/ CommitCorrect(w) \/ Abort(w)
    PROVE  Kept(w)
  <1> USE DEF UsersTyped, TenantTypes, UserTypes
  <1>1. Done(w) /\ UNCHANGED <<org, status, user, slipped>>
    BY DEF CommitContact, CommitResend, CommitCorrect, Abort
  <1>2. NobodyStranded' /\ Grows(w) /\ UserRequestTypes'
    BY <1>1, DoneFacts, DoneGrows DEF NobodyStranded, Live
  <1>3. contact' \in User
    BY CommitFacts DEF CommitContact, CommitResend, CommitCorrect, Abort
  <1>4. links' \in [User -> SUBSET Nat] /\ issued' \in [User -> Nat]
    <2>1. CASE CommitResend(w)
      BY <2>1, CommitFacts, LinkTypes DEF CommitResend
    <2>2. CASE CommitCorrect(w)
      BY <2>2, CommitFacts, LinkTypes DEF CommitCorrect
    <2>3. CASE CommitContact(w) \/ Abort(w)
      BY <2>3 DEF CommitContact, Abort
    <2> QED BY <2>1, <2>2, <2>3
  <1> QED BY <1>1, <1>2, <1>3, <1>4 DEF Kept, Steps

\* A link redeemed: the account is activated, and a PENDING tenant with it.
LEMMA RedeemStep ==
    ASSUME UsersTyped, NobodyStranded, NEW w \in Worker, CommitSetPassword(w) \/ CommitVerify(w)
    PROVE  Kept(w)
  <1> DEFINE u == req[w].user
             act == SetActive(user[u], req[w].row)
             new == [act EXCEPT !.creds = TRUE]
  <1>1. MayCommit(w)
    BY DEF CommitSetPassword, CommitVerify
  <1>2. u \in User /\ user[u] \in AccountRow /\ req[w].row \in AccountRow
    BY <1>1, CommitFacts DEF UsersTyped, UserTypes
  <1>3. /\ act \in AccountRow /\ act.state = user[u].state /\ act.access = user[u].access
        /\ act.admin = user[u].admin /\ (user[u].active => act.active)
    BY <1>2, SetActiveRow
  <1>4. /\ new \in AccountRow /\ new.state = user[u].state /\ new.access = user[u].access
        /\ new.admin = user[u].admin /\ (user[u].active => new.active)
    <2> HIDE DEF act
    <2>1. /\ new \in AccountRow /\ new.state = act.state /\ new.access = act.access
          /\ new.admin = act.admin /\ new.active = act.active
      BY <1>3, RowWithCreds
    <2> HIDE DEF new
    <2> QED BY <1>3, <2>1
  <1>5. /\ Done(w) /\ UNCHANGED <<org, contact, issued, slipped>>
        /\ links' = [links EXCEPT ![u] = @ \ {req[w].link}]
    BY DEF CommitSetPassword, CommitVerify
  <1>6. \/ user' = [user EXCEPT ![u] = act] /\ status' = status
        \/ user' = [user EXCEPT ![u] = new] /\ status' = status
        \/ user' = SyncUsers([user EXCEPT ![u] = new], "ACTIVE") /\ status' = "ACTIVE"
    BY DEF CommitSetPassword, CommitVerify
  <1> HIDE DEF act, new
  <1>7. ASSUME NEW row \in AccountRow, user' = [user EXCEPT ![u] = row], status' = status,
               row.state = user[u].state, row.access = user[u].access,
               row.admin = user[u].admin, user[u].active => row.active
        PROVE  user' \in [User -> AccountRow] /\ NobodyStranded' /\ Roster \subseteq Roster'
    <2>1. user' \in [User -> AccountRow] /\ user'[u] = row /\ \A v \in User \ {u} : user'[v] = user[v]
      BY <1>2, <1>7 DEF UsersTyped, UserTypes
    <2> HIDE DEF u
    <2>2. NobodyStranded'
      BY <1>7, <2>1 DEF NobodyStranded, Live
    <2>3. Roster \subseteq Roster'
      BY <1>7, <2>1 DEF Roster, Live
    <2> QED BY <2>1, <2>2, <2>3
  <1>8. ASSUME user' = SyncUsers([user EXCEPT ![u] = new], "ACTIVE"), status' = "ACTIVE"
        PROVE  user' \in [User -> AccountRow] /\ NobodyStranded' /\ Roster \subseteq Roster'
    <2> DEFINE rows == [user EXCEPT ![u] = new]
    <2>1. rows \in [User -> AccountRow] /\ rows[u] = new /\ \A v \in User \ {u} : rows[v] = user[v]
      BY <1>2, <1>4 DEF UsersTyped, UserTypes
    <2>2. user' = SyncUsers(rows, "ACTIVE")
      BY <1>8
    <2> HIDE DEF rows, u
    <2>3. user' \in [User -> AccountRow] /\ NobodyStranded'
      BY <2>1, <2>2, SyncUsersRows DEF NobodyStranded, Live
    <2>4. \A v \in User : /\ user'[v].state = user[v].state /\ user'[v].admin = user[v].admin
                          /\ user[v].active => user'[v].active
      BY <1>4, <2>1, <2>2, SyncUsersRows
    <2> QED BY <2>3, <2>4, RosterGrows
  <1>9. user' \in [User -> AccountRow] /\ NobodyStranded' /\ Roster \subseteq Roster'
    BY <1>3, <1>4, <1>6, <1>7, <1>8
  <1>10. status' \in Statuses
    BY <1>6 DEF UsersTyped, TenantTypes, Statuses
  <1>11. links' \in [User -> SUBSET Nat]
    BY <1>2, <1>5 DEF UsersTyped, UserTypes
  <1> QED BY <1>5, <1>9, <1>10, <1>11, DoneFacts
          DEF Kept, Steps, Grows, UsersTyped, TenantTypes, UserTypes

\* Every step keeps the types, strands nobody, and does to the roster what one
\* of the three kinds of step does.
LEMMA EveryStep ==
    ASSUME UsersInv, Next
    PROVE  \E w \in Worker : Kept(w)
  <1>1. PICK w \in Worker :
        \/ \E s \in Statuses : UpdateTenantStatus(w, s)
        \/ \E u \in User : \/ \E n \in {0, 1} : CreateTenantUser(w, u, n)
                           \/ Register(w, u)
                           \/ OAuthSignup(w, u)
                           \/ \E op \in Ops : Read(w, op, u)
        \/ FirstLink(w) \/ TakeLock(w)
        \/ CommitPromote(w) \/ CommitDemote(w) \/ CommitRemove(w)
        \/ CommitStatus(w) \/ CommitDelete(w) \/ CommitContact(w)
        \/ CommitSetPassword(w) \/ CommitVerify(w)
        \/ CommitResend(w) \/ CommitCorrect(w) \/ Abort(w)
    BY Zenon DEF Next
  <1> USE DEF UsersInv
  <1>2. ASSUME NEW s \in Statuses, UpdateTenantStatus(w, s) PROVE Kept(w)
    BY <1>2, StatusStep
  <1>3. ASSUME NEW u \in User, NEW n \in {0, 1}, CreateTenantUser(w, u, n) PROVE Kept(w)
    BY <1>3, NewRows, CreatesStep DEF CreateTenantUser
  <1>4. ASSUME NEW u \in User, Register(w, u) PROVE Kept(w)
    <2> DEFINE row == [Provisioned(0) EXCEPT !.creds = TRUE, !.self = TRUE]
    <2>1. row \in AccountRow /\ row.access
      BY NewRows DEF AccountRow
    <2>2. Creates(w, u, row)
      BY <1>4 DEF Register
    <2> HIDE DEF row
    <2> QED BY <2>1, <2>2, CreatesStep
  <1>5. ASSUME NEW u \in User, OAuthSignup(w, u) PROVE Kept(w)
    BY <1>5, SignupStep
  <1>6. ASSUME NEW u \in User, NEW op \in Ops, Read(w, op, u) PROVE Kept(w)
    BY <1>6, ReadStep
  <1>7. FirstLink(w) \/ TakeLock(w) => Kept(w)
    BY FirstLinkStep, TakeLockStep
  <1>8. CommitPromote(w) \/ CommitDemote(w) \/ CommitRemove(w) \/ CommitStatus(w) \/ CommitDelete(w)
           => Kept(w)
    BY WriteStep
  <1>9. CommitSetPassword(w) \/ CommitVerify(w) => Kept(w)
    BY RedeemStep
  <1>10. CommitContact(w) \/ CommitResend(w) \/ CommitCorrect(w) \/ Abort(w) => Kept(w)
    BY OtherStep
  <1> QED BY <1>1, <1>2, <1>3, <1>4, <1>5, <1>6, <1>7, <1>8, <1>9, <1>10, Zenon

-----------------------------------------------------------------------------
(* Users: the roster                                                        *)

\* While a request is about to remove an administrator it has counted, no other
\* counted request commits: a count stays current.
LEMMA CountStaysCurrent ==
    ASSUME UsersInv, NEW w \in Worker, Kept(w)
    PROVE  CountIsCurrent'
  <1>1. Others(w)
    BY DEF Kept, Steps, Grows, Removes, Counts, Leaves
  <1>2. \A v \in Worker : (req[v].pc = "read")' => ~req'[v].counted
    BY <1>1 DEF Kept, Steps, Grows, Removes, Counts, Leaves, Others, UsersInv, CountIsCurrent
  <1>3. ASSUME NEW v \in Worker, Counting(v)'
        PROVE  lock' = v /\ (slipped' \/ TwoOnRoster')
    <2>1. CASE v = w
      <3>1. Counts(w)
        BY <1>3, <2>1 DEF Kept, Steps, Grows, Removes, Leaves, Counting
      <3>2. Roster' = Roster
        BY <3>1 DEF Counts, Roster, Live
      <3> QED BY <1>3, <2>1, <3>1, <3>2 DEF Counts, Counting, TwoOnRoster
    <2>2. CASE v # w
      <3>1. /\ Counting(v) /\ lock = v /\ lock' = v /\ (slipped \/ TwoOnRoster)
        BY <1>1, <1>3, <2>2 DEF Others, Counting, UsersInv, CountIsCurrent
      <3>2. CASE Grows(w)
        BY <3>1, <3>2 DEF Grows, TwoOnRoster
      <3>3. CASE Removes(w)
        <4>1. ~req[w].counted
          BY <2>2, <3>1, <3>3 DEF Removes, MayCommit, Counting, UsersInv, CountIsCurrent
        <4> QED BY <3>1, <3>3, <4>1 DEF Removes, TwoOnRoster
      <3>4. CASE Counts(w)
        BY <3>1, <3>4, TenantUsersAssumption DEF Counts
      <3> QED BY <3>2, <3>3, <3>4 DEF Kept, Steps
    <2> QED BY <2>1, <2>2
  <1> QED BY <1>2, <1>3 DEF CountIsCurrent

\* No step that slips nothing empties the roster.
LEMMA RosterStep ==
    ASSUME UsersInv, NEW w \in Worker, Kept(w), Roster # {}, ~slipped'
    PROVE  Roster' # {}
  <1>1. CASE Grows(w)
    BY <1>1 DEF Grows
  <1>2. CASE Counts(w)
    BY <1>2 DEF Counts, Roster, Live
  <1>3. CASE Removes(w)
    <2>1. CASE Roster \subseteq Roster'
      BY <2>1
    <2>2. CASE ~(Roster \subseteq Roster')
      <3>1. Counting(w) /\ ~slipped
        BY <1>3, <2>2 DEF Removes, MayCommit, Counting, UsersInv, CountIsCurrent
      <3>2. PICK u \in Roster, v \in Roster : u # v
        BY <3>1 DEF UsersInv, CountIsCurrent, TwoOnRoster
      <3> QED BY <1>3, <3>2 DEF Removes
    <2> QED BY <2>1, <2>2
  <1> QED BY <1>1, <1>2, <1>3 DEF Kept, Steps

-----------------------------------------------------------------------------
(* Users: the theorems                                                      *)

\* The seeded organisation and both kinds of institution satisfy the invariant.
LEMMA UsersInit == Init => UsersInv
  <1> SUFFICES ASSUME Init PROVE UsersInv
    OBVIOUS
  <1>1. PICK c \in User : /\ contact = c
                          /\ DefaultOrganisation(c) \/ NewInstitution(c) \/ RunningInstitution(c)
    BY DEF Init
  <1>2. \A n \in Nat : /\ Absent \in AccountRow /\ Absent.state = "absent"
                       /\ Provisioned(n) \in AccountRow /\ Provisioned(n).access
                       /\ Established(n) \in AccountRow /\ Established(n).access
    BY NewRows
  <1>3. user \in [User -> AccountRow] /\ \A u \in User : user[u].state # "absent" => user[u].access
    <2>1. PICK R \in SUBSET User, row \in AccountRow :
             /\ row.access /\ user = [u \in User |-> IF u \in R THEN row ELSE Absent]
      <3>1. CASE DefaultOrganisation(c)
        <4>1. user = [u \in User |-> IF u \in {c} THEN Established(1) ELSE Absent]
          BY <3>1 DEF DefaultOrganisation
        <4> QED BY <1>1, <1>2, <4>1
      <3>2. CASE NewInstitution(c)
        <4>1. user = [u \in User |-> IF u \in {c} THEN Provisioned(1) ELSE Absent]
          BY <3>2 DEF NewInstitution
        <4> QED BY <1>1, <1>2, <4>1
      <3>3. CASE RunningInstitution(c)
        <4>1. PICK d \in User : user = [u \in User |-> IF u \in {c, d} THEN Established(1) ELSE Absent]
          BY <3>3 DEF RunningInstitution
        <4> QED BY <1>1, <1>2, <4>1
      <3> QED BY <1>1, <3>1, <3>2, <3>3
    <2> QED BY <1>2, <2>1
  <1>4. links \in [User -> SUBSET Nat] /\ \A u \in User : links[u] = {} \/ links[u] = {1}
    BY <1>1 DEF DefaultOrganisation, NewInstitution, RunningInstitution
  <1>5. issued \in [User -> Nat]
    <2>1. Cardinality({}) = 0 /\ Cardinality({1}) = 1
      BY FS_EmptySet, FS_Singleton
    <2>2. \A u \in User : Cardinality(links[u]) \in Nat
      BY <1>4, <2>1
    <2> QED BY <2>2 DEF Init
  <1>6. UsersTyped
    BY <1>1, <1>3, <1>4, <1>5
    DEF Init, UsersTyped, TenantTypes, UserTypes, UserRequestTypes, UserRequest, Statuses,
        DefaultOrganisation, NewInstitution, RunningInstitution
  <1>7. CountIsCurrent
    BY DEF Init, CountIsCurrent, Counting, Idle
  <1>8. NobodyStranded
    BY <1>3 DEF NobodyStranded, Live
  <1> QED BY <1>6, <1>7, <1>8 DEF UsersInv

\* Every step keeps the invariant.
LEMMA UsersNext ==
    ASSUME UsersInv, [Next]_vars
    PROVE  UsersInv'
  <1>1. CASE Next
    BY <1>1, EveryStep, CountStaysCurrent DEF UsersInv, Kept
  <1>2. CASE UNCHANGED vars
    BY <1>2 DEF vars, UsersInv, UsersTyped, TenantTypes, UserTypes, UserRequestTypes, CountIsCurrent,
                Counting, TwoOnRoster, Roster, Live, NobodyStranded
  <1> QED BY <1>1, <1>2

\* Types, current counts and unlocked accounts, in every reachable state.
THEOREM TenantInvariant == Spec => []UsersInv
BY UsersInit, UsersNext, PTL DEF Spec

\* No account of a PENDING or ACTIVE tenant is left with is_tenant_active cleared, however
\* suspensions, reactivations and onboarding (sync_tenant_users_for_status,
\* set_password_with_token, verify_email_token) interleave.
THEOREM NobodyStrandedAlways == Spec => []NobodyStranded
  <1>1. UsersInv => NobodyStranded
    BY DEF UsersInv
  <1> QED BY <1>1, TenantInvariant, PTL

\* The roster of administrators is emptied only after one was removed uncounted:
\* the advisory lock orders the counting removals of any number of requests
\* (_assert_not_last_platform_admin, _assert_not_last_tenant_admin).
THEOREM RosterSurvivesAlways == Spec => RosterSurvives
  <1>1. ASSUME UsersInv, [Next]_vars
        PROVE  [Roster # {} /\ ~slipped' => Roster' # {}]_vars
    BY <1>1, EveryStep, RosterStep
  <1> QED BY <1>1, TenantInvariant, PTL DEF Spec, RosterSurvives

\* A token lives for at least a second.
LifetimeIsPositive == Lifetime \in Nat \ {0}

-----------------------------------------------------------------------------
(* Sessions: types                                                          *)

Via == {"login", "oauth", "change"}
TokenVia == Via \cup {"refresh"}
Session == [id : Nat, via : Via, password : Nat, late : BOOLEAN]
AccessToken == [iat : Nat, session : Nat, via : TokenVia, grants : Nat, late : BOOLEAN]
Issuing == [pc : {"issue"}, via : Via, password : Nat]
Minting == [pc : {"mint"}, session : Session, admitted : {TRUE}]
Stamping == [pc : {"stamp"}, ends : Nat, versions : SUBSET Nat, next : Nat]
Resetting == [pc : {"reset"}, link : Nat]
Changing == [pc : {"change"}]
Request == {S!Idle} \cup Issuing \cup Minting \cup Stamping \cup Resetting \cup Changing

AccountTypes ==
    /\ clock \in Nat /\ password \in Nat /\ open \in BOOLEAN
    /\ account \in {"active", "suspended", "deleted"} /\ since \in [account : Nat, tenant : Nat]
    /\ grants \in Nat /\ changed \in Nat /\ link \in Nat

SessionTypes ==
    /\ sessions \in Nat /\ stamp \in Nat /\ revoked \in Nat
    /\ refresh \subseteq Session /\ tokens \subseteq AccessToken
    /\ unstamped \subseteq Nat

RequestTypes == sreq \in [Worker -> Request]

TypeOK == AccountTypes /\ SessionTypes /\ RequestTypes

\* A request has the fields of the place it has reached.
LEMMA RequestShapes ==
    ASSUME NEW q \in Request
    PROVE  /\ q.pc = "issue" => q.via \in Via /\ q.password \in Nat
           /\ q.pc = "mint" => q.session \in Session /\ q.admitted = TRUE
           /\ q.pc = "stamp" => q.ends \in Nat /\ q.versions \subseteq Nat /\ q.next \in Nat
  <1>1. CASE q = S!Idle
    BY <1>1 DEF S!Idle
  <1>2. CASE q \in Issuing
    BY <1>2 DEF Issuing
  <1>3. CASE q \in Minting
    <2>1. q.session \in Session /\ q.admitted = TRUE
      BY <1>3, Zenon DEF Minting
    <2>2. q.pc = "mint"
      BY <1>3 DEF Minting
    <2> QED BY <2>1, <2>2
  <1>4. CASE q \in Stamping
    BY <1>4 DEF Stamping
  <1>5. CASE q \in Resetting
    BY <1>5 DEF Resetting
  <1>6. CASE q \in Changing
    BY <1>6 DEF Changing
  <1> QED BY <1>1, <1>2, <1>3, <1>4, <1>5, <1>6, Zenon DEF Request

\* A step of one worker leaves the requests of the others alone.
LEMMA ContinueFacts ==
    ASSUME RequestTypes, NEW w \in Worker, NEW q, S!Continue(w, q)
    PROVE  /\ sreq'[w] = q
           /\ \A v \in Worker \ {w} : sreq'[v] = sreq[v]
           /\ q \in Request => RequestTypes'
BY DEF S!Continue, RequestTypes

\* Where a request may go next.
LEMMA NextRequests ==
    /\ S!Idle \in Request
    /\ \A via \in Via, p \in Nat : [pc |-> "issue", via |-> via, password |-> p] \in Request
    /\ \A s \in Session : [pc |-> "mint", session |-> s, admitted |-> TRUE] \in Request
    /\ \A e, n \in Nat, vs \in SUBSET Nat : S!ToStamp(e, vs, n) \in Request
    /\ \A l \in Nat : [pc |-> "reset", link |-> l] \in Request
    /\ [pc |-> "change"] \in Request
BY DEF Request, Issuing, Minting, Stamping, Resetting, Changing, S!ToStamp

\* What follows the timestamp is a request, an answer to the caller or a new session.
LEMMA AfterStampRequest ==
    ASSUME NEW q \in Request, q.pc = "stamp"
    PROVE  S!AfterStamp(q) \in Request
BY NextRequests, RequestShapes DEF S!AfterStamp, Via

-----------------------------------------------------------------------------
(* Sessions: the inductive invariant                                        *)

Stamps(w) == sreq[w].pc = "stamp"

\* What a completed sign-out ended stays ended: the row in the database and the
\* timestamps on their way belong to different sessions.
Ended ==
    /\ revoked <= sessions
    /\ \A w \in Worker : Stamps(w) => sreq[w].ends <= sessions
    /\ \A s \in refresh : /\ revoked < s.id
                          /\ \A w \in Worker : Stamps(w) => sreq[w].ends < s.id
    /\ \A t \in tokens : ~t.late /\ t.session <= revoked => t.iat <= stamp

\* Tokens are of the past and not yet expired, their permissions of a version the account has had.
Dated ==
    /\ changed <= clock /\ grants > 0
    /\ \A t \in tokens : /\ t.iat <= clock /\ clock < t.iat + Lifetime
                         /\ 0 < t.grants /\ t.grants <= grants

\* Who is barred from a way to a token gets none by it, but through a request under way.
Barred == \A t \in tokens : S!Barred(t) => t.late

\* The end of the last version of the roles has set a timestamp, is about to, or never will.
Noticed ==
    grants > 1 => \/ grants - 1 \in unstamped
                  \/ \E w \in Worker : Stamps(w) /\ grants - 1 \in sreq[w].versions
                  \/ changed <= stamp

Inv == TypeOK /\ Dated /\ Ended /\ S!OldPasswordRenewsNothing /\ Barred /\ Noticed

\* A token has the fields of an access token.
LEMMA TokenTypes ==
    ASSUME TypeOK, NEW id \in Nat, NEW via \in TokenVia, NEW late \in BOOLEAN
    PROVE  /\ S!Token(id, via, late) \in AccessToken
           /\ S!Token(id, via, late).iat = clock /\ S!Token(id, via, late).session = id
           /\ S!Token(id, via, late).via = via /\ S!Token(id, via, late).grants = grants
           /\ S!Token(id, via, late).late = late
BY DEF TypeOK, AccountTypes, S!Token, AccessToken

\* What the end of a request's checks leaves to issue: the session, late when the
\* account or its password changed since they were made.
Late(w) == sreq[w].password # password \/ ~S!Admits(sreq[w].via)
NewSession(w) ==
    [id |-> sessions + 1, via |-> sreq[w].via, password |-> sreq[w].password, late |-> Late(w)]
NewToken(w) == S!Token(NewSession(w).id, NewSession(w).via, Late(w))

\* The effect of Issue in terms of these.
LEMMA IssueFacts ==
    ASSUME TypeOK, NEW w \in Worker, S!Issue(w)
    PROVE  /\ NewSession(w) \in Session /\ NewSession(w).id = sessions + 1
           /\ NewSession(w).password = sreq[w].password /\ NewSession(w).via = sreq[w].via
           /\ NewSession(w).late = Late(w) /\ Late(w) \in BOOLEAN
           /\ sessions' = sessions + 1 /\ refresh' = {NewSession(w)}
           /\ tokens' = tokens \cup {NewToken(w)}
           /\ NewToken(w) \in AccessToken /\ NewToken(w).iat = clock /\ NewToken(w).grants = grants
           /\ NewToken(w).session = sessions + 1 /\ NewToken(w).via = sreq[w].via
           /\ NewToken(w).late = Late(w)
           /\ S!Continue(w, S!Idle)
           /\ UNCHANGED <<clock, password, S!env, S!roles, stamp, S!history, sops, faults, S!resets>>
  <1>1. Late(w) \in BOOLEAN
    BY Zenon DEF Late
  <1>2. sreq[w].via \in Via /\ sreq[w].password \in Nat
    BY RequestShapes DEF S!Issue, TypeOK, RequestTypes
  <1>3. /\ NewSession(w) \in Session /\ NewSession(w).id = sessions + 1
        /\ NewSession(w).password = sreq[w].password /\ NewSession(w).via = sreq[w].via
        /\ NewSession(w).late = Late(w)
    <2>1. ASSUME NEW l \in BOOLEAN, NEW r,
                 r = [id |-> sessions + 1, via |-> sreq[w].via, password |-> sreq[w].password, late |-> l]
          PROVE  /\ r \in Session /\ r.id = sessions + 1 /\ r.late = l
                 /\ r.password = sreq[w].password /\ r.via = sreq[w].via
      BY <1>2, <2>1 DEF Session, TypeOK, SessionTypes
    <2> QED BY <1>1, <2>1, Zenon DEF NewSession
  <1>4. /\ NewToken(w) \in AccessToken /\ NewToken(w).iat = clock /\ NewToken(w).grants = grants
        /\ NewToken(w).session = sessions + 1 /\ NewToken(w).via = sreq[w].via
        /\ NewToken(w).late = Late(w)
    <2>1. sessions + 1 \in Nat /\ sreq[w].via \in TokenVia
      BY <1>2 DEF TypeOK, SessionTypes, TokenVia
    <2>2. NewToken(w) = S!Token(sessions + 1, sreq[w].via, Late(w))
      BY <1>3, Zenon DEF NewToken
    <2> QED BY <1>1, <2>1, <2>2, TokenTypes
  <1> QED BY <1>1, <1>3, <1>4, Zenon DEF S!Issue, Late, NewSession, NewToken

\* What a renewal adds: a token of the session it found, late when that session's
\* row or the admission is gone by now.
Missed(w) ==
    \/ sreq[w].session.late \/ sreq[w].session \notin refresh
    \/ sreq[w].admitted # S!Admits("refresh")
RenewedToken(w) == S!Token(sreq[w].session.id, "refresh", Missed(w))

\* The effect of Mint in terms of this.
LEMMA MintFacts ==
    ASSUME TypeOK, NEW w \in Worker, S!Mint(w)
    PROVE  /\ sreq[w].session \in Session /\ Missed(w) \in BOOLEAN
           /\ ~Missed(w) => sreq[w].session \in refresh /\ S!Admits("refresh")
           /\ tokens' = tokens \cup {RenewedToken(w)}
           /\ RenewedToken(w) \in AccessToken /\ RenewedToken(w).iat = clock
           /\ RenewedToken(w).grants = grants /\ RenewedToken(w).session = sreq[w].session.id
           /\ RenewedToken(w).via = "refresh" /\ RenewedToken(w).late = Missed(w)
           /\ S!Continue(w, S!Idle)
           /\ UNCHANGED <<clock, password, S!env, S!roles, sessions, refresh, stamp, S!history,
                          sops, faults, S!resets>>
  <1>1. sreq[w].session \in Session /\ sreq[w].admitted = TRUE
    BY RequestShapes DEF S!Mint, TypeOK, RequestTypes
  <1>2. Missed(w) \in BOOLEAN
    BY Zenon DEF Missed
  <1>3. ~Missed(w) => sreq[w].session \in refresh /\ S!Admits("refresh")
    BY <1>1, Zenon DEF Missed
  <1>4. /\ RenewedToken(w) \in AccessToken /\ RenewedToken(w).iat = clock
        /\ RenewedToken(w).grants = grants /\ RenewedToken(w).session = sreq[w].session.id
        /\ RenewedToken(w).via = "refresh" /\ RenewedToken(w).late = Missed(w)
    <2>1. sreq[w].session.id \in Nat /\ "refresh" \in TokenVia
      BY <1>1 DEF Session, TokenVia
    <2> QED BY <1>2, <2>1, TokenTypes DEF RenewedToken
  <1> QED BY <1>1, <1>2, <1>3, <1>4, Zenon DEF S!Mint, Missed, RenewedToken

\* Every step keeps the types.
LEMMA TypesKept ==
    ASSUME TypeOK, [S!Next]_S!vars
    PROVE  TypeOK'
  <1> USE DEF TypeOK, AccountTypes, SessionTypes, RequestTypes, S!vars, S!env, S!resets, S!roles, S!history
  <1>1. CASE S!Tick
    BY <1>1 DEF S!Tick
  <1>2. CASE S!Suspend
    BY <1>2 DEF S!Suspend
  <1>3. CASE S!Reinstate
    BY <1>3 DEF S!Reinstate
  <1>4. CASE S!Delete
    BY <1>4 DEF S!Delete
  <1>5. CASE S!CloseTenant
    BY <1>5 DEF S!CloseTenant
  <1>6. CASE S!ReopenTenant
    BY <1>6 DEF S!ReopenTenant
  <1>7. ASSUME NEW w \in Worker,
            \/ S!Issue(w) \/ S!Login(w) \/ S!OAuthLogin(w) \/ S!Refresh(w)
            \/ S!Mint(w) \/ S!Stamp(w, S!AfterStamp(sreq[w])) \/ S!StampFails(w, S!AfterStamp(sreq[w]))
            \/ S!Logout(w) \/ S!RequestReset(w) \/ S!ResetRead(w) \/ S!ResetCommit(w) \/ S!ChangeRead(w)
            \/ S!ChangeCommit(w) \/ S!ChangeRole(w) \/ S!AssignOrRemoveRole(w) \/ S!Crash(w)
       PROVE  TypeOK'
    <2>1. CASE S!Issue(w)
      <3>1. NewToken(w) \in AccessToken
        BY <2>1, IssueFacts
      <3>2. /\ NewSession(w) \in Session /\ sessions' = sessions + 1 /\ refresh' = {NewSession(w)}
            /\ tokens' = tokens \cup {NewToken(w)} /\ S!Continue(w, S!Idle)
            /\ UNCHANGED <<clock, password, S!env, S!roles, stamp, S!history, link, linkLive>>
        BY <2>1, IssueFacts, Zenon
      <3> QED BY <3>1, <3>2, ContinueFacts, NextRequests
    <2>2. CASE S!Login(w)
      BY <2>2, ContinueFacts, NextRequests DEF S!Login, Via
    <2>3. CASE S!OAuthLogin(w)
      BY <2>3, ContinueFacts, NextRequests DEF S!OAuthLogin, Via
    <2>4. CASE S!Refresh(w)
      BY <2>4, ContinueFacts, NextRequests DEF S!Refresh
    <2>5. CASE S!Mint(w)
      <3>1. RenewedToken(w) \in AccessToken
        BY <2>5, MintFacts
      <3> QED BY <2>5, <3>1, MintFacts, ContinueFacts, NextRequests
    <2>6. CASE S!Stamp(w, S!AfterStamp(sreq[w]))
      BY <2>6, ContinueFacts, RequestShapes, AfterStampRequest DEF S!Stamp
    <2>7. CASE S!StampFails(w, S!AfterStamp(sreq[w]))
      BY <2>7, ContinueFacts, RequestShapes, AfterStampRequest DEF S!StampFails
    <2>8. CASE S!Logout(w)
      BY <2>8, ContinueFacts, NextRequests DEF S!Logout
    <2>9. CASE S!RequestReset(w)
      BY <2>9 DEF S!RequestReset, S!Starts
    <2>10. CASE S!ResetRead(w)
      BY <2>10, ContinueFacts, NextRequests DEF S!ResetRead
    <2>11. CASE S!ResetCommit(w)
      BY <2>11, ContinueFacts, NextRequests DEF S!ResetCommit
    <2>12. CASE S!ChangeRead(w)
      BY <2>12, ContinueFacts, NextRequests DEF S!ChangeRead
    <2>13. CASE S!ChangeCommit(w)
      BY <2>13, ContinueFacts, NextRequests DEF S!ChangeCommit
    <2>14. CASE S!ChangeRole(w)
      BY <2>14, ContinueFacts, NextRequests DEF S!ChangeRole
    <2>15. CASE S!AssignOrRemoveRole(w)
      BY <2>15 DEF S!AssignOrRemoveRole, S!Starts
    <2>16. CASE S!Crash(w)
      BY <2>16, ContinueFacts, NextRequests, RequestShapes DEF S!Crash
    <2> QED BY <1>7, <2>1, <2>2, <2>3, <2>4, <2>5, <2>6, <2>7, <2>8, <2>9, <2>10, <2>11, <2>12, <2>13, <2>14, <2>15, <2>16, Zenon
  <1>8. CASE UNCHANGED S!vars
    BY <1>8
  <1> QED BY <1>1, <1>2, <1>3, <1>4, <1>7, <1>8, <1>5, <1>6, Zenon DEF S!Next

\* Tokens stay dated.
LEMMA DatedKept ==
    ASSUME LifetimeIsPositive, TypeOK, Dated, [S!Next]_S!vars
    PROVE  Dated'
  <1> USE DEF LifetimeIsPositive, Dated, TypeOK, AccountTypes, SessionTypes, S!vars, S!env, S!resets, S!roles, S!history
  <1>1. CASE S!Tick
    BY <1>1 DEF S!Tick, AccessToken
  <1>2. CASE S!Suspend
    BY <1>2 DEF S!Suspend
  <1>3. CASE S!Reinstate
    BY <1>3 DEF S!Reinstate
  <1>4. CASE S!Delete
    BY <1>4 DEF S!Delete
  <1>5. CASE S!CloseTenant
    BY <1>5 DEF S!CloseTenant
  <1>6. CASE S!ReopenTenant
    BY <1>6 DEF S!ReopenTenant
  <1>7. ASSUME NEW w \in Worker,
            \/ S!Issue(w) \/ S!Login(w) \/ S!OAuthLogin(w) \/ S!Refresh(w)
            \/ S!Mint(w) \/ S!Stamp(w, S!AfterStamp(sreq[w])) \/ S!StampFails(w, S!AfterStamp(sreq[w]))
            \/ S!Logout(w) \/ S!RequestReset(w) \/ S!ResetRead(w) \/ S!ResetCommit(w) \/ S!ChangeRead(w)
            \/ S!ChangeCommit(w) \/ S!ChangeRole(w) \/ S!AssignOrRemoveRole(w) \/ S!Crash(w)
       PROVE  Dated'
    <2>1. CASE S!Issue(w)
      BY <2>1, IssueFacts, SMTT(30)
    <2>2. CASE S!Login(w)
      BY <2>2 DEF S!Login
    <2>3. CASE S!OAuthLogin(w)
      BY <2>3 DEF S!OAuthLogin
    <2>4. CASE S!Refresh(w)
      BY <2>4 DEF S!Refresh
    <2>5. CASE S!Mint(w)
      BY <2>5, MintFacts, SMTT(30)
    <2>6. CASE S!Stamp(w, S!AfterStamp(sreq[w]))
      BY <2>6 DEF S!Stamp
    <2>7. CASE S!StampFails(w, S!AfterStamp(sreq[w]))
      BY <2>7 DEF S!StampFails
    <2>8. CASE S!Logout(w)
      BY <2>8 DEF S!Logout
    <2>9. CASE S!RequestReset(w)
      BY <2>9 DEF S!RequestReset
    <2>10. CASE S!ResetRead(w)
      BY <2>10 DEF S!ResetRead
    <2>11. CASE S!ResetCommit(w)
      BY <2>11 DEF S!ResetCommit
    <2>12. CASE S!ChangeRead(w)
      BY <2>12 DEF S!ChangeRead
    <2>13. CASE S!ChangeCommit(w)
      BY <2>13 DEF S!ChangeCommit
    <2>14. CASE S!ChangeRole(w)
      BY <2>14 DEF S!ChangeRole, AccessToken
    <2>15. CASE S!AssignOrRemoveRole(w)
      BY <2>15 DEF S!AssignOrRemoveRole, AccessToken
    <2>16. CASE S!Crash(w)
      BY <2>16 DEF S!Crash
    <2> QED BY <1>7, <2>1, <2>2, <2>3, <2>4, <2>5, <2>6, <2>7, <2>8, <2>9, <2>10, <2>11, <2>12, <2>13, <2>14, <2>15, <2>16, Zenon
  <1>8. CASE UNCHANGED S!vars
    BY <1>8
  <1> QED BY <1>1, <1>2, <1>3, <1>4, <1>7, <1>8, <1>5, <1>6, Zenon DEF S!Next

\* Ended sessions stay ended.
LEMMA EndedKept ==
    ASSUME TypeOK, Dated, Ended, [S!Next]_S!vars
    PROVE  Ended'
  <1> USE DEF Ended, Stamps, TypeOK, AccountTypes, SessionTypes, RequestTypes, S!vars, S!env, S!resets, S!roles, S!history
  <1>1. CASE S!Tick
    BY <1>1 DEF S!Tick
  <1>2. CASE S!Suspend
    BY <1>2 DEF S!Suspend
  <1>3. CASE S!Reinstate
    BY <1>3 DEF S!Reinstate
  <1>4. CASE S!Delete
    BY <1>4 DEF S!Delete
  <1>5. CASE S!CloseTenant
    BY <1>5 DEF S!CloseTenant
  <1>6. CASE S!ReopenTenant
    BY <1>6 DEF S!ReopenTenant
  <1>7. ASSUME NEW w \in Worker,
            \/ S!Issue(w) \/ S!Login(w) \/ S!OAuthLogin(w) \/ S!Refresh(w)
            \/ S!Mint(w) \/ S!Stamp(w, S!AfterStamp(sreq[w])) \/ S!StampFails(w, S!AfterStamp(sreq[w]))
            \/ S!Logout(w) \/ S!RequestReset(w) \/ S!ResetRead(w) \/ S!ResetCommit(w) \/ S!ChangeRead(w)
            \/ S!ChangeCommit(w) \/ S!ChangeRole(w) \/ S!AssignOrRemoveRole(w) \/ S!Crash(w)
       PROVE  Ended'
    <2>1. CASE S!Issue(w)
      <3>1. NewSession(w).id = sessions + 1 /\ refresh' = {NewSession(w)} /\ sessions' = sessions + 1
        BY <2>1, IssueFacts
      <3>2. NewToken(w).session = sessions + 1 /\ tokens' = tokens \cup {NewToken(w)}
        BY <2>1, IssueFacts
      <3>3. \A v \in Worker : Stamps(v)' => sreq'[v] = sreq[v] /\ sreq[v].ends \in Nat
        <4>1. S!Continue(w, S!Idle)
          BY <2>1 DEF S!Issue
        <4>2. \A v \in Worker : Stamps(v)' => sreq'[v] = sreq[v]
          BY <4>1, ContinueFacts DEF S!Idle
        <4> QED BY <4>2, RequestShapes
      <3>4. UNCHANGED <<stamp, revoked>>
        BY <2>1, IssueFacts
      <3> QED BY <3>1, <3>2, <3>3, <3>4
    <2>2. CASE S!Login(w)
      BY <2>2, ContinueFacts DEF S!Login, S!Starts, S!Idle
    <2>3. CASE S!OAuthLogin(w)
      BY <2>3, ContinueFacts DEF S!OAuthLogin, S!Starts, S!Idle
    <2>4. CASE S!Refresh(w)
      BY <2>4, ContinueFacts DEF S!Refresh, S!Starts, S!Idle
    <2>5. CASE S!Mint(w)
      <3>1. sreq[w].session.id \in Nat
        BY <2>5, MintFacts DEF Session
      <3>2. ~(~RenewedToken(w).late /\ RenewedToken(w).session <= revoked)
        BY <2>5, <3>1, MintFacts
      <3>3. \A v \in Worker : Stamps(v)' => sreq'[v] = sreq[v]
        BY <2>5, MintFacts, ContinueFacts DEF S!Idle
      <3>4. /\ tokens' = tokens \cup {RenewedToken(w)}
            /\ UNCHANGED <<sessions, refresh, stamp, revoked>>
        BY <2>5, MintFacts, Zenon
      <3> QED BY <3>2, <3>3, <3>4
    <2>6. CASE S!Stamp(w, S!AfterStamp(sreq[w]))
      BY <2>6, ContinueFacts, RequestShapes DEF S!Stamp, S!AfterStamp, S!Idle, Dated, Session, AccessToken
    <2>7. CASE S!StampFails(w, S!AfterStamp(sreq[w]))
      BY <2>7, ContinueFacts, RequestShapes DEF S!StampFails, S!AfterStamp, S!Idle
    <2>8. CASE S!Logout(w)
      BY <2>8, ContinueFacts, RequestShapes DEF S!Logout, S!ToStamp, S!Starts, S!Idle
    <2>9. CASE S!RequestReset(w)
      BY <2>9 DEF S!RequestReset
    <2>10. CASE S!ResetRead(w)
      BY <2>10, ContinueFacts DEF S!ResetRead, S!Starts, S!Idle
    <2>11. CASE S!ResetCommit(w)
      BY <2>11, ContinueFacts, RequestShapes DEF S!ResetCommit, S!ToStamp
    <2>12. CASE S!ChangeRead(w)
      BY <2>12, ContinueFacts DEF S!ChangeRead, S!Starts, S!Idle
    <2>13. CASE S!ChangeCommit(w)
      BY <2>13, ContinueFacts, RequestShapes DEF S!ChangeCommit, S!ToStamp, Session
    <2>14. CASE S!ChangeRole(w)
      BY <2>14, ContinueFacts, RequestShapes DEF S!ChangeRole, S!ToStamp, S!Starts, S!Idle, Session
    <2>15. CASE S!AssignOrRemoveRole(w)
      BY <2>15 DEF S!AssignOrRemoveRole
    <2>16. CASE S!Crash(w)
      BY <2>16, ContinueFacts DEF S!Crash, S!Starts, S!Idle
    <2> QED BY <1>7, <2>1, <2>2, <2>3, <2>4, <2>5, <2>6, <2>7, <2>8, <2>9, <2>10, <2>11, <2>12, <2>13, <2>14, <2>15, <2>16, Zenon
  <1>8. CASE UNCHANGED S!vars
    BY <1>8
  <1> QED BY <1>1, <1>2, <1>3, <1>4, <1>7, <1>8, <1>5, <1>6, Zenon DEF S!Next

\* An old password goes on renewing nothing.
LEMMA PasswordKept ==
    ASSUME TypeOK, S!OldPasswordRenewsNothing, [S!Next]_S!vars
    PROVE  S!OldPasswordRenewsNothing'
  <1> USE DEF S!OldPasswordRenewsNothing, TypeOK, AccountTypes, SessionTypes, RequestTypes, S!vars, S!env, S!resets, S!roles, S!history
  <1>1. CASE S!Tick
    BY <1>1 DEF S!Tick
  <1>2. CASE S!Suspend
    BY <1>2 DEF S!Suspend
  <1>3. CASE S!Reinstate
    BY <1>3 DEF S!Reinstate
  <1>4. CASE S!Delete
    BY <1>4 DEF S!Delete
  <1>5. CASE S!CloseTenant
    BY <1>5 DEF S!CloseTenant
  <1>6. CASE S!ReopenTenant
    BY <1>6 DEF S!ReopenTenant
  <1>7. ASSUME NEW w \in Worker,
            \/ S!Issue(w) \/ S!Login(w) \/ S!OAuthLogin(w) \/ S!Refresh(w)
            \/ S!Mint(w) \/ S!Stamp(w, S!AfterStamp(sreq[w])) \/ S!StampFails(w, S!AfterStamp(sreq[w]))
            \/ S!Logout(w) \/ S!RequestReset(w) \/ S!ResetRead(w) \/ S!ResetCommit(w) \/ S!ChangeRead(w)
            \/ S!ChangeCommit(w) \/ S!ChangeRole(w) \/ S!AssignOrRemoveRole(w) \/ S!Crash(w)
       PROVE  S!OldPasswordRenewsNothing'
    <2>1. CASE S!Issue(w)
      <3>1. NewSession(w).password = sreq[w].password
        BY <2>1, IssueFacts
      <3>2. ~NewSession(w).late => sreq[w].password = password
        BY <2>1, IssueFacts, Zenon DEF Late
      <3>3. refresh' = {NewSession(w)} /\ UNCHANGED password
        BY <2>1, IssueFacts
      <3> QED BY <3>1, <3>2, <3>3
    <2>2. CASE S!Login(w)
      BY <2>2, ContinueFacts DEF S!Login, S!Starts, S!Idle
    <2>3. CASE S!OAuthLogin(w)
      BY <2>3, ContinueFacts DEF S!OAuthLogin, S!Starts, S!Idle
    <2>4. CASE S!Refresh(w)
      BY <2>4, ContinueFacts DEF S!Refresh, S!Starts, S!Idle
    <2>5. CASE S!Mint(w)
      BY <2>5, ContinueFacts DEF S!Mint, S!Idle
    <2>6. CASE S!Stamp(w, S!AfterStamp(sreq[w]))
      BY <2>6, ContinueFacts, RequestShapes DEF S!Stamp, S!AfterStamp, S!Idle
    <2>7. CASE S!StampFails(w, S!AfterStamp(sreq[w]))
      BY <2>7, ContinueFacts, RequestShapes DEF S!StampFails, S!AfterStamp, S!Idle
    <2>8. CASE S!Logout(w)
      BY <2>8 DEF S!Logout
    <2>9. CASE S!RequestReset(w)
      BY <2>9 DEF S!RequestReset
    <2>10. CASE S!ResetRead(w)
      BY <2>10, ContinueFacts DEF S!ResetRead, S!Starts, S!Idle
    <2>11. CASE S!ResetCommit(w)
      BY <2>11 DEF S!ResetCommit
    <2>12. CASE S!ChangeRead(w)
      BY <2>12, ContinueFacts DEF S!ChangeRead, S!Starts, S!Idle
    <2>13. CASE S!ChangeCommit(w)
      BY <2>13, ContinueFacts, RequestShapes DEF S!ChangeCommit, S!ToStamp
    <2>14. CASE S!ChangeRole(w)
      BY <2>14, ContinueFacts, RequestShapes DEF S!ChangeRole, S!ToStamp, S!Starts, S!Idle
    <2>15. CASE S!AssignOrRemoveRole(w)
      BY <2>15 DEF S!AssignOrRemoveRole
    <2>16. CASE S!Crash(w)
      BY <2>16, ContinueFacts DEF S!Crash, S!Starts, S!Idle
    <2> QED BY <1>7, <2>1, <2>2, <2>3, <2>4, <2>5, <2>6, <2>7, <2>8, <2>9, <2>10, <2>11, <2>12, <2>13, <2>14, <2>15, <2>16, Zenon
  <1>8. CASE UNCHANGED S!vars
    BY <1>8
  <1> QED BY <1>1, <1>2, <1>3, <1>4, <1>7, <1>8, <1>5, <1>6, Zenon DEF S!Next

\* Who is barred goes on getting no token.
LEMMA BarredKept ==
    ASSUME TypeOK, Dated, Barred, [S!Next]_S!vars
    PROVE  Barred'
  <1> USE DEF Barred, S!Barred, TypeOK, AccountTypes, SessionTypes, RequestTypes, S!vars, S!env, S!resets, S!roles, S!history
  <1>1. CASE S!Tick
    BY <1>1 DEF S!Tick
  <1>2. CASE S!Suspend
    BY <1>2 DEF S!Suspend, Dated, AccessToken
  <1>3. CASE S!Reinstate
    BY <1>3 DEF S!Reinstate
  <1>4. CASE S!Delete
    BY <1>4 DEF S!Delete, Dated, AccessToken
  <1>5. CASE S!CloseTenant
    BY <1>5 DEF S!CloseTenant, Dated, AccessToken
  <1>6. CASE S!ReopenTenant
    BY <1>6 DEF S!ReopenTenant
  <1>7. ASSUME NEW w \in Worker,
            \/ S!Issue(w) \/ S!Login(w) \/ S!OAuthLogin(w) \/ S!Refresh(w)
            \/ S!Mint(w) \/ S!Stamp(w, S!AfterStamp(sreq[w])) \/ S!StampFails(w, S!AfterStamp(sreq[w]))
            \/ S!Logout(w) \/ S!RequestReset(w) \/ S!ResetRead(w) \/ S!ResetCommit(w) \/ S!ChangeRead(w)
            \/ S!ChangeCommit(w) \/ S!ChangeRole(w) \/ S!AssignOrRemoveRole(w) \/ S!Crash(w)
       PROVE  Barred'
    <2>1. CASE S!Issue(w)
      <3>1. NewToken(w).via = sreq[w].via /\ (~NewToken(w).late => S!Admits(sreq[w].via))
        BY <2>1, IssueFacts, Zenon DEF Late
      <3>2. S!Barred(NewToken(w)) => NewToken(w).late
        BY <3>1 DEF S!Admits
      <3>3. /\ tokens' = tokens \cup {NewToken(w)}
            /\ UNCHANGED <<account, open, since>>
        BY <2>1, IssueFacts, Zenon
      <3> QED BY <3>2, <3>3
    <2>2. CASE S!Login(w)
      BY <2>2 DEF S!Login
    <2>3. CASE S!OAuthLogin(w)
      BY <2>3 DEF S!OAuthLogin
    <2>4. CASE S!Refresh(w)
      BY <2>4 DEF S!Refresh
    <2>5. CASE S!Mint(w)
      <3>1. ~RenewedToken(w).late => S!Admits("refresh")
        BY <2>5, MintFacts, Zenon
      <3>2. S!Barred(RenewedToken(w)) => RenewedToken(w).late
        BY <3>1 DEF S!Admits
      <3>3. /\ tokens' = tokens \cup {RenewedToken(w)}
            /\ UNCHANGED <<account, open, since>>
        BY <2>5, MintFacts, Zenon
      <3> QED BY <3>2, <3>3
    <2>6. CASE S!Stamp(w, S!AfterStamp(sreq[w]))
      BY <2>6 DEF S!Stamp
    <2>7. CASE S!StampFails(w, S!AfterStamp(sreq[w]))
      BY <2>7 DEF S!StampFails
    <2>8. CASE S!Logout(w)
      BY <2>8 DEF S!Logout
    <2>9. CASE S!RequestReset(w)
      BY <2>9 DEF S!RequestReset
    <2>10. CASE S!ResetRead(w)
      BY <2>10 DEF S!ResetRead
    <2>11. CASE S!ResetCommit(w)
      BY <2>11 DEF S!ResetCommit
    <2>12. CASE S!ChangeRead(w)
      BY <2>12 DEF S!ChangeRead
    <2>13. CASE S!ChangeCommit(w)
      BY <2>13 DEF S!ChangeCommit
    <2>14. CASE S!ChangeRole(w)
      BY <2>14 DEF S!ChangeRole
    <2>15. CASE S!AssignOrRemoveRole(w)
      BY <2>15 DEF S!AssignOrRemoveRole
    <2>16. CASE S!Crash(w)
      BY <2>16 DEF S!Crash
    <2> QED BY <1>7, <2>1, <2>2, <2>3, <2>4, <2>5, <2>6, <2>7, <2>8, <2>9, <2>10, <2>11, <2>12, <2>13, <2>14, <2>15, <2>16, Zenon
  <1>8. CASE UNCHANGED S!vars
    BY <1>8
  <1> QED BY <1>1, <1>2, <1>3, <1>4, <1>7, <1>8, <1>5, <1>6, Zenon DEF S!Next

\* A change of roles goes on being noticed.
LEMMA NoticedKept ==
    ASSUME TypeOK, Dated, Noticed, [S!Next]_S!vars
    PROVE  Noticed'
  <1> USE DEF Noticed, Stamps, TypeOK, AccountTypes, SessionTypes, RequestTypes, S!vars, S!env, S!resets, S!roles, S!history
  <1>1. CASE S!Tick
    BY <1>1 DEF S!Tick
  <1>2. CASE S!Suspend
    BY <1>2 DEF S!Suspend
  <1>3. CASE S!Reinstate
    BY <1>3 DEF S!Reinstate
  <1>4. CASE S!Delete
    BY <1>4 DEF S!Delete
  <1>5. CASE S!CloseTenant
    BY <1>5 DEF S!CloseTenant
  <1>6. CASE S!ReopenTenant
    BY <1>6 DEF S!ReopenTenant
  <1>7. ASSUME NEW w \in Worker,
            \/ S!Issue(w) \/ S!Login(w) \/ S!OAuthLogin(w) \/ S!Refresh(w)
            \/ S!Mint(w) \/ S!Stamp(w, S!AfterStamp(sreq[w])) \/ S!StampFails(w, S!AfterStamp(sreq[w]))
            \/ S!Logout(w) \/ S!RequestReset(w) \/ S!ResetRead(w) \/ S!ResetCommit(w) \/ S!ChangeRead(w)
            \/ S!ChangeCommit(w) \/ S!ChangeRole(w) \/ S!AssignOrRemoveRole(w) \/ S!Crash(w)
       PROVE  Noticed'
    <2>1. CASE S!Issue(w)
      BY <2>1, ContinueFacts DEF S!Issue
    <2>2. CASE S!Login(w)
      BY <2>2, ContinueFacts DEF S!Login, S!Starts, S!Idle
    <2>3. CASE S!OAuthLogin(w)
      BY <2>3, ContinueFacts DEF S!OAuthLogin, S!Starts, S!Idle
    <2>4. CASE S!Refresh(w)
      BY <2>4, ContinueFacts DEF S!Refresh, S!Starts, S!Idle
    <2>5. CASE S!Mint(w)
      BY <2>5, ContinueFacts DEF S!Mint
    <2>6. CASE S!Stamp(w, S!AfterStamp(sreq[w]))
      BY <2>6 DEF S!Stamp, Dated
    <2>7. CASE S!StampFails(w, S!AfterStamp(sreq[w]))
      BY <2>7, ContinueFacts DEF S!StampFails
    <2>8. CASE S!Logout(w)
      BY <2>8, ContinueFacts DEF S!Logout, S!Starts, S!Idle
    <2>9. CASE S!RequestReset(w)
      BY <2>9 DEF S!RequestReset
    <2>10. CASE S!ResetRead(w)
      BY <2>10, ContinueFacts DEF S!ResetRead, S!Starts, S!Idle
    <2>11. CASE S!ResetCommit(w)
      BY <2>11, ContinueFacts DEF S!ResetCommit
    <2>12. CASE S!ChangeRead(w)
      BY <2>12, ContinueFacts DEF S!ChangeRead, S!Starts, S!Idle
    <2>13. CASE S!ChangeCommit(w)
      BY <2>13, ContinueFacts DEF S!ChangeCommit
    <2>14. CASE S!ChangeRole(w)
      BY <2>14, ContinueFacts DEF S!ChangeRole, S!ToStamp
    <2>15. CASE S!AssignOrRemoveRole(w)
      BY <2>15 DEF S!AssignOrRemoveRole
    <2>16. CASE S!Crash(w)
      BY <2>16, ContinueFacts DEF S!Crash
    <2> QED BY <1>7, <2>1, <2>2, <2>3, <2>4, <2>5, <2>6, <2>7, <2>8, <2>9, <2>10, <2>11, <2>12, <2>13, <2>14, <2>15, <2>16, Zenon
  <1>8. CASE UNCHANGED S!vars
    BY <1>8
  <1> QED BY <1>1, <1>2, <1>3, <1>4, <1>7, <1>8, <1>5, <1>6, Zenon DEF S!Next


\* The invariant holds of an account that has signed in nowhere.
LEMMA InitInv == S!Init => Inv
  <1> SUFFICES ASSUME S!Init PROVE Inv
    OBVIOUS
  <1>1. TypeOK
    BY NextRequests DEF S!Init, TypeOK, AccountTypes, SessionTypes, RequestTypes
  <1>2. Dated /\ Ended /\ S!OldPasswordRenewsNothing /\ Barred /\ Noticed
    BY DEF S!Init, Dated, Ended, S!OldPasswordRenewsNothing, Barred, Noticed, Stamps, S!Idle
  <1> QED BY <1>1, <1>2 DEF Inv

\* Every step keeps the invariant.
LEMMA NextInv ==
    ASSUME LifetimeIsPositive, Inv, [S!Next]_S!vars
    PROVE  Inv'
BY TypesKept, DatedKept, EndedKept, PasswordKept, BarredKept, NoticedKept DEF Inv

\* Types and the relations between tokens, rows and timestamps hold in every
\* state, for any number of requests at a time, any bounds and any lifetime.
THEOREM SessionsInvariant ==
    ASSUME LifetimeIsPositive
    PROVE  S!Spec => []Inv
BY InitInv, NextInv, PTL DEF S!Spec

\* The relations imply that a token which validates has the account's roles: the
\* timestamp of the last change is at least as late as the change, so the token
\* is either rejected by it or past its own lifetime.
LEMMA NoneOutdated ==
    ASSUME LifetimeIsPositive, Inv, NEW t \in tokens, S!Valid(t)
    PROVE  ~S!Outdated(t)
  <1> SUFFICES ASSUME S!Outdated(t) PROVE FALSE
    OBVIOUS
  <1>1. /\ clock \in Nat /\ grants \in Nat /\ changed \in Nat /\ stamp \in Nat
        /\ t.iat \in Nat /\ t.grants \in Nat
    BY DEF Inv, TypeOK, AccountTypes, SessionTypes, AccessToken
  <1>2. /\ t.iat <= clock /\ clock < t.iat + Lifetime
        /\ 0 < t.grants /\ t.grants <= grants
    BY DEF Inv, Dated
  <1>3. t.grants <= grants - 1 /\ grants > 1 /\ grants - 1 \in t.grants..grants
    BY <1>1, <1>2 DEF S!Outdated
  <1>4. changed <= stamp
    BY <1>3 DEF Inv, Noticed, S!Outdated, Stamps
  <1>5. t.iat < stamp /\ clock < stamp + Lifetime
    BY <1>1, <1>2, <1>4 DEF S!Outdated, LifetimeIsPositive
  <1> QED BY <1>1, <1>5 DEF S!Valid

\* A session that a completed logout or reset ended is over (issue_session,
\* refresh_token and revoke_all_sessions in any order, with crashes and faults).
THEOREM EndedSessionsAreOverAlways ==
    ASSUME LifetimeIsPositive
    PROVE  S!Spec => []EndedSessionsAreOver
  <1>1. Inv => EndedSessionsAreOver
    BY DEF Inv, Ended, EndedSessionsAreOver, S!EndedSessionsAreOver
  <1> QED BY <1>1, SessionsInvariant, PTL

\* The refresh token in the database was obtained with the current password, but
\* for a request under way or a change that died (change_password,
\* reset_password_with_token).
THEOREM OldPasswordRenewsNothingAlways ==
    ASSUME LifetimeIsPositive
    PROVE  S!Spec => []OldPasswordRenewsNothing
  <1>1. Inv => OldPasswordRenewsNothing
    BY DEF Inv, OldPasswordRenewsNothing
  <1> QED BY <1>1, SessionsInvariant, PTL

\* A token that validates agrees with the account's admission and its roles.
THEOREM TokensFollowAccountAlways ==
    ASSUME LifetimeIsPositive
    PROVE  S!Spec => []TokensFollowAccount
  <1>1. Inv => TokensFollowAccount
    BY NoneOutdated DEF Inv, Barred, TokensFollowAccount, S!TokensFollowAccount
  <1> QED BY <1>1, SessionsInvariant, PTL

-----------------------------------------------------------------------------
(* Usage history: settings                                                  *)

\* Rows have the time of their span, and the settings are numbers of days.
RollupSettings ==
    /\ \A e \in Event : e.at \in Nat
    /\ LookbackDays \in Nat /\ DaysAhead \in Nat

-----------------------------------------------------------------------------
(* Usage history: types                                                     *)

\* What a run can have aggregated.
Groups == {<<>>} \cup {U!Aggregated(rows) : rows \in SUBSET Event}

RunStates == [at : {"idle", "partitions", "rollup", "write", "done"}, today : Int, day : Int,
              groups : Groups, seen : SUBSET Event, missed : BOOLEAN]

RollupTypes ==
    /\ halfDay \in Nat /\ stored \subseteq Event /\ spilled \subseteq stored /\ unsorted \subseteq stored
    /\ job \in [Worker -> RunStates]
    /\ load \in [at : {"idle", "load"}, day : Int, last : Int]

DailyTypes ==
    \A k \in DOMAIN daily : k.day \in Int /\ daily[k].source \in {"rollup", "backfill"}

-----------------------------------------------------------------------------
(* Usage history: partitions                                                *)

\* The partitions are those the migration left, or days.
OldOrDays ==
    \/ parts = U!UtcMonth
    \/ parts = U!UtcDays
    \/ \A p \in parts : p.lo \in Int /\ U!IsDay(p)

\* Every row is in a partition or in DEFAULT.
Routed == \A e \in stored \ spilled : \E p \in parts : U!Holds(p, e)

PartitionsInv == RollupTypes /\ OldOrDays /\ Routed /\ U!RowsInTheirDay

-----------------------------------------------------------------------------
(* Usage history: estimates and recorded usage                              *)

\* A run started today or before, and works from its first day on.
RunsInReach ==
    \A j \in Worker : job[j].at \in {"partitions", "rollup", "write"} =>
        job[j].today <= U!Today /\ U!FirstRollupDay(job[j].today) <= job[j].day

\* What a run is about to write is of its day.
WritesItsDay ==
    \A j \in Worker : job[j].at = "write" => \A k \in DOMAIN job[j].groups : k.day = job[j].day

\* Estimates are of days that no run started today would reach.
EstimatesOutOfReach ==
    \A k \in DOMAIN daily : daily[k].source = "backfill" => k.day < U!FirstRollupDay(U!Today)

\* The days a backfill still has to load were not recorded, but by a run from before midnight.
LoadInv ==
    load.at = "load" =>
        /\ load.day <= load.last /\ load.last < U!FirstRollupDay(U!Today)
        /\ \A k \in DOMAIN daily :
             daily[k].source = "rollup" /\ k.day \in load.day .. load.last => k.day \in crossed

HistoryInv ==
    /\ RollupTypes /\ DailyTypes /\ RunsInReach /\ WritesItsDay /\ EstimatesOutOfReach
    /\ LoadInv /\ U!NoDayCountedTwice

-----------------------------------------------------------------------------
(* Usage history: the steps of a run                                        *)

\* Only the run of j changes, from one state to another of the same kind.
Advances(j) == job' \in [Worker -> RunStates] /\ \A i \in Worker \ {j} : job'[i] = job[i]

\* The day of a time, and the rows a day's partition holds.
LEMMA DayFacts ==
    ASSUME RollupSettings, NEW e \in Event
    PROVE  /\ e.at \in Nat /\ U!Day(e.at) \in Nat
           /\ \A d \in Int : U!Holds(U!DayRange(d), e) <=> d = U!Day(e.at)
  <1>1. e.at \in Nat
    BY DEF RollupSettings
  <1>2. SUFFICES ASSUME NEW d \in Int
                 PROVE  U!Holds(U!DayRange(d), e) <=> d = U!Day(e.at)
    BY <1>1 DEF U!Day
  <1>3. U!DayRange(d).lo = 2 * d /\ U!DayRange(d).hi = 2 * d + 2
    BY DEF U!DayRange, U!Between
  <1>4. (2 * d <= e.at /\ e.at < 2 * d + 2) <=> d = e.at \div 2
    BY <1>1
  <1> QED BY <1>3, <1>4 DEF U!Holds, U!Day

\* Two partitions of days are the same or apart.
LEMMA DaysApart ==
    ASSUME NEW c \in Int, NEW d \in Int, U!DayRange(c) # U!DayRange(d)
    PROVE  U!DayRange(c).hi <= U!DayRange(d).lo \/ U!DayRange(d).hi <= U!DayRange(c).lo
  <1>1. c # d
    OBVIOUS
  <1>2. c < d \/ d < c
    BY <1>1
  <1> QED BY <1>2 DEF U!DayRange, U!Between

\* The next day of a run.
LEMMA NextDayFacts ==
    ASSUME NEW run \in RunStates, NEW missed \in BOOLEAN
    PROVE  /\ U!NextDay(run, missed) \in RunStates /\ U!NextDay(run, missed).at \in {"done", "rollup"}
           /\ U!NextDay(run, missed).today = run.today /\ U!NextDay(run, missed).day = run.day + 1
           /\ U!NextDay(run, missed).groups = <<>>
  <1>1. <<>> \in Groups
    BY DEF Groups
  <1>2. (run.missed \/ missed) \in BOOLEAN
    BY Zenon DEF RunStates
  <1> DEFINE m == run.missed \/ missed
             a == IF run.day = run.today - 1 THEN "done" ELSE "rollup"
             next == [run EXCEPT !.groups = <<>>, !.missed = m, !.at = a, !.day = @ + 1]
  <1>3. U!NextDay(run, missed) = next
    BY DEF U!NextDay
  <1>4. m \in BOOLEAN /\ a \in {"done", "rollup"} /\ run.day + 1 \in Int
    BY <1>2 DEF RunStates
  <1> HIDE DEF m, a
  <1>5. /\ next \in RunStates /\ next.at \in {"done", "rollup"}
        /\ next.today = run.today /\ next.day = run.day + 1 /\ next.groups = <<>>
    <2>1. /\ next.at = a /\ next.today = run.today /\ next.day = run.day + 1
          /\ next.groups = <<>> /\ next.missed = m /\ next.seen = run.seen
      BY DEF RunStates
    <2>2. next \in RunStates
      BY <1>1, <1>4 DEF RunStates
    <2> QED BY <1>4, <2>1, <2>2
  <1> QED BY <1>3, <1>5

\* A run goes on with the next day.
LEMMA StepFacts ==
    ASSUME RollupTypes, NEW j \in Worker, NEW missed \in BOOLEAN,
           job' = [job EXCEPT ![j] = U!NextDay(@, missed)]
    PROVE  /\ Advances(j) /\ job'[j].at \in {"done", "rollup"}
           /\ job'[j].today = job[j].today /\ job'[j].day = job[j].day + 1
  <1>1. job \in [Worker -> RunStates]
    BY DEF RollupTypes
  <1>2. U!NextDay(job[j], missed) \in RunStates
    BY <1>1, NextDayFacts
  <1>3. job'[j] = U!NextDay(job[j], missed) /\ Advances(j)
    BY <1>1, <1>2 DEF Advances
  <1> QED BY <1>1, <1>3, NextDayFacts

\* A run ends, or is over before its time.
LEMMA IdleFacts ==
    ASSUME RollupTypes, NEW j \in Worker, job' = [job EXCEPT ![j] = U!Idle]
    PROVE  Advances(j) /\ job'[j].at = "idle"
  <1>1. U!Idle \in RunStates /\ U!Idle.at = "idle"
    BY DEF U!Idle, RunStates, Groups, U!NoDay
  <1> QED BY <1>1 DEF Advances, RollupTypes

\* A run is done with the partitions.
LEMMA SortedFacts ==
    ASSUME RollupTypes, NEW j \in Worker, job' = [job EXCEPT ![j].at = "rollup"]
    PROVE  /\ Advances(j) /\ job'[j].at = "rollup"
           /\ job'[j].today = job[j].today /\ job'[j].day = job[j].day
  <1>1. job \in [Worker -> RunStates]
    BY DEF RollupTypes
  <1>2. job'[j] = [job[j] EXCEPT !.at = "rollup"]
    BY <1>1
  <1>3. /\ job'[j] \in RunStates /\ job'[j].at = "rollup"
        /\ job'[j].today = job[j].today /\ job'[j].day = job[j].day
    BY <1>1, <1>2 DEF RunStates
  <1> QED BY <1>1, <1>3 DEF Advances

\* A run begins with the first day it reaches.
LEMMA StartFacts ==
    ASSUME RollupSettings, RollupTypes, NEW j \in Worker, U!Start(j)
    PROVE  /\ Advances(j) /\ job'[j].at = "partitions"
           /\ job'[j].today = U!Today /\ job'[j].day = U!FirstRollupDay(U!Today) /\ U!Today \in Int
  <1>1. U!Today \in Int /\ U!FirstRollupDay(U!Today) \in Int
    BY DEF U!Today, U!Day, U!FirstRollupDay, RollupTypes, RollupSettings
  <1> DEFINE begun == [U!Idle EXCEPT !.at = "partitions", !.today = U!Today, !.day = U!FirstRollupDay(U!Today),
                                   !.seen = stored]
  <1>2. /\ begun \in RunStates /\ begun.at = "partitions" /\ begun.today = U!Today
        /\ begun.day = U!FirstRollupDay(U!Today)
    BY <1>1 DEF U!Idle, RunStates, Groups, RollupTypes
  <1>3. job'[j] = begun /\ \A i \in Worker \ {j} : job'[i] = job[i]
    BY DEF U!Start, RollupTypes
  <1>4. job' \in [Worker -> RunStates]
    BY <1>2, <1>3 DEF U!Start, RollupTypes
  <1> QED BY <1>1, <1>2, <1>3, <1>4 DEF Advances

\* A run has aggregated the rows of its day.
LEMMA AggregateFacts ==
    ASSUME RollupTypes, NEW j \in Worker, U!Aggregate(j)
    PROVE  /\ Advances(j) /\ job[j].at = "rollup" /\ job'[j].at = "write"
           /\ job'[j].today = job[j].today /\ job'[j].day = job[j].day
           /\ \A k \in DOMAIN job'[j].groups : k.day = job'[j].day
  <1>1. job \in [Worker -> RunStates] /\ U!OnDay(stored, job[j].day) \in SUBSET Event
    BY DEF RollupTypes, U!OnDay
  <1> DEFINE g == U!Aggregated(U!OnDay(stored, job[j].day))
  <1>2. g \in Groups
    BY <1>1 DEF Groups
  <1>3. \A k \in DOMAIN g : k.day = job[j].day
    BY DEF U!Aggregated, U!KeyOf, U!OnDay
  <1> HIDE DEF g
  <1>4. job' = [job EXCEPT ![j].at = "write", ![j].groups = g]
    BY DEF U!Aggregate, g
  <1>5. job'[j] = [job[j] EXCEPT !.at = "write", !.groups = g]
    BY <1>1, <1>4
  <1>6. /\ job'[j] \in RunStates /\ job'[j].at = "write" /\ job'[j].groups = g
        /\ job'[j].today = job[j].today /\ job'[j].day = job[j].day
    BY <1>1, <1>2, <1>5 DEF RunStates
  <1> QED BY <1>1, <1>3, <1>4, <1>6 DEF Advances, U!Aggregate

\* A run starts, goes on, or stops.
Goes(j) ==
    \/ job'[j].at \in {"idle", "done"}
    \/ job'[j].at = "partitions" /\ job'[j].today = U!Today /\ job'[j].day = U!FirstRollupDay(U!Today)
    \/ /\ job'[j].at \in {"rollup", "write"} /\ job[j].at \in {"partitions", "rollup", "write"}
       /\ job'[j].today = job[j].today /\ job'[j].day \in {job[j].day, job[j].day + 1}
       /\ job'[j].at = "write" => \A k \in DOMAIN job'[j].groups : k.day = job'[j].day

\* Whatever happens, at most one run moves.
LEMMA JobStep ==
    ASSUME RollupSettings, RollupTypes, [U!Next]_U!vars
    PROVE  UNCHANGED job \/ \E j \in Worker : Advances(j) /\ Goes(j)
  <1>1. ASSUME NEW j \in Worker, U!Start(j) PROVE Advances(j) /\ Goes(j)
    BY <1>1, StartFacts DEF Goes
  <1>2. ASSUME NEW j \in Worker, U!Maintain(j) \/ U!MaintainSkipped(j) PROVE Advances(j) /\ Goes(j)
    BY <1>2, SortedFacts DEF U!Maintain, U!MaintainSkipped, Goes
  <1>3. ASSUME NEW j \in Worker, U!Aggregate(j) PROVE Advances(j) /\ Goes(j)
    BY <1>3, AggregateFacts DEF Goes
  <1>4. ASSUME NEW j \in Worker, U!Skip(j) \/ U!Write(j) PROVE Advances(j) /\ Goes(j)
    BY <1>4, StepFacts DEF U!Skip, U!Write, Goes
  <1>5. ASSUME NEW j \in Worker, U!StepFails(j) PROVE Advances(j) /\ Goes(j)
    BY <1>5, StepFacts, SortedFacts DEF U!StepFails, Goes
  <1>6. ASSUME NEW j \in Worker, U!End(j) \/ U!Kill(j) PROVE Advances(j) /\ Goes(j)
    BY <1>6, IdleFacts DEF U!End, U!Kill, Goes
  <1>7. ASSUME U!Tick \/ (\E e \in Event : U!Store(e)) \/ U!BackfillFails \/ U!Undo
               \/ (\E first, last \in 0 .. U!Day(MaxHalfDays) : U!BackfillStart(first, last))
               \/ (\E groups \in SUBSET Group : U!BackfillDay(groups))
        PROVE  UNCHANGED job
    BY <1>7 DEF U!Tick, U!Store, U!BackfillFails, U!Undo, U!BackfillStart, U!BackfillDay
  <1>8. ASSUME UNCHANGED U!vars PROVE UNCHANGED job
    BY <1>8 DEF U!vars
  <1> QED BY <1>1, <1>2, <1>3, <1>4, <1>5, <1>6, <1>7, <1>8 DEF U!Next

\* What the tables of rows may do.
LEMMA StoreStep ==
    ASSUME RollupSettings, RollupTypes, [U!Next]_U!vars
    PROVE  /\ halfDay' \in Nat /\ halfDay' >= halfDay
           /\ \/ \E e \in Event : U!Store(e)
              \/ \E j \in Worker : U!Maintain(j)
              \/ UNCHANGED <<stored, parts, spilled, unsorted>>
  <1>0. halfDay \in Nat
    BY DEF RollupTypes
  <1>1. ASSUME U!Tick PROVE halfDay' = halfDay + 1 /\ UNCHANGED <<stored, parts, spilled, unsorted>>
    BY <1>1 DEF U!Tick
  <1>2. ASSUME \E e \in Event : U!Store(e) PROVE halfDay' = halfDay
    BY <1>2 DEF U!Store
  <1>3. ASSUME \E j \in Worker : U!Maintain(j) PROVE halfDay' = halfDay
    BY <1>3 DEF U!Maintain
  <1>4. ASSUME \E j \in Worker : \/ U!Start(j) \/ U!MaintainSkipped(j) \/ U!Aggregate(j) \/ U!Skip(j)
                              \/ U!Write(j) \/ U!StepFails(j) \/ U!End(j) \/ U!Kill(j)
        PROVE  halfDay' = halfDay /\ UNCHANGED <<stored, parts, spilled, unsorted>>
    BY <1>4 DEF U!Start, U!MaintainSkipped, U!Aggregate, U!Skip, U!Write, U!StepFails, U!End, U!Kill
  <1>5. ASSUME U!BackfillFails \/ U!Undo
               \/ (\E first, last \in 0 .. U!Day(MaxHalfDays) : U!BackfillStart(first, last))
               \/ (\E groups \in SUBSET Group : U!BackfillDay(groups))
        PROVE  halfDay' = halfDay /\ UNCHANGED <<stored, parts, spilled, unsorted>>
    BY <1>5 DEF U!BackfillFails, U!Undo, U!BackfillStart, U!BackfillDay
  <1>6. ASSUME UNCHANGED U!vars PROVE halfDay' = halfDay /\ UNCHANGED <<stored, parts, spilled, unsorted>>
    BY <1>6 DEF U!vars
  <1>7. halfDay' = halfDay \/ halfDay' = halfDay + 1
    BY <1>1, <1>2, <1>3, <1>4, <1>5, <1>6 DEF U!Next
  <1>8. halfDay' \in Nat /\ halfDay' >= halfDay
    BY <1>0, <1>7
  <1> QED BY <1>1, <1>4, <1>5, <1>6, <1>8 DEF U!Next

\* What the backfill command may do.
LEMMA LoadStep ==
    ASSUME RollupSettings, RollupTypes, [U!Next]_U!vars
    PROVE  /\ load' \in [at : {"idle", "load"}, day : Int, last : Int]
           /\ \/ load' = load
              \/ load'.at = "idle"
              \/ /\ load.at = "load" /\ \E groups \in SUBSET Group : U!BackfillDay(groups)
                 /\ load.day # load.last
                 /\ load'.at = "load" /\ load'.day = load.day + 1 /\ load'.last = load.last
              \/ /\ load'.at = "load" /\ load'.day <= load'.last
                 /\ load'.last < U!FirstRollupDay(U!Today) /\ ~U!Recorded(load'.day, load'.last)
                 /\ UNCHANGED <<halfDay, daily, crossed>>
  <1>0. U!NoLoad \in [at : {"idle", "load"}, day : Int, last : Int] /\ U!NoLoad.at = "idle"
    BY DEF U!NoLoad, U!NoDay
  <1>a. load \in [at : {"idle", "load"}, day : Int, last : Int]
    BY DEF RollupTypes
  <1>1. ASSUME NEW groups \in SUBSET Group, U!BackfillDay(groups)
        PROVE  \/ load' = U!NoLoad
               \/ /\ load.at = "load" /\ load.day # load.last /\ load' = [load EXCEPT !.day = @ + 1]
    BY <1>1 DEF U!BackfillDay
  <1>2. ASSUME NEW first \in 0 .. U!Day(MaxHalfDays), NEW last \in 0 .. U!Day(MaxHalfDays), U!BackfillStart(first, last)
        PROVE  /\ load' = [at |-> "load", day |-> first, last |-> last] /\ first \in Int /\ last \in Int
               /\ first <= last /\ last < U!FirstRollupDay(U!Today) /\ ~U!Recorded(first, last)
               /\ UNCHANGED <<halfDay, daily, crossed>>
    BY <1>2 DEF U!BackfillStart
  <1>3. ASSUME U!BackfillFails PROVE load' = U!NoLoad
    BY <1>3 DEF U!BackfillFails
  <1>4. ASSUME \/ U!Tick \/ (\E e \in Event : U!Store(e)) \/ U!Undo \/ UNCHANGED U!vars
               \/ \E j \in Worker : \/ U!Start(j) \/ U!Maintain(j) \/ U!MaintainSkipped(j) \/ U!Aggregate(j) \/ U!Skip(j)
                                 \/ U!Write(j) \/ U!StepFails(j) \/ U!End(j) \/ U!Kill(j)
        PROVE  load' = load
    BY <1>4 DEF U!Tick, U!Store, U!Undo, U!vars, U!Start, U!Maintain, U!MaintainSkipped, U!Aggregate, U!Skip, U!Write,
                U!StepFails, U!End, U!Kill
  <1>5. ASSUME NEW groups \in SUBSET Group, U!BackfillDay(groups), load' = [load EXCEPT !.day = @ + 1]
        PROVE  /\ load'.at = load.at /\ load'.day = load.day + 1 /\ load'.last = load.last
               /\ load' \in [at : {"idle", "load"}, day : Int, last : Int]
    BY <1>5, <1>a
  <1> QED BY <1>0, <1>a, <1>1, <1>2, <1>3, <1>4, <1>5 DEF U!Next

\* Every step keeps the types.
LEMMA RollupTypesStep ==
    ASSUME RollupSettings, RollupTypes, [U!Next]_U!vars
    PROVE  RollupTypes'
  <1>1. job' \in [Worker -> RunStates]
    BY JobStep DEF Advances, RollupTypes
  <1>2. load' \in [at : {"idle", "load"}, day : Int, last : Int] /\ halfDay' \in Nat
    BY LoadStep, StoreStep
  <1>3. ASSUME NEW e \in Event, U!Store(e)
        PROVE  stored' \subseteq Event /\ spilled' \subseteq stored' /\ unsorted' \subseteq stored'
    BY <1>3 DEF U!Store, RollupTypes
  <1>4. ASSUME NEW j \in Worker, U!Maintain(j)
        PROVE  stored' \subseteq Event /\ spilled' \subseteq stored' /\ unsorted' \subseteq stored'
    BY <1>4 DEF U!Maintain, U!Rows, RollupTypes
  <1>5. ASSUME UNCHANGED <<stored, parts, spilled, unsorted>>
        PROVE  stored' \subseteq Event /\ spilled' \subseteq stored' /\ unsorted' \subseteq stored'
    BY <1>5 DEF RollupTypes
  <1>6. stored' \subseteq Event /\ spilled' \subseteq stored' /\ unsorted' \subseteq stored'
    BY <1>3, <1>4, <1>5, StoreStep
  <1> QED BY <1>1, <1>2, <1>6 DEF RollupTypes

-----------------------------------------------------------------------------
(* Usage history: every row is in the partition of its day                  *)

\* No partition the migration left is a day.
LEMMA OldAreNotDays ==
    ASSUME NEW p \in U!UtcMonth \cup U!UtcDays
    PROVE  ~U!IsDay(p) /\ p.lo \in Int
  <1>1. p.lo = 1 \/ p.lo = 3
    BY DEF U!UtcMonth, U!UtcDays, U!Between
  <1>2. 1 \div 2 = 0 /\ 3 \div 2 = 1
    OBVIOUS
  <1>3. U!DayRange(U!Day(p.lo)).lo = 0 \/ U!DayRange(U!Day(p.lo)).lo = 2
    BY <1>1, <1>2 DEF U!Day, U!DayRange, U!Between
  <1> QED BY <1>1, <1>3 DEF U!IsDay

\* Of the partitions, those that maintenance keeps are days.
LEMMA KeptAreDays ==
    ASSUME OldOrDays, NEW p \in parts, U!IsDay(p)
    PROVE  p = U!DayRange(U!Day(p.lo)) /\ U!Day(p.lo) \in Int
  <1>1. p.lo \in Int
    BY OldAreNotDays DEF OldOrDays
  <1> QED BY <1>1 DEF U!IsDay, U!Day

\* Maintenance leaves every row in the partition of its day.
LEMMA MaintainStep ==
    ASSUME RollupSettings, PartitionsInv, NEW j \in Worker, U!Maintain(j)
    PROVE  OldOrDays' /\ Routed' /\ U!RowsInTheirDay'
  <1> DEFINE old == {p \in parts : ~U!IsDay(p)}
             kept == parts \ old
             wanted == U!Wanted(job[j].today, old)
             created == {U!DayRange(d) : d \in wanted} \ kept
             moved == {e \in spilled : \E p \in created : U!Holds(p, e)}
             restored == moved \cup UNION {U!Rows(p) : p \in old}
  <1>1. /\ parts' = kept \cup created
        /\ spilled' = (spilled \ moved) \cup {e \in restored : ~\E p \in parts' : U!Holds(p, e)}
        /\ unsorted' = {} /\ stored' = stored
    BY DEF U!Maintain
  <1>2. \A d \in wanted : d \in Int
    <2>1. job[j].today \in Int /\ DaysAhead \in Nat
      BY DEF RollupSettings, PartitionsInv, RollupTypes, RunStates
    <2>2. \A d \in job[j].today .. (job[j].today + DaysAhead) : d \in Int
      BY <2>1
    <2>3. \A e \in spilled \cup UNION {U!Rows(p) : p \in old} : U!Day(e.at) \in Int
      BY DayFacts DEF U!Rows, PartitionsInv, RollupTypes
    <2> QED BY <2>2, <2>3 DEF U!Wanted
  <1>3. \A p \in parts' : \E d \in Int : p = U!DayRange(d)
    BY <1>1, <1>2, KeptAreDays DEF PartitionsInv
  <1>4. ASSUME NEW e \in stored
        PROVE  U!DayRange(U!Day(e.at)) \in parts'
    <2>0. e \in Event
      BY DEF PartitionsInv, RollupTypes
    <2>1. CASE U!Day(e.at) \in wanted
      BY <1>1, <2>1
    <2>2. CASE \E p \in kept : U!Holds(p, e)
      <3>1. PICK p \in kept : U!Holds(p, e)
        BY <2>2
      <3>2. p = U!DayRange(U!Day(p.lo)) /\ U!Day(p.lo) \in Int
        BY KeptAreDays DEF PartitionsInv
      <3>3. U!Day(p.lo) = U!Day(e.at)
        BY <2>0, <3>1, <3>2, DayFacts
      <3> QED BY <1>1, <3>2, <3>3
    <2>3. CASE e \in spilled
      BY <2>1, <2>3 DEF U!Wanted
    <2>4. CASE e \notin spilled
      <3>1. PICK p \in parts : U!Holds(p, e)
        BY <2>4 DEF PartitionsInv, Routed
      <3>2. CASE p \in old
        <4>1. e \in U!Rows(p)
          BY <2>4, <3>1 DEF U!Rows
        <4> QED BY <2>1, <3>2, <4>1 DEF U!Wanted
      <3> QED BY <2>2, <3>1, <3>2
    <2> QED BY <2>3, <2>4
  <1>5. ASSUME NEW e \in stored
        PROVE  U!Holds(U!DayRange(U!Day(e.at)), e)
    BY DayFacts DEF PartitionsInv, RollupTypes
  <1>6. spilled' = {}
    <2>1. SUFFICES ASSUME NEW e \in spilled' PROVE FALSE
      OBVIOUS
    <2>2. e \in stored
      BY <1>1, <2>1 DEF U!Rows, PartitionsInv, RollupTypes
    <2>3. U!DayRange(U!Day(e.at)) \in parts' /\ U!Holds(U!DayRange(U!Day(e.at)), e)
      BY <1>4, <1>5, <2>2
    <2>4. e \in spilled /\ e \notin moved
      BY <1>1, <2>1, <2>3
    <2>5. U!DayRange(U!Day(e.at)) \in kept
      BY <1>1, <2>3, <2>4
    <2> QED BY <2>3, <2>4, <2>5 DEF PartitionsInv, U!RowsInTheirDay
  <1>7. OldOrDays'
    <2>1. ASSUME NEW d \in Int PROVE U!DayRange(d).lo \in Int /\ U!IsDay(U!DayRange(d))
      <3>1. U!DayRange(d).lo = 2 * d /\ (2 * d) \div 2 = d
        BY DEF U!DayRange, U!Between
      <3> QED BY <3>1 DEF U!IsDay, U!Day
    <2>2. \A p \in parts' : p.lo \in Int /\ U!IsDay(p)
      BY <1>3, <2>1
    <2> QED BY <2>2 DEF OldOrDays, U!IsDay, U!DayRange, U!Between, U!Day, U!UtcMonth, U!UtcDays
  <1>8. Routed'
    BY <1>1, <1>4, <1>5 DEF Routed, U!Holds
  <1>9. U!RowsInTheirDay'
    <2>1. \A p, q \in parts' : p # q => p.hi <= q.lo \/ q.hi <= p.lo
      BY <1>3, DaysApart
    <2> QED BY <1>1, <1>4, <1>6, <2>1 DEF U!RowsInTheirDay, U!DayRange, U!Between, U!Day
  <1> QED BY <1>7, <1>8, <1>9

\* Every step keeps the partitions in order.
LEMMA PartitionsStep ==
    ASSUME RollupSettings, PartitionsInv, [U!Next]_U!vars
    PROVE  PartitionsInv'
  <1>1. RollupTypes'
    BY RollupTypesStep DEF PartitionsInv
  <1>2. ASSUME NEW e \in Event, U!Store(e)
        PROVE  OldOrDays' /\ Routed' /\ U!RowsInTheirDay'
    <2>1. /\ parts' = parts /\ stored' = stored \cup {e} /\ unsorted' = unsorted \cup {e}
          /\ e \notin stored
          /\ spilled' = IF \E p \in parts : U!Holds(p, e) THEN spilled ELSE spilled \cup {e}
      BY <1>2 DEF U!Store
    <2>2. OldOrDays'
      BY <2>1 DEF PartitionsInv, OldOrDays
    <2>3. Routed'
      BY <2>1 DEF PartitionsInv, Routed
    <2>4. U!RowsInTheirDay'
      BY <2>1 DEF PartitionsInv, RollupTypes, U!RowsInTheirDay
    <2> QED BY <2>2, <2>3, <2>4
  <1>3. ASSUME NEW j \in Worker, U!Maintain(j)
        PROVE  OldOrDays' /\ Routed' /\ U!RowsInTheirDay'
    BY <1>3, MaintainStep
  <1>4. ASSUME UNCHANGED <<stored, parts, spilled, unsorted>>
        PROVE  OldOrDays' /\ Routed' /\ U!RowsInTheirDay'
    BY <1>4 DEF PartitionsInv, OldOrDays, Routed, U!RowsInTheirDay
  <1>5. OldOrDays' /\ Routed' /\ U!RowsInTheirDay'
    BY <1>2, <1>3, <1>4, StoreStep DEF PartitionsInv
  <1> QED BY <1>1, <1>5 DEF PartitionsInv

-----------------------------------------------------------------------------
(* Usage history: no day is counted twice                                   *)

\* The calendar only moves on.
LEMMA TodayFacts ==
    ASSUME RollupSettings, RollupTypes, [U!Next]_U!vars
    PROVE  /\ U!Today \in Int /\ U!Today' \in Int /\ U!Today <= U!Today'
           /\ U!FirstRollupDay(U!Today) \in Int /\ U!FirstRollupDay(U!Today)' \in Int
           /\ U!FirstRollupDay(U!Today) <= U!FirstRollupDay(U!Today)'
           /\ \A d \in Int : U!FirstRollupDay(d) \in Int /\ (d = U!Today => U!FirstRollupDay(d) = U!FirstRollupDay(U!Today))
  <1>1. halfDay \in Nat /\ halfDay' \in Nat /\ halfDay <= halfDay' /\ LookbackDays \in Nat
    BY StoreStep DEF RollupSettings, RollupTypes
  <1>2. halfDay \div 2 \in Int /\ halfDay' \div 2 \in Int /\ halfDay \div 2 <= halfDay' \div 2
    <2>1. ASSUME NEW m \in Nat, NEW n \in Nat, m <= n
          PROVE  m \div 2 \in Int /\ n \div 2 \in Int /\ m \div 2 <= n \div 2
      BY <2>1
    <2> QED BY <1>1, <2>1
  <1>3. U!Today \in Int /\ U!Today' \in Int /\ U!Today <= U!Today'
    BY <1>2 DEF U!Today, U!Day
  <1>4. \A d \in Int : d - (1 + LookbackDays) \in Int
    BY <1>1
  <1>5. U!Today - (1 + LookbackDays) <= U!Today' - (1 + LookbackDays)
    <2>1. ASSUME NEW a \in Int, NEW b \in Int, NEW n \in Nat, a <= b
          PROVE  a - (1 + n) <= b - (1 + n)
      BY <2>1
    <2> QED BY <1>1, <1>3, <2>1
  <1>6. /\ U!FirstRollupDay(U!Today) = U!Today - (1 + LookbackDays)
        /\ U!FirstRollupDay(U!Today)' = U!Today' - (1 + LookbackDays)
        /\ \A d \in Int : U!FirstRollupDay(d) = d - (1 + LookbackDays)
    BY DEF U!FirstRollupDay
  <1> QED BY <1>3, <1>4, <1>5, <1>6

\* Every step keeps the runs within their reach.
LEMMA RunsStep ==
    ASSUME RollupSettings, HistoryInv, [U!Next]_U!vars
    PROVE  RunsInReach' /\ WritesItsDay'
  <1>1. RollupTypes /\ RunsInReach /\ WritesItsDay
    BY DEF HistoryInv
  <1>2. U!Today \in Int /\ U!Today' \in Int /\ U!Today <= U!Today'
    BY <1>1, TodayFacts
  <1>3. SUFFICES ASSUME NEW i \in Worker
                 PROVE  /\ job'[i].at \in {"partitions", "rollup", "write"} =>
                             job'[i].today <= U!Today' /\ U!FirstRollupDay(job'[i].today) <= job'[i].day
                        /\ job'[i].at = "write" => \A k \in DOMAIN job'[i].groups : k.day = job'[i].day
    BY DEF RunsInReach, WritesItsDay, U!FirstRollupDay
  <1>4. job[i].today \in Int /\ job[i].day \in Int /\ U!FirstRollupDay(job[i].today) \in Int
    BY <1>1, <1>2, TodayFacts DEF RollupTypes, RunStates
  <1>5. CASE job'[i] = job[i]
    <2>1. job[i].at \in {"partitions", "rollup", "write"} => job[i].today <= U!Today'
      BY <1>1, <1>2, <1>4 DEF RunsInReach
    <2> QED BY <1>1, <1>5, <2>1 DEF RunsInReach, WritesItsDay
  <1>6. CASE Goes(i)
    <2>1. CASE job'[i].at \in {"idle", "done"}
      BY <2>1
    <2>2. CASE job'[i].at = "partitions" /\ job'[i].today = U!Today /\ job'[i].day = U!FirstRollupDay(U!Today)
      BY <1>1, <1>2, <2>2, TodayFacts
    <2>3. CASE /\ job'[i].at \in {"rollup", "write"} /\ job[i].at \in {"partitions", "rollup", "write"}
               /\ job'[i].today = job[i].today /\ job'[i].day \in {job[i].day, job[i].day + 1}
               /\ job'[i].at = "write" => \A k \in DOMAIN job'[i].groups : k.day = job'[i].day
      <3>1. job[i].today <= U!Today /\ U!FirstRollupDay(job[i].today) <= job[i].day
        BY <1>1, <2>3 DEF RunsInReach
      <3>2. job'[i].today <= U!Today' /\ U!FirstRollupDay(job'[i].today) <= job'[i].day
        BY <1>2, <1>4, <2>3, <3>1
      <3> QED BY <2>3, <3>2
    <2> QED BY <1>6, <2>1, <2>2, <2>3 DEF Goes
  <1> QED BY <1>1, <1>5, <1>6, JobStep DEF Advances

\* What may happen to daily_usage: the rollup of a day, one day of the backfill, or its
\* undo.
LEMMA DailyStep ==
    ASSUME [U!Next]_U!vars
    PROVE  \/ UNCHANGED <<daily, crossed>>
           \/ \E j \in Worker : U!Write(j)
           \/ \E groups \in SUBSET Group : U!BackfillDay(groups)
           \/ U!Undo
  <1>1. ASSUME \/ U!Tick \/ (\E e \in Event : U!Store(e)) \/ U!BackfillFails \/ UNCHANGED U!vars
               \/ \E first, last \in 0 .. U!Day(MaxHalfDays) : U!BackfillStart(first, last)
               \/ \E j \in Worker : \/ U!Start(j) \/ U!Maintain(j) \/ U!MaintainSkipped(j) \/ U!Aggregate(j) \/ U!Skip(j)
                                 \/ U!StepFails(j) \/ U!End(j) \/ U!Kill(j)
        PROVE  UNCHANGED <<daily, crossed>>
    BY <1>1 DEF U!Tick, U!Store, U!BackfillFails, U!vars, U!BackfillStart, U!Start, U!Maintain, U!MaintainSkipped,
                U!Aggregate, U!Skip, U!StepFails, U!End, U!Kill
  <1> QED BY <1>1 DEF U!Next

\* The rows of daily_usage after the rollup of a day: old ones, and the day's.
LEMMA WriteFacts ==
    ASSUME RollupSettings, HistoryInv, NEW j \in Worker, U!Write(j)
    PROVE  /\ \A k \in DOMAIN daily' :
                \/ k \in DOMAIN daily /\ daily'[k].source = daily[k].source
                \/ k.day = job[j].day /\ daily'[k].source = "rollup"
           /\ job[j].day \in Int /\ crossed \subseteq crossed'
           /\ job[j].day \in crossed' \/ U!FirstRollupDay(U!Today) <= job[j].day
           /\ UNCHANGED <<halfDay, load>>
  <1>1. /\ daily' = U!Upserted(job[j].day, job[j].groups) /\ job[j].at = "write" /\ UNCHANGED <<halfDay, load>>
        /\ crossed' = IF job[j].today < U!Today THEN crossed \cup {job[j].day} ELSE crossed
    BY DEF U!Write
  <1>2. ASSUME NEW k \in DOMAIN daily'
        PROVE  \/ k \in DOMAIN daily /\ daily'[k].source = daily[k].source
               \/ k \in DOMAIN job[j].groups /\ daily'[k].source = "rollup"
    BY <1>1, <1>2 DEF U!Upserted
  <1>3. \A k \in DOMAIN job[j].groups : k.day = job[j].day
    BY <1>1 DEF HistoryInv, WritesItsDay
  <1>4. /\ job[j].today \in Int /\ job[j].day \in Int /\ U!Today \in Int /\ job[j].today <= U!Today
        /\ U!FirstRollupDay(job[j].today) <= job[j].day
    BY <1>1 DEF HistoryInv, RunsInReach, RollupTypes, RunStates, U!Today, U!Day
  <1>5. job[j].today < U!Today \/ job[j].today = U!Today
    BY <1>4
  <1> QED BY <1>1, <1>2, <1>3, <1>4, <1>5

\* The rows of daily_usage after a day of the backfill.
LEMMA LoadFacts ==
    ASSUME HistoryInv, NEW groups \in SUBSET Group, U!BackfillDay(groups)
    PROVE  /\ \A k \in DOMAIN daily' :
                \/ k \in DOMAIN daily /\ daily'[k].source = daily[k].source
                \/ k.day = load.day /\ daily'[k].source = "backfill"
           /\ load.at = "load" /\ UNCHANGED <<halfDay, crossed>>
  <1> DEFINE rest == U!Without({k \in U!Backfilled : k.day = load.day})
             new == U!BackfillRows(load.day, groups)
  <1>1. \A k \in DOMAIN rest : k \in DOMAIN daily /\ rest[k] = daily[k]
    BY DEF U!Without
  <1>2. \A k \in DOMAIN new : k.day = load.day /\ new[k].source = "backfill"
    BY DEF U!BackfillRows
  <1> HIDE DEF rest, new
  <1>3. \/ UNCHANGED daily
        \/ daily' = [k \in DOMAIN rest \cup DOMAIN new |-> IF k \in DOMAIN new THEN new[k] ELSE rest[k]]
    BY DEF U!BackfillDay, rest, new
  <1>4. load.at = "load" /\ UNCHANGED <<halfDay, crossed>>
    BY DEF U!BackfillDay
  <1> QED BY <1>1, <1>2, <1>3, <1>4

\* Every step keeps estimates and recorded usage apart.
LEMMA HistoryStep ==
    ASSUME RollupSettings, HistoryInv, [U!Next]_U!vars
    PROVE  HistoryInv'
  <1>0. RollupTypes /\ DailyTypes /\ EstimatesOutOfReach /\ LoadInv /\ U!NoDayCountedTwice
    BY DEF HistoryInv
  <1>a. RollupTypes' /\ RunsInReach' /\ WritesItsDay'
    BY <1>0, RollupTypesStep, RunsStep
  <1>b. /\ U!FirstRollupDay(U!Today) \in Int /\ U!FirstRollupDay(U!Today)' \in Int
        /\ U!FirstRollupDay(U!Today) <= U!FirstRollupDay(U!Today)'
    BY <1>0, TodayFacts
  <1>c. load \in [at : {"idle", "load"}, day : Int, last : Int]
    BY <1>0 DEF RollupTypes
  <1> DEFINE Old(k) == k \in DOMAIN daily /\ daily'[k].source = daily[k].source
             Rolled(k) == /\ daily'[k].source = "rollup" /\ k.day \in Int
                          /\ k.day \in crossed' \/ U!FirstRollupDay(U!Today) <= k.day
             Loaded(k) == daily'[k].source = "backfill" /\ load.at = "load" /\ k.day = load.day
  <1>1. /\ crossed \subseteq crossed'
        /\ \/ \A k \in DOMAIN daily' : Old(k) \/ Rolled(k)
           \/ \A k \in DOMAIN daily' : Old(k) \/ Loaded(k)
    <2>1. CASE UNCHANGED <<daily, crossed>>
      BY <2>1
    <2>2. CASE \E j \in Worker : U!Write(j)
      BY <2>2, WriteFacts
    <2>3. CASE \E groups \in SUBSET Group : U!BackfillDay(groups)
      BY <2>3, LoadFacts
    <2>4. CASE U!Undo
      BY <2>4 DEF U!Undo, U!Without
    <2> QED BY <2>1, <2>2, <2>3, <2>4, DailyStep
  <1>2. load.at = "load" =>
          /\ load.day \in Int /\ load.last \in Int /\ load.day <= load.last
          /\ load.last < U!FirstRollupDay(U!Today) /\ load.day < U!FirstRollupDay(U!Today)
    BY <1>0, <1>b, <1>c DEF LoadInv
  <1>3. DailyTypes'
    BY <1>0, <1>1, <1>2 DEF DailyTypes
  <1>4. EstimatesOutOfReach'
    <2>1. SUFFICES ASSUME NEW k \in DOMAIN daily', daily'[k].source = "backfill"
                   PROVE  k.day < U!FirstRollupDay(U!Today)'
      BY DEF EstimatesOutOfReach
    <2>2. k.day \in Int /\ k.day < U!FirstRollupDay(U!Today)
      BY <1>0, <1>1, <1>2, <2>1 DEF EstimatesOutOfReach, DailyTypes
    <2> QED BY <1>b, <2>2
  <1>5. ASSUME NEW k \in DOMAIN daily', NEW l \in DOMAIN daily', k.day = l.day,
               daily'[k].source = "backfill", daily'[l].source = "rollup"
        PROVE  k.day \in crossed'
    <2>0. k.day \in Int /\ l.day \in Int
      BY <1>3 DEF DailyTypes
    <2>1. CASE Old(k) /\ Old(l)
      BY <1>0, <1>1, <1>5, <2>1 DEF U!NoDayCountedTwice
    <2>2. CASE Old(k) /\ Rolled(l)
      <3>1. k.day < U!FirstRollupDay(U!Today)
        BY <1>0, <1>5, <2>2 DEF EstimatesOutOfReach
      <3>2. ~(U!FirstRollupDay(U!Today) <= k.day)
        BY <1>b, <2>0, <3>1
      <3> QED BY <1>5, <2>2, <3>2
    <2>3. CASE Loaded(k) /\ Old(l)
      <3>1. l.day \in load.day .. load.last
        BY <1>2, <1>5, <2>3
      <3> QED BY <1>0, <1>1, <1>5, <2>3, <3>1 DEF LoadInv
    <2> QED BY <1>1, <1>5, <2>1, <2>2, <2>3
  <1>6. U!NoDayCountedTwice'
    <2>1. SUFFICES ASSUME NEW k \in DOMAIN daily', NEW l \in DOMAIN daily', k.day = l.day,
                          daily'[k].source # daily'[l].source
                   PROVE  k.day \in crossed'
      BY DEF U!NoDayCountedTwice
    <2>2. \/ daily'[k].source = "backfill" /\ daily'[l].source = "rollup"
          \/ daily'[l].source = "backfill" /\ daily'[k].source = "rollup"
      BY <1>3, <2>1 DEF DailyTypes
    <2> QED BY <1>5, <2>1, <2>2
  <1>7. LoadInv'
    <2>1. SUFFICES ASSUME load'.at = "load"
                   PROVE  /\ load'.day <= load'.last /\ load'.last < U!FirstRollupDay(U!Today)'
                          /\ \A k \in DOMAIN daily' :
                               daily'[k].source = "rollup" /\ k.day \in load'.day .. load'.last => k.day \in crossed'
      BY DEF LoadInv
    <2>2. CASE /\ load.at = "load" /\ load'.last = load.last /\ load'.day \in Int /\ load'.day <= load.last
               /\ load.day <= load'.day
      <3>1. load'.last < U!FirstRollupDay(U!Today)'
        BY <1>2, <1>b, <2>2
      <3>2. ASSUME NEW k \in DOMAIN daily', daily'[k].source = "rollup", k.day \in load'.day .. load'.last
            PROVE  k.day \in crossed'
        <4>1. k.day \in load.day .. load.last /\ k.day \in Int /\ ~(U!FirstRollupDay(U!Today) <= k.day)
          BY <1>2, <1>b, <2>2, <3>2
        <4> QED BY <1>0, <1>1, <2>2, <3>2, <4>1 DEF LoadInv
      <3> QED BY <2>2, <3>1, <3>2
    <2>3. CASE /\ load'.day <= load'.last /\ load'.last < U!FirstRollupDay(U!Today)
               /\ ~U!Recorded(load'.day, load'.last) /\ UNCHANGED <<halfDay, daily, crossed>>
      <3>1. load'.last \in Int /\ load'.last < U!FirstRollupDay(U!Today)'
        BY <1>a, <1>b, <2>3 DEF RollupTypes
      <3> QED BY <2>3, <3>1 DEF U!Recorded
    <2>4. CASE load' = load
      BY <1>2, <2>1, <2>2, <2>4
    <2>5. CASE /\ load.at = "load" /\ load.day # load.last
               /\ load'.day = load.day + 1 /\ load'.last = load.last
      BY <1>2, <2>2, <2>5
    <2> QED BY <1>0, <2>1, <2>3, <2>4, <2>5, LoadStep
  <1> QED BY <1>a, <1>3, <1>4, <1>6, <1>7 DEF HistoryInv

-----------------------------------------------------------------------------
(* Usage history: the theorems                                              *)

\* The invariants hold when the tables are empty.
LEMMA RollupInit ==
    ASSUME RollupSettings, U!Init
    PROVE  PartitionsInv /\ HistoryInv
  <1>1. RollupTypes
    <2>1. U!Idle \in RunStates
      BY DEF U!Idle, RunStates, Groups, U!NoDay
    <2>2. U!NoLoad \in [at : {"idle", "load"}, day : Int, last : Int]
      BY DEF U!NoLoad, U!NoDay
    <2> QED BY <2>1, <2>2 DEF U!Init, RollupTypes
  <1>2. OldOrDays /\ Routed
    BY DEF U!Init, OldOrDays, Routed
  <1>3. U!RowsInTheirDay
    <2>1. \A p, q \in parts : p # q => p.hi <= q.lo \/ q.hi <= p.lo
      BY DEF U!Init, U!UtcMonth, U!UtcDays, U!Between
    <2> QED BY <2>1 DEF U!Init, U!RowsInTheirDay
  <1>4. daily = <<>> /\ \A j \in Worker : job[j].at = "idle"
    BY DEF U!Init, U!Idle
  <1>5. DOMAIN daily = {} /\ load.at = "idle"
    BY <1>4 DEF U!Init, U!NoLoad
  <1>6. DailyTypes /\ RunsInReach /\ WritesItsDay /\ EstimatesOutOfReach /\ LoadInv /\ U!NoDayCountedTwice
    BY <1>4, <1>5 DEF DailyTypes, RunsInReach, WritesItsDay, EstimatesOutOfReach, LoadInv, U!NoDayCountedTwice
  <1> QED BY <1>1, <1>2, <1>3, <1>6 DEF PartitionsInv, HistoryInv

\* Partitions never overlap, DEFAULT claims no row of theirs, and the nightly job leaves
\* every row in the partition of its IST day, whatever runs, failures and late rows there
\* are and whichever partitions it started from.
THEOREM RowsInTheirDayAlways ==
    ASSUME RollupSettings
    PROVE  U!Spec => []RowsInTheirDay
  <1>1. U!Init => PartitionsInv
    BY RollupInit
  <1>2. PartitionsInv /\ [U!Next]_U!vars => PartitionsInv'
    BY PartitionsStep
  <1>3. PartitionsInv => RowsInTheirDay
    BY DEF PartitionsInv, RowsInTheirDay
  <1> QED BY <1>1, <1>2, <1>3, PTL DEF U!Spec

\* The dashboard never adds estimates of the backfill to recorded usage of the same day,
\* unless a run of the nightly job outlived midnight, although check_days_not_recorded
\* looks once and no lock is shared with the rollup.
THEOREM NoDayCountedTwiceAlways ==
    ASSUME RollupSettings
    PROVE  U!Spec => []NoDayCountedTwice
  <1>1. U!Init => HistoryInv
    BY RollupInit
  <1>2. HistoryInv /\ [U!Next]_U!vars => HistoryInv'
    BY HistoryStep
  <1>3. HistoryInv => NoDayCountedTwice
    BY DEF HistoryInv, NoDayCountedTwice
  <1> QED BY <1>1, <1>2, <1>3, PTL DEF U!Spec

-----------------------------------------------------------------------------
(* Usage history: counting rows                                             *)

\* What UsageRollup counts with.
LEMMA SameCount == ASSUME NEW T PROVE U!Cardinality(T) = Cardinality(T)
BY DEF U!Cardinality, Cardinality

\* What the figures of rows count.
Asked(rows) == {e \in rows : e.kind = "request"}
Priced(rows) == {e \in rows : e.kind # "request"}
Legacy(rows) == {e.corr : e \in {f \in rows : f.kind = "legacy"}}

LEMMA FiguresCount ==
    ASSUME NEW rows
    PROVE  /\ U!Requests(rows) = Cardinality(Asked(rows)) + Cardinality(Legacy(rows))
           /\ U!Units(rows) = Cardinality(Priced(rows))
BY SameCount DEF U!Requests, U!Units, Asked, Priced, Legacy

\* Finitely many rows have finitely many of each.
LEMMA CountFinite ==
    ASSUME NEW rows, IsFiniteSet(rows)
    PROVE  /\ IsFiniteSet(Asked(rows)) /\ Cardinality(Asked(rows)) \in Nat
           /\ IsFiniteSet(Priced(rows)) /\ Cardinality(Priced(rows)) \in Nat
           /\ IsFiniteSet(Legacy(rows)) /\ Cardinality(Legacy(rows)) \in Nat
  <1> DEFINE L == {f \in rows : f.kind = "legacy"}
             h == [e \in L |-> e.corr]
  <1>1. IsFiniteSet(L) /\ IsFiniteSet(Asked(rows)) /\ IsFiniteSet(Priced(rows))
    BY FS_Subset DEF Asked, Priced
  <1>2. h \in Surjection(L, Legacy(rows))
    BY DEF Surjection, Legacy
  <1>3. IsFiniteSet(Legacy(rows))
    BY <1>1, <1>2, FS_Surjection
  <1> QED BY <1>1, <1>3, FS_CardinalityType

\* Figures are numbers, zero without rows, no less for more rows, and for two sets of
\* rows together no more than their figures added up.
LEMMA FiguresNat ==
    ASSUME NEW rows, IsFiniteSet(rows)
    PROVE  U!Requests(rows) \in Nat /\ U!Units(rows) \in Nat
BY CountFinite, FiguresCount

LEMMA FiguresOfNone == U!Requests({}) = 0 /\ U!Units({}) = 0
  <1>1. Asked({}) = {} /\ Priced({}) = {} /\ Legacy({}) = {}
    BY DEF Asked, Priced, Legacy
  <1> QED BY <1>1, FS_EmptySet, FiguresCount

LEMMA FiguresGrow ==
    ASSUME NEW rows, IsFiniteSet(rows), NEW fewer \in SUBSET rows
    PROVE  U!Requests(fewer) <= U!Requests(rows) /\ U!Units(fewer) <= U!Units(rows)
  <1>1. IsFiniteSet(fewer)
    BY FS_Subset
  <1>2. /\ Asked(fewer) \in SUBSET Asked(rows) /\ Priced(fewer) \in SUBSET Priced(rows)
        /\ Legacy(fewer) \in SUBSET Legacy(rows)
    BY DEF Asked, Priced, Legacy
  <1>3. /\ Cardinality(Asked(fewer)) <= Cardinality(Asked(rows))
        /\ Cardinality(Priced(fewer)) <= Cardinality(Priced(rows))
        /\ Cardinality(Legacy(fewer)) <= Cardinality(Legacy(rows))
    BY <1>2, CountFinite, FS_Subset
  <1> QED BY <1>1, <1>3, CountFinite, FiguresCount

LEMMA CountUnion ==
    ASSUME NEW A, NEW B, IsFiniteSet(A), IsFiniteSet(B)
    PROVE  Cardinality(A \cup B) <= Cardinality(A) + Cardinality(B) /\ Cardinality(A \cup B) \in Nat
  <1>1. Cardinality(A \cup B) = Cardinality(A) + Cardinality(B) - Cardinality(A \cap B)
    BY FS_Union
  <1>2. /\ Cardinality(A) \in Nat /\ Cardinality(B) \in Nat /\ Cardinality(A \cap B) \in Nat
        /\ Cardinality(A \cup B) \in Nat
    BY FS_CardinalityType, FS_Intersection, FS_Union
  <1> QED BY <1>1, <1>2

LEMMA FiguresAdd ==
    ASSUME NEW r, IsFiniteSet(r), NEW s, IsFiniteSet(s)
    PROVE  /\ U!Requests(r \cup s) <= U!Requests(r) + U!Requests(s)
           /\ U!Units(r \cup s) <= U!Units(r) + U!Units(s)
  <1>1. /\ Asked(r \cup s) = Asked(r) \cup Asked(s) /\ Priced(r \cup s) = Priced(r) \cup Priced(s)
        /\ Legacy(r \cup s) = Legacy(r) \cup Legacy(s)
    BY DEF Asked, Priced, Legacy
  <1>2. /\ Cardinality(Asked(r \cup s)) <= Cardinality(Asked(r)) + Cardinality(Asked(s))
        /\ Cardinality(Priced(r \cup s)) <= Cardinality(Priced(r)) + Cardinality(Priced(s))
        /\ Cardinality(Legacy(r \cup s)) <= Cardinality(Legacy(r)) + Cardinality(Legacy(s))
        /\ Cardinality(Asked(r \cup s)) \in Nat /\ Cardinality(Legacy(r \cup s)) \in Nat
    BY <1>1, CountFinite, CountUnion
  <1>3. /\ Cardinality(Asked(r)) \in Nat /\ Cardinality(Asked(s)) \in Nat
        /\ Cardinality(Legacy(r)) \in Nat /\ Cardinality(Legacy(s)) \in Nat
    BY CountFinite
  <1> QED BY <1>2, <1>3, FiguresCount

-----------------------------------------------------------------------------
(* Usage history: a run that ends well has caught up                        *)

\* Figures by key that are at least those of the day's rows.
Covers(figures, rows, day) ==
    \A e \in U!OnDay(rows, day) :
        /\ U!KeyOf(e) \in DOMAIN figures
        /\ figures[U!KeyOf(e)].requests >= U!Requests({f \in U!OnDay(rows, day) : U!KeyOf(f) = U!KeyOf(e)})
        /\ figures[U!KeyOf(e)].units >= U!Units({f \in U!OnDay(rows, day) : U!KeyOf(f) = U!KeyOf(e)})

\* daily_usage has the day's rows, recorded and not estimated.
Caught(rows, day) ==
    /\ Covers(daily, rows, day)
    /\ \A e \in U!OnDay(rows, day) : daily[U!KeyOf(e)].source = "rollup"

\* The day is one that the run of j has rolled up.
Behind(j, day) ==
    /\ job[j].at # "idle" /\ ~job[j].missed
    /\ U!FirstRollupDay(job[j].today) <= day /\ day < job[j].day

\* Every run has the days behind it in daily_usage, as they were when it began.
RunsCaught ==
    \A j \in Worker, day \in Int : Behind(j, day) /\ day \notin crossed => Caught(job[j].seen, day)

\* The lock: one run writes at a time, and what it writes covers the rows its own run
\* began with and those of every run that has the day behind it.
OneWriter == \A i, j \in Worker : job[i].at = "write" /\ job[j].at = "write" => i = j

PendingCovers ==
    \A i, j \in Worker :
        job[i].at = "write" /\ ~job[j].missed /\ (j = i \/ Behind(j, job[i].day))
          => Covers(job[i].groups, job[j].seen, job[i].day)

\* A run sees rows of the table, and is done once its last day is yesterday.
RunsSee ==
    \A j \in Worker : /\ job[j].seen \subseteq stored
                      /\ job[j].at = "done" => job[j].day = job[j].today

\* Everything is finite and counted.
Counted(figures) ==
    /\ IsFiniteSet(DOMAIN figures)
    /\ \A k \in DOMAIN figures : figures[k].requests \in Nat /\ figures[k].units \in Nat

AllCounted ==
    /\ IsFiniteSet(stored) /\ Counted(daily)
    /\ \A j \in Worker : job[j].at = "write" => Counted(job[j].groups)

CatchUpInv ==
    HistoryInv /\ RunsCaught /\ OneWriter /\ PendingCovers /\ RunsSee /\ AllCounted

\* What is added up over keys that cover some rows is at least the figures of the rows.
LEMMA AddedCovers ==
    ASSUME NEW rows, IsFiniteSet(rows), NEW K, IsFiniteSet(K), \A e \in rows : U!KeyOf(e) \in K,
           NEW f, Numbers(f, K), NEW g, Numbers(g, K),
           \A e \in rows : /\ f[U!KeyOf(e)] >= U!Requests({r \in rows : U!KeyOf(r) = U!KeyOf(e)})
                           /\ g[U!KeyOf(e)] >= U!Units({r \in rows : U!KeyOf(r) = U!KeyOf(e)})
    PROVE  SumOver(f, K) >= U!Requests(rows) /\ SumOver(g, K) >= U!Units(rows)
  <1> DEFINE Of(s) == {e \in rows : U!KeyOf(e) \in s}
             Wrong == {s \in SUBSET K : ~(/\ SumOver(f, s) >= U!Requests(Of(s))
                                          /\ SumOver(g, s) >= U!Units(Of(s)))}
  <1>1. Wrong = {}
    <2>1. SUFFICES ASSUME Wrong # {} PROVE FALSE
      OBVIOUS
    <2>2. PICK s \in Wrong : \A t \in Wrong : t \subseteq s => t = s
      <3>1. Wrong \subseteq SUBSET K
        OBVIOUS
      <3> HIDE DEF Wrong
      <3> QED BY <2>1, <3>1, SmallestSet
    <2>3. s \in SUBSET K /\ ~(SumOver(f, s) >= U!Requests(Of(s)) /\ SumOver(g, s) >= U!Units(Of(s)))
      OBVIOUS
    <2>4. s # {}
      <3>1. ASSUME s = {} PROVE Of(s) = {}
        BY <3>1
      <3> HIDE DEF Of
      <3> QED BY <2>3, <3>1, SumEmpty, FiguresOfNone
    <2>5. PICK x \in s : TRUE
      BY <2>4
    <2> DEFINE t == s \ {x}
               one == {r \in rows : U!KeyOf(r) = x}
    <2>6. t \in SUBSET K /\ t \notin Wrong
      BY <2>2, <2>3
    <2>7. SumOver(f, t) >= U!Requests(Of(t)) /\ SumOver(g, t) >= U!Units(Of(t))
      BY <2>6
    <2>8. Of(s) = Of(t) \cup one
      OBVIOUS
    <2>9. /\ IsFiniteSet(s) /\ Numbers(f, s) /\ Numbers(g, s) /\ f[x] \in Nat /\ g[x] \in Nat
          /\ IsFiniteSet(Of(t)) /\ IsFiniteSet(one) /\ IsFiniteSet(Of(s))
      <3>1. IsFiniteSet(s) /\ IsFiniteSet(Of(t)) /\ IsFiniteSet(one) /\ IsFiniteSet(Of(s))
        BY <2>3, FS_Subset
      <3> QED BY <2>3, <3>1 DEF Numbers
    <2>10. f[x] >= U!Requests(one) /\ g[x] >= U!Units(one)
      <3>1. CASE one = {}
        <4>1. U!Requests(one) = 0 /\ U!Units(one) = 0
          <5> HIDE DEF one
          <5> QED BY <3>1, FiguresOfNone
        <4> QED BY <2>9, <4>1
      <3>2. CASE one # {}
        <4>1. PICK e \in rows : U!KeyOf(e) = x
          BY <3>2
        <4> QED BY <4>1
      <3> QED BY <3>1, <3>2
    <2>11. /\ SumOver(f, t) \in Nat /\ SumOver(f, s) = f[x] + SumOver(f, t)
           /\ SumOver(g, t) \in Nat /\ SumOver(g, s) = g[x] + SumOver(g, t)
      BY <2>9, SumRemove
    <2> HIDE DEF Of, t, one, Wrong
    <2>12. /\ U!Requests(Of(s)) <= U!Requests(Of(t)) + U!Requests(one)
           /\ U!Units(Of(s)) <= U!Units(Of(t)) + U!Units(one)
      BY <2>8, <2>9, FiguresAdd
    <2>13. /\ U!Requests(Of(s)) \in Nat /\ U!Requests(Of(t)) \in Nat /\ U!Requests(one) \in Nat
           /\ U!Units(Of(s)) \in Nat /\ U!Units(Of(t)) \in Nat /\ U!Units(one) \in Nat
      BY <2>9, FiguresNat
    <2> QED BY <2>3, <2>7, <2>9, <2>10, <2>11, <2>12, <2>13
  <1>2. K \notin Wrong /\ Of(K) = rows
    BY <1>1
  <1> QED BY <1>2

\* The property, from the invariant.
LEMMA CatchUpHolds ==
    ASSUME RollupSettings, CatchUpInv
    PROVE  U!RunCatchesUp
  <1>1. SUFFICES ASSUME NEW j \in Worker, job[j].at = "done", ~job[j].missed,
                        NEW day \in U!Reach(job[j].today), day \notin crossed,
                        NEW groups \in SUBSET Group
                 PROVE  U!AtLeast(U!Shown(day, groups),
                                  U!Figures({e \in U!OnDay(job[j].seen, day) : e.group \in groups}))
    BY DEF U!RunCatchesUp
  <1> DEFINE rows == {e \in U!OnDay(job[j].seen, day) : e.group \in groups}
             held == {e \in U!OnDay(stored, day) : e.group \in groups}
             rolled == {k \in DOMAIN daily : k.day = day /\ k.group \in groups}
  <1>2. IsFiniteSet(stored) /\ Counted(daily) /\ job[j].seen \subseteq stored /\ job[j].day = job[j].today
    BY <1>1 DEF CatchUpInv, AllCounted, RunsSee
  <1>3. Caught(job[j].seen, day)
    <2>1. job[j].today \in Int /\ U!FirstRollupDay(job[j].today) \in Int
      BY DEF CatchUpInv, HistoryInv, RollupTypes, RunStates, U!FirstRollupDay, RollupSettings
    <2>2. day \in Int /\ U!FirstRollupDay(job[j].today) <= day /\ day < job[j].day
      BY <1>2, <2>1 DEF U!Reach
    <2> QED BY <1>1, <2>2 DEF CatchUpInv, RunsCaught, Behind
  <1>4. rows \in SUBSET held /\ IsFiniteSet(held) /\ IsFiniteSet(rows) /\ IsFiniteSet(U!OnDay(job[j].seen, day))
    <2>1. rows \in SUBSET held /\ held \in SUBSET stored /\ U!OnDay(job[j].seen, day) \in SUBSET stored
      BY <1>2 DEF U!OnDay
    <2> HIDE DEF held, rows
    <2> QED BY <1>2, <2>1, FS_Subset
  <1>5. /\ U!Requests(held) \in Nat /\ U!Units(held) \in Nat /\ U!Requests(rows) \in Nat /\ U!Units(rows) \in Nat
        /\ U!Requests(rows) <= U!Requests(held) /\ U!Units(rows) <= U!Units(held)
    <2> HIDE DEF held, rows
    <2> QED BY <1>4, FiguresNat, FiguresGrow
  <1>6. CASE ~(day < U!Today /\ rolled # {})
    <2>1. U!Shown(day, groups) = U!Figures(held)
      BY <1>6 DEF U!Shown
    <2> HIDE DEF held, rows
    <2>2. U!AtLeast(U!Figures(held), U!Figures(rows))
      BY <1>5 DEF U!AtLeast, U!Figures
    <2> QED BY <2>1, <2>2 DEF rows
  <1>7. CASE day < U!Today /\ rolled # {}
    <2> DEFINE figures == [k \in rolled |-> daily[k]]
               f == [k \in rolled |-> daily[k].requests]
               g == [k \in rolled |-> daily[k].units]
    <2>1. /\ U!Shown(day, groups) = U!Added(figures)
          /\ U!Added(figures) = [requests |-> U!Total(f), units |-> U!Total(g)]
      <3>1. U!Shown(day, groups) = U!Added(figures)
        BY <1>7 DEF U!Shown
      <3>2. DOMAIN figures = rolled /\ \A k \in rolled : figures[k] = daily[k]
        OBVIOUS
      <3>3. /\ [k \in DOMAIN figures |-> figures[k].requests] = f
            /\ [k \in DOMAIN figures |-> figures[k].units] = g
        BY <3>2
      <3> HIDE DEF figures, f, g
      <3> QED BY <3>1, <3>3 DEF U!Added
    <2>2. IsFiniteSet(rolled) /\ Numbers(f, rolled) /\ Numbers(g, rolled)
      BY <1>2, FS_Subset DEF Counted, Numbers
    <2>3. U!Total(f) = SumOver(f, rolled) /\ U!Total(g) = SumOver(g, rolled)
      <3>1. DOMAIN f = rolled /\ DOMAIN g = rolled
        OBVIOUS
      <3> HIDE DEF f, g, rolled
      <3>2. U!Total(f) = SumOver(f, DOMAIN f) /\ U!Total(g) = SumOver(g, DOMAIN g)
        BY DEF U!Total, U!MapThenSumSet, U!MapThenFoldSet, SumOver, MapThenSumSet, MapThenFoldSet
      <3> QED BY <3>1, <3>2
    <2>4. ASSUME NEW e \in rows
          PROVE  /\ U!KeyOf(e) \in rolled
                 /\ f[U!KeyOf(e)] >= U!Requests({r \in rows : U!KeyOf(r) = U!KeyOf(e)})
                 /\ g[U!KeyOf(e)] >= U!Units({r \in rows : U!KeyOf(r) = U!KeyOf(e)})
      <3>1. e \in U!OnDay(job[j].seen, day) /\ e.group \in groups
        OBVIOUS
      <3>2. U!KeyOf(e) \in rolled
        BY <1>3, <3>1 DEF Caught, Covers, U!KeyOf, U!OnDay
      <3>3. {r \in rows : U!KeyOf(r) = U!KeyOf(e)} = {r \in U!OnDay(job[j].seen, day) : U!KeyOf(r) = U!KeyOf(e)}
        BY <3>1 DEF U!KeyOf
      <3>4. f[U!KeyOf(e)] = daily[U!KeyOf(e)].requests /\ g[U!KeyOf(e)] = daily[U!KeyOf(e)].units
        BY <3>2
      <3> HIDE DEF f, g, rows, rolled
      <3> QED BY <1>3, <3>1, <3>2, <3>3, <3>4 DEF Caught, Covers
    <2> HIDE DEF f, g, figures, rows, rolled
    <2>5. SumOver(f, rolled) >= U!Requests(rows) /\ SumOver(g, rolled) >= U!Units(rows)
      BY <1>4, <2>2, <2>4, AddedCovers
    <2>6. U!AtLeast(U!Shown(day, groups), U!Figures(rows))
      BY <2>1, <2>3, <2>5 DEF U!AtLeast, U!Figures
    <2> QED BY <2>6 DEF rows
  <1> QED BY <1>6, <1>7

\* Only rows that nobody recorded may change, and tables of rows only grow.
Keeps ==
    /\ crossed' = crossed /\ stored \subseteq stored'
    /\ \A k \in DOMAIN daily : daily[k].source = "rollup" => k \in DOMAIN daily' /\ daily'[k] = daily[k]

\* What was caught up stays so when recorded rows are kept.
LEMMA CaughtKept ==
    ASSUME Keeps, NEW rows, NEW day, Caught(rows, day)
    PROVE  Caught(rows, day)'
BY DEF Keeps, Caught, Covers

\* The backfill and its undo keep what is recorded.
LEMMA LoadKeeps ==
    ASSUME AllCounted, IsFiniteSet(Group), NEW groups \in SUBSET Group, U!BackfillDay(groups)
    PROVE  Keeps /\ UNCHANGED <<stored, job>> /\ Counted(daily)'
  <1> DEFINE rest == U!Without({k \in U!Backfilled : k.day = load.day})
             new == U!BackfillRows(load.day, groups)
  <1>1. /\ UNCHANGED <<stored, job, crossed>>
        /\ \/ /\ DOMAIN rest \cap DOMAIN new = {}
              /\ daily' = [k \in DOMAIN rest \cup DOMAIN new |-> IF k \in DOMAIN new THEN new[k] ELSE rest[k]]
           \/ UNCHANGED daily
    BY DEF U!BackfillDay
  <1>2. /\ DOMAIN rest \in SUBSET DOMAIN daily /\ \A k \in DOMAIN rest : rest[k] = daily[k]
        /\ \A k \in DOMAIN daily : daily[k].source = "rollup" => k \in DOMAIN rest
    BY DEF U!Without, U!Backfilled
  <1>3. IsFiniteSet(DOMAIN new) /\ \A k \in DOMAIN new : new[k].requests = 1 /\ new[k].units = 1
    <2> DEFINE keys == {[day |-> load.day, group |-> g, month |-> U!Month(load.day)] : g \in groups}
               h == [g \in groups |-> [day |-> load.day, group |-> g, month |-> U!Month(load.day)]]
    <2>1. h \in Surjection(groups, keys)
      BY DEF Surjection
    <2>2. IsFiniteSet(keys)
      BY <2>1, FS_Subset, FS_Surjection
    <2>3. DOMAIN new = keys /\ \A k \in DOMAIN new : new[k].requests = 1 /\ new[k].units = 1
      BY DEF U!BackfillRows
    <2> QED BY <2>2, <2>3
  <1> HIDE DEF rest, new
  <1>4. CASE UNCHANGED daily
    BY <1>1, <1>4 DEF Keeps, AllCounted, Counted
  <1>5. CASE /\ DOMAIN rest \cap DOMAIN new = {}
             /\ daily' = [k \in DOMAIN rest \cup DOMAIN new |-> IF k \in DOMAIN new THEN new[k] ELSE rest[k]]
    <2>1. Keeps
      BY <1>1, <1>2, <1>5 DEF Keeps
    <2>2. IsFiniteSet(DOMAIN rest \cup DOMAIN new)
      BY <1>2, <1>3, FS_Subset, FS_Union DEF AllCounted, Counted
    <2>3. DOMAIN daily' = DOMAIN rest \cup DOMAIN new
      BY <1>5
    <2>4. ASSUME NEW k \in DOMAIN daily' PROVE daily'[k].requests \in Nat /\ daily'[k].units \in Nat
      BY <1>2, <1>3, <1>5, <2>3 DEF AllCounted, Counted
    <2> QED BY <1>1, <2>1, <2>2, <2>3, <2>4 DEF Counted
  <1> QED BY <1>1, <1>4, <1>5

LEMMA UndoKeeps ==
    ASSUME AllCounted, U!Undo
    PROVE  Keeps /\ UNCHANGED <<stored, job>> /\ Counted(daily)'
  <1>1. /\ UNCHANGED <<stored, job, crossed>> /\ DOMAIN daily' \in SUBSET DOMAIN daily
        /\ \A k \in DOMAIN daily' : daily'[k] = daily[k]
        /\ \A k \in DOMAIN daily : daily[k].source = "rollup" => k \in DOMAIN daily'
    BY DEF U!Undo, U!Without, U!Backfilled
  <1>2. IsFiniteSet(DOMAIN daily')
    BY <1>1, FS_Subset DEF AllCounted, Counted
  <1> QED BY <1>1, <1>2 DEF Keeps, AllCounted, Counted

\* A step that moves no run.
LEMMA OtherSteps ==
    ASSUME CatchUpInv, HistoryInv', UNCHANGED job, Keeps, Counted(daily)', IsFiniteSet(stored')
    PROVE  CatchUpInv'
  <1>1. RunsCaught'
    <2>1. SUFFICES ASSUME NEW j \in Worker, NEW day \in Int, Behind(j, day)', day \notin crossed'
                   PROVE  Caught(job[j].seen, day)'
      BY DEF RunsCaught
    <2>2. Behind(j, day) /\ day \notin crossed
      BY <2>1 DEF Behind, Keeps, U!FirstRollupDay
    <2>3. Caught(job[j].seen, day)
      BY <2>2 DEF CatchUpInv, RunsCaught
    <2> DEFINE rows == job[j].seen
    <2>4. rows' = rows /\ Caught(rows, day)
      BY <2>3
    <2> HIDE DEF rows
    <2>5. \A r : Caught(r, day) => Caught(r, day)'
      BY CaughtKept
    <2> QED BY <2>4, <2>5 DEF rows, Caught, Covers
  <1>2. OneWriter' /\ PendingCovers'
    BY DEF CatchUpInv, OneWriter, PendingCovers, Behind, U!FirstRollupDay, Covers
  <1>3. RunsSee' /\ AllCounted'
    BY DEF CatchUpInv, RunsSee, AllCounted, Keeps, Counted
  <1> QED BY <1>1, <1>2, <1>3 DEF CatchUpInv

\* A step of a run that writes nothing and has no further day behind it.
LEMMA QuietRun ==
    ASSUME CatchUpInv, HistoryInv', NEW j \in Worker, Advances(j), UNCHANGED <<stored, daily, crossed>>,
           job'[j].at # "write", job'[j].seen \subseteq stored,
           job'[j].at = "done" => job'[j].day = job'[j].today,
           \A day \in Int : Behind(j, day)' => Behind(j, day) /\ job'[j].seen = job[j].seen
    PROVE  CatchUpInv'
  <1>1. \A i \in Worker \ {j} : job'[i] = job[i]
    BY DEF Advances
  <1>2. \A i \in Worker \ {j}, day \in Int : Behind(i, day)' => Behind(i, day)
    BY <1>1 DEF Behind, U!FirstRollupDay
  <1>3. \A i \in Worker, day \in Int : Behind(i, day)' => Behind(i, day) /\ job'[i].seen = job[i].seen
    BY <1>1, <1>2
  <1>4. RunsCaught'
    <2>1. SUFFICES ASSUME NEW i \in Worker, NEW day \in Int, Behind(i, day)', day \notin crossed
                   PROVE  Caught(job[i].seen, day)'
      BY DEF RunsCaught
    <2>2. Caught(job[i].seen, day) /\ job'[i].seen = job[i].seen
      BY <1>3, <2>1 DEF CatchUpInv, RunsCaught
    <2> QED BY <2>2 DEF Caught, Covers
  <1>5. OneWriter'
    BY <1>1 DEF CatchUpInv, OneWriter
  <1>6. PendingCovers'
    <2>1. SUFFICES ASSUME NEW i \in Worker, NEW k \in Worker, job'[i].at = "write", ~job'[k].missed,
                          k = i \/ Behind(k, job[i].day)'
                   PROVE  Covers(job'[i].groups, job'[k].seen, job'[i].day)
      BY DEF PendingCovers, Covers
    <2>2. i # j /\ job'[i] = job[i] /\ job[i].day \in Int
      BY <1>1, <2>1 DEF CatchUpInv, HistoryInv, RollupTypes, RunStates
    <2>3. CASE k = i
      BY <2>1, <2>2, <2>3 DEF CatchUpInv, PendingCovers
    <2>4. CASE Behind(k, job[i].day)'
      <3>1. Behind(k, job[i].day) /\ job'[k].seen = job[k].seen
        <4>1. \A day : Behind(k, day)' <=> (/\ job'[k].at # "idle" /\ ~job'[k].missed
                                           /\ U!FirstRollupDay(job'[k].today) <= day /\ day < job'[k].day)
          BY DEF Behind, U!FirstRollupDay
        <4>2. (/\ job'[k].at # "idle" /\ ~job'[k].missed
               /\ U!FirstRollupDay(job'[k].today) <= job[i].day /\ job[i].day < job'[k].day)
          BY <2>2, <2>4 DEF Behind, U!FirstRollupDay
        <4> DEFINE d == job[i].day
        <4>3. d \in Int /\ (/\ job'[k].at # "idle" /\ ~job'[k].missed
                            /\ U!FirstRollupDay(job'[k].today) <= d /\ d < job'[k].day)
          BY <2>2, <4>2
        <4> QED BY <1>3, <4>1, <4>3
      <3>2. ~job[k].missed
        BY <3>1 DEF Behind
      <3> QED BY <2>1, <2>2, <3>1, <3>2 DEF CatchUpInv, PendingCovers
    <2> QED BY <2>1, <2>3, <2>4
  <1>7. RunsSee' /\ AllCounted'
    BY <1>1 DEF CatchUpInv, RunsSee, AllCounted, Counted
  <1> QED BY <1>4, <1>5, <1>6, <1>7 DEF CatchUpInv

\* What a run is about to write after it has aggregated covers whatever any run began with.
LEMMA AggregateCovers ==
    ASSUME IsFiniteSet(stored), NEW day, NEW seen \in SUBSET stored
    PROVE  /\ Covers(U!Aggregated(U!OnDay(stored, day)), seen, day)
           /\ Counted(U!Aggregated(U!OnDay(stored, day)))
  <1> DEFINE rows == U!OnDay(stored, day)
             keys == {U!KeyOf(e) : e \in rows}
             Of(k) == {e \in rows : U!KeyOf(e) = k}
             figures == U!Aggregated(rows)
  <1>1. rows \in SUBSET stored /\ U!OnDay(seen, day) \in SUBSET rows
    BY DEF U!OnDay
  <1> HIDE DEF rows
  <1>2. IsFiniteSet(rows)
    BY <1>1, FS_Subset
  <1>3. IsFiniteSet(keys)
    <2> DEFINE h == [e \in rows |-> U!KeyOf(e)]
    <2>1. h \in Surjection(rows, keys)
      BY DEF Surjection
    <2> QED BY <1>2, <2>1, FS_Surjection
  <1>4. DOMAIN figures = keys /\ \A k \in keys : figures[k] = U!Figures(Of(k))
    BY DEF U!Aggregated
  <1>5. \A k \in keys : figures[k].requests = U!Requests(Of(k)) /\ figures[k].units = U!Units(Of(k))
    <2>1. \A s : U!Figures(s).requests = U!Requests(s) /\ U!Figures(s).units = U!Units(s)
      BY DEF U!Figures
    <2> HIDE DEF Of, figures, keys
    <2> QED BY <1>4, <2>1
  <1>6. \A k : Of(k) \in SUBSET rows /\ IsFiniteSet(Of(k))
    BY <1>2, FS_Subset
  <1>7. Counted(figures)
    <2> HIDE DEF figures, Of, keys
    <2>1. \A k \in keys : figures[k].requests \in Nat /\ figures[k].units \in Nat
      BY <1>5, <1>6, FiguresNat
    <2> QED BY <1>3, <1>4, <2>1 DEF Counted
  <1>8. ASSUME NEW e \in U!OnDay(seen, day)
        PROVE  /\ U!KeyOf(e) \in keys
               /\ figures[U!KeyOf(e)].requests >= U!Requests({f \in U!OnDay(seen, day) : U!KeyOf(f) = U!KeyOf(e)})
               /\ figures[U!KeyOf(e)].units >= U!Units({f \in U!OnDay(seen, day) : U!KeyOf(f) = U!KeyOf(e)})
    <2> DEFINE k == U!KeyOf(e)
               mine == {f \in U!OnDay(seen, day) : U!KeyOf(f) = k}
    <2>1. e \in rows /\ k \in keys /\ mine \in SUBSET Of(k)
      BY <1>1
    <2>2. figures[k].requests = U!Requests(Of(k)) /\ figures[k].units = U!Units(Of(k))
      BY <1>5, <2>1
    <2> HIDE DEF figures, Of, keys, mine, k
    <2>3. /\ U!Requests(mine) <= U!Requests(Of(k)) /\ U!Units(mine) <= U!Units(Of(k))
      BY <1>6, <2>1, FiguresGrow
    <2>4. IsFiniteSet(mine)
      BY <1>6, <2>1, FS_Subset
    <2>5. /\ U!Requests(mine) \in Nat /\ U!Units(mine) \in Nat
          /\ U!Requests(Of(k)) \in Nat /\ U!Units(Of(k)) \in Nat
      BY <1>6, <2>4, FiguresNat
    <2>6. k \in keys /\ figures[k].requests >= U!Requests(mine) /\ figures[k].units >= U!Units(mine)
      BY <2>1, <2>2, <2>3, <2>5
    <2> QED BY <2>6 DEF k, mine
  <1> HIDE DEF figures, keys
  <1>9. Covers(figures, seen, day)
    BY <1>4, <1>8 DEF Covers
  <1> QED BY <1>7, <1>9 DEF figures, rows

\* A run aggregates its day.
LEMMA AggregateStep ==
    ASSUME CatchUpInv, HistoryInv', NEW j \in Worker, U!Aggregate(j)
    PROVE  CatchUpInv'
  <1> DEFINE g == U!Aggregated(U!OnDay(stored, job[j].day))
  <1>1. /\ job \in [Worker -> RunStates] /\ RollupTypes /\ job[j].at = "rollup"
        /\ UNCHANGED <<stored, daily, crossed>> /\ \A i \in Worker : job[i].at # "write"
    BY DEF CatchUpInv, HistoryInv, RollupTypes, U!Aggregate, U!LockFree
  <1>2. /\ \A i \in Worker \ {j} : job'[i] = job[i]
        /\ job'[j] = [job[j] EXCEPT !.at = "write", !.groups = g]
    <2> HIDE DEF g
    <2>1. job' = [job EXCEPT ![j].at = "write", ![j].groups = g]
      BY DEF U!Aggregate, g
    <2> QED BY <1>1, <2>1
  <1>3. /\ job'[j].at = "write" /\ job'[j].groups = g /\ job'[j].day = job[j].day
        /\ job'[j].today = job[j].today /\ job'[j].seen = job[j].seen /\ job'[j].missed = job[j].missed
    <2> HIDE DEF g
    <2> QED BY <1>1, <1>2 DEF RunStates
  <1> HIDE DEF g
  <1>4. \A i \in Worker : /\ job'[i].seen = job[i].seen /\ job[i].seen \in SUBSET stored
                          /\ job'[i].at = "write" => i = j
                          /\ job'[i].at = "done" => job[i].at = "done" /\ job'[i] = job[i]
    BY <1>1, <1>2, <1>3 DEF CatchUpInv, RunsSee
  <1>5. RunsCaught'
    <2>1. SUFFICES ASSUME NEW i \in Worker, NEW day \in Int, Behind(i, day)', day \notin crossed
                   PROVE  Caught(job[i].seen, day)'
      BY <1>1 DEF RunsCaught
    <2>2. Behind(i, day)
      BY <1>1, <1>2, <1>3, <2>1 DEF Behind, U!FirstRollupDay
    <2>3. Caught(job[i].seen, day) /\ job'[i].seen = job[i].seen
      BY <1>4, <2>1, <2>2 DEF CatchUpInv, RunsCaught
    <2> QED BY <1>1, <2>3 DEF Caught, Covers
  <1>6. OneWriter'
    BY <1>4 DEF OneWriter
  <1>7. PendingCovers'
    <2>1. SUFFICES ASSUME NEW i \in Worker, NEW k \in Worker, job'[i].at = "write"
                   PROVE  Covers(job'[i].groups, job'[k].seen, job'[i].day)
      BY DEF PendingCovers, Covers
    <2>2. i = j /\ job'[i].groups = g /\ job'[i].day = job[j].day /\ job'[k].seen = job[k].seen
      BY <1>3, <1>4, <2>1
    <2>3. Covers(g, job[k].seen, job[j].day)
      BY <1>4, AggregateCovers DEF g, CatchUpInv, AllCounted
    <2> QED BY <2>2, <2>3
  <1>8. RunsSee' /\ AllCounted'
    <2>1. Counted(g)
      BY <1>4, AggregateCovers DEF g, CatchUpInv, AllCounted
    <2> QED BY <1>1, <1>3, <1>4, <2>1 DEF CatchUpInv, RunsSee, AllCounted, Counted
  <1> QED BY <1>5, <1>6, <1>7, <1>8 DEF CatchUpInv

\* What the next day leaves of a run.
LEMMA NextDayKeeps ==
    ASSUME RollupTypes, NEW j \in Worker, NEW missed \in BOOLEAN,
           job' = [job EXCEPT ![j] = U!NextDay(@, missed)]
    PROVE  /\ job'[j].seen = job[j].seen /\ (missed => job'[j].missed) /\ (~job'[j].missed => ~job[j].missed)
           /\ job'[j].at = "done" => job'[j].day = job'[j].today
  <1>1. job \in [Worker -> RunStates]
    BY DEF RollupTypes
  <1> DEFINE run == job[j]
             m == run.missed \/ missed
             a == IF run.day = run.today - 1 THEN "done" ELSE "rollup"
  <1>2. run \in RunStates /\ run.missed \in BOOLEAN
    <2>1. run \in RunStates
      BY <1>1
    <2> QED BY <2>1, Zenon DEF RunStates
  <1>3. (missed => m) /\ (~m => ~run.missed)
    OBVIOUS
  <1>4. job'[j] = U!NextDay(run, missed)
    BY <1>1
  <1>5. U!NextDay(run, missed) = [run EXCEPT !.groups = <<>>, !.missed = m, !.at = a, !.day = @ + 1]
    BY DEF U!NextDay
  <1>6. a = "done" => run.day + 1 = run.today
    BY <1>2 DEF RunStates
  <1> DEFINE next == [run EXCEPT !.groups = <<>>, !.missed = m, !.at = a, !.day = @ + 1]
  <1> HIDE DEF run, m, a
  <1>7. /\ next.seen = run.seen /\ next.missed = m /\ next.at = a
        /\ next.day = run.day + 1 /\ next.today = run.today
    BY <1>2 DEF RunStates
  <1> HIDE DEF next
  <1>8. job'[j] = next
    BY <1>4, <1>5 DEF next
  <1>9. /\ job'[j].seen = run.seen /\ job'[j].missed = m /\ job'[j].at = a
        /\ job'[j].day = run.day + 1 /\ job'[j].today = run.today
    BY <1>7, <1>8
  <1> QED BY <1>3, <1>6, <1>9 DEF run

\* What the rollup of a day writes, and what it leaves.
LEMMA WrittenRows ==
    ASSUME RollupSettings, CatchUpInv, NEW j \in Worker, U!Write(j)
    PROVE  /\ \A k \in DOMAIN daily : k.day # job[j].day => k \in DOMAIN daily' /\ daily'[k] = daily[k]
           /\ \A k \in DOMAIN job[j].groups :
                /\ k \in DOMAIN daily'
                /\ daily'[k].requests = job[j].groups[k].requests
                /\ daily'[k].units = job[j].groups[k].units
                /\ job[j].day \in crossed' \/ daily'[k].source = "rollup"
           /\ Counted(daily)'
           /\ job[j].at = "write" /\ UNCHANGED stored /\ crossed \subseteq crossed'
  <1> DEFINE d == job[j].day
             g == job[j].groups
             stale == U!Stale(d, g)
  <1>1. /\ daily' = U!Upserted(d, g) /\ job[j].at = "write" /\ UNCHANGED stored
        /\ crossed' = IF job[j].today < U!Today THEN crossed \cup {d} ELSE crossed
    BY DEF U!Write
  <1>2. /\ \A k \in DOMAIN g : k.day = d
        /\ \A k \in stale : k.day = d
    BY <1>1 DEF CatchUpInv, HistoryInv, WritesItsDay, U!Stale
  <1>3. HistoryInv /\ Counted(g) /\ Counted(daily)
    BY <1>1 DEF CatchUpInv, AllCounted
  <1>4. d \in Int /\ (d \in crossed' \/ U!FirstRollupDay(U!Today) <= d)
    BY <1>3, WriteFacts
  <1>5. ASSUME NEW k \in DOMAIN g PROVE d \in crossed' \/ (k \in DOMAIN daily => daily[k].source = "rollup")
    <2>1. SUFFICES ASSUME U!FirstRollupDay(U!Today) <= d, k \in DOMAIN daily
                   PROVE  daily[k].source = "rollup"
      BY <1>4
    <2>2. U!FirstRollupDay(U!Today) \in Int
      BY <1>3 DEF HistoryInv, RollupTypes, RollupSettings, U!FirstRollupDay, U!Today, U!Day
    <2>3. ~(k.day < U!FirstRollupDay(U!Today))
      BY <1>2, <1>4, <2>1, <2>2
    <2> QED BY <1>3, <2>1, <2>3 DEF HistoryInv, EstimatesOutOfReach, DailyTypes
  <1>6. /\ DOMAIN daily' = (DOMAIN daily \ stale) \cup DOMAIN g
        /\ \A k \in DOMAIN daily' : k \notin DOMAIN g => daily'[k] = daily[k]
        /\ \A k \in DOMAIN g : daily'[k] = [source |-> IF k \in DOMAIN daily THEN daily[k].source ELSE "rollup",
                                            requests |-> g[k].requests, units |-> g[k].units]
    BY <1>1 DEF U!Upserted
  <1> HIDE DEF d, g, stale
  <1>7. \A k \in DOMAIN g : /\ k \in DOMAIN daily'
                            /\ daily'[k].requests = g[k].requests /\ daily'[k].units = g[k].units
                            /\ daily'[k].source = IF k \in DOMAIN daily THEN daily[k].source ELSE "rollup"
    BY <1>6
  <1>8. \A k \in DOMAIN daily : k.day # d => k \in DOMAIN daily' /\ daily'[k] = daily[k]
    BY <1>2, <1>6
  <1>9. Counted(daily)'
    <2>1. IsFiniteSet(DOMAIN daily')
      <3>1. IsFiniteSet(DOMAIN daily \ stale)
        BY <1>3, FS_Subset DEF Counted
      <3> QED BY <1>3, <1>6, <3>1, FS_Union DEF Counted
    <2>2. ASSUME NEW k \in DOMAIN daily' PROVE daily'[k].requests \in Nat /\ daily'[k].units \in Nat
      <3>1. CASE k \in DOMAIN g
        BY <1>3, <1>7, <3>1 DEF Counted
      <3>2. CASE k \notin DOMAIN g
        BY <1>3, <1>6, <3>2 DEF Counted
      <3> QED BY <3>1, <3>2
    <2> QED BY <2>1, <2>2 DEF Counted
  <1> QED BY <1>1, <1>5, <1>7, <1>8, <1>9 DEF d, g

\* A run writes its day: for every run that has it behind, the writer included.
LEMMA WriteCatchesUp ==
    ASSUME RollupSettings, CatchUpInv, HistoryInv', NEW j \in Worker, U!Write(j)
    PROVE  CatchUpInv'
  <1> DEFINE d == job[j].day
             g == job[j].groups
  <1>0. RollupTypes /\ d \in Int /\ \A i \in Worker : job[i].day \in Int /\ job[i].today \in Int
    BY DEF CatchUpInv, HistoryInv, RollupTypes, RunStates
  <1>1. job' = [job EXCEPT ![j] = U!NextDay(@, FALSE)]
    BY DEF U!Write
  <1>2. /\ Advances(j) /\ job'[j].at \in {"done", "rollup"} /\ job'[j].today = job[j].today /\ job'[j].day = d + 1
        /\ job'[j].seen = job[j].seen /\ (~job'[j].missed => ~job[j].missed)
        /\ job'[j].at = "done" => job'[j].day = job'[j].today
    BY <1>0, <1>1, StepFacts, NextDayKeeps
  <1>3. /\ \A k \in DOMAIN daily : k.day # d => k \in DOMAIN daily' /\ daily'[k] = daily[k]
        /\ \A k \in DOMAIN g :
             /\ k \in DOMAIN daily' /\ daily'[k].requests = g[k].requests /\ daily'[k].units = g[k].units
             /\ d \in crossed' \/ daily'[k].source = "rollup"
        /\ Counted(daily)' /\ job[j].at = "write" /\ UNCHANGED stored /\ crossed \subseteq crossed'
    BY WrittenRows
  <1>4. \A i \in Worker \ {j} : job'[i] = job[i] /\ job[i].at # "write"
    BY <1>2, <1>3 DEF Advances, CatchUpInv, OneWriter
  <1>5. \A i \in Worker : job'[i].seen = job[i].seen /\ job'[i].at # "write"
    BY <1>2, <1>4
  <1>6. RunsCaught'
    <2>1. SUFFICES ASSUME NEW i \in Worker, NEW day \in Int, Behind(i, day)', day \notin crossed'
                   PROVE  Caught(job[i].seen, day)'
      BY DEF RunsCaught
    <2>2. day # d => Behind(i, day)
      <3>1. CASE i = j
        BY <1>0, <1>2, <1>3, <2>1, <3>1 DEF Behind, U!FirstRollupDay
      <3>2. CASE i # j
        BY <1>4, <2>1, <3>2 DEF Behind, U!FirstRollupDay
      <3> QED BY <3>1, <3>2
    <2>3. day = d => ~job[i].missed /\ (i = j \/ Behind(i, d))
      <3>1. CASE i = j
        BY <1>2, <2>1, <3>1 DEF Behind
      <3>2. CASE i # j
        BY <1>4, <2>1, <3>2 DEF Behind, U!FirstRollupDay
      <3> QED BY <3>1, <3>2
    <2> DEFINE seen == job[i].seen
    <2>4. \A e \in U!OnDay(seen, day) : U!KeyOf(e).day = day
      BY DEF U!OnDay, U!KeyOf
    <2>5. CASE day # d
      <3>1. Caught(seen, day)
        BY <1>3, <2>1, <2>2, <2>5 DEF CatchUpInv, RunsCaught
      <3> HIDE DEF seen
      <3>2. \A e \in U!OnDay(seen, day) : U!KeyOf(e) \in DOMAIN daily' /\ daily'[U!KeyOf(e)] = daily[U!KeyOf(e)]
        BY <1>3, <2>4, <2>5, <3>1 DEF Caught, Covers
      <3>3. /\ Covers(daily', seen, day)
            /\ \A e \in U!OnDay(seen, day) : daily'[U!KeyOf(e)].source = "rollup"
        BY <3>1, <3>2 DEF Caught, Covers
      <3> QED BY <1>5, <3>3 DEF Caught, Covers, seen
    <2>6. CASE day = d
      <3>1. Covers(g, seen, day)
        BY <1>3, <2>3, <2>6 DEF CatchUpInv, PendingCovers
      <3> HIDE DEF seen, g
      <3>2. /\ Covers(daily', seen, day)
            /\ \A e \in U!OnDay(seen, day) : daily'[U!KeyOf(e)].source = "rollup"
        BY <1>3, <2>1, <2>6, <3>1 DEF Covers
      <3> QED BY <1>5, <3>2 DEF Caught, Covers, seen
    <2> QED BY <2>5, <2>6
  <1>7. OneWriter' /\ PendingCovers'
    BY <1>5 DEF OneWriter, PendingCovers
  <1>8. RunsSee'
    <2>1. \A i \in Worker : job[i].seen \subseteq stored /\ (job[i].at = "done" => job[i].day = job[i].today)
      BY DEF CatchUpInv, RunsSee
    <2>2. \A i \in Worker : job'[i].seen \subseteq stored' /\ (job'[i].at = "done" => job'[i].day = job'[i].today)
      BY <1>2, <1>3, <1>4, <2>1
    <2> QED BY <2>2 DEF RunsSee
  <1>9. AllCounted'
    BY <1>3, <1>5 DEF CatchUpInv, AllCounted
  <1> QED BY <1>6, <1>7, <1>8, <1>9 DEF CatchUpInv

\* The steps of a run that write nothing.
LEMMA QuietSteps ==
    ASSUME RollupSettings, CatchUpInv, HistoryInv', NEW j \in Worker,
           \/ U!Start(j) \/ U!Maintain(j) \/ U!MaintainSkipped(j) \/ U!Skip(j)
           \/ U!StepFails(j) \/ U!End(j) \/ U!Kill(j)
    PROVE  CatchUpInv'
  <1>0. RollupTypes /\ job \in [Worker -> RunStates] /\ job[j].seen \subseteq stored
    BY DEF CatchUpInv, HistoryInv, RollupTypes, RunsSee
  <1>1. UNCHANGED <<stored, daily, crossed>>
    BY DEF U!Start, U!Maintain, U!MaintainSkipped, U!Skip, U!StepFails, U!End, U!Kill
  <1>2. CASE U!Start(j)
    <2>1. /\ Advances(j) /\ job'[j].at = "partitions"
          /\ job'[j].today = U!Today /\ job'[j].day = U!FirstRollupDay(U!Today) /\ U!FirstRollupDay(U!Today) \in Int
      BY <1>0, <1>2, StartFacts DEF U!FirstRollupDay, RollupSettings
    <2>2. job'[j].seen = stored
      BY <1>0, <1>2 DEF U!Start, U!Idle
    <2>3. \A day \in Int : ~(Behind(j, day)')
      BY <2>1 DEF Behind, U!FirstRollupDay
    <2> QED BY <1>1, <2>1, <2>2, <2>3, QuietRun
  <1>3. CASE job' = [job EXCEPT ![j].at = "rollup"] /\ job[j].at = "partitions"
    <2>1. Advances(j) /\ job'[j].at = "rollup" /\ job'[j].today = job[j].today /\ job'[j].day = job[j].day
      BY <1>0, <1>3, SortedFacts
    <2>2. job'[j] = [job[j] EXCEPT !.at = "rollup"] /\ job[j] \in RunStates
      BY <1>0, <1>3
    <2>3. job'[j].seen = job[j].seen /\ job'[j].missed = job[j].missed
      BY <2>2 DEF RunStates
    <2>4. \A day \in Int : Behind(j, day)' => Behind(j, day)
      BY <1>3, <2>1, <2>3 DEF Behind, U!FirstRollupDay
    <2> QED BY <1>0, <1>1, <2>1, <2>3, <2>4, QuietRun
  <1>4. CASE job' = [job EXCEPT ![j] = U!NextDay(@, TRUE)]
    <2>1. Advances(j) /\ job'[j].at \in {"done", "rollup"}
      BY <1>0, <1>4, StepFacts
    <2>2. job'[j].seen = job[j].seen /\ job'[j].missed /\ (job'[j].at = "done" => job'[j].day = job'[j].today)
      BY <1>0, <1>4, NextDayKeeps
    <2>3. \A day \in Int : ~(Behind(j, day)')
      BY <2>2 DEF Behind
    <2> QED BY <1>0, <1>1, <2>1, <2>2, <2>3, QuietRun
  <1>5. CASE job' = [job EXCEPT ![j] = U!Idle]
    <2>1. Advances(j) /\ job'[j].at = "idle"
      BY <1>0, <1>5, IdleFacts
    <2>2. job'[j].seen = {}
      BY <1>0, <1>5 DEF U!Idle
    <2>3. \A day \in Int : ~(Behind(j, day)')
      BY <2>1 DEF Behind
    <2> QED BY <1>1, <2>1, <2>2, <2>3, QuietRun
  <1> QED BY <1>2, <1>3, <1>4, <1>5 DEF U!Maintain, U!MaintainSkipped, U!Skip, U!StepFails, U!End, U!Kill

\* Every step keeps the invariant.
LEMMA CatchUpStep ==
    ASSUME RollupSettings, IsFiniteSet(Group), CatchUpInv, [U!Next]_U!vars
    PROVE  CatchUpInv'
  <1>1. HistoryInv' /\ AllCounted /\ IsFiniteSet(stored)
    BY HistoryStep DEF CatchUpInv, AllCounted
  <1>2. ASSUME UNCHANGED <<daily, crossed, job>>, stored' = stored \/ \E e \in Event : stored' = stored \cup {e}
        PROVE  CatchUpInv'
    <2>1. Keeps /\ Counted(daily)'
      BY <1>1, <1>2 DEF Keeps, AllCounted, Counted
    <2>2. IsFiniteSet(stored')
      BY <1>1, <1>2, FS_AddElement
    <2> QED BY <1>1, <1>2, <2>1, <2>2, OtherSteps
  <1>3. CASE \/ U!Tick \/ (\E e \in Event : U!Store(e)) \/ U!BackfillFails \/ UNCHANGED U!vars
             \/ \E first, last \in 0 .. U!Day(MaxHalfDays) : U!BackfillStart(first, last)
    BY <1>2, <1>3 DEF U!Tick, U!Store, U!BackfillFails, U!vars, U!BackfillStart
  <1>4. CASE (\E groups \in SUBSET Group : U!BackfillDay(groups)) \/ U!Undo
    <2>1. Keeps /\ UNCHANGED <<stored, job>> /\ Counted(daily)'
      BY <1>1, <1>4, LoadKeeps, UndoKeeps
    <2> QED BY <1>1, <2>1, OtherSteps
  <1>5. ASSUME NEW j \in Worker, \/ U!Start(j) \/ U!Maintain(j) \/ U!MaintainSkipped(j) \/ U!Aggregate(j) \/ U!Skip(j)
                                 \/ U!Write(j) \/ U!StepFails(j) \/ U!End(j) \/ U!Kill(j)
        PROVE  CatchUpInv'
    BY <1>1, <1>5, QuietSteps, AggregateStep, WriteCatchesUp
  <1> QED BY <1>3, <1>4, <1>5 DEF U!Next

LEMMA CatchUpInit ==
    ASSUME RollupSettings, U!Init
    PROVE  CatchUpInv
  <1>1. HistoryInv
    BY RollupInit
  <1>2. stored = {} /\ daily = <<>> /\ \A j \in Worker : job[j].at = "idle" /\ job[j].seen = {}
    BY DEF U!Init, U!Idle
  <1>3. DOMAIN daily = {}
    BY <1>2
  <1>4. IsFiniteSet({})
    BY FS_EmptySet
  <1>5. RunsCaught /\ OneWriter /\ PendingCovers /\ RunsSee /\ AllCounted
    BY <1>2, <1>3, <1>4 DEF RunsCaught, Behind, OneWriter, PendingCovers, RunsSee, AllCounted, Counted
  <1> QED BY <1>1, <1>5 DEF CatchUpInv

\* A run of the nightly job that ends without an error or a skipped day has caught up: for
\* every day in its reach and every filter the dashboard shows at least what usage_events
\* held when the run began, whatever other runs, backfills, undos, late rows and failures
\* came in between, and for every number of runs, rows and days.  The advisory lock is what
\* it rests on: what a run holds ready to write covers every run that has the day behind it.
THEOREM RunCatchesUpAlways ==
    ASSUME RollupSettings, IsFiniteSet(Group)
    PROVE  U!Spec => []RunCatchesUp
  <1>1. U!Init => CatchUpInv
    BY CatchUpInit
  <1>2. CatchUpInv /\ [U!Next]_U!vars => CatchUpInv'
    BY CatchUpStep
  <1>3. CatchUpInv => RunCatchesUp
    BY CatchUpHolds DEF RunCatchesUp
  <1> QED BY <1>1, <1>2, <1>3, PTL DEF U!Spec
=============================================================================
