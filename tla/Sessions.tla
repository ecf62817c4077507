------------------------------ MODULE Sessions ------------------------------
(***************************************************************************)
(* Accounts, their sessions and the two requests that race with them: a    *)
(* login, which reads the account, compares the password and only then     *)
(* opens the session, and an account request, which is authorised, looks   *)
(* up the account and only then changes it.                                *)
(*                                                                         *)
(* AuthStore is one SQLite database behind a mutex, shared with the CLI,   *)
(* another process: an action is one transaction of it.  The database      *)
(* survives the server; the login limiter, the verification permits and    *)
(* the requests under way do not.  Time is unix_timestamp(), taken never   *)
(* to go back.                                                             *)
(***************************************************************************)
EXTENDS Integers, FiniteSets

CONSTANTS
    Names, Peers,       \* user names and addresses logins come from
    Ids, Tokens,        \* what random_identifier and random_token will draw; Tokens in order
    Roles,              \* the roles in use
    Secrets,            \* passwords
    Logins, Requests,   \* logins and account requests under way at a time
    None, Gone,         \* nothing there yet; a row that was deleted
    IdleTtl, AbsoluteTtl, TouchInterval, MaxSessions,
    Permits,            \* MAX_CONCURRENT_PASSWORD_VERIFICATIONS
    Threshold,          \* ATTEMPTS_BEFORE_BACKOFF
    MaxBackoff, StaleAfter, MaxTracked,
    MaxEpoch, MaxClock  \* bounds of the exploration

ASSUME RolesAssumption == {"owner", "viewer"} \subseteq Roles /\ Roles \subseteq {"owner", "admin", "editor", "viewer"}
ASSUME IdsAssumption == IsFiniteSet(Ids) /\ Tokens \subseteq Nat /\ IsFiniteSet(Tokens)
ASSUME LimiterAssumption == IsFiniteSet(Logins) /\ Peers \cap Names = {}
ASSUME TimesAssumption ==
    /\ {IdleTtl, AbsoluteTtl, MaxSessions, Permits, Threshold, MaxBackoff, MaxTracked} \subseteq Nat \ {0}
    /\ {TouchInterval, MaxEpoch, MaxClock} \subseteq Nat
    /\ StaleAfter \in Nat /\ StaleAfter > MaxBackoff

Account == [name : Names, role : Roles, enabled : BOOLEAN, epoch : Nat, secret : Secrets]
Session == [user : Ids, epoch : Nat, seen : Nat, idle : Nat, absolute : Nat, revoked : BOOLEAN]

\* A marker is no row.
ASSUME MarkersAssumption == None \notin Account \cup Session /\ Gone \notin Account \cup Session

VARIABLES
    accounts,   \* the users table by account id
    sessions,   \* the sessions table by token
    opened,     \* the store was opened, hence migrated, at least once
    clock,
    limiter,    \* LoginRateLimiter: the entry of each address and each name
    overrun,    \* failures recorded on a name in a row while it was backing off
    login,      \* where each login stands
    request     \* where each account request stands

stored   == <<accounts, sessions>>
volatile == <<limiter, overrun, login, request>>
vars     == <<stored, opened, clock, volatile>>
----------------------------------------------------------------------------
(* The two tables                                                          *)

Present == {i \in Ids : accounts[i] \notin {None, Gone}}
Named(n) == {i \in Present : accounts[i].name = n}
ActiveOwners == {i \in Present : accounts[i].enabled /\ accounts[i].role = "owner"}

Rows == {t \in Tokens : sessions[t] \notin {None, Gone}}
RowsOf(i) == {t \in Rows : sessions[t].user = i}

\* What prune_sessions_tx and trim_user_sessions_tx keep: rows neither revoked nor expired.
Live(t) ==
    /\ t \in Rows
    /\ ~sessions[t].revoked
    /\ clock < sessions[t].idle
    /\ clock < sessions[t].absolute

\* identify_session accepts the token.
Valid(t) ==
    /\ Live(t)
    /\ sessions[t].user \in Present
    /\ accounts[sessions[t].user].enabled
    /\ accounts[sessions[t].user].epoch = sessions[t].epoch

SessionsRevoked(T) ==
    [t \in Tokens |-> IF t \in T THEN [sessions[t] EXCEPT !.revoked = TRUE] ELSE sessions[t]]
SessionsDeleted(T) == [t \in Tokens |-> IF t \in T THEN Gone ELSE sessions[t]]

\* Mutant: disabling an owner is not seen to remove one.
ProtectsOwnerFromDemotion(i, role, enabled) ==
    accounts[i].enabled /\ accounts[i].role = "owner" /\ role # "owner"
        => Cardinality(ActiveOwners) > 1

\* protect_owner_transition: the last enabled owner stays one.
ProtectsOwner(i, role, enabled) ==
    accounts[i].enabled /\ accounts[i].role = "owner" /\ (~enabled \/ role # "owner")
        => Cardinality(ActiveOwners) > 1

\* Mutant: the new epoch is left to identify_session, no session is revoked.
ChangeWithoutRevoking(i, role, enabled, secret) ==
    /\ accounts[i].epoch < MaxEpoch
    /\ accounts' = [accounts EXCEPT ![i] = [name |-> @.name, role |-> role,
            enabled |-> enabled, epoch |-> @.epoch + 1, secret |-> secret]]
    /\ UNCHANGED sessions

\* Every change of an account starts a new epoch and revokes its sessions.
Change(i, role, enabled, secret) ==
    /\ accounts[i].epoch < MaxEpoch
    /\ accounts' = [accounts EXCEPT ![i] = [name |-> @.name, role |-> role,
            enabled |-> enabled, epoch |-> @.epoch + 1, secret |-> secret]]
    /\ sessions' = SessionsRevoked(RowsOf(i))

\* Mutant: an account is inserted although its name is in use.
AddUserWithoutLookup(n, secret, role) ==
    /\ ActiveOwners = {} => role = "owner"
    /\ \E i \in Ids :
         /\ accounts[i] = None
         /\ accounts' = [accounts EXCEPT ![i] =
                 [name |-> n, role |-> role, enabled |-> TRUE, epoch |-> 0, secret |-> secret]]
    /\ UNCHANGED sessions

AddUser(n, secret, role) ==
    \/ \E i \in Named(n) : ProtectsOwner(i, role, TRUE) /\ Change(i, role, TRUE, secret)
    \/ /\ Named(n) = {}
       /\ ActiveOwners = {} => role = "owner"
       /\ \E i \in Ids :
            /\ accounts[i] = None
            /\ accounts' = [accounts EXCEPT ![i] =
                    [name |-> n, role |-> role, enabled |-> TRUE, epoch |-> 0, secret |-> secret]]
       /\ UNCHANGED sessions

\* Mutant: the role column is written alone.
SetUserRoleOnly(n, role) ==
    \E i \in Named(n) :
        /\ role # accounts[i].role
        /\ ProtectsOwner(i, role, accounts[i].enabled)
        /\ accounts' = [accounts EXCEPT ![i].role = role]
        /\ UNCHANGED sessions

SetUserRole(n, role) ==
    \E i \in Named(n) :
        /\ role # accounts[i].role
        /\ ProtectsOwner(i, role, accounts[i].enabled)
        /\ Change(i, role, accounts[i].enabled, accounts[i].secret)

SetUserEnabled(n, enabled) ==
    \E i \in Named(n) :
        /\ enabled # accounts[i].enabled
        /\ ProtectsOwner(i, accounts[i].role, enabled)
        /\ Change(i, accounts[i].role, enabled, accounts[i].secret)

SetPassword(n, secret) ==
    \E i \in Named(n) : Change(i, accounts[i].role, accounts[i].enabled, secret)

\* The row goes, and its sessions with it by ON DELETE CASCADE.
RemoveUser(n) ==
    \E i \in Named(n) :
        /\ i \in ActiveOwners => Cardinality(ActiveOwners) > 1
        /\ accounts' = [accounts EXCEPT ![i] = Gone]
        /\ sessions' = SessionsDeleted(RowsOf(i))

\* Mutant: the limit is met before the new session is added.
KeptBesidesNew(i) ==
    LET live == {t \in RowsOf(i) : Live(t)}
    IN  {t \in live : Cardinality({u \in live : u > t}) < MaxSessions}

\* The live sessions of i that trimming keeps: all but the oldest ones over the limit.
Kept(i) ==
    LET live == {t \in RowsOf(i) : Live(t)}
    IN  {t \in live : Cardinality({u \in live : u > t}) < MaxSessions - 1}

CreateSession(i, t) ==
    /\ sessions[t] = None
    /\ \A u \in Tokens : sessions[u] = None => u >= t
    /\ LET others == {u \in Rows \ RowsOf(i) : Live(u)}
       IN  sessions' = [SessionsDeleted(Rows \ (others \cup Kept(i))) EXCEPT ![t] =
               [user |-> i, epoch |-> accounts[i].epoch, seen |-> clock, idle |-> clock + IdleTtl,
                absolute |-> clock + AbsoluteTtl, revoked |-> FALSE]]

\* Mutant: the session slides before its expiry is looked at.
IdentifySlidingFirst(t) ==
    IF t \notin Rows THEN UNCHANGED sessions
    ELSE LET s    == sessions[t]
             idle == clock + IdleTtl
             slid == [s EXCEPT !.seen = clock,
                               !.idle = IF idle < s.absolute THEN idle ELSE s.absolute]
         IN  sessions' = [sessions EXCEPT ![t] =
                 IF clock - s.seen >= TouchInterval THEN slid ELSE s]

\* identify_session: an invalid token is marked revoked, a valid one slides.
Identify(t) ==
    IF t \notin Rows THEN UNCHANGED sessions
    ELSE LET s    == sessions[t]
             idle == clock + IdleTtl
             slid == [s EXCEPT !.seen = clock,
                               !.idle = IF idle < s.absolute THEN idle ELSE s.absolute]
         IN  sessions' = [sessions EXCEPT ![t] =
                 IF ~Valid(t) THEN [s EXCEPT !.revoked = TRUE]
                 ELSE IF clock - s.seen >= TouchInterval THEN slid ELSE s]

\* migrate_auth_schema: an owner is found for a database without one, an enabled admin first;
\* old sessions that ended are forgotten.
Promoted ==
    LET admins  == {i \in Present : accounts[i].enabled /\ accounts[i].role = "admin"}
        enabled == {i \in Present : accounts[i].enabled}
    IN  IF ActiveOwners # {} THEN {}
        ELSE IF admins # {} THEN admins
        ELSE IF enabled # {} THEN enabled ELSE Present

Migrate ==
    /\ IF Promoted = {} THEN UNCHANGED accounts
       ELSE \E i \in Promoted :
            accounts' = [accounts EXCEPT ![i] = [@ EXCEPT !.role = "owner", !.enabled = TRUE]]
    /\ sessions' = SessionsDeleted({t \in Rows :
            /\ sessions[t].revoked \/ sessions[t].absolute <= clock
            /\ sessions[t].absolute < clock})
----------------------------------------------------------------------------
(* The login limiter                                                       *)

Keys == Peers \cup Names
MapOf(k) == IF k \in Peers THEN Peers ELSE Names

\* prune_stale on both maps.
PrunedLimiter ==
    [k \in Keys |-> IF limiter[k] # None /\ clock - limiter[k].seen >= StaleAfter
                    THEN None ELSE limiter[k]]

BackingOff(lim, k) == lim[k] # None /\ lim[k].blocked > clock

Backoff(count) ==
    LET seconds == 2 ^ (count - Threshold)
    IN  IF seconds < MaxBackoff THEN seconds ELSE MaxBackoff

\* Beyond this count every failure backs off for MaxBackoff.
CountCap == Threshold + MaxBackoff

OneMoreFailure(e) ==
    LET count == IF e = None THEN 1 ELSE IF e.count < CountCap THEN e.count + 1 ELSE CountCap
    IN  [count   |-> count,
         seen    |-> clock,
         blocked |-> IF count >= Threshold THEN clock + Backoff(count)
                     ELSE IF e = None THEN clock ELSE e.blocked]

\* The entries evict_oldest may drop to make room for k; k itself when there is room.
Victims(lim, k) ==
    LET tracked == {e \in MapOf(k) : lim[e] # None}
    IN  IF lim[k] = None /\ Cardinality(tracked) >= MaxTracked
        THEN {e \in tracked : \A other \in tracked : lim[e].seen <= lim[other].seen}
        ELSE {k}

RecordFailure(peer, name) ==
    LET lim == PrunedLimiter
    IN  /\ \E v \in Victims(lim, peer), w \in Victims(lim, name) :
             limiter' = [k \in Keys |-> IF k \in {peer, name} THEN OneMoreFailure(lim[k])
                                        ELSE IF k \in {v, w} THEN None ELSE lim[k]]
        /\ overrun' = [overrun EXCEPT ![name] = IF BackingOff(lim, name) THEN @ + 1 ELSE 0]

ClearAttempts(peer, name) ==
    /\ limiter' = [limiter EXCEPT ![peer] = None, ![name] = None]
    /\ UNCHANGED overrun
----------------------------------------------------------------------------
(* A login.  Its handler holds a permit from "admitted" on, unless the     *)
(* client went away: then the handler is dropped, and the verification it  *)
(* started on the blocking pool goes on alone.                             *)

NoLogin == [at |-> "none", peer |-> None, name |-> None, awaited |-> TRUE]

Verifying == {"verifying", "matched", "mismatched", "granted", "refused"}
PermitsHeld == {l \in Logins : login[l].at \in {"admitted"} \cup Verifying /\ login[l].awaited}

Goto(l, at) == login' = [login EXCEPT ![l].at = at]
CheckPasses(l, lim) == ~BackingOff(lim, login[l].peer) /\ ~BackingOff(lim, login[l].name)

\* check_login, before there is a permit.
CheckLogin(l, peer, name) ==
    /\ login[l].at = "none"
    /\ limiter' = PrunedLimiter
    /\ IF BackingOff(limiter', peer) \/ BackingOff(limiter', name)
       THEN UNCHANGED login
       ELSE login' = [login EXCEPT ![l] =
                [at |-> "checked", peer |-> peer, name |-> name, awaited |-> TRUE]]
    /\ UNCHANGED <<stored, opened, clock, overrun, request>>

\* try_acquire_password_verification: no permit, no login.
AcquirePermit(l) ==
    /\ login[l].at = "checked"
    /\ IF Cardinality(PermitsHeld) < Permits
       THEN Goto(l, "admitted")
       ELSE login' = [login EXCEPT ![l] = NoLogin]
    /\ UNCHANGED <<stored, opened, clock, limiter, overrun, request>>

\* Mutant: the limiter is asked only before there is a permit.
RecheckLoginSkipped(l) ==
    /\ login[l].at = "admitted"
    /\ Goto(l, "verifying")
    /\ UNCHANGED <<stored, opened, clock, limiter, overrun, request>>

\* check_login again, with the permit.
RecheckLogin(l) ==
    /\ login[l].at = "admitted"
    /\ limiter' = PrunedLimiter
    /\ IF CheckPasses(l, limiter')
       THEN Goto(l, "verifying")
       ELSE login' = [login EXCEPT ![l] = NoLogin]
    /\ UNCHANGED <<stored, opened, clock, overrun, request>>

\* verify: the stored hash is read here, compared after the mutex is free; None is a wrong password.
Verify(l, secret) ==
    /\ login[l].at = "verifying"
    /\ Goto(l, IF \E i \in Named(login[l].name) :
                     accounts[i].enabled /\ accounts[i].secret = secret
               THEN "matched" ELSE "mismatched")
    /\ UNCHANGED <<stored, opened, clock, limiter, overrun, request>>

\* create_session finds the account anew by its name; it may be gone or disabled by now.
OpenSession(l) ==
    /\ login[l].at = "matched"
    /\ \/ /\ \E i \in Named(login[l].name), t \in Tokens :
               accounts[i].enabled /\ CreateSession(i, t)
          /\ Goto(l, "granted")
       \/ /\ ~\E i \in Named(login[l].name) : accounts[i].enabled
          /\ Goto(l, "refused")
          /\ UNCHANGED sessions
    /\ UNCHANGED <<accounts, opened, clock, limiter, overrun, request>>

\* The handler answers; an error of the store neither clears nor records anything.
AnswerLogin(l) ==
    /\ login[l].at \in {"granted", "refused", "mismatched"}
    /\ IF ~login[l].awaited \/ login[l].at = "refused" THEN UNCHANGED <<limiter, overrun>>
       ELSE IF login[l].at = "granted" THEN ClearAttempts(login[l].peer, login[l].name)
       ELSE RecordFailure(login[l].peer, login[l].name)
    /\ login' = [login EXCEPT ![l] = NoLogin]
    /\ UNCHANGED <<stored, opened, clock, request>>

\* The client goes away while the handler awaits the verification.
AbandonLogin(l) ==
    /\ login[l].at \in Verifying /\ login[l].awaited
    /\ login' = [login EXCEPT ![l].awaited = FALSE]
    /\ UNCHANGED <<stored, opened, clock, limiter, overrun, request>>
----------------------------------------------------------------------------
(* A request that changes accounts: create_user and delete_user behind     *)
(* require_auth_mw.  The middleware identifies the session, then the CSRF  *)
(* check and the handler each identify it again.                           *)

NoRequest == [at |-> "none", token |-> None, owns |-> FALSE, name |-> None, role |-> None]

ManagesUsers(i) == accounts[i].role \in {"owner", "admin"}

\* require_auth_mw identifies the session and demands ManageUsers.
AuthorizeRequest(r, t) ==
    /\ request[r].at = "none"
    /\ t \in Rows
    /\ Identify(t)
    /\ request' = IF Valid(t) /\ ManagesUsers(sessions[t].user)
                  THEN [request EXCEPT ![r] = [NoRequest EXCEPT !.at = "authorized", !.token = t]]
                  ELSE request
    /\ UNCHANGED <<accounts, opened, clock, limiter, overrun, login>>

\* validate_csrf: the session must still be valid.
ConfirmRequest(r) ==
    LET t == request[r].token
    IN  /\ request[r].at = "authorized"
        /\ Identify(t)
        /\ request' = [request EXCEPT ![r] =
               IF Valid(t) THEN [@ EXCEPT !.at = "confirmed"] ELSE NoRequest]
        /\ UNCHANGED <<accounts, opened, clock, limiter, overrun, login>>

\* The handler asks whether this identity may manage owners.
EnterRequest(r) ==
    LET t == request[r].token
    IN  /\ request[r].at = "confirmed"
        /\ Identify(t)
        /\ request' = [request EXCEPT ![r] =
               [@ EXCEPT !.at = "entered",
                         !.owns = Valid(t) /\ accounts[sessions[t].user].role = "owner"]]
        /\ UNCHANGED <<accounts, opened, clock, limiter, overrun, login>>

\* user_role, and the guard on owner accounts, before the change; role is the one asked for.
InspectCreate(r, n, role) ==
    LET found     == {accounts[i].role : i \in Named(n)}
        effective == IF role # None THEN {role} ELSE IF found # {} THEN found ELSE {"viewer"}
    IN  /\ request[r].at = "entered"
        /\ request' = [request EXCEPT ![r] =
               IF "owner" \in found \cup effective /\ ~request[r].owns THEN NoRequest
               ELSE [@ EXCEPT !.at = "create", !.name = n, !.role = CHOOSE e \in effective : TRUE]]
        /\ UNCHANGED <<stored, opened, clock, limiter, overrun, login>>

InspectDelete(r, n) ==
    /\ request[r].at = "entered"
    /\ request' = [request EXCEPT ![r] =
           IF (\E i \in Named(n) : accounts[i].role = "owner") /\ ~request[r].owns THEN NoRequest
           ELSE [@ EXCEPT !.at = "delete", !.name = n]]
    /\ UNCHANGED <<stored, opened, clock, limiter, overrun, login>>

\* add_user_with_result or remove_user, which may refuse.
ApplyRequest(r, secret) ==
    /\ \/ /\ request[r].at = "create"
          /\ \/ AddUser(request[r].name, secret, request[r].role)
             \/ UNCHANGED stored
       \/ /\ request[r].at = "delete"
          /\ \/ RemoveUser(request[r].name)
             \/ UNCHANGED stored
    /\ request' = [request EXCEPT ![r] = NoRequest]
    /\ UNCHANGED <<opened, clock, limiter, overrun, login>>
----------------------------------------------------------------------------
(* Everything else that changes the store                                  *)

\* A call from the CLI or of an operation that no route reaches yet.
Administer ==
    /\ opened
    /\ \E n \in Names :
         \/ \E secret \in Secrets, role \in Roles : AddUser(n, secret, role)
         \/ \E role \in Roles : SetUserRole(n, role)
         \/ \E enabled \in BOOLEAN : SetUserEnabled(n, enabled)
         \/ \E secret \in Secrets : SetPassword(n, secret)
         \/ RemoveUser(n)
    /\ UNCHANGED <<opened, clock, volatile>>

\* Any other request that presents its session, and logout.
PresentToken(t) ==
    /\ t \in Rows
    /\ Identify(t)
    /\ UNCHANGED <<accounts, opened, clock, volatile>>

Logout(t) ==
    /\ t \in Rows
    /\ sessions' = SessionsRevoked({t})
    /\ UNCHANGED <<accounts, opened, clock, volatile>>

\* A server that starts has none of what the one before it kept in memory.
FreshServer ==
    /\ limiter' = [k \in Keys |-> None]
    /\ overrun' = [n \in Names |-> 0]
    /\ login' = [l \in Logins |-> NoLogin]
    /\ request' = [r \in Requests |-> NoRequest]

\* AuthStore::open: by the CLI, which leaves a running server alone, or by a server that
\* starts, after a crash or a stop of the one before it.
OpenStore ==
    /\ Migrate
    /\ opened' = TRUE
    /\ UNCHANGED volatile \/ FreshServer
    /\ UNCHANGED clock

Tick ==
    /\ clock < MaxClock
    /\ clock' = clock + 1
    /\ UNCHANGED <<stored, opened, volatile>>

\* Before the first opening: any accounts of an earlier version, which had no sessions.
Init ==
    /\ accounts \in {a \in [Ids -> {None} \cup [name : Names, role : Roles \ {"owner"},
                                    enabled : {TRUE}, epoch : {0}, secret : Secrets]] :
            \A i, j \in Ids : a[i] # None /\ a[j] # None /\ a[i].name = a[j].name => i = j}
    /\ sessions = [t \in Tokens |-> None]
    /\ opened = FALSE
    /\ clock = 0
    /\ limiter = [k \in Keys |-> None]
    /\ overrun = [n \in Names |-> 0]
    /\ login = [l \in Logins |-> NoLogin]
    /\ request = [r \in Requests |-> NoRequest]

LoginStep(l) ==
    \/ \E peer \in Peers, name \in Names : CheckLogin(l, peer, name)
    \/ AcquirePermit(l)
    \/ RecheckLogin(l)
    \/ \E secret \in Secrets \cup {None} : Verify(l, secret)
    \/ OpenSession(l)
    \/ AnswerLogin(l)
    \/ AbandonLogin(l)

RequestStep(r) ==
    \/ \E t \in Tokens : AuthorizeRequest(r, t)
    \/ ConfirmRequest(r)
    \/ EnterRequest(r)
    \/ \E n \in Names : (\E role \in Roles \cup {None} : InspectCreate(r, n, role)) \/ InspectDelete(r, n)
    \/ \E secret \in Secrets : ApplyRequest(r, secret)

Next ==
    \/ OpenStore
    \/ Administer
    \/ opened /\ \E l \in Logins : LoginStep(l)
    \/ opened /\ \E r \in Requests : RequestStep(r)
    \/ \E t \in Tokens : PresentToken(t) \/ Logout(t)
    \/ Tick

Spec == Init /\ [][Next]_vars
----------------------------------------------------------------------------
\* The two tables hold what their columns allow, and a user name names one account
\* (users.username is the primary key).
TablesOK ==
    /\ accounts \in [Ids -> Account \cup {None, Gone}]
    /\ sessions \in [Tokens -> Session \cup {None, Gone}]
    /\ \A i, j \in Present : accounts[i].name = accounts[j].name => i = j

(* Type invariant.                                                         *)
TypeOK ==
    /\ TablesOK
    /\ opened \in BOOLEAN
    /\ clock \in 0..MaxClock
    /\ limiter \in [Keys -> [count : 1..CountCap, blocked : Nat, seen : Nat] \cup {None}]
    /\ overrun \in [Names -> Nat]
    /\ login \in [Logins -> [at : {"none", "checked", "admitted"} \cup Verifying,
                             peer : Peers \cup {None}, name : Names \cup {None}, awaited : BOOLEAN]]
    /\ request \in [Requests ->
            [at : {"none", "authorized", "confirmed", "entered", "create", "delete"},
             token : Tokens \cup {None}, owns : BOOLEAN, name : Names \cup {None},
             role : Roles \cup {None}]]

(* However accounts are created, demoted, disabled, removed and migrated,  *)
(* and whatever an account request decided from an older look at the       *)
(* account, a workspace with accounts has an enabled owner                 *)
(* (protect_owner_transition, remove_user, the first account).             *)
OwnerRemains == opened /\ Present # {} => ActiveOwners # {}

(* A session that is not revoked belongs to an enabled account and carries *)
(* its present epoch: no change of an account forgets a session, and no    *)
(* session is opened with the epoch of an older account.                   *)
LiveSessionsAreCurrent ==
    \A t \in Rows : ~sessions[t].revoked =>
        LET i == sessions[t].user
        IN  i \in Present /\ accounts[i].enabled /\ accounts[i].epoch = sessions[t].epoch

(* An account has at most MAX_ACTIVE_SESSIONS_PER_USER live sessions,      *)
(* however many logins of it end together.                                 *)
SessionsBounded == \A i \in Ids : Cardinality({t \in RowsOf(i) : Live(t)}) <= MaxSessions

(* The backoff holds against logins that run together: a name that backs   *)
(* off sees at most the failures of the verifications that were already    *)
(* under way, one less than there are permits.  This is what login checks  *)
(* the limiter a second time for, with its permit in hand.                 *)
OverrunBounded == \A n \in Names : overrun[n] <= Permits - 1

\* Neither sessions nor failures outgrow their limit when logins run together.
LimitsHold == SessionsBounded /\ OverrunBounded

(* A token that was refused, or would have been, is never accepted again:  *)
(* not by sliding an expired session, not by enabling its account again,   *)
(* not by an account that gets the name of a removed one.                  *)
DeadStaysDead ==
    [][\A t \in Tokens : sessions[t] # None /\ ~Valid(t) => ~Valid(t)']_vars

(* When an account changes in any column or is removed, every session that *)
(* was open on it is over.                                                 *)
ChangeEndsSessions ==
    [][\A i \in Present : accounts[i]' # accounts[i] => \A t \in RowsOf(i) : ~Valid(t)']_vars
=============================================================================
