--------------------------- MODULE SessionsProofs ---------------------------
(***************************************************************************)
(* Theorems about Sessions, for any names, accounts, tokens, roles, logins *)
(* and requests, and any limits.                                           *)
(***************************************************************************)
EXTENDS Sessions, FiniteSetTheorems, TLAPS

RequestStates ==
    [at : {"none", "authorized", "confirmed", "entered", "create", "delete"}, token : Tokens \cup {None},
     owns : BOOLEAN, name : Names \cup {None}, role : Roles \cup {None}]

\* A request that has chosen its account knows the name, and the role it will give.
RequestsNamed ==
    /\ request \in [Requests -> RequestStates]
    /\ \A r \in Requests :
        /\ request[r].at \in {"create", "delete"} => request[r].name \in Names
        /\ request[r].at = "create" => request[r].role \in Roles

\* No session is opened before the store is.
OpenedFirst == ~opened => Rows = {}

StoreInv == TablesOK /\ clock \in Nat /\ OwnerRemains /\ LiveSessionsAreCurrent /\ OpenedFirst

\* What a step may do to the sessions of an account it changes, and to those that are over.
SessionsEnd ==
    /\ \A i \in Present : accounts'[i] # accounts[i] => \A t \in RowsOf(i) : ~Valid(t)'
    /\ \A t \in Tokens : sessions[t] # None /\ ~Valid(t) => ~Valid(t)'
----------------------------------------------------------------------------
LEMMA AnotherMember ==
    ASSUME NEW S, IsFiniteSet(S), Cardinality(S) > 1, NEW x
    PROVE  \E y \in S : y # x
<1>1. SUFFICES ASSUME S \subseteq {x} PROVE FALSE
    OBVIOUS
<1>2. IsFiniteSet({x}) /\ Cardinality({x}) = 1
    BY FS_Singleton
<1>3. Cardinality(S) <= 1 /\ Cardinality(S) \in Nat
    BY <1>1, <1>2, FS_Subset, FS_CardinalityType
<1> QED
    BY <1>3

LEMMA AnotherOwner ==
    ASSUME Cardinality(ActiveOwners) > 1, NEW i
    PROVE  \E j \in ActiveOwners : j # i
<1>1. IsFiniteSet(ActiveOwners)
    BY IdsAssumption, FS_Subset DEF ActiveOwners, Present
<1> QED
    BY <1>1, AnotherMember

\* What rows are, and what being valid comes to.
LEMMA RowTypes ==
    ASSUME TablesOK
    PROVE  /\ \A i \in Present : i \in Ids /\ accounts[i] \in Account
           /\ \A t \in Rows : t \in Tokens /\ sessions[t] \in Session
           /\ \A t \in Tokens : sessions[t] \in Session => t \in Rows
           /\ \A i \in Ids : accounts[i] \in Account => i \in Present
BY MarkersAssumption DEF TablesOK, Present, Rows

LEMMA OverMeans ==
    ASSUME LiveSessionsAreCurrent, TablesOK, clock \in Nat, NEW t \in Rows, ~Valid(t), ~sessions[t].revoked
    PROVE  clock >= sessions[t].idle \/ clock >= sessions[t].absolute
<1>1. sessions[t] \in Session
    BY RowTypes
<1> QED
    BY <1>1 DEF LiveSessionsAreCurrent, Valid, Live, Session
----------------------------------------------------------------------------
(* Changes of an account.                                                  *)

LEMMA ChangeInv ==
    ASSUME StoreInv, NEW i \in Present, NEW role \in Roles, NEW enabled \in BOOLEAN, NEW secret \in Secrets,
           ProtectsOwner(i, role, enabled), Change(i, role, enabled, secret), UNCHANGED <<opened, clock>>
    PROVE  StoreInv' /\ SessionsEnd
<1>1. TablesOK /\ accounts[i] \in Account /\ i \in Ids
    BY RowTypes DEF StoreInv
<1> DEFINE a == [name |-> accounts[i].name, role |-> role, enabled |-> enabled,
                 epoch |-> accounts[i].epoch + 1, secret |-> secret]
<1>2. accounts' = [accounts EXCEPT ![i] = a]
    BY DEF Change
<1>3. /\ a \in Account /\ a.role = role /\ a.enabled = enabled /\ a.name = accounts[i].name
      /\ a.epoch # accounts[i].epoch
    BY <1>1 DEF Account
<1> HIDE DEF a
<1>4. \A j \in Ids : accounts'[j] = IF j = i THEN a ELSE accounts[j]
    BY <1>1, <1>2 DEF TablesOK
<1>5. Present' = Present
    BY <1>1, <1>3, <1>4, MarkersAssumption DEF Present
<1>6. \A t \in Tokens : sessions'[t] = IF t \in RowsOf(i) THEN [sessions[t] EXCEPT !.revoked = TRUE]
                                       ELSE sessions[t]
    BY DEF Change, SessionsRevoked
<1>7. \A t \in RowsOf(i) : /\ sessions'[t] \in Session /\ sessions'[t].revoked
                           /\ sessions'[t].user = sessions[t].user
    BY <1>1, <1>6, RowTypes DEF RowsOf, Session
<1>8. Rows' = Rows
    BY <1>6, <1>7, MarkersAssumption DEF Rows, RowsOf
<1>9. TablesOK'
    <2>1. accounts' \in [Ids -> Account \cup {None, Gone}]
        BY <1>1, <1>2, <1>3 DEF TablesOK
    <2>2. sessions' \in [Tokens -> Session \cup {None, Gone}]
        BY <1>1, <1>6, <1>7 DEF TablesOK, Change, SessionsRevoked
    <2>3. \A j, k \in Present' : accounts'[j].name = accounts'[k].name => j = k
        BY <1>1, <1>3, <1>4, <1>5 DEF TablesOK, Present
    <2> QED
        BY <2>1, <2>2, <2>3 DEF TablesOK
<1>10. OwnerRemains'
    <2>1. SUFFICES ASSUME opened, Present # {} PROVE ActiveOwners' # {}
        BY <1>5 DEF OwnerRemains
    <2>2. PICK o \in ActiveOwners : TRUE
        BY <2>1 DEF StoreInv, OwnerRemains
    <2>3. CASE i \in ActiveOwners /\ ~(enabled /\ role = "owner")
        <3>1. PICK p \in ActiveOwners : p # i
            BY <2>3, AnotherOwner DEF ProtectsOwner, ActiveOwners
        <3> QED
            BY <1>4, <1>5, <3>1 DEF ActiveOwners, Present
    <2>4. CASE i \in ActiveOwners /\ enabled /\ role = "owner"
        BY <1>1, <1>3, <1>4, <1>5, <2>4 DEF ActiveOwners
    <2>5. CASE i \notin ActiveOwners
        BY <1>4, <1>5, <2>2, <2>5 DEF ActiveOwners, Present
    <2> QED
        BY <2>3, <2>4, <2>5
<1>11. LiveSessionsAreCurrent'
    <2>1. SUFFICES ASSUME NEW t \in Rows, ~sessions'[t].revoked
                   PROVE  /\ sessions'[t].user \in Present' /\ accounts'[sessions'[t].user].enabled
                          /\ accounts'[sessions'[t].user].epoch = sessions'[t].epoch
        BY <1>8 DEF LiveSessionsAreCurrent
    <2>2. t \in Tokens /\ sessions'[t] = sessions[t] /\ sessions[t].user # i
        BY <1>6, <1>7, <2>1 DEF Rows, RowsOf
    <2> QED
        BY <1>4, <1>5, <2>1, <2>2 DEF StoreInv, LiveSessionsAreCurrent, Present
<1>12. OpenedFirst'
    BY <1>8 DEF StoreInv, OpenedFirst
<1>13. \A t \in RowsOf(i) : ~Valid(t)'
    BY <1>7 DEF Valid, Live
<1>14. \A t \in Tokens : sessions[t] # None /\ ~Valid(t) => ~Valid(t)'
    <2>1. SUFFICES ASSUME NEW t \in Tokens, ~Valid(t), Valid(t)' PROVE FALSE
        OBVIOUS
    <2>2. t \in Rows /\ sessions'[t] = sessions[t] /\ ~sessions[t].revoked /\ clock \in Nat
        BY <1>6, <1>8, <1>13, <2>1 DEF Valid, Live, StoreInv
    <2>3. clock >= sessions[t].idle \/ clock >= sessions[t].absolute
        BY <2>1, <2>2, OverMeans DEF StoreInv
    <2>4. sessions[t].idle \in Nat /\ sessions[t].absolute \in Nat
        BY <1>1, <2>2, RowTypes DEF Session
    <2> QED
        BY <2>1, <2>2, <2>3, <2>4 DEF Valid, Live
<1> QED
    BY <1>4, <1>9, <1>10, <1>11, <1>12, <1>13, <1>14 DEF StoreInv, SessionsEnd, Present

LEMMA AddUserInv ==
    ASSUME StoreInv, opened, NEW n \in Names, NEW role \in Roles, NEW secret \in Secrets,
           AddUser(n, secret, role), UNCHANGED <<opened, clock>>
    PROVE  StoreInv' /\ SessionsEnd
<1>1. TablesOK /\ TRUE \in BOOLEAN
    BY DEF StoreInv
<1>2. CASE \E i \in Named(n) : ProtectsOwner(i, role, TRUE) /\ Change(i, role, TRUE, secret)
    BY <1>2, ChangeInv DEF Named
<1>3. ASSUME Named(n) = {}, ActiveOwners = {} => role = "owner", NEW i \in Ids, accounts[i] = None,
             accounts' = [accounts EXCEPT ![i] = [name |-> n, role |-> role, enabled |-> TRUE,
                                                  epoch |-> 0, secret |-> secret]],
             UNCHANGED sessions
      PROVE  StoreInv' /\ SessionsEnd
    <2> DEFINE a == [name |-> n, role |-> role, enabled |-> TRUE, epoch |-> 0, secret |-> secret]
    <2>1. a \in Account /\ a.role = role /\ a.enabled = TRUE /\ a.name = n
        BY DEF Account
    <2>2. accounts' = [accounts EXCEPT ![i] = a]
        BY <1>3
    <2> HIDE DEF a
    <2>3. \A j \in Ids : accounts'[j] = IF j = i THEN a ELSE accounts[j]
        BY <1>1, <2>2 DEF TablesOK
    <2>4. Present' = Present \cup {i} /\ i \notin Present
        BY <1>3, <2>1, <2>3, MarkersAssumption DEF Present
    <2>5. Rows' = Rows
        BY <1>3 DEF Rows
    <2>6. TablesOK'
        <3>1. accounts' \in [Ids -> Account \cup {None, Gone}]
            BY <1>1, <2>1, <2>2 DEF TablesOK
        <3>2. \A j \in Present : j \in Ids /\ accounts[j].name # n
            BY <1>3 DEF Named, Present
        <3>3. \A j, k \in Present' : accounts'[j].name = accounts'[k].name => j = k
            BY <1>1, <2>1, <2>3, <2>4, <3>2 DEF TablesOK
        <3> QED
            BY <1>1, <1>3, <3>1, <3>3 DEF TablesOK
    <2>7. OwnerRemains'
        <3>1. ActiveOwners \subseteq ActiveOwners'
            BY <2>3, <2>4 DEF ActiveOwners, Present
        <3>2. role = "owner" => i \in ActiveOwners'
            BY <2>1, <2>3, <2>4 DEF ActiveOwners
        <3> QED
            BY <1>3, <3>1, <3>2 DEF OwnerRemains
    <2>8. LiveSessionsAreCurrent'
        BY <1>3, <2>3, <2>4, <2>5 DEF StoreInv, LiveSessionsAreCurrent, Present
    <2>9. OpenedFirst'
        BY <2>5 DEF StoreInv, OpenedFirst
    <2>10. SessionsEnd
        <3>1. \A j \in Present : accounts'[j] = accounts[j]
            BY <2>3, <2>4 DEF Present
        <3>2. SUFFICES ASSUME NEW t \in Tokens, ~Valid(t), Valid(t)' PROVE FALSE
            BY <3>1 DEF SessionsEnd
        <3>3. t \in Rows /\ sessions'[t] = sessions[t] /\ ~sessions[t].revoked /\ clock \in Nat
            BY <1>3, <2>5, <3>2 DEF Valid, Live, StoreInv
        <3>4. clock >= sessions[t].idle \/ clock >= sessions[t].absolute
            BY <3>2, <3>3, OverMeans DEF StoreInv
        <3>5. sessions[t].idle \in Nat /\ sessions[t].absolute \in Nat
            BY <1>1, <3>3, RowTypes DEF Session
        <3> QED
            BY <3>2, <3>3, <3>4, <3>5 DEF Valid, Live
    <2> QED
        BY <2>6, <2>7, <2>8, <2>9, <2>10 DEF StoreInv
<1> QED
    BY <1>2, <1>3 DEF AddUser

LEMMA RemoveUserInv ==
    ASSUME StoreInv, NEW n \in Names, RemoveUser(n), UNCHANGED <<opened, clock>>
    PROVE  StoreInv' /\ SessionsEnd
<1>1. PICK i \in Named(n) :
          /\ i \in ActiveOwners => Cardinality(ActiveOwners) > 1
          /\ accounts' = [accounts EXCEPT ![i] = Gone]
          /\ sessions' = SessionsDeleted(RowsOf(i))
    BY DEF RemoveUser
<1>2. TablesOK /\ i \in Present /\ i \in Ids
    BY DEF StoreInv, Named, Present
<1>3. \A j \in Ids : accounts'[j] = IF j = i THEN Gone ELSE accounts[j]
    BY <1>1, <1>2 DEF TablesOK
<1>4. Present' = Present \ {i}
    BY <1>2, <1>3 DEF Present
<1>5. \A t \in Tokens : sessions'[t] = IF t \in RowsOf(i) THEN Gone ELSE sessions[t]
    BY <1>1 DEF SessionsDeleted
<1>6. Rows' = Rows \ RowsOf(i)
    BY <1>5 DEF Rows
<1>7. TablesOK'
    <2>1. accounts' \in [Ids -> Account \cup {None, Gone}] /\ sessions' \in [Tokens -> Session \cup {None, Gone}]
        BY <1>1, <1>2 DEF TablesOK, SessionsDeleted
    <2>2. \A j, k \in Present' : accounts'[j].name = accounts'[k].name => j = k
        BY <1>2, <1>3, <1>4 DEF TablesOK, Present
    <2> QED
        BY <2>1, <2>2 DEF TablesOK
<1>8. OwnerRemains'
    <2>1. SUFFICES ASSUME opened, Present # {} PROVE ActiveOwners' # {}
        BY <1>4 DEF OwnerRemains
    <2>2. PICK o \in ActiveOwners : o # i
        <3>1. PICK p \in ActiveOwners : TRUE
            BY <2>1 DEF StoreInv, OwnerRemains
        <3> QED
            BY <1>1, <3>1, AnotherOwner
    <2> QED
        BY <1>3, <1>4, <2>2 DEF ActiveOwners, Present
<1>9. LiveSessionsAreCurrent'
    BY <1>3, <1>4, <1>5, <1>6 DEF StoreInv, LiveSessionsAreCurrent, RowsOf, Rows, Present
<1>10. OpenedFirst'
    BY <1>6 DEF StoreInv, OpenedFirst
<1>11. \A t \in RowsOf(i) : ~Valid(t)'
    BY <1>6 DEF Valid, Live
<1>12. \A t \in Tokens : sessions[t] # None /\ ~Valid(t) => ~Valid(t)'
    <2>1. SUFFICES ASSUME NEW t \in Tokens, ~Valid(t), Valid(t)' PROVE FALSE
        OBVIOUS
    <2>2. t \in Rows /\ sessions'[t] = sessions[t] /\ ~sessions[t].revoked /\ clock \in Nat
        BY <1>5, <1>6, <2>1 DEF Valid, Live, StoreInv
    <2>3. clock >= sessions[t].idle \/ clock >= sessions[t].absolute
        BY <2>1, <2>2, OverMeans DEF StoreInv
    <2>4. sessions[t].idle \in Nat /\ sessions[t].absolute \in Nat
        BY <1>2, <2>2, RowTypes DEF Session
    <2> QED
        BY <2>1, <2>2, <2>3, <2>4 DEF Valid, Live
<1> QED
    BY <1>3, <1>7, <1>8, <1>9, <1>10, <1>11, <1>12 DEF StoreInv, SessionsEnd, Present
----------------------------------------------------------------------------
(* Changes of sessions alone.                                              *)

\* A session stays, goes, is revoked, slides while it is valid, or is new and current.
SessionStep(t) ==
    \/ sessions'[t] = sessions[t]
    \/ sessions'[t] = Gone
    \/ t \in Rows /\ sessions'[t] = [sessions[t] EXCEPT !.revoked = TRUE]
    \/ /\ Valid(t) /\ sessions'[t] \in Session
       /\ sessions'[t].user = sessions[t].user /\ sessions'[t].epoch = sessions[t].epoch
    \/ /\ sessions[t] = None /\ opened /\ sessions'[t] \in Session
       /\ sessions'[t].user \in Present /\ accounts[sessions'[t].user].enabled
       /\ accounts[sessions'[t].user].epoch = sessions'[t].epoch

LEMMA SessionsInv ==
    ASSUME StoreInv, UNCHANGED <<accounts, opened, clock>>,
           NEW D, sessions' \in [Tokens -> D], \A t \in Tokens : SessionStep(t)
    PROVE  StoreInv' /\ SessionsEnd
<1>1. TablesOK /\ clock \in Nat
    BY DEF StoreInv
<1>2. Present' = Present /\ ActiveOwners' = ActiveOwners
    BY DEF Present, ActiveOwners
<1>3. \A t \in Rows : sessions[t] \in Session /\ [sessions[t] EXCEPT !.revoked = TRUE] \in Session
    BY <1>1, RowTypes DEF Session
<1>4. TablesOK'
    <2>1. \A t \in Tokens : sessions'[t] \in Session \cup {None, Gone}
        BY <1>1, <1>3 DEF TablesOK, SessionStep
    <2> QED
        BY <1>1, <1>2, <2>1 DEF TablesOK
<1>5. OwnerRemains'
    BY <1>2 DEF StoreInv, OwnerRemains
<1>6. LiveSessionsAreCurrent'
    <2>1. SUFFICES ASSUME NEW t \in Rows', ~sessions'[t].revoked
                   PROVE  /\ sessions'[t].user \in Present /\ accounts[sessions'[t].user].enabled
                          /\ accounts[sessions'[t].user].epoch = sessions'[t].epoch
        BY <1>2 DEF LiveSessionsAreCurrent
    <2>2. t \in Tokens /\ sessions'[t] # Gone /\ sessions'[t] # None /\ SessionStep(t)
        BY <2>1 DEF Rows
    <2>3. CASE sessions'[t] = sessions[t]
        BY <2>1, <2>2, <2>3 DEF StoreInv, LiveSessionsAreCurrent, Rows
    <2>4. CASE t \in Rows /\ sessions'[t] = [sessions[t] EXCEPT !.revoked = TRUE]
        BY <1>3, <2>1, <2>4 DEF Session
    <2>5. CASE Valid(t) /\ sessions'[t].user = sessions[t].user /\ sessions'[t].epoch = sessions[t].epoch
        BY <2>5 DEF Valid
    <2> QED
        BY <2>2, <2>3, <2>4, <2>5 DEF SessionStep
<1>7. OpenedFirst'
    <2>1. SUFFICES ASSUME ~opened, NEW t \in Tokens PROVE sessions'[t] \in {None, Gone}
        BY DEF OpenedFirst, Rows
    <2>2. sessions[t] \in {None, Gone} /\ t \notin Rows
        BY <2>1 DEF StoreInv, OpenedFirst, Rows
    <2> QED
        BY <2>1, <2>2 DEF SessionStep, Valid, Live
<1>8. SessionsEnd
    <2>1. SUFFICES ASSUME NEW t \in Tokens, sessions[t] # None, ~Valid(t), Valid(t)' PROVE FALSE
        BY DEF SessionsEnd
    <2>2. t \in Rows' /\ ~sessions'[t].revoked /\ sessions'[t] # Gone
        BY <2>1 DEF Valid, Live, Rows
    <2>3. CASE sessions'[t] = sessions[t]
        BY <2>1, <2>3, <1>2 DEF Valid, Live, Rows
    <2>4. CASE t \in Rows /\ sessions'[t] = [sessions[t] EXCEPT !.revoked = TRUE]
        BY <1>3, <2>2, <2>4 DEF Session
    <2> QED
        BY <2>1, <2>2, <2>3, <2>4 DEF SessionStep
<1> QED
    BY <1>1, <1>4, <1>5, <1>6, <1>7, <1>8 DEF StoreInv

LEMMA IdentifyInv ==
    ASSUME StoreInv, NEW t \in Tokens, Identify(t), UNCHANGED <<accounts, opened, clock>>
    PROVE  StoreInv' /\ SessionsEnd
<1>1. TablesOK /\ clock \in Nat
    BY DEF StoreInv
<1>2. CASE t \notin Rows
    BY <1>1, <1>2, SessionsInv DEF Identify, TablesOK, SessionStep
<1>3. CASE t \in Rows
    <2> DEFINE idle == clock + IdleTtl
               limit == IF idle < sessions[t].absolute THEN idle ELSE sessions[t].absolute
               revoked == [sessions[t] EXCEPT !.revoked = TRUE]
               slid == [sessions[t] EXCEPT !.seen = clock, !.idle = limit]
    <2>1. sessions[t] \in Session
        BY <1>1, <1>3, RowTypes
    <2>2. limit \in Nat
        BY <1>1, <2>1, TimesAssumption DEF Session
    <2>3. sessions' = [sessions EXCEPT ![t] =
              IF ~Valid(t) THEN revoked ELSE IF clock - sessions[t].seen >= TouchInterval THEN slid
                                             ELSE sessions[t]]
        BY <1>3 DEF Identify
    <2> HIDE DEF limit
    <2>4. slid \in Session /\ slid.user = sessions[t].user /\ slid.epoch = sessions[t].epoch
        BY <1>1, <2>1, <2>2 DEF Session
    <2>5. ~Valid(t) => sessions'[t] = revoked
        BY <1>1, <2>3 DEF TablesOK
    <2>6. Valid(t) => sessions'[t] = slid \/ sessions'[t] = sessions[t]
        BY <1>1, <2>3 DEF TablesOK
    <2>7. \A u \in Tokens \ {t} : sessions'[u] = sessions[u]
        BY <1>1, <2>3 DEF TablesOK
    <2> HIDE DEF slid
    <2>8. \A u \in Tokens : SessionStep(u)
        BY <1>3, <2>4, <2>5, <2>6, <2>7 DEF SessionStep
    <2>9. sessions' \in [Tokens -> {sessions'[u] : u \in Tokens}]
        BY <1>1, <2>3 DEF TablesOK
    <2> QED
        BY <2>8, <2>9, SessionsInv
<1> QED
    BY <1>2, <1>3

LEMMA LogoutInv ==
    ASSUME StoreInv, NEW t \in Rows, sessions' = SessionsRevoked({t}), UNCHANGED <<accounts, opened, clock>>
    PROVE  StoreInv' /\ SessionsEnd
<1>1. \A u \in Tokens : SessionStep(u)
    BY DEF SessionStep, SessionsRevoked
<1>2. sessions' \in [Tokens -> {sessions'[u] : u \in Tokens}]
    BY DEF SessionsRevoked
<1> QED
    BY <1>1, <1>2, SessionsInv

LEMMA CreateSessionInv ==
    ASSUME StoreInv, opened, NEW i \in Present, accounts[i].enabled, NEW t \in Tokens, CreateSession(i, t),
           UNCHANGED <<accounts, opened, clock>>
    PROVE  StoreInv' /\ SessionsEnd
<1> DEFINE new == [user |-> i, epoch |-> accounts[i].epoch, seen |-> clock, idle |-> clock + IdleTtl,
                   absolute |-> clock + AbsoluteTtl, revoked |-> FALSE]
<1>1. TablesOK /\ clock \in Nat /\ accounts[i] \in Account /\ i \in Ids
    BY RowTypes DEF StoreInv
<1>2. new \in Session /\ new.user = i /\ new.epoch = accounts[i].epoch
    BY <1>1, TimesAssumption DEF Session, Account
<1>3. PICK T : sessions' = [SessionsDeleted(T) EXCEPT ![t] = new] /\ sessions[t] = None
    BY DEF CreateSession
<1> HIDE DEF new
<1>4. \A u \in Tokens : sessions'[u] = IF u = t THEN new ELSE IF u \in T THEN Gone ELSE sessions[u]
    BY <1>3 DEF SessionsDeleted
<1>5. \A u \in Tokens : SessionStep(u)
    BY <1>2, <1>3, <1>4 DEF SessionStep
<1>6. sessions' \in [Tokens -> {sessions'[u] : u \in Tokens}]
    BY <1>3 DEF SessionsDeleted
<1> QED
    BY <1>5, <1>6, SessionsInv
----------------------------------------------------------------------------
(* Opening the store.                                                      *)

\* A promotion happens before there are sessions, or not at all.
LEMMA MigrateInv ==
    ASSUME StoreInv, Migrate, opened' = TRUE, UNCHANGED clock
    PROVE  StoreInv' /\ SessionsEnd
<1>1. TablesOK /\ clock \in Nat
    BY DEF StoreInv
<1>2. PICK T : T \subseteq Rows /\ sessions' = SessionsDeleted(T)
    BY DEF Migrate
<1>3. \A t \in Tokens : sessions'[t] = IF t \in T THEN Gone ELSE sessions[t]
    BY <1>2 DEF SessionsDeleted
<1>4. Rows' = Rows \ T
    BY <1>3 DEF Rows
<1>5. sessions' \in [Tokens -> Session \cup {None, Gone}]
    BY <1>1, <1>2 DEF TablesOK, SessionsDeleted
<1>6. \A t \in Tokens : sessions[t] # None /\ ~Valid(t) /\ UNCHANGED accounts => ~Valid(t)'
    BY <1>3, <1>4 DEF Valid, Live, Present
<1>7. CASE UNCHANGED accounts /\ (Present = {} \/ ActiveOwners # {})
    <2>1. Present' = Present /\ ActiveOwners' = ActiveOwners
        BY <1>7 DEF Present, ActiveOwners
    <2>2. TablesOK'
        BY <1>1, <1>5, <1>7, <2>1 DEF TablesOK
    <2>3. OwnerRemains' /\ OpenedFirst'
        BY <1>7, <2>1 DEF OwnerRemains, OpenedFirst
    <2>4. LiveSessionsAreCurrent'
        BY <1>3, <1>4, <1>7, <2>1 DEF StoreInv, LiveSessionsAreCurrent, Rows
    <2> QED
        BY <1>1, <1>6, <1>7, <2>2, <2>3, <2>4 DEF StoreInv, SessionsEnd
<1>8. ASSUME NEW i \in Present, ActiveOwners = {},
             accounts' = [accounts EXCEPT ![i] = [@ EXCEPT !.role = "owner", !.enabled = TRUE]]
      PROVE  StoreInv' /\ SessionsEnd
    <2>1. Rows = {} /\ Rows' = {}
        BY <1>4, <1>8 DEF StoreInv, OwnerRemains, OpenedFirst
    <2> DEFINE a == [accounts[i] EXCEPT !.role = "owner", !.enabled = TRUE]
    <2>2. accounts' = [accounts EXCEPT ![i] = a]
        BY <1>8
    <2>3. accounts[i] \in Account /\ i \in Ids
        BY <1>1, RowTypes
    <2>4. a \in Account /\ a.role = "owner" /\ a.enabled = TRUE /\ a.name = accounts[i].name
        BY <2>3, RolesAssumption DEF Account
    <2> HIDE DEF a
    <2>5. \A j \in Ids : accounts'[j] = IF j = i THEN a ELSE accounts[j]
        BY <1>1, <2>2 DEF TablesOK
    <2>6. Present' = Present
        BY <2>3, <2>4, <2>5, MarkersAssumption DEF Present
    <2>7. TablesOK'
        <3>1. accounts' \in [Ids -> Account \cup {None, Gone}]
            BY <1>1, <2>2, <2>4 DEF TablesOK
        <3>2. \A j, k \in Present' : accounts'[j].name = accounts'[k].name => j = k
            BY <1>1, <2>4, <2>5, <2>6 DEF TablesOK, Present
        <3> QED
            BY <1>5, <3>1, <3>2 DEF TablesOK
    <2>8. OwnerRemains'
        BY <2>3, <2>4, <2>5, <2>6 DEF OwnerRemains, ActiveOwners
    <2>9. LiveSessionsAreCurrent' /\ OpenedFirst'
        BY <2>1 DEF LiveSessionsAreCurrent, OpenedFirst
    <2>10. SessionsEnd
        BY <2>1 DEF SessionsEnd, RowsOf, Valid, Live
    <2> QED
        BY <1>1, <2>7, <2>8, <2>9, <2>10 DEF StoreInv
<1> QED
    <2>1. CASE Promoted = {}
        <3>1. Present = {} \/ ActiveOwners # {}
            BY <2>1 DEF Promoted
        <3> QED
            BY <1>7, <2>1, <3>1 DEF Migrate
    <2>2. CASE Promoted # {}
        <3>1. ActiveOwners = {} /\ Promoted \subseteq Present
            BY <2>2 DEF Promoted
        <3> QED
            BY <1>8, <2>2, <3>1 DEF Migrate
    <2> QED
        BY <2>1, <2>2
----------------------------------------------------------------------------
(* All steps.                                                              *)

LEMMA InitStore == Init => StoreInv /\ RequestsNamed
<1> SUFFICES ASSUME Init PROVE StoreInv /\ RequestsNamed
    OBVIOUS
<1>1. /\ accounts \in [Ids -> {None} \cup [name : Names, role : Roles \ {"owner"}, enabled : {TRUE},
                                       epoch : {0}, secret : Secrets]]
      /\ \A i, j \in Ids : accounts[i] # None /\ accounts[j] # None /\ accounts[i].name = accounts[j].name
                             => i = j
    BY DEF Init
<1>2. accounts \in [Ids -> Account \cup {None, Gone}] /\ \A i, j \in Present : accounts[i].name = accounts[j].name => i = j
    <2> DEFINE Old == [name : Names, role : Roles \ {"owner"}, enabled : {TRUE}, epoch : {0}, secret : Secrets]
    <2>1. Old \subseteq Account
        <3>1. SUFFICES ASSUME NEW a \in Old PROVE a \in Account
            OBVIOUS
        <3>2. a = [name |-> a.name, role |-> a.role, enabled |-> a.enabled, epoch |-> a.epoch, secret |-> a.secret]
            OBVIOUS
        <3>3. a.name \in Names /\ a.role \in Roles /\ a.epoch \in Nat /\ a.secret \in Secrets
            OBVIOUS
        <3>4. a.enabled \in BOOLEAN
            <4>1. a.enabled = TRUE
                BY Zenon
            <4> QED
                BY <4>1
        <3> HIDE DEF Old
        <3> QED
            BY <3>2, <3>3, <3>4 DEF Account
    <2>2. accounts \in [Ids -> Account \cup {None, Gone}]
        <3>1. accounts \in [Ids -> {None} \cup Old]
            BY <1>1
        <3> HIDE DEF Old
        <3> QED
            BY <2>1, <3>1
    <2>3. \A i, j \in Present : accounts[i].name = accounts[j].name => i = j
        BY <1>1 DEF Present
    <2> QED
        BY <2>2, <2>3
<1>3. Rows = {}
    BY DEF Init, Rows
<1>4. TablesOK
    BY <1>2 DEF Init, TablesOK
<1>5. OwnerRemains /\ LiveSessionsAreCurrent /\ OpenedFirst /\ clock \in Nat
    BY <1>3 DEF Init, OwnerRemains, LiveSessionsAreCurrent, OpenedFirst
<1>6. RequestsNamed
    BY DEF Init, NoRequest, RequestsNamed, RequestStates
<1> QED
    BY <1>4, <1>5, <1>6 DEF StoreInv

\* A step of one request.
LEMMA OneRequestNamed ==
    ASSUME RequestsNamed, NEW r \in Requests, NEW q \in RequestStates, request' = [request EXCEPT ![r] = q],
           q.at \in {"create", "delete"} => q.name \in Names, q.at = "create" => q.role \in Roles
    PROVE  RequestsNamed'
BY DEF RequestsNamed

LEMMA RequestStepNamed ==
    ASSUME StoreInv, RequestsNamed, NEW r \in Requests, RequestStep(r)
    PROVE  RequestsNamed'
<1>1. request[r] \in RequestStates /\ TablesOK
    BY DEF RequestsNamed, StoreInv
<1>2. NoRequest \in RequestStates /\ NoRequest.at = "none"
    BY DEF NoRequest, RequestStates
<1>3. ASSUME NEW t \in Tokens, AuthorizeRequest(r, t) PROVE RequestsNamed'
    <2> DEFINE q == [NoRequest EXCEPT !.at = "authorized", !.token = t]
    <2>1. q \in RequestStates /\ q.at = "authorized"
        BY DEF NoRequest, RequestStates
    <2>2. request' = [request EXCEPT ![r] = q] \/ request' = request
        BY <1>3 DEF AuthorizeRequest
    <2> HIDE DEF q
    <2>3. CASE request' = request
        BY <2>3 DEF RequestsNamed
    <2> QED
        BY <2>1, <2>2, <2>3, OneRequestNamed
<1>4. CASE ConfirmRequest(r)
    <2> DEFINE q == [request[r] EXCEPT !.at = "confirmed"]
    <2>1. q \in RequestStates /\ q.at = "confirmed"
        BY <1>1 DEF RequestStates
    <2>2. request' = [request EXCEPT ![r] = q] \/ request' = [request EXCEPT ![r] = NoRequest]
        BY <1>4 DEF ConfirmRequest
    <2> HIDE DEF q
    <2> QED
        BY <1>2, <2>1, <2>2, OneRequestNamed
<1>5. CASE EnterRequest(r)
    <2>1. PICK o : /\ o = (Valid(request[r].token) /\ accounts[sessions[request[r].token].user].role = "owner")
                   /\ request' = [request EXCEPT ![r] = [request[r] EXCEPT !.at = "entered", !.owns = o]]
        BY <1>5 DEF EnterRequest
    <2>2. o \in BOOLEAN
        BY <2>1
    <2> DEFINE q == [request[r] EXCEPT !.at = "entered", !.owns = o]
    <2>3. q \in RequestStates /\ q.at = "entered"
        BY <1>1, <2>2 DEF RequestStates
    <2> HIDE DEF q
    <2> QED
        BY <2>1, <2>3, OneRequestNamed DEF q
<1>6. ASSUME NEW n \in Names, NEW role \in Roles \cup {None}, InspectCreate(r, n, role) PROVE RequestsNamed'
    <2> DEFINE found == {accounts[i].role : i \in Named(n)}
               effective == IF role # None THEN {role} ELSE IF found # {} THEN found ELSE {"viewer"}
               e == CHOOSE e \in effective : TRUE
               q == [request[r] EXCEPT !.at = "create", !.name = n, !.role = e]
    <2>1. found \subseteq Roles
        BY <1>1, RowTypes DEF Named, Account
    <2>2. effective \subseteq Roles /\ effective # {}
        BY <2>1, RolesAssumption
    <2>3. request' = [request EXCEPT ![r] = q] \/ request' = [request EXCEPT ![r] = NoRequest]
        BY <1>6 DEF InspectCreate
    <2> HIDE DEF effective
    <2>4. e \in Roles
        BY <2>2
    <2> HIDE DEF e
    <2>5. q \in RequestStates /\ q.name = n /\ q.role = e
        BY <1>1, <2>4 DEF RequestStates
    <2> HIDE DEF q
    <2> QED
        BY <1>2, <2>3, <2>4, <2>5, OneRequestNamed
<1>7. ASSUME NEW n \in Names, InspectDelete(r, n) PROVE RequestsNamed'
    <2> DEFINE q == [request[r] EXCEPT !.at = "delete", !.name = n]
    <2>1. q \in RequestStates /\ q.at = "delete" /\ q.name = n
        BY <1>1 DEF RequestStates
    <2>2. request' = [request EXCEPT ![r] = q] \/ request' = [request EXCEPT ![r] = NoRequest]
        BY <1>7 DEF InspectDelete
    <2> HIDE DEF q
    <2> QED
        BY <1>2, <2>1, <2>2, OneRequestNamed
<1>8. ASSUME NEW secret \in Secrets, ApplyRequest(r, secret) PROVE RequestsNamed'
    BY <1>2, <1>8, OneRequestNamed DEF ApplyRequest
<1> QED
    BY <1>3, <1>4, <1>5, <1>6, <1>7, <1>8 DEF RequestStep

\* A step that leaves the store, or changes it by one transaction.
LEMMA UnchangedInv ==
    ASSUME StoreInv, UNCHANGED <<stored, opened>>, clock' \in Nat, clock' >= clock
    PROVE  StoreInv' /\ SessionsEnd
<1>1. TablesOK /\ clock \in Nat
    BY DEF StoreInv
<1>2. Present' = Present /\ ActiveOwners' = ActiveOwners /\ Rows' = Rows
    BY DEF Present, ActiveOwners, Rows, stored
<1>3. TablesOK' /\ OwnerRemains' /\ LiveSessionsAreCurrent' /\ OpenedFirst'
    BY <1>2 DEF StoreInv, TablesOK, OwnerRemains, LiveSessionsAreCurrent, OpenedFirst, stored
<1>4. SessionsEnd
    <2>1. SUFFICES ASSUME NEW t \in Tokens, ~Valid(t), Valid(t)' PROVE FALSE
        BY DEF SessionsEnd, stored
    <2>2. t \in Rows /\ sessions' = sessions /\ ~sessions[t].revoked
        BY <1>2, <2>1 DEF Valid, Live, stored
    <2>3. clock >= sessions[t].idle \/ clock >= sessions[t].absolute
        BY <1>1, <2>1, <2>2, OverMeans DEF StoreInv
    <2>4. sessions[t].idle \in Nat /\ sessions[t].absolute \in Nat
        BY <1>1, <2>2, RowTypes DEF Session
    <2> QED
        BY <1>1, <2>1, <2>2, <2>3, <2>4 DEF Valid, Live
<1> QED
    BY <1>3, <1>4 DEF StoreInv

LEMMA RequestStepInv ==
    ASSUME StoreInv, RequestsNamed, opened, NEW r \in Requests, RequestStep(r)
    PROVE  StoreInv' /\ SessionsEnd
<1>1. UNCHANGED <<opened, clock>> /\ clock \in Nat
    BY DEF RequestStep, AuthorizeRequest, ConfirmRequest, EnterRequest, InspectCreate, InspectDelete,
           ApplyRequest, StoreInv
<1>2. CASE UNCHANGED stored
    BY <1>1, <1>2, UnchangedInv
<1>3. ASSUME NEW t \in Tokens, AuthorizeRequest(r, t) PROVE StoreInv' /\ SessionsEnd
    BY <1>1, <1>3, IdentifyInv DEF AuthorizeRequest
<1>4. CASE ConfirmRequest(r) \/ EnterRequest(r)
    <2>1. Identify(request[r].token) /\ UNCHANGED accounts
        BY <1>4 DEF ConfirmRequest, EnterRequest
    <2>2. CASE request[r].token \in Tokens
        BY <1>1, <2>1, <2>2, IdentifyInv
    <2>3. CASE request[r].token \notin Tokens
        BY <1>2, <2>1, <2>3 DEF Identify, Rows, stored
    <2> QED
        BY <2>2, <2>3
<1>5. ASSUME NEW n \in Names, (\E role \in Roles \cup {None} : InspectCreate(r, n, role)) \/ InspectDelete(r, n)
      PROVE  StoreInv' /\ SessionsEnd
    BY <1>2, <1>5 DEF InspectCreate, InspectDelete
<1>6. ASSUME NEW secret \in Secrets, ApplyRequest(r, secret) PROVE StoreInv' /\ SessionsEnd
    <2>1. CASE request[r].at = "create" /\ AddUser(request[r].name, secret, request[r].role)
        BY <1>1, <2>1, AddUserInv DEF RequestsNamed
    <2>2. CASE request[r].at = "delete" /\ RemoveUser(request[r].name)
        BY <1>1, <2>2, RemoveUserInv DEF RequestsNamed
    <2> QED
        BY <1>2, <1>6, <2>1, <2>2 DEF ApplyRequest
<1> QED
    BY <1>3, <1>4, <1>5, <1>6 DEF RequestStep

LEMMA AdministerInv ==
    ASSUME StoreInv, Administer
    PROVE  StoreInv' /\ SessionsEnd
<1>1. opened /\ UNCHANGED <<opened, clock>> /\ TablesOK
    BY DEF Administer, StoreInv
<1>2. \A n \in Names : \A i \in Named(n) :
          i \in Present /\ accounts[i].role \in Roles /\ accounts[i].enabled \in BOOLEAN /\ accounts[i].secret \in Secrets
    BY <1>1, RowTypes DEF Named, Account
<1>3. ASSUME NEW n \in Names, NEW secret \in Secrets, NEW role \in Roles, AddUser(n, secret, role)
      PROVE  StoreInv' /\ SessionsEnd
    BY <1>1, <1>3, AddUserInv
<1>4. ASSUME NEW n \in Names, NEW role \in Roles, SetUserRole(n, role) PROVE StoreInv' /\ SessionsEnd
    BY <1>1, <1>2, <1>4, ChangeInv DEF SetUserRole
<1>5. ASSUME NEW n \in Names, NEW enabled \in BOOLEAN, SetUserEnabled(n, enabled) PROVE StoreInv' /\ SessionsEnd
    BY <1>1, <1>2, <1>5, ChangeInv DEF SetUserEnabled
<1>6. ASSUME NEW n \in Names, NEW secret \in Secrets, SetPassword(n, secret) PROVE StoreInv' /\ SessionsEnd
    <2>1. PICK i \in Named(n) : Change(i, accounts[i].role, accounts[i].enabled, secret)
        BY <1>6 DEF SetPassword
    <2>2. ProtectsOwner(i, accounts[i].role, accounts[i].enabled)
        BY <1>2 DEF ProtectsOwner
    <2> QED
        BY <1>1, <1>2, <2>1, <2>2, ChangeInv
<1>7. ASSUME NEW n \in Names, RemoveUser(n) PROVE StoreInv' /\ SessionsEnd
    BY <1>1, <1>7, RemoveUserInv
<1> QED
    BY <1>3, <1>4, <1>5, <1>6, <1>7 DEF Administer

LEMMA LoginStepInv ==
    ASSUME StoreInv, opened, NEW l \in Logins, LoginStep(l)
    PROVE  StoreInv' /\ SessionsEnd /\ UNCHANGED request
<1>1. UNCHANGED <<opened, clock, request>> /\ clock \in Nat
    BY DEF LoginStep, CheckLogin, AcquirePermit, RecheckLogin, Verify, OpenSession, AnswerLogin, AbandonLogin,
           StoreInv
<1>2. CASE UNCHANGED stored
    BY <1>1, <1>2, UnchangedInv
<1>3. CASE OpenSession(l)
    BY <1>1, <1>2, <1>3, CreateSessionInv DEF OpenSession, Named, stored
<1> QED
    BY <1>1, <1>2, <1>3 DEF LoginStep, CheckLogin, AcquirePermit, RecheckLogin, Verify, AnswerLogin, AbandonLogin

Inv == StoreInv /\ RequestsNamed

LEMMA NextStore == Inv /\ [Next]_vars => Inv' /\ SessionsEnd
<1> SUFFICES ASSUME StoreInv, RequestsNamed, [Next]_vars PROVE StoreInv' /\ RequestsNamed' /\ SessionsEnd
    BY DEF Inv
<1>1. ASSUME UNCHANGED request PROVE RequestsNamed'
    BY <1>1 DEF RequestsNamed
<1>2. clock \in Nat
    BY DEF StoreInv
<1>3. CASE OpenStore
    <2>1. StoreInv' /\ SessionsEnd
        BY <1>3, MigrateInv DEF OpenStore
    <2>2. CASE UNCHANGED volatile
        BY <1>1, <2>1, <2>2 DEF volatile
    <2>3. CASE FreshServer
        <3>1. NoRequest \in RequestStates /\ NoRequest.at = "none"
            BY DEF NoRequest, RequestStates
        <3> QED
            BY <2>1, <2>3, <3>1 DEF FreshServer, RequestsNamed
    <2> QED
        BY <1>3, <2>2, <2>3 DEF OpenStore
<1>4. CASE Administer
    BY <1>1, <1>4, AdministerInv DEF Administer, volatile
<1>5. ASSUME opened, NEW l \in Logins, LoginStep(l) PROVE StoreInv' /\ RequestsNamed' /\ SessionsEnd
    BY <1>1, <1>5, LoginStepInv
<1>6. ASSUME opened, NEW r \in Requests, RequestStep(r) PROVE StoreInv' /\ RequestsNamed' /\ SessionsEnd
    BY <1>6, RequestStepInv, RequestStepNamed
<1>7. ASSUME NEW t \in Tokens, PresentToken(t) \/ Logout(t) PROVE StoreInv' /\ RequestsNamed' /\ SessionsEnd
    BY <1>1, <1>7, IdentifyInv, LogoutInv DEF PresentToken, Logout, volatile
<1>8. CASE Tick
    BY <1>1, <1>2, <1>8, UnchangedInv DEF Tick, volatile
<1>9. CASE UNCHANGED vars
    BY <1>1, <1>2, <1>9, UnchangedInv DEF vars, volatile
<1> QED
    BY <1>3, <1>4, <1>5, <1>6, <1>7, <1>8, <1>9 DEF Next

(* However accounts are created, demoted, disabled, removed and migrated,  *)
(* a workspace with accounts has an enabled owner                          *)
(* (protect_owner_transition and remove_user in auth.rs).                  *)
THEOREM AnOwnerRemains == Spec => []OwnerRemains
<1>1. Init => Inv
    BY InitStore DEF Inv
<1>2. Inv => OwnerRemains
    BY DEF Inv, StoreInv
<1> QED
    BY <1>1, <1>2, NextStore, PTL DEF Spec

(* A session that is not revoked belongs to an enabled account and carries *)
(* its present epoch (update_user_tx, create_session).                     *)
THEOREM SessionsAreCurrent == Spec => []LiveSessionsAreCurrent
<1>1. Init => Inv
    BY InitStore DEF Inv
<1>2. Inv => LiveSessionsAreCurrent
    BY DEF Inv, StoreInv
<1> QED
    BY <1>1, <1>2, NextStore, PTL DEF Spec

(* A token that is refused is never accepted again (identify_session and   *)
(* all that changes what it looks at).                                     *)
THEOREM TheDeadStayDead == Spec => DeadStaysDead
<1>1. Init => Inv
    BY InitStore DEF Inv
<1>2. SessionsEnd => \A t \in Tokens : sessions[t] # None /\ ~Valid(t) => ~Valid(t)'
    BY DEF SessionsEnd
<1> QED
    BY <1>1, <1>2, NextStore, PTL DEF Spec, DeadStaysDead

(* A change or the removal of an account ends its sessions.                *)
THEOREM ChangesEndSessions == Spec => ChangeEndsSessions
<1>1. Init => Inv
    BY InitStore DEF Inv
<1>2. SessionsEnd => \A i \in Present : accounts[i]' # accounts[i] => \A t \in RowsOf(i) : ~Valid(t)'
    BY DEF SessionsEnd
<1> QED
    BY <1>1, <1>2, NextStore, PTL DEF Spec, ChangeEndsSessions
----------------------------------------------------------------------------
(* Logins and the limiter: types.                                          *)

LoginStates ==
    [at : {"none", "checked", "admitted"} \cup Verifying, peer : Peers \cup {None}, name : Names \cup {None},
     awaited : BOOLEAN]

\* A login that is under way has a name and an address.
LoginsNamed ==
    /\ login \in [Logins -> LoginStates]
    /\ \A l \in Logins : login[l].at # "none" => login[l].peer \in Peers /\ login[l].name \in Names

Attempts == [count : 1..CountCap, blocked : Nat, seen : Nat]

LimiterOK == limiter \in [Keys -> Attempts \cup {None}] /\ overrun \in [Names -> Nat]

\* A power of two counts the subsets of a finite set.
LEMMA PowersAreNatural == ASSUME NEW n \in Nat PROVE 2 ^ n \in Nat
<1>1. IsFiniteSet(1..n) /\ Cardinality(1..n) = n
    <2>1. Cardinality(1..n) = IF 1 > n THEN 0 ELSE n - 1 + 1
        BY FS_Interval
    <2> QED
        BY <2>1, FS_Interval
<1>2. Cardinality(SUBSET (1..n)) = 2 ^ n /\ IsFiniteSet(SUBSET (1..n))
    BY <1>1, FS_SUBSET
<1> QED
    BY <1>2, FS_CardinalityType

\* The backoff of one more failure.
LEMMA FailureTyped ==
    ASSUME clock \in Nat, NEW e \in Attempts \cup {None}
    PROVE  OneMoreFailure(e) \in Attempts
<1> DEFINE count == IF e = None THEN 1 ELSE IF e.count < CountCap THEN e.count + 1 ELSE CountCap
<1>1. Threshold \in Nat \ {0} /\ MaxBackoff \in Nat \ {0} /\ CountCap \in Nat /\ CountCap >= 1
    BY TimesAssumption DEF CountCap
<1>2. count \in 1..CountCap
    BY <1>1 DEF Attempts
<1> HIDE DEF count
<1>3. count >= Threshold => Backoff(count) \in Nat
    <2> SUFFICES ASSUME count >= Threshold PROVE Backoff(count) \in Nat
        OBVIOUS
    <2>1. count - Threshold \in Nat
        BY <1>1, <1>2
    <2>2. 2 ^ (count - Threshold) \in Nat
        BY <2>1, PowersAreNatural
    <2> QED
        BY <1>1, <2>2 DEF Backoff
<1>4. e # None => e.blocked \in Nat
    BY DEF Attempts
<1> DEFINE blocked == IF count >= Threshold THEN clock + Backoff(count)
                      ELSE IF e = None THEN clock ELSE e.blocked
<1>5. blocked \in Nat
    BY <1>3, <1>4
<1>6. OneMoreFailure(e) = [count |-> count, seen |-> clock, blocked |-> blocked]
    BY DEF OneMoreFailure, count
<1> HIDE DEF blocked
<1> QED
    BY <1>2, <1>5, <1>6 DEF Attempts

\* prune_stale only forgets.
LEMMA PrunedTyped == LimiterOK => PrunedLimiter \in [Keys -> Attempts \cup {None}]
BY DEF LimiterOK, PrunedLimiter

\* A failure is recorded, or the attempts of a login are cleared.
LEMMA AnswerTyped ==
    ASSUME LimiterOK, clock \in Nat, NEW p \in Peers, NEW n \in Names,
           RecordFailure(p, n) \/ ClearAttempts(p, n)
    PROVE  LimiterOK'
<1>1. CASE ClearAttempts(p, n)
    BY <1>1 DEF ClearAttempts, LimiterOK
<1>2. CASE RecordFailure(p, n)
    <2> DEFINE lim == PrunedLimiter
    <2>1. lim \in [Keys -> Attempts \cup {None}]
        BY PrunedTyped
    <2> HIDE DEF lim
    <2>2. PICK v, w : limiter' = [k \in Keys |-> IF k \in {p, n} THEN OneMoreFailure(lim[k])
                                                ELSE IF k \in {v, w} THEN None ELSE lim[k]]
        BY <1>2 DEF RecordFailure, lim
    <2>3. \A k \in Keys : OneMoreFailure(lim[k]) \in Attempts
        BY <2>1, FailureTyped
    <2>4. overrun' \in [Names -> Nat]
        BY <1>2 DEF RecordFailure, LimiterOK
    <2> QED
        BY <2>1, <2>2, <2>3, <2>4 DEF LimiterOK
<1> QED
    BY <1>1, <1>2

\* A step of one login.
LEMMA OneLoginNamed ==
    ASSUME LoginsNamed, NEW l \in Logins, NEW q \in LoginStates, login' = [login EXCEPT ![l] = q],
           q.at # "none" => q.peer \in Peers /\ q.name \in Names
    PROVE  LoginsNamed'
BY DEF LoginsNamed

\* One step of a handler of logins.
LEMMA LoginStepTyped ==
    ASSUME LoginsNamed, LimiterOK, clock \in Nat, NEW l \in Logins, LoginStep(l)
    PROVE  LoginsNamed' /\ LimiterOK'
<1>1. login[l] \in LoginStates /\ (login[l].at # "none" => login[l].peer \in Peers /\ login[l].name \in Names)
      /\ login \in [Logins -> LoginStates]
    BY DEF LoginsNamed
<1>2. NoLogin \in LoginStates /\ NoLogin.at = "none"
    BY DEF NoLogin, LoginStates
<1>3. ASSUME NEW at \in {"admitted"} \cup Verifying, Goto(l, at), login[l].at # "none" PROVE LoginsNamed'
    <2> DEFINE q == [login[l] EXCEPT !.at = at]
    <2>1. login' = [login EXCEPT ![l] = q]
        BY <1>1, <1>3 DEF Goto
    <2>2. q \in LoginStates /\ q.peer = login[l].peer /\ q.name = login[l].name
        BY <1>1, <1>3 DEF LoginStates
    <2> HIDE DEF q
    <2> QED
        BY <1>1, <1>3, <2>1, <2>2, OneLoginNamed
<1>4. ASSUME login' = [login EXCEPT ![l] = NoLogin] PROVE LoginsNamed'
    BY <1>2, <1>4, OneLoginNamed
<1>5. ASSUME limiter' = PrunedLimiter, UNCHANGED overrun PROVE LimiterOK'
    BY <1>5, PrunedTyped DEF LimiterOK
<1>6. ASSUME UNCHANGED <<limiter, overrun>> PROVE LimiterOK'
    BY <1>6 DEF LimiterOK
<1>7. ASSUME NEW peer \in Peers, NEW name \in Names, CheckLogin(l, peer, name) PROVE LoginsNamed' /\ LimiterOK'
    <2> DEFINE q == [at |-> "checked", peer |-> peer, name |-> name, awaited |-> TRUE]
    <2>1. q \in LoginStates /\ q.peer = peer /\ q.name = name
        BY DEF LoginStates
    <2>2. login' = login \/ login' = [login EXCEPT ![l] = q]
        BY <1>7 DEF CheckLogin
    <2> HIDE DEF q
    <2>3. LoginsNamed'
        BY <2>1, <2>2, OneLoginNamed DEF LoginsNamed
    <2> QED
        BY <1>5, <1>7, <2>3 DEF CheckLogin
<1>8. CASE AcquirePermit(l)
    BY <1>3, <1>4, <1>6, <1>8 DEF AcquirePermit
<1>9. CASE RecheckLogin(l)
    BY <1>3, <1>4, <1>5, <1>9 DEF RecheckLogin, Verifying
<1>10. ASSUME NEW secret \in Secrets \cup {None}, Verify(l, secret) PROVE LoginsNamed' /\ LimiterOK'
    BY <1>3, <1>6, <1>10 DEF Verify, Verifying
<1>11. CASE OpenSession(l)
    BY <1>3, <1>6, <1>11 DEF OpenSession, Verifying
<1>12. CASE AnswerLogin(l)
    BY <1>1, <1>4, <1>6, <1>12, AnswerTyped DEF AnswerLogin
<1>13. CASE AbandonLogin(l)
    <2> DEFINE q == [login[l] EXCEPT !.awaited = FALSE]
    <2>1. login' = [login EXCEPT ![l] = q]
        BY <1>1, <1>13 DEF AbandonLogin
    <2>2. q \in LoginStates /\ q.peer = login[l].peer /\ q.name = login[l].name /\ q.at = login[l].at
        BY <1>1 DEF LoginStates
    <2> HIDE DEF q
    <2>3. LoginsNamed'
        BY <1>1, <2>1, <2>2, OneLoginNamed
    <2> QED
        BY <1>6, <1>13, <2>3 DEF AbandonLogin
<1> QED
    BY <1>7, <1>8, <1>9, <1>10, <1>11, <1>12, <1>13 DEF LoginStep

\* All of TypeOK, and what the store relies on.
TypeInv == Inv /\ LoginsNamed /\ LimiterOK /\ opened \in BOOLEAN /\ clock \in 0..MaxClock

\* A server that starts knows of no login.
LEMMA FreshTyped == FreshServer => LoginsNamed' /\ LimiterOK'
<1> SUFFICES ASSUME FreshServer PROVE LoginsNamed' /\ LimiterOK'
    OBVIOUS
<1>1. NoLogin \in LoginStates /\ NoLogin.at = "none"
    BY DEF NoLogin, LoginStates
<1> QED
    BY <1>1 DEF FreshServer, LoginsNamed, LimiterOK

LEMMA InitTyped == Init => TypeInv
<1> SUFFICES ASSUME Init PROVE TypeInv
    OBVIOUS
<1>1. NoLogin \in LoginStates /\ NoLogin.at = "none"
    BY DEF NoLogin, LoginStates
<1>2. LoginsNamed /\ LimiterOK
    BY <1>1 DEF Init, LoginsNamed, LimiterOK
<1>3. opened \in BOOLEAN /\ clock \in 0..MaxClock
    <2>1. opened \in BOOLEAN
        BY Zenon DEF Init
    <2>2. clock = 0
        BY DEF Init
    <2>3. MaxClock \in Nat
        BY TimesAssumption
    <2>4. clock \in 0..MaxClock
        BY <2>2, <2>3
    <2> QED
        BY <2>1, <2>4
<1> QED
    BY <1>2, <1>3, InitStore DEF TypeInv, Inv

LEMMA NextTyped == TypeInv /\ [Next]_vars => TypeInv'
<1> SUFFICES ASSUME TypeInv, [Next]_vars PROVE TypeInv'
    OBVIOUS
<1>1. Inv' /\ clock \in Nat
    BY NextStore, TimesAssumption DEF TypeInv
<1> USE DEF TypeInv
<1>2. ASSUME UNCHANGED <<limiter, overrun, login>> PROVE LoginsNamed' /\ LimiterOK'
    BY <1>2 DEF LoginsNamed, LimiterOK
<1>3. CASE OpenStore
    BY <1>1, <1>2, <1>3, FreshTyped DEF OpenStore, volatile
<1>4. CASE Administer
    BY <1>1, <1>2, <1>4 DEF Administer, volatile
<1>5. ASSUME NEW l \in Logins, LoginStep(l) PROVE TypeInv'
    <2>1. UNCHANGED <<opened, clock>>
        BY <1>5 DEF LoginStep, CheckLogin, AcquirePermit, RecheckLogin, Verify, OpenSession, AnswerLogin,
                    AbandonLogin
    <2> QED
        BY <1>1, <1>5, <2>1, LoginStepTyped
<1>6. ASSUME NEW r \in Requests, RequestStep(r) PROVE TypeInv'
    BY <1>1, <1>2, <1>6 DEF RequestStep, AuthorizeRequest, ConfirmRequest, EnterRequest, InspectCreate,
                            InspectDelete, ApplyRequest
<1>7. ASSUME NEW t \in Tokens, PresentToken(t) \/ Logout(t) PROVE TypeInv'
    BY <1>1, <1>2, <1>7 DEF PresentToken, Logout, volatile
<1>8. CASE Tick
    <2>1. clock' \in 0..MaxClock
        BY <1>8, TimesAssumption DEF Tick
    <2> QED
        BY <1>1, <1>2, <1>8, <2>1 DEF Tick, volatile
<1>9. CASE UNCHANGED vars
    BY <1>1, <1>2, <1>9 DEF vars, volatile
<1> QED
    BY <1>3, <1>4, <1>5, <1>6, <1>7, <1>8, <1>9 DEF Next

(* Every column, entry of the limiter, login and request has its type, and *)
(* a user name names one account (the tables of auth.rs, LoginRateLimiter, *)
(* the handlers that are under way).                                       *)
THEOREM TypeCorrect == Spec => []TypeOK
<1>1. TypeInv => TypeOK
    BY DEF TypeInv, Inv, StoreInv, TypeOK, LoginsNamed, LoginStates, LimiterOK, Attempts, RequestsNamed,
           RequestStates
<1> QED
    BY <1>1, InitTyped, NextTyped, PTL DEF Spec
----------------------------------------------------------------------------
(* Failures of a name that backs off: each comes from a verification that  *)
(* was under way when the backoff began.                                   *)

Failing(n) == {l \in PermitsHeld : login[l].at \in Verifying /\ login[l].name = n}

\* The permits are never overdrawn, and what a name that backs off has failed and may still fail
\* fits in the permits but one.
OverrunInv ==
    /\ Cardinality(PermitsHeld) <= Permits
    /\ \A n \in Names :
        /\ overrun[n] \in Nat /\ overrun[n] <= Permits - 1
        /\ BackingOff(limiter, n) => overrun[n] + Cardinality(Failing(n)) <= Permits - 1

\* The logins are finitely many.
LEMMA PermitsAreFinite ==
    /\ IsFiniteSet(PermitsHeld) /\ Cardinality(PermitsHeld) \in Nat
    /\ \A n : /\ Failing(n) \subseteq PermitsHeld /\ IsFiniteSet(Failing(n))
              /\ Cardinality(Failing(n)) \in Nat /\ Cardinality(Failing(n)) <= Cardinality(PermitsHeld)
<1>1. IsFiniteSet(PermitsHeld)
    BY LimiterAssumption, FS_Subset DEF PermitsHeld
<1>2. \A n : Failing(n) \subseteq PermitsHeld
    BY DEF Failing
<1> QED
    BY <1>1, <1>2, FS_Subset, FS_CardinalityType

\* A smaller finite set has the smaller cardinality, and one less without one of its members.
LEMMA FewerMembers ==
    ASSUME NEW S, NEW T, IsFiniteSet(S), T \subseteq S
    PROVE  /\ IsFiniteSet(T) /\ Cardinality(T) \in Nat /\ Cardinality(S) \in Nat /\ Cardinality(T) <= Cardinality(S)
           /\ \A x \in S : x \notin T => Cardinality(T) <= Cardinality(S) - 1
<1>1. IsFiniteSet(T) /\ Cardinality(T) \in Nat /\ Cardinality(S) \in Nat /\ Cardinality(T) <= Cardinality(S)
    BY FS_Subset, FS_CardinalityType
<1>2. ASSUME NEW x \in S, x \notin T PROVE Cardinality(T) <= Cardinality(S) - 1
    <2>1. IsFiniteSet(S \ {x}) /\ Cardinality(S \ {x}) = Cardinality(S) - 1
        BY <1>2, FS_RemoveElement
    <2>2. T \subseteq S \ {x}
        BY <1>2
    <2> QED
        BY <2>1, <2>2, FS_Subset
<1> QED
    BY <1>1, <1>2

\* A step that starts no verification of a name that backs off, and no backoff.
LEMMA OverrunShrinks ==
    ASSUME OverrunInv, UNCHANGED overrun, PermitsHeld' \subseteq PermitsHeld,
           \A n \in Names : BackingOff(limiter, n)' => BackingOff(limiter, n) /\ Failing(n)' \subseteq Failing(n)
    PROVE  OverrunInv'
<1>1. Permits \in Nat
    BY TimesAssumption
<1>2. Cardinality(PermitsHeld)' <= Permits
    BY <1>1, PermitsAreFinite, FewerMembers DEF OverrunInv
<1>3. ASSUME NEW n \in Names, BackingOff(limiter, n)'
      PROVE  overrun'[n] + Cardinality(Failing(n)') <= Permits - 1
    <2>1. /\ Cardinality(Failing(n)') <= Cardinality(Failing(n))
          /\ Cardinality(Failing(n)') \in Nat /\ Cardinality(Failing(n)) \in Nat
        BY <1>3, PermitsAreFinite, FewerMembers
    <2>2. overrun[n] + Cardinality(Failing(n)) <= Permits - 1 /\ overrun[n] \in Nat /\ overrun'[n] = overrun[n]
        BY <1>3 DEF OverrunInv
    <2> QED
        BY <1>1, <2>1, <2>2
<1> QED
    BY <1>2, <1>3 DEF OverrunInv

\* What prune_stale leaves was there.
LEMMA PrunedBacksOff ==
    ASSUME NEW n \in Names
    PROVE  BackingOff(PrunedLimiter, n) => BackingOff(limiter, n)
BY DEF BackingOff, PrunedLimiter, Keys

\* One more permit is handed out.
LEMMA OneMorePermit ==
    ASSUME OverrunInv, LoginsNamed, NEW l \in Logins, Cardinality(PermitsHeld) < Permits, Goto(l, "admitted"),
           UNCHANGED <<clock, limiter, overrun>>
    PROVE  OverrunInv'
<1>1. /\ login'[l] = [login[l] EXCEPT !.at = "admitted"] /\ login[l] \in LoginStates
      /\ \A m \in Logins \ {l} : login'[m] = login[m]
    BY DEF Goto, LoginsNamed
<1>2. PermitsHeld' \subseteq PermitsHeld \cup {l} /\ IsFiniteSet(PermitsHeld \cup {l})
      /\ Cardinality(PermitsHeld \cup {l}) <= Cardinality(PermitsHeld) + 1
    <2>1. PermitsHeld' \subseteq PermitsHeld \cup {l}
        BY <1>1 DEF PermitsHeld
    <2> QED
        BY <2>1, PermitsAreFinite, FS_AddElement
<1>3. Cardinality(PermitsHeld)' <= Permits
    <2>1. Permits \in Nat
        BY TimesAssumption
    <2> QED
        BY <1>2, <2>1, PermitsAreFinite, FewerMembers
<1>4. ASSUME NEW n \in Names, BackingOff(limiter, n)'
      PROVE  overrun'[n] + Cardinality(Failing(n)') <= Permits - 1
    <2>1. BackingOff(limiter, n)
        BY <1>4 DEF BackingOff
    <2>2. Failing(n)' \subseteq Failing(n)
        BY <1>1 DEF Failing, PermitsHeld, Verifying, LoginStates
    <2>3. /\ Cardinality(Failing(n)') <= Cardinality(Failing(n))
          /\ Cardinality(Failing(n)') \in Nat /\ Cardinality(Failing(n)) \in Nat
        BY <2>2, PermitsAreFinite, FewerMembers
    <2>4. overrun[n] + Cardinality(Failing(n)) <= Permits - 1 /\ overrun[n] \in Nat
        BY <1>4, <2>1 DEF OverrunInv
    <2>5. Permits \in Nat
        BY TimesAssumption
    <2> QED
        BY <2>3, <2>4, <2>5
<1> QED
    BY <1>3, <1>4 DEF OverrunInv

\* A wrong password is answered: a verification under way becomes a failure.
LEMMA FailureFits ==
    ASSUME OverrunInv, LoginsNamed, LimiterOK, NEW l \in PermitsHeld, login[l].at \in Verifying,
           RecordFailure(login[l].peer, login[l].name), login' = [login EXCEPT ![l] = NoLogin], UNCHANGED clock
    PROVE  OverrunInv'
<1>1. PICK p \in Peers, n \in Names : p = login[l].peer /\ n = login[l].name
    BY DEF LoginsNamed, PermitsHeld, Verifying
<1>2. l \in Logins /\ login'[l] = NoLogin /\ \A m \in Logins \ {l} : login'[m] = login[m]
    BY DEF LoginsNamed, PermitsHeld
<1>3. l \in Failing(n) /\ NoLogin.at = "none"
    BY <1>1 DEF Failing, NoLogin
<1>4. PermitsHeld' \subseteq PermitsHeld \ {l}
    BY <1>2, <1>3 DEF PermitsHeld, Verifying
<1>5. \A m : Failing(m)' \subseteq Failing(m) \ {l}
    BY <1>2, <1>3, <1>4 DEF Failing, Verifying
<1>6. Permits \in Nat /\ overrun \in [Names -> Nat]
    BY TimesAssumption DEF LimiterOK
<1>7. Cardinality(PermitsHeld)' <= Permits - 1 /\ Cardinality(PermitsHeld)' \in Nat
    <2>1. Cardinality(PermitsHeld') <= Cardinality(PermitsHeld) - 1 /\ Cardinality(PermitsHeld) \in Nat
          /\ Cardinality(PermitsHeld') \in Nat
        BY <1>4, PermitsAreFinite, FewerMembers
    <2> QED
        BY <1>6, <2>1 DEF OverrunInv
<1>8. ASSUME NEW m \in Names, m # n, BackingOff(limiter, m)'
      PROVE  BackingOff(limiter, m) /\ overrun'[m] = overrun[m] /\ Failing(m)' \subseteq Failing(m)
    <2>1. m # p /\ m \in Keys
        BY LimiterAssumption DEF Keys
    <2>2. limiter'[m] \in {None, PrunedLimiter[m]}
        BY <1>1, <1>8, <2>1 DEF RecordFailure
    <2>3. BackingOff(PrunedLimiter, m)
        BY <1>8, <2>2 DEF BackingOff
    <2> QED
        BY <1>1, <1>5, <1>6, <1>8, <2>3, PrunedBacksOff DEF RecordFailure
<1>9. ASSUME NEW m \in Names, m # n
      PROVE  /\ overrun'[m] \in Nat /\ overrun'[m] <= Permits - 1
             /\ BackingOff(limiter, m)' => overrun'[m] + Cardinality(Failing(m)') <= Permits - 1
    <2>1. overrun'[m] = overrun[m]
        BY <1>1, <1>6, <1>9 DEF RecordFailure
    <2>2. /\ Cardinality(Failing(m)') <= Cardinality(Failing(m))
          /\ Cardinality(Failing(m)') \in Nat /\ Cardinality(Failing(m)) \in Nat
        BY <1>5, PermitsAreFinite, FewerMembers
    <2> QED
        BY <1>6, <1>8, <1>9, <2>1, <2>2 DEF OverrunInv
<1>10. /\ overrun'[n] \in Nat /\ overrun'[n] <= Permits - 1
       /\ overrun'[n] + Cardinality(Failing(n)') <= Permits - 1
    <2>1. /\ Cardinality(Failing(n)') <= Cardinality(Failing(n)) - 1
          /\ Cardinality(Failing(n)') \in Nat /\ Cardinality(Failing(n)) \in Nat
        BY <1>3, <1>5, PermitsAreFinite, FewerMembers
    <2>2. CASE BackingOff(PrunedLimiter, n)
        <3>1. overrun'[n] = overrun[n] + 1
            BY <1>1, <1>6, <2>2 DEF RecordFailure
        <3>2. overrun[n] + Cardinality(Failing(n)) <= Permits - 1
            BY <2>2, PrunedBacksOff DEF OverrunInv
        <3> QED
            BY <1>6, <2>1, <3>1, <3>2
    <2>3. CASE ~BackingOff(PrunedLimiter, n)
        <3>1. overrun'[n] = 0
            BY <1>1, <1>6, <2>3 DEF RecordFailure
        <3>2. Failing(n)' \subseteq PermitsHeld' /\ IsFiniteSet(PermitsHeld')
            <4>1. Failing(n)' \subseteq PermitsHeld'
                BY DEF Failing
            <4>2. IsFiniteSet(PermitsHeld')
                BY <1>4, PermitsAreFinite, FewerMembers
            <4> QED
                BY <4>1, <4>2
        <3>3. Cardinality(Failing(n)') <= Cardinality(PermitsHeld')
            BY <3>2, FewerMembers
        <3> QED
            BY <1>6, <1>7, <2>1, <3>1, <3>3
    <2> QED
        BY <2>2, <2>3
<1> QED
    BY <1>6, <1>7, <1>9, <1>10 DEF OverrunInv

\* The permit is taken before the limiter is asked again, and given back with the answer.
LEMMA LoginStepOverrun ==
    ASSUME OverrunInv, LoginsNamed, LimiterOK, NEW l \in Logins, LoginStep(l)
    PROVE  OverrunInv'
<1>1. login[l] \in LoginStates /\ login \in [Logins -> LoginStates]
      /\ (login[l].at # "none" => login[l].peer \in Peers /\ login[l].name \in Names)
    BY DEF LoginsNamed
<1>2. NoLogin.at = "none"
    BY DEF NoLogin
<1>3. ASSUME login' = login \/ login' = [login EXCEPT ![l] = NoLogin]
      PROVE  PermitsHeld' \subseteq PermitsHeld /\ \A n : Failing(n)' \subseteq Failing(n)
    <2>1. CASE login' = login
        BY <2>1 DEF PermitsHeld, Failing
    <2>2. CASE login' = [login EXCEPT ![l] = NoLogin]
        <3>1. login'[l] = NoLogin /\ \A m \in Logins \ {l} : login'[m] = login[m]
            BY <1>1, <2>2
        <3> QED
            BY <1>2, <3>1 DEF PermitsHeld, Failing, Verifying
    <2> QED
        BY <1>3, <2>1, <2>2
<1>4. ASSUME NEW at \in Verifying, login[l].at \in Verifying, Goto(l, at)
      PROVE  PermitsHeld' \subseteq PermitsHeld /\ \A n : Failing(n)' \subseteq Failing(n)
    <2>1. login'[l] = [login[l] EXCEPT !.at = at] /\ \A m \in Logins \ {l} : login'[m] = login[m]
        BY <1>1, <1>4 DEF Goto
    <2>2. login'[l].at = at /\ login'[l].name = login[l].name /\ login'[l].awaited = login[l].awaited
        BY <1>1, <2>1 DEF LoginStates
    <2> QED
        BY <1>4, <2>1, <2>2 DEF PermitsHeld, Failing
<1>5. ASSUME UNCHANGED <<clock, limiter>> \/ (limiter' = PrunedLimiter /\ UNCHANGED clock), NEW n \in Names
      PROVE  BackingOff(limiter, n)' => BackingOff(limiter, n)
    <2>1. CASE UNCHANGED <<clock, limiter>>
        BY <2>1 DEF BackingOff
    <2>2. CASE limiter' = PrunedLimiter /\ UNCHANGED clock
        BY <2>2, PrunedBacksOff DEF BackingOff
    <2> QED
        BY <1>5, <2>1, <2>2
<1>6. ASSUME NEW peer \in Peers, NEW name \in Names, CheckLogin(l, peer, name) PROVE OverrunInv'
    <2>1. login[l].at = "none" /\ limiter' = PrunedLimiter /\ UNCHANGED <<clock, overrun>>
        BY <1>6 DEF CheckLogin
    <2>2. PermitsHeld' \subseteq PermitsHeld /\ \A n : Failing(n)' \subseteq Failing(n)
        <3>1. /\ \A m \in Logins \ {l} : login'[m] = login[m]
              /\ login'[l].at \in {"none", "checked"}
            BY <1>1, <1>6, <2>1 DEF CheckLogin
        <3> QED
            BY <3>1 DEF PermitsHeld, Failing, Verifying
    <2> QED
        BY <1>5, <2>1, <2>2, OverrunShrinks
<1>7. CASE AcquirePermit(l)
    <2>1. CASE Cardinality(PermitsHeld) < Permits
        BY <1>7, <2>1, OneMorePermit DEF AcquirePermit
    <2>2. CASE ~(Cardinality(PermitsHeld) < Permits)
        BY <1>3, <1>5, <1>7, <2>2, OverrunShrinks DEF AcquirePermit
    <2> QED
        BY <2>1, <2>2
<1>8. CASE RecheckLogin(l)
    <2>1. limiter' = PrunedLimiter /\ UNCHANGED <<clock, overrun>> /\ login[l].at = "admitted"
        BY <1>8 DEF RecheckLogin
    <2>2. CASE CheckPasses(l, PrunedLimiter)
        <3>1. login' = [login EXCEPT ![l].at = "verifying"]
            BY <1>8, <2>1, <2>2 DEF RecheckLogin, Goto
        <3>2. login'[l] = [login[l] EXCEPT !.at = "verifying"] /\ \A m \in Logins \ {l} : login'[m] = login[m]
            BY <1>1, <3>1
        <3>3. login'[l].name = login[l].name /\ login'[l].awaited = login[l].awaited
            BY <1>1, <3>2 DEF LoginStates
        <3>4. PermitsHeld' \subseteq PermitsHeld
            BY <2>1, <3>2, <3>3 DEF PermitsHeld
        <3>5. ASSUME NEW n \in Names, BackingOff(limiter, n)' PROVE Failing(n)' \subseteq Failing(n)
            <4>1. n # login[l].name
                BY <2>1, <2>2, <3>5 DEF CheckPasses, BackingOff
            <4>2. PermitsHeld \subseteq Logins
                BY DEF PermitsHeld
            <4> QED
                BY <3>2, <3>3, <3>4, <4>1, <4>2 DEF Failing
        <3> QED
            BY <1>5, <2>1, <3>4, <3>5, OverrunShrinks
    <2>3. CASE ~CheckPasses(l, PrunedLimiter)
        <3>1. login' = [login EXCEPT ![l] = NoLogin]
            BY <1>8, <2>1, <2>3 DEF RecheckLogin
        <3> QED
            BY <1>3, <1>5, <2>1, <3>1, OverrunShrinks
    <2> QED
        BY <2>2, <2>3
<1>9. ASSUME NEW secret \in Secrets \cup {None}, Verify(l, secret) PROVE OverrunInv'
    <2>1. PICK at \in Verifying : Goto(l, at)
        BY <1>9 DEF Verify, Verifying
    <2>2. login[l].at \in Verifying /\ UNCHANGED <<clock, limiter, overrun>>
        BY <1>9 DEF Verify, Verifying
    <2> QED
        BY <1>4, <1>5, <2>1, <2>2, OverrunShrinks
<1>10. CASE OpenSession(l)
    <2>1. PICK at \in Verifying : Goto(l, at)
        BY <1>10 DEF OpenSession, Verifying
    <2>2. login[l].at \in Verifying /\ UNCHANGED <<clock, limiter, overrun>>
        BY <1>10 DEF OpenSession, Verifying
    <2> QED
        BY <1>4, <1>5, <2>1, <2>2, OverrunShrinks
<1>11. CASE AnswerLogin(l)
    <2>1. login' = [login EXCEPT ![l] = NoLogin] /\ UNCHANGED clock /\ login[l].at \in Verifying
        BY <1>11 DEF AnswerLogin, Verifying
    <2>2. CASE UNCHANGED <<limiter, overrun>>
        BY <1>3, <1>5, <2>1, <2>2, OverrunShrinks
    <2>3. CASE ClearAttempts(login[l].peer, login[l].name)
        <3>1. \A n \in Names : limiter'[n] \in {None, limiter[n]}
            BY <2>3 DEF ClearAttempts, LimiterOK, Keys
        <3>2. \A n \in Names : BackingOff(limiter, n)' => BackingOff(limiter, n)
            BY <2>1, <3>1 DEF BackingOff
        <3> QED
            BY <1>3, <2>1, <2>3, <3>2, OverrunShrinks DEF ClearAttempts
    <2>4. CASE login[l].awaited /\ RecordFailure(login[l].peer, login[l].name)
        BY <2>1, <2>4, FailureFits DEF PermitsHeld
    <2> QED
        BY <1>11, <2>2, <2>3, <2>4 DEF AnswerLogin
<1>12. CASE AbandonLogin(l)
    <2>1. login' = [login EXCEPT ![l].awaited = FALSE] /\ UNCHANGED <<clock, limiter, overrun>>
        BY <1>12 DEF AbandonLogin
    <2>2. PermitsHeld' \subseteq PermitsHeld /\ \A n : Failing(n)' \subseteq Failing(n)
        <3>1. login'[l] = [login[l] EXCEPT !.awaited = FALSE] /\ \A m \in Logins \ {l} : login'[m] = login[m]
            BY <1>1, <2>1
        <3>2. login'[l].awaited = FALSE
            BY <1>1, <3>1 DEF LoginStates
        <3> QED
            BY <3>1, <3>2 DEF PermitsHeld, Failing
    <2> QED
        BY <1>5, <2>1, <2>2, OverrunShrinks
<1> QED
    BY <1>6, <1>7, <1>8, <1>9, <1>10, <1>11, <1>12 DEF LoginStep
----------------------------------------------------------------------------
(* The live sessions of an account.                                        *)

LiveOf(i) == {t \in RowsOf(i) : Live(t)}

\* Tokens are drawn in order.
LEMMA LeastToken ==
    ASSUME NEW S \in SUBSET Nat, S # {}
    PROVE  \E x \in S : \A y \in S : x <= y
<1> DEFINE R == OpToRel(<, Nat)
<1>1. IsWellFoundedOn(R, Nat)
    BY NatLessThanWellFounded
<1>2. \A x, y \in Nat : y < x => <<y, x>> \in R
    BY DEF OpToRel
<1> HIDE DEF R
<1>3. PICK x \in S : \A y \in S : ~(<<y, x>> \in R)
    BY <1>1, WFMin, Zenon
<1>4. \A y \in S : ~(y < x)
    BY <1>2, <1>3
<1> QED
    BY <1>4

\* Fewer than k members have fewer than k others above them, and the least of these; k in all.
LEMMA NewestAreFew ==
    ASSUME NEW S \in SUBSET Nat, IsFiniteSet(S), NEW k \in Nat
    PROVE  Cardinality({t \in S : Cardinality({u \in S : u > t}) < k}) <= k
<1> DEFINE K == {t \in S : Cardinality({u \in S : u > t}) < k}
<1>1. CASE K = {}
    <2>1. Cardinality(K) = 0
        BY <1>1, FS_EmptySet
    <2> QED
        BY <2>1
<1>2. CASE K # {}
    <2>1. PICK m \in K : \A y \in K : m <= y
        BY <1>2, LeastToken
    <2> DEFINE above == {u \in S : u > m}
    <2>2. Cardinality(above) < k
        BY <2>1
    <2>3. K \subseteq above \cup {m}
        <3>1. SUFFICES ASSUME NEW y \in K, y # m PROVE y \in above
            OBVIOUS
        <3>2. y \in S /\ y \in Nat /\ m \in Nat /\ m <= y
            BY <2>1
        <3>3. y > m
            BY <3>1, <3>2
        <3> QED
            BY <3>2, <3>3
    <2>4. IsFiniteSet(above) /\ m \notin above
        BY FS_Subset
    <2> HIDE DEF above, K
    <2>5. /\ IsFiniteSet(above \cup {m}) /\ Cardinality(above \cup {m}) = Cardinality(above) + 1
          /\ Cardinality(above) \in Nat
        BY <2>4, FS_AddElement, FS_CardinalityType
    <2>6. Cardinality(K) <= Cardinality(above \cup {m}) /\ Cardinality(K) \in Nat
        BY <2>3, <2>5, FewerMembers
    <2> QED
        BY <2>2, <2>5, <2>6 DEF K
<1> QED
    BY <1>1, <1>2

\* A row that is there after the step was there before, of the same account.
RowsStay == \A t \in Rows' : t \in Rows /\ sessions'[t].user = sessions[t].user

\* Revoking and deleting open no session.
LEMMA RevokedStay ==
    ASSUME TablesOK, NEW T \in SUBSET Rows, sessions' = SessionsRevoked(T) \/ sessions' = SessionsDeleted(T)
    PROVE  RowsStay
<1>1. Rows \subseteq Tokens /\ Rows' \subseteq Tokens /\ \A t \in Rows : sessions[t] \in Session
    BY RowTypes DEF Rows
<1>2. CASE sessions' = SessionsRevoked(T)
    <2>1. \A t \in Tokens : sessions'[t] = IF t \in T THEN [sessions[t] EXCEPT !.revoked = TRUE] ELSE sessions[t]
        BY <1>2 DEF SessionsRevoked
    <2>2. \A t \in T : [sessions[t] EXCEPT !.revoked = TRUE].user = sessions[t].user
        BY <1>1 DEF Session
    <2> QED
        BY <1>1, <2>1, <2>2 DEF RowsStay, Rows
<1>3. CASE sessions' = SessionsDeleted(T)
    <2>1. \A t \in Tokens : sessions'[t] = IF t \in T THEN Gone ELSE sessions[t]
        BY <1>3 DEF SessionsDeleted
    <2> QED
        BY <1>1, <2>1 DEF RowsStay, Rows
<1> QED
    BY <1>2, <1>3

\* Nor does a step that leaves the table alone.
LEMMA UnchangedStay ==
    ASSUME UNCHANGED sessions
    PROVE  RowsStay
BY DEF RowsStay, Rows

\* Nor does identify_session, which revokes or slides a session.
LEMMA IdentifiedStay ==
    ASSUME TablesOK, clock \in Nat, NEW t, Identify(t)
    PROVE  RowsStay
<1>1. CASE t \notin Rows
    BY <1>1, UnchangedStay DEF Identify
<1>2. CASE t \in Rows
    <2>1. sessions[t] \in Session /\ t \in Tokens
        BY <1>2, RowTypes
    <2>2. PICK q : sessions' = [sessions EXCEPT ![t] = q] /\ q.user = sessions[t].user
        <3> DEFINE limit == IF clock + IdleTtl < sessions[t].absolute THEN clock + IdleTtl ELSE sessions[t].absolute
                   revoked == [sessions[t] EXCEPT !.revoked = TRUE]
                   slid == [sessions[t] EXCEPT !.seen = clock, !.idle = limit]
        <3>1. sessions' = [sessions EXCEPT ![t] =
                  IF ~Valid(t) THEN revoked ELSE IF clock - sessions[t].seen >= TouchInterval THEN slid
                                                 ELSE sessions[t]]
            BY <1>2 DEF Identify
        <3> HIDE DEF limit
        <3>2. revoked.user = sessions[t].user /\ slid.user = sessions[t].user
            BY <2>1 DEF Session
        <3> HIDE DEF revoked, slid
        <3> QED
            BY <3>1, <3>2
    <2>3. sessions'[t] = q /\ \A u \in Tokens \ {t} : sessions'[u] = sessions[u]
        BY <2>1, <2>2 DEF TablesOK
    <2> QED
        BY <1>2, <2>2, <2>3 DEF RowsStay, Rows
<1> QED
    BY <1>1, <1>2

\* Of a session that is live after the step, its account is present, enabled and current: it is valid.
LEMMA LiveWasLive ==
    ASSUME StoreInv', SessionsEnd, RowsStay, NEW i
    PROVE  LiveOf(i)' \subseteq LiveOf(i)
<1>1. SUFFICES ASSUME NEW t \in LiveOf(i)' PROVE t \in LiveOf(i)
    OBVIOUS
<1>2. t \in Rows' /\ Live(t)' /\ sessions'[t].user = i
    BY <1>1 DEF LiveOf, RowsOf
<1>3. Valid(t)'
    BY <1>2 DEF StoreInv, LiveSessionsAreCurrent, Valid, Live
<1>4. t \in Rows /\ sessions[t].user = i /\ t \in Tokens /\ sessions[t] # None
    BY <1>2 DEF RowsStay, Rows
<1>5. Valid(t)
    BY <1>3, <1>4 DEF SessionsEnd
<1> QED
    BY <1>4, <1>5 DEF LiveOf, RowsOf, Valid

\* SessionsBounded, by account.
LiveInv == \A i \in Ids : Cardinality(LiveOf(i)) <= MaxSessions

\* The sessions of an account are some of the tokens.
LEMMA LiveAreFinite == \A i : IsFiniteSet(LiveOf(i)) /\ LiveOf(i) \subseteq Tokens
BY IdsAssumption, FS_Subset DEF LiveOf, RowsOf, Rows

\* With no session opened, the bound stays.
LEMMA LiveShrinks ==
    ASSUME StoreInv', SessionsEnd, RowsStay, LiveInv
    PROVE  LiveInv'
<1>1. SUFFICES ASSUME NEW i \in Ids PROVE Cardinality(LiveOf(i)') <= MaxSessions
    BY DEF LiveInv
<1>2. /\ Cardinality(LiveOf(i)') <= Cardinality(LiveOf(i))
      /\ Cardinality(LiveOf(i)') \in Nat /\ Cardinality(LiveOf(i)) \in Nat
    BY LiveWasLive, LiveAreFinite, FewerMembers
<1>3. Cardinality(LiveOf(i)) <= MaxSessions /\ MaxSessions \in Nat
    BY TimesAssumption DEF LiveInv
<1> QED
    BY <1>2, <1>3

\* A new session replaces those that trimming drops.
LEMMA CreatedIsBounded ==
    ASSUME StoreInv, LiveInv, NEW i \in Present, NEW t \in Tokens, CreateSession(i, t), UNCHANGED clock
    PROVE  LiveInv'
<1> DEFINE others == {u \in Rows \ RowsOf(i) : Live(u)}
           T == Rows \ (others \cup Kept(i))
           new == [user |-> i, epoch |-> accounts[i].epoch, seen |-> clock, idle |-> clock + IdleTtl,
                   absolute |-> clock + AbsoluteTtl, revoked |-> FALSE]
<1>1. sessions' = [SessionsDeleted(T) EXCEPT ![t] = new] /\ new.user = i /\ i \in Ids
    BY DEF CreateSession, Present
<1> HIDE DEF new
<1>2. \A u \in Tokens : sessions'[u] = IF u = t THEN new ELSE IF u \in T THEN Gone ELSE sessions[u]
    BY <1>1 DEF SessionsDeleted
<1>3. \A u \in Rows' : u \in Tokens /\ (u # t => u \in Rows /\ u \notin T /\ sessions'[u] = sessions[u])
    BY <1>2 DEF Rows
<1>4. LiveOf(i)' \subseteq Kept(i) \cup {t}
    <2>1. SUFFICES ASSUME NEW u \in LiveOf(i)', u # t PROVE u \in Kept(i)
        OBVIOUS
    <2>2. u \in Rows' /\ sessions'[u].user = i
        BY <2>1 DEF LiveOf, RowsOf
    <2>3. u \in RowsOf(i) /\ u \notin T
        BY <1>3, <2>1, <2>2 DEF RowsOf
    <2> QED
        BY <2>3 DEF RowsOf
<1>5. ASSUME NEW j \in Ids, j # i PROVE LiveOf(j)' \subseteq LiveOf(j)
    <2>1. SUFFICES ASSUME NEW u \in LiveOf(j)' PROVE u \in LiveOf(j)
        OBVIOUS
    <2>2. u \in Rows' /\ sessions'[u].user = j /\ Live(u)'
        BY <2>1 DEF LiveOf, RowsOf
    <2>3. u # t
        BY <1>1, <1>2, <1>5, <2>2
    <2> QED
        BY <1>3, <2>2, <2>3 DEF LiveOf, RowsOf, Live
<1>6. Cardinality(Kept(i)) <= MaxSessions - 1
    <2>1. LiveOf(i) \in SUBSET Nat /\ IsFiniteSet(LiveOf(i))
        BY LiveAreFinite, IdsAssumption
    <2>2. MaxSessions - 1 \in Nat
        BY TimesAssumption
    <2>3. Kept(i) = {u \in LiveOf(i) : Cardinality({v \in LiveOf(i) : v > u}) < MaxSessions - 1}
        BY DEF Kept, LiveOf
    <2> QED
        BY <2>1, <2>2, <2>3, NewestAreFew
<1>7. IsFiniteSet(Kept(i)) /\ Cardinality(Kept(i)) \in Nat
    <2>1. Kept(i) \subseteq LiveOf(i)
        BY DEF Kept, LiveOf
    <2> QED
        BY <2>1, LiveAreFinite, FewerMembers
<1>8. Cardinality(LiveOf(i)') <= MaxSessions
    <2>1. IsFiniteSet(Kept(i) \cup {t}) /\ Cardinality(Kept(i) \cup {t}) <= Cardinality(Kept(i)) + 1
        BY <1>7, FS_AddElement
    <2>2. /\ Cardinality(LiveOf(i)') <= Cardinality(Kept(i) \cup {t})
          /\ Cardinality(LiveOf(i)') \in Nat /\ Cardinality(Kept(i) \cup {t}) \in Nat
        BY <1>4, <2>1, FewerMembers
    <2>3. MaxSessions \in Nat
        BY TimesAssumption
    <2> QED
        BY <1>6, <1>7, <2>1, <2>2, <2>3
<1>9. ASSUME NEW j \in Ids, j # i PROVE Cardinality(LiveOf(j)') <= MaxSessions
    <2>1. /\ Cardinality(LiveOf(j)') <= Cardinality(LiveOf(j))
          /\ Cardinality(LiveOf(j)') \in Nat /\ Cardinality(LiveOf(j)) \in Nat
        BY <1>5, <1>9, LiveAreFinite, FewerMembers
    <2>2. Cardinality(LiveOf(j)) <= MaxSessions /\ MaxSessions \in Nat
        BY TimesAssumption DEF LiveInv
    <2> QED
        BY <2>1, <2>2
<1> QED
    BY <1>8, <1>9 DEF LiveInv

\* Every step but the end of a login leaves the rows as they are or fewer.
LEMMA NextStays ==
    ASSUME Inv, [Next]_vars
    PROVE  RowsStay \/ \E l \in Logins : OpenSession(l)
<1>1. TablesOK /\ clock \in Nat
    BY DEF Inv, StoreInv
<1>2. ASSUME NEW i, NEW role, NEW enabled, NEW secret, Change(i, role, enabled, secret) PROVE RowsStay
    BY <1>1, <1>2, RevokedStay DEF Change, RowsOf
<1>3. ASSUME NEW n, RemoveUser(n) PROVE RowsStay
    <2>1. PICK i : sessions' = SessionsDeleted(RowsOf(i))
        BY <1>3 DEF RemoveUser
    <2> QED
        BY <1>1, <2>1, RevokedStay DEF RowsOf
<1>4. ASSUME NEW n, NEW secret, NEW role, AddUser(n, secret, role) PROVE RowsStay
    BY <1>2, <1>4, UnchangedStay DEF AddUser
<1>5. CASE OpenStore
    <2>1. PICK T : T \subseteq Rows /\ sessions' = SessionsDeleted(T)
        BY <1>5 DEF OpenStore, Migrate
    <2> QED
        BY <1>1, <2>1, RevokedStay
<1>6. CASE Administer
    BY <1>2, <1>3, <1>4, <1>6 DEF Administer, SetUserRole, SetUserEnabled, SetPassword
<1>7. ASSUME NEW l \in Logins, LoginStep(l), ~OpenSession(l) PROVE RowsStay
    BY <1>7, UnchangedStay DEF LoginStep, CheckLogin, AcquirePermit, RecheckLogin, Verify, AnswerLogin,
                               AbandonLogin, stored
<1>8. ASSUME NEW r \in Requests, RequestStep(r) PROVE RowsStay
    <2>1. CASE UNCHANGED stored
        BY <2>1, UnchangedStay DEF stored
    <2>2. ASSUME NEW t, Identify(t) PROVE RowsStay
        BY <1>1, <2>2, IdentifiedStay
    <2>3. ASSUME NEW secret \in Secrets, ApplyRequest(r, secret) PROVE RowsStay
        BY <1>3, <1>4, <2>1, <2>3 DEF ApplyRequest
    <2> QED
        BY <1>8, <2>1, <2>2, <2>3 DEF RequestStep, AuthorizeRequest, ConfirmRequest, EnterRequest,
                                      InspectCreate, InspectDelete
<1>9. ASSUME NEW t \in Tokens, PresentToken(t) PROVE RowsStay
    BY <1>1, <1>9, IdentifiedStay DEF PresentToken
<1>10. ASSUME NEW t \in Tokens, Logout(t) PROVE RowsStay
    BY <1>1, <1>10, RevokedStay DEF Logout
<1>11. CASE Tick \/ UNCHANGED vars
    BY <1>11, UnchangedStay DEF Tick, vars, stored
<1> QED
    BY <1>5, <1>6, <1>7, <1>8, <1>9, <1>10, <1>11 DEF Next

\* A session is opened only by a login, which trims.
LEMMA NextLive == ASSUME Inv, LiveInv, [Next]_vars PROVE LiveInv'
<1>1. StoreInv' /\ SessionsEnd /\ StoreInv
    BY NextStore DEF Inv
<1>2. CASE RowsStay
    BY <1>1, <1>2, LiveShrinks
<1>3. ASSUME NEW l \in Logins, OpenSession(l) PROVE LiveInv'
    <2>1. CASE UNCHANGED sessions
        BY <1>1, <2>1, UnchangedStay, LiveShrinks
    <2>2. UNCHANGED clock
        BY <1>3 DEF OpenSession
    <2>3. CASE \E i \in Named(login[l].name), t \in Tokens : CreateSession(i, t)
        BY <1>1, <2>2, <2>3, CreatedIsBounded DEF Named
    <2> QED
        BY <1>3, <2>1, <2>3 DEF OpenSession
<1> QED
    BY <1>2, <1>3, NextStays

\* Nothing but a login touches the limiter; time and a restart end backoffs.
LEMMA NextOverrun == ASSUME TypeInv, OverrunInv, [Next]_vars PROVE OverrunInv'
<1>1. LoginsNamed /\ LimiterOK /\ clock \in Nat
    BY TimesAssumption DEF TypeInv
<1>2. ASSUME UNCHANGED <<limiter, overrun, login>>, clock' \in Nat, clock' >= clock PROVE OverrunInv'
    <2>1. PermitsHeld' = PermitsHeld /\ \A n : Failing(n)' = Failing(n)
        BY <1>2 DEF PermitsHeld, Failing
    <2>2. \A n \in Names : BackingOff(limiter, n)' => BackingOff(limiter, n)
        <3>1. SUFFICES ASSUME NEW n \in Names, BackingOff(limiter, n)' PROVE BackingOff(limiter, n)
            OBVIOUS
        <3>2. limiter[n] # None /\ limiter[n].blocked > clock'
            BY <1>2, <3>1 DEF BackingOff
        <3>3. limiter[n].blocked \in Nat
            BY <1>1, <3>2 DEF LimiterOK, Keys, Attempts
        <3> QED
            BY <1>1, <1>2, <3>2, <3>3 DEF BackingOff
    <2> QED
        BY <1>2, <2>1, <2>2, OverrunShrinks
<1>3. ASSUME FreshServer PROVE OverrunInv'
    <2>1. PermitsHeld' = {}
        BY <1>3 DEF FreshServer, PermitsHeld, NoLogin, Verifying
    <2>2. \A n \in Names : overrun'[n] = 0 /\ ~BackingOff(limiter, n)'
        BY <1>3 DEF FreshServer, BackingOff, Keys
    <2>3. Permits \in Nat /\ Permits >= 1
        BY TimesAssumption
    <2>4. Cardinality(PermitsHeld') = 0
        BY <2>1, FS_EmptySet
    <2> QED
        BY <2>2, <2>3, <2>4 DEF OverrunInv
<1>4. CASE OpenStore
    BY <1>1, <1>2, <1>3, <1>4 DEF OpenStore, volatile
<1>5. CASE Administer
    BY <1>1, <1>2, <1>5 DEF Administer, volatile
<1>6. ASSUME NEW l \in Logins, LoginStep(l) PROVE OverrunInv'
    BY <1>1, <1>6, LoginStepOverrun
<1>7. ASSUME NEW r \in Requests, RequestStep(r) PROVE OverrunInv'
    <2>1. UNCHANGED <<limiter, overrun, login, clock>>
        BY <1>7 DEF RequestStep, AuthorizeRequest, ConfirmRequest, EnterRequest, InspectCreate,
                    InspectDelete, ApplyRequest
    <2> QED
        BY <1>1, <1>2, <2>1
<1>8. ASSUME NEW t \in Tokens, PresentToken(t) \/ Logout(t) PROVE OverrunInv'
    BY <1>1, <1>2, <1>8 DEF PresentToken, Logout, volatile
<1>9. CASE Tick
    BY <1>1, <1>2, <1>9 DEF Tick, volatile
<1>10. CASE UNCHANGED vars
    BY <1>1, <1>2, <1>10 DEF vars, volatile
<1> QED
    BY <1>4, <1>5, <1>6, <1>7, <1>8, <1>9, <1>10 DEF Next

LEMMA InitLimits == Init => LiveInv /\ OverrunInv
<1> SUFFICES ASSUME Init PROVE LiveInv /\ OverrunInv
    OBVIOUS
<1>1. MaxSessions \in Nat /\ Permits \in Nat /\ Permits >= 1 /\ Cardinality({}) = 0
    BY TimesAssumption, FS_EmptySet
<1>2. \A i : LiveOf(i) = {}
    BY DEF Init, LiveOf, RowsOf, Rows
<1>3. PermitsHeld = {}
    BY DEF Init, PermitsHeld, NoLogin, Verifying
<1>4. \A n \in Names : overrun[n] = 0 /\ ~BackingOff(limiter, n)
    BY DEF Init, BackingOff, Keys
<1>5. Cardinality(PermitsHeld) = 0 /\ \A i : Cardinality(LiveOf(i)) = 0
    BY <1>1, <1>2, <1>3
<1> QED
    BY <1>1, <1>4, <1>5 DEF LiveInv, OverrunInv

(* However many logins end together, an account has at most as many live   *)
(* sessions as it may (trim_user_sessions_tx in the transaction that adds  *)
(* one), and a name that backs off sees at most the failures that were     *)
(* under way when it began to, one less than there are permits             *)
(* (check_login, asked again with the permit in hand).                     *)
THEOREM LimitsAreRespected == Spec => []LimitsHold
<1> DEFINE I == TypeInv /\ LiveInv /\ OverrunInv
<1>1. Init => I
    BY InitTyped, InitLimits
<1>2. I /\ [Next]_vars => I'
    BY NextTyped, NextLive, NextOverrun DEF TypeInv
<1>3. I => LimitsHold
    BY DEF LiveInv, LiveOf, OverrunInv, LimitsHold, SessionsBounded, OverrunBounded
<1> QED
    BY <1>1, <1>2, <1>3, PTL DEF Spec
=============================================================================
