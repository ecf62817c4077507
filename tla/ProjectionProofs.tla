-------------------------- MODULE ProjectionProofs --------------------------
(***************************************************************************)
(* Theorems about Projection, for any requests and mappings and any bounds *)
(* on changes, remappings and faults.                                      *)
(***************************************************************************)
EXTENDS Projection, TLAPS
----------------------------------------------------------------------------
(* Type correctness.                                                       *)

LEMMA InitTypeOK == Init => TypeOK
<1> SUFFICES ASSUME Init PROVE TypeOK
    OBVIOUS
<1>1. NoRequest \in RequestStates /\ NoRequest.at = "idle"
    BY DEF NoRequest, RequestStates
<1>2. NoBuild \in Builds /\ NoBuild.at = "idle" /\ NoBuild.temp = None
    BY DEF NoBuild, Builds
<1>3. installed = None /\ backup = None /\ missed \in BOOLEAN /\ built \in BOOLEAN
    BY DEF Init
<1>4. request \in [Requests -> RequestStates]
      /\ \A r \in Requests : request[r].at # "idle" => request[r].key # None
    BY <1>1 DEF Init
<1>5. builder \in Builds /\ (builder.temp = None <=> builder.at \in {"idle", "tracking", "tracked"})
    BY <1>2 DEF Init
<1> QED
    <2>1. data \in Nat /\ mapping \in Mappings /\ generation \in Nat /\ dirty \in {0, 1}
        BY MappingAssumption DEF Init
    <2>2. triggers \in BOOLEAN /\ trust \in Verdicts \cup {None}
        BY DEF Init
    <2>3. fresh \in Nat \ {0} /\ remaps \in Nat /\ faults \in Nat
        BY DEF Init
    <2> QED
        BY <1>3, <1>4, <1>5, <2>1, <2>2, <2>3, Zenon DEF TypeOK

\* What a name, a copy and the content of the database are.
LEMMA SourceTypes ==
    ASSUME TypeOK
    PROVE  /\ Content \in Contents
           /\ \A f \in Projections : Name(f) \in Names /\ f # None
           /\ \A n \in Names : n # None
BY NoneAssumption DEF TypeOK, Content, Contents, Name, Names, Projections

\* A change of the database is seen by the requests under way and leaves the rest of them.
LEMMA SeenType ==
    ASSUME TypeOK, NEW c \in Contents, Seen(c)
    PROVE  /\ request' \in [Requests -> RequestStates]
           /\ \A r \in Requests : request'[r].at # "idle" => request'[r].key # None
BY DEF Seen, TypeOK, RequestStates

LEMMA SourceTypeOK ==
    ASSUME TypeOK, ChangeRecords \/ \E m \in Mappings : Remap(m)
    PROVE  TypeOK'
<1>1. CASE ChangeRecords
    <2>1. [data |-> data + 1, mapping |-> mapping] \in Contents
        BY DEF TypeOK, Contents
    <2>2. /\ request' \in [Requests -> RequestStates]
          /\ \A r \in Requests : request'[r].at # "idle" => request'[r].key # None
        BY <1>1, <2>1, SeenType DEF ChangeRecords
    <2>3. generation' \in Nat /\ fresh' \in Nat \ {0} /\ dirty' \in {0, 1}
        BY <1>1 DEF ChangeRecords, Trigger, TypeOK
    <2>4. missed' \in BOOLEAN
        BY <1>1 DEF ChangeRecords, TypeOK
    <2> QED
        BY <1>1, <2>2, <2>3, <2>4 DEF ChangeRecords, TypeOK, fileVars
<1>2. ASSUME NEW m \in Mappings, Remap(m) PROVE TypeOK'
    <2>1. [data |-> data, mapping |-> m] \in Contents
        BY DEF TypeOK, Contents
    <2>2. /\ request' \in [Requests -> RequestStates]
          /\ \A r \in Requests : request'[r].at # "idle" => request'[r].key # None
        BY <1>2, <2>1, SeenType DEF Remap
    <2> QED
        BY <1>2, <2>2 DEF Remap, TypeOK, fileVars
<1> QED
    BY <1>1, <1>2

LEMMA BuildTypeOK ==
    ASSUME TypeOK, BuildStep
    PROVE  TypeOK'
<1> USE DEF TypeOK, Builds, sourceVars, fileVars, To, NoBuild
<1>1. CASE DropTriggers
    <2>1. generation' \in Nat /\ fresh' \in Nat \ {0} /\ dirty' \in {0, 1}
        BY <1>1 DEF DropTriggers
    <2>2. builder' \in Builds /\ builder'.temp = builder.temp /\ builder'.at = "tracking"
        BY <1>1 DEF DropTriggers
    <2> QED
        BY <1>1, <2>1, <2>2 DEF DropTriggers
<1>2. CASE CreateTriggers
    BY <1>2 DEF CreateTriggers
<1>3. CASE Copy
    <2>1. generation' \in Nat /\ fresh' \in Nat \ {0} /\ mapping \in Mappings /\ data \in Nat
        BY <1>3 DEF Copy
    <2>2. [generation |-> generation', mapping |-> mapping, data |-> data] \in Projections
        BY <2>1 DEF Projections
    <2> QED
        BY <1>3, <2>1, <2>2, NoneAssumption DEF Copy
<1>4. CASE CheckCopy
    BY <1>4 DEF CheckCopy
<1>5. CASE Lock
    BY <1>5 DEF Lock
<1>6. CASE RemoveStaleBackup
    BY <1>6 DEF RemoveStaleBackup
<1>7. CASE MoveAside
    BY <1>7 DEF MoveAside
<1>8. CASE MoveIn
    BY <1>8 DEF MoveIn
<1>9. CASE MoveInFails
    BY <1>9 DEF MoveInFails
<1>10. CASE RemoveBackup
    BY <1>10 DEF RemoveBackup
<1>11. CASE FailBuild
    BY <1>11 DEF FailBuild
<1> QED
    BY <1>1, <1>2, <1>3, <1>4, <1>5, <1>6, <1>7, <1>8, <1>9, <1>10, <1>11 DEF BuildStep

\* A request leaves the database, the files and the build alone.
LEMMA RequestFrame ==
    ASSUME NEW r \in Requests, RequestStep(r)
    PROVE  UNCHANGED <<sourceVars, fileVars, builder, faults>>
BY DEF RequestStep, Begin, ReadName, CheckCurrent, CheckProbe, CheckAgain, Compare, LookUpTrust, Probe,
       Confirm, Query, FallBack, Finish

\* What a step of a request leaves of it decides the types.
LEMMA OneRequestType ==
    ASSUME TypeOK, NEW r \in Requests, NEW q \in RequestStates, q.at # "idle" => q.key # None,
           request' = [request EXCEPT ![r] = q]
    PROVE  /\ request' \in [Requests -> RequestStates]
           /\ \A o \in Requests : request'[o].at # "idle" => request'[o].key # None
BY DEF TypeOK

LEMMA GoType ==
    ASSUME TypeOK, NEW r \in Requests, request[r].at # "idle",
           NEW at \in {"looking", "probing", "probe", "confirming", "asking", "query"},
           Go(r, at) \/ AnswerFromSqlite(r)
    PROVE  /\ request' \in [Requests -> RequestStates]
           /\ \A o \in Requests : request'[o].at # "idle" => request'[o].key # None
<1>1. request[r] \in RequestStates /\ request[r].key # None
    BY DEF TypeOK
<1>2. CASE Go(r, at)
    <2>1. [request[r] EXCEPT !.at = at, !.held = None] \in RequestStates
        BY <1>1 DEF RequestStates
    <2> QED
        BY <1>1, <1>2, <2>1, OneRequestType DEF Go, RequestStates
<1>3. CASE AnswerFromSqlite(r)
    <2>1. NoRequest \in RequestStates /\ NoRequest.at = "idle"
        BY DEF NoRequest, RequestStates
    <2> QED
        BY <1>3, <2>1, OneRequestType DEF AnswerFromSqlite
<1> QED
    BY <1>2, <1>3

LEMMA VerdictType ==
    ASSUME TypeOK, NEW r \in Requests, request[r].at # "idle", NEW ok \in BOOLEAN, Verdict(r, ok)
    PROVE  trust' \in Verdicts
<1>1. request[r].key \in Names
    BY DEF TypeOK, RequestStates
<1> QED
    BY <1>1 DEF Verdict, Verdicts

LEMMA RequestTypeOK ==
    ASSUME TypeOK, NEW r \in Requests, RequestStep(r)
    PROVE  TypeOK'
<1>1. UNCHANGED <<sourceVars, fileVars, builder, faults>>
    BY RequestFrame
<1>2. /\ request[r] \in RequestStates /\ trust \in Verdicts \cup {None}
      /\ request[r].at # "idle" => request[r].key # None
      /\ installed \in Projections \cup {None}
    BY DEF TypeOK
<1>3. SUFFICES
          /\ /\ request' \in [Requests -> RequestStates]
             /\ \A o \in Requests : request'[o].at # "idle" => request'[o].key # None
          /\ trust' \in Verdicts \cup {None}
    BY <1>1 DEF TypeOK, sourceVars, fileVars
<1>4. CASE Begin(r)
    <2> DEFINE q == [NoRequest EXCEPT !.at = "named", !.key = Name(installed), !.since = {Content}]
    <2>1. Name(installed) \in Names /\ Name(installed) # None /\ Content \in Contents
        BY <1>2, <1>4, SourceTypes DEF Begin, CanOpen
    <2>2. q \in RequestStates /\ q.key # None
        BY <2>1 DEF NoRequest, RequestStates
    <2> QED
        BY <1>2, <1>4, <2>2, OneRequestType DEF Begin
<1>5. CASE ReadName(r)
    <2> DEFINE q == [request[r] EXCEPT !.held = Name(installed)]
    <2>1. Name(installed) \in Names
        BY <1>2, <1>5, SourceTypes DEF ReadName, CanOpen
    <2>2. q \in RequestStates /\ q.at = request[r].at /\ q.key = request[r].key
        BY <1>2, <2>1 DEF RequestStates
    <2>3. request' = [request EXCEPT ![r] = q]
        BY <1>5 DEF ReadName
    <2> HIDE DEF q
    <2> QED
        BY <1>2, <1>5, <2>2, <2>3, OneRequestType DEF ReadName
<1>6. CASE CheckCurrent(r) \/ CheckProbe(r) \/ CheckAgain(r) \/ LookUpTrust(r)
    BY <1>2, <1>6, GoType DEF CheckCurrent, CheckProbe, CheckAgain, Compare, LookUpTrust
<1>7. CASE Probe(r)
    BY <1>2, <1>7, GoType, VerdictType DEF Probe
<1>8. CASE Confirm(r)
    <2>1. IsSource(request[r].held) \in BOOLEAN
        BY DEF TypeOK, IsSource
    <2> QED
        BY <1>8, <2>1, GoType, VerdictType DEF Confirm
<1>9. CASE Query(r)
    <2> DEFINE a == [data |-> installed.data, mapping |-> installed.mapping]
               q == [request[r] EXCEPT !.at = "answered", !.answer = a]
    <2>1. a \in Contents
        BY <1>2, <1>9 DEF Query, CanOpen, Projections, Contents
    <2>2. request' = [request EXCEPT ![r] = q]
        BY <1>9 DEF Query
    <2> HIDE DEF a
    <2>3. q \in RequestStates /\ q.key = request[r].key
        BY <1>2, <2>1 DEF RequestStates
    <2> HIDE DEF q
    <2> QED
        BY <1>2, <1>9, <2>2, <2>3, OneRequestType DEF Query
<1>10. CASE FallBack(r)
    BY <1>2, <1>10, GoType, VerdictType DEF FallBack
<1>11. CASE Finish(r)
    BY <1>2, <1>11, GoType DEF Finish
<1> QED
    BY <1>4, <1>5, <1>6, <1>7, <1>8, <1>9, <1>10, <1>11 DEF RequestStep

LEMMA NextTypeOK == TypeOK /\ [Next]_vars => TypeOK'
<1> SUFFICES ASSUME TypeOK, [Next]_vars PROVE TypeOK'
    OBVIOUS
<1>1. CASE ChangeRecords \/ \E m \in Mappings : Remap(m)
    BY <1>1, SourceTypeOK
<1>2. CASE BuildStep
    BY <1>2, BuildTypeOK
<1>3. CASE \E r \in Requests : RequestStep(r)
    BY <1>3, RequestTypeOK
<1>4. CASE Crash
    BY <1>4 DEF Crash, TypeOK, Builds, RequestStates, NoBuild, NoRequest, sourceVars, fileVars
<1>5. CASE UNCHANGED vars
    BY <1>5 DEF TypeOK, vars, sourceVars, fileVars
<1> QED
    BY <1>1, <1>2, <1>3, <1>4, <1>5 DEF Next

(* Every variable of the projection keeps its type, whatever is changed,   *)
(* built, asked and interrupted (the files and the state of the source in  *)
(* duckdb_olap.rs, the trust cache of server/olap.rs).                     *)
THEOREM TypeCorrect == Spec => []TypeOK
BY InitTypeOK, NextTypeOK, PTL DEF Spec
----------------------------------------------------------------------------
(* A projection survives a fault.                                          *)

\* While a replacement goes on without a fault there is one in place or, at the gap between
\* the two renames, aside; so the first fault finds one.
KeptInv ==
    /\ TypeOK
    /\ PreviousIsKept
    /\ built /\ faults = 0 => IF builder.at = "moving" THEN backup # None ELSE installed # None
    /\ builder.at = "placed" => installed # None

LEMMA InitKept == Init => KeptInv
BY InitTypeOK DEF Init, KeptInv, PreviousIsKept, NoBuild

LEMMA BuildKept == ASSUME KeptInv, BuildStep PROVE KeptInv'
<1> USE DEF KeptInv, PreviousIsKept, sourceVars, fileVars, NoBuild
<1>1. TypeOK /\ TypeOK'
    BY BuildTypeOK
<1>2. faults \in Nat /\ builder \in Builds
    BY DEF TypeOK
<1>3. \A at : To(at) => builder'.at = at
    BY <1>2 DEF To, Builds
<1>4. CASE DropTriggers \/ CreateTriggers \/ Copy \/ CheckCopy \/ Lock
    BY <1>1, <1>2, <1>3, <1>4 DEF DropTriggers, CreateTriggers, Copy, CheckCopy, Lock
<1>5. CASE RemoveStaleBackup
    BY <1>1, <1>2, <1>3, <1>5 DEF RemoveStaleBackup
<1>6. CASE MoveAside
    BY <1>1, <1>2, <1>3, <1>6 DEF MoveAside
<1>7. CASE MoveIn
    <2>1. installed' # None
        BY <1>7 DEF MoveIn, TypeOK
    <2> QED
        BY <1>1, <1>2, <1>3, <1>7, <2>1 DEF MoveIn
<1>8. CASE MoveInFails
    <2>1. CASE ~built
        BY <1>1, <1>8, <2>1 DEF MoveInFails
    <2>2. CASE built /\ faults = 0
        <3>1. backup # None /\ faults' = 1 /\ builder'.at = "idle"
            BY <1>8, <2>2 DEF MoveInFails
        <3>2. installed' # None \/ backup' # None
            BY <1>8, <3>1 DEF MoveInFails
        <3> QED
            BY <1>1, <3>1, <3>2
    <2>3. CASE built /\ faults # 0
        <3>1. faults' > 1
            BY <1>2, <1>8, <2>3 DEF MoveInFails
        <3> QED
            BY <1>1, <1>8, <3>1 DEF MoveInFails
    <2> QED
        BY <1>1, <2>1, <2>2, <2>3 DEF TypeOK
<1>9. CASE RemoveBackup
    BY <1>1, <1>2, <1>9 DEF RemoveBackup
<1>10. CASE FailBuild
    BY <1>1, <1>2, <1>10 DEF FailBuild
<1> QED
    BY <1>4, <1>5, <1>6, <1>7, <1>8, <1>9, <1>10 DEF BuildStep

LEMMA NextKept == KeptInv /\ [Next]_vars => KeptInv'
<1> SUFFICES ASSUME KeptInv, [Next]_vars PROVE KeptInv'
    OBVIOUS
<1>1. TypeOK'
    BY NextTypeOK DEF KeptInv
<1>2. CASE BuildStep
    BY <1>2, BuildKept
<1>3. CASE Crash
    BY <1>1, <1>3 DEF Crash, NoBuild, TypeOK, KeptInv, PreviousIsKept, sourceVars, fileVars
<1>4. ASSUME UNCHANGED <<fileVars, builder, faults>> PROVE KeptInv'
    BY <1>1, <1>4 DEF KeptInv, PreviousIsKept, fileVars
<1>5. CASE ChangeRecords \/ \E m \in Mappings : Remap(m)
    BY <1>4, <1>5 DEF ChangeRecords, Remap
<1>6. CASE \E r \in Requests : RequestStep(r)
    BY <1>4, <1>6, RequestFrame
<1>7. CASE UNCHANGED vars
    BY <1>4, <1>7 DEF vars
<1> QED
    BY <1>2, <1>3, <1>5, <1>6, <1>7 DEF Next

(* One crash or one failing rename, at whatever point of a replacement,    *)
(* leaves a whole projection (the renames and the restoration of           *)
(* duckdb_olap.rs).                                                        *)
THEOREM PreviousSurvives == Spec => []PreviousIsKept
<1>1. KeptInv => PreviousIsKept
    BY DEF KeptInv
<1> QED
    BY <1>1, InitKept, NextKept, PTL DEF Spec
----------------------------------------------------------------------------
(* Answers are fresh.                                                      *)

Live == <<generation, mapping>>
Copies == {installed, backup, builder.temp} \ {None}

\* The copies that are in place or may come to be.
Usable == ({installed, builder.temp} \cup IF builder.at = "moving" THEN {backup} ELSE {}) \ {None}

\* b was named after a, or at the same time; once mapped anew, always so, while that happened once.
Upto(a, b) == a[1] <= b[1] /\ (remaps <= 1 /\ a[2] # FirstMapping => b[2] = a[2])

\* The records of copy f are of since, with the mapping of that time.
Fresh(f, since) ==
    \E c \in since : f.data = c.data /\ (remaps <= 1 => f.mapping = c.mapping)

GenerationsAreDrawn == generation < fresh /\ (builder.at # "idle" => generation # 0)
MappedOnce == remaps = 0 => mapping = FirstMapping
CopiesAreOlder == \A f \in Copies : f.generation # 0 /\ Upto(Name(f), Live)

\* What a current generation is for: the copy it names has the records of now.
CurrentIsExact ==
    \A f \in Copies : ~missed /\ dirty = 0 /\ f.generation = generation => f.data = data

TempIsNewest ==
    installed # None /\ builder.temp # None => Upto(Name(installed), Name(builder.temp))

\* The copy of a name that was read may be replaced, but by newer ones only.
HeldIsOlder ==
    \A r \in Requests : request[r].held # None =>
        /\ Upto(request[r].held, Live)
        /\ \A f \in Usable : Upto(request[r].held, Name(f))

NowIsSeen == \A r \in Requests : request[r].at # "idle" => Content \in request[r].since

\* Past the last check, whatever is or comes in place is fresh enough.
QueriedAreFresh ==
    \A r \in Requests : request[r].at = "query" /\ ~missed =>
        \A f \in Usable : Fresh(f, request[r].since)

FilesInv == GenerationsAreDrawn /\ MappedOnce /\ CopiesAreOlder /\ CurrentIsExact /\ TempIsNewest
AskedInv == HeldIsOlder /\ NowIsSeen /\ QueriedAreFresh /\ AnswersAreFresh
FreshInv == TypeOK /\ FilesInv /\ AskedInv

LEMMA InitFresh == Init => FreshInv
<1> SUFFICES ASSUME Init PROVE FreshInv
    OBVIOUS
<1>1. Copies = {} /\ Usable = {}
    BY DEF Init, NoBuild, Copies, Usable
<1>2. \A r \in Requests : request[r].at = "idle" /\ request[r].held = None
    BY DEF Init, NoRequest
<1>3. FilesInv
    BY <1>1 DEF Init, NoBuild, FilesInv, GenerationsAreDrawn, MappedOnce, CopiesAreOlder, CurrentIsExact,
                TempIsNewest
<1>4. AskedInv
    BY <1>2 DEF AskedInv, HeldIsOlder, NowIsSeen, QueriedAreFresh, AnswersAreFresh
<1> QED
    BY <1>3, <1>4, InitTypeOK DEF FreshInv

\* The types of what follows, in one place.
LEMMA CopyTypes ==
    ASSUME TypeOK
    PROVE  /\ Copies \subseteq Projections /\ Usable \subseteq Copies
           /\ \A f \in Copies : Name(f) = <<f.generation, f.mapping>>
           /\ \A f \in Copies : f.generation \in Nat /\ f.mapping \in Mappings /\ f.data \in Nat
           /\ \A r \in Requests : request[r].held # None =>
                 request[r].held[1] \in Nat /\ request[r].held[2] \in Mappings
<1>1. Copies \subseteq Projections
    BY DEF TypeOK, Copies, Builds
<1>2. \A r \in Requests : request[r].held \in Names \cup {None}
    BY DEF TypeOK, RequestStates
<1> QED
    BY <1>1, <1>2 DEF Copies, Usable, Name, Projections, Names

LEMMA UptoTransitive ==
    ASSUME NEW a, NEW b, NEW c, a[1] \in Nat, b[1] \in Nat, c[1] \in Nat, Upto(a, b), Upto(b, c)
    PROVE  Upto(a, c)
BY DEF Upto
----------------------------------------------------------------------------
\* A step of the build that neither copies nor touches the database only moves copies about.
LEMMA MoveFresh ==
    ASSUME FreshInv, TypeOK', UNCHANGED <<sourceVars, request>>,
           builder'.at # "idle" => builder.at # "idle",
           Copies' \subseteq Copies, Usable' \subseteq Usable,
           installed' # None /\ builder'.temp # None
               => installed' = builder'.temp \/ (installed' = installed /\ builder'.temp = builder.temp)
    PROVE  FreshInv'
<1> USE DEF sourceVars, Live, Upto, Name
<1>1. GenerationsAreDrawn' /\ MappedOnce'
    BY DEF FreshInv, FilesInv, GenerationsAreDrawn, MappedOnce
<1>2. CopiesAreOlder' /\ CurrentIsExact'
    BY DEF FreshInv, FilesInv, CopiesAreOlder, CurrentIsExact
<1>3. TempIsNewest'
    <2>1. SUFFICES ASSUME installed' # None, builder'.temp # None
                   PROVE  Upto(Name(installed), Name(builder.temp))'
        BY DEF TempIsNewest
    <2>2. CASE installed' = builder'.temp
        <3>1. installed' \in Projections
            BY <2>1 DEF TypeOK
        <3> QED
            BY <2>2, <3>1 DEF Projections
    <2>3. CASE installed' = installed /\ builder'.temp = builder.temp
        BY <2>1, <2>3 DEF FreshInv, FilesInv, TempIsNewest
    <2> QED
        BY <2>1, <2>2, <2>3
<1>4. HeldIsOlder' /\ NowIsSeen'
    BY DEF FreshInv, AskedInv, HeldIsOlder, NowIsSeen, Content
<1>5. QueriedAreFresh' /\ AnswersAreFresh'
    BY DEF FreshInv, AskedInv, QueriedAreFresh, AnswersAreFresh, Fresh
<1> QED
    BY <1>1, <1>2, <1>3, <1>4, <1>5 DEF FreshInv, FilesInv, AskedInv

\* A change that is seen adds to what requests may answer.
LEMMA SeenGrows ==
    ASSUME TypeOK, NEW c, Seen(c), NEW r \in Requests
    PROVE  /\ request'[r].at = request[r].at /\ request'[r].held = request[r].held
           /\ request'[r].answer = request[r].answer
           /\ request[r].since \subseteq request'[r].since
           /\ request[r].at # "idle" => c \in request'[r].since
BY DEF Seen, TypeOK, RequestStates

\* A change of the database alone: copies grow older, requests see the change.
LEMMA ChangeFresh ==
    ASSUME FreshInv, TypeOK', UNCHANGED <<fileVars, builder>>, Seen(Content'),
           generation <= generation', generation' < fresh', missed => missed',
           remaps' >= remaps, remaps' = 0 => mapping' = FirstMapping,
           \A n \in Names : Upto(n, Live) => Upto(n, Live)',
           CurrentIsExact'
    PROVE  FreshInv'
<1> USE DEF fileVars
<1>0. TypeOK /\ remaps \in Nat /\ remaps' \in Nat /\ generation \in Nat /\ generation' \in Nat
    BY DEF FreshInv, TypeOK
<1>1. GenerationsAreDrawn' /\ MappedOnce'
    BY <1>0 DEF FreshInv, FilesInv, GenerationsAreDrawn, MappedOnce
<1>2. Copies' = Copies /\ Usable' = Usable
    BY DEF Copies, Usable
<1>3. \A f \in Copies : Name(f)' = Name(f) /\ Name(f) \in Names
    BY <1>0, CopyTypes DEF Name, Names
<1>4. CopiesAreOlder'
    BY <1>2, <1>3 DEF FreshInv, FilesInv, CopiesAreOlder
<1>5. \A a, b : Upto(a, b) => Upto(a, b)'
    BY <1>0 DEF Upto
<1>6. TempIsNewest'
    BY <1>5 DEF FreshInv, FilesInv, TempIsNewest, Name
<1>7. \A r \in Requests :
          /\ request'[r].at = request[r].at /\ request'[r].held = request[r].held
          /\ request'[r].answer = request[r].answer
          /\ request[r].since \subseteq request'[r].since
          /\ request[r].at # "idle" => Content' \in request'[r].since
    BY <1>0, SeenGrows
<1>8. HeldIsOlder'
    <2>1. \A r \in Requests : request[r].held # None => request[r].held \in Names
        BY <1>0 DEF TypeOK, RequestStates
    <2> QED
        BY <1>2, <1>3, <1>5, <1>7, <2>1 DEF FreshInv, AskedInv, HeldIsOlder
<1>9. NowIsSeen'
    BY <1>7 DEF NowIsSeen
<1>10. QueriedAreFresh'
    <2>1. \A r \in Requests, f \in Usable : Fresh(f, request[r].since) => Fresh(f, request[r].since)'
        BY <1>0, <1>7 DEF Fresh
    <2> QED
        BY <1>2, <1>7, <2>1 DEF FreshInv, AskedInv, QueriedAreFresh
<1>11. AnswersAreFresh'
    BY <1>0, <1>7 DEF FreshInv, AskedInv, AnswersAreFresh
<1> QED
    BY <1>1, <1>4, <1>6, <1>8, <1>9, <1>10, <1>11 DEF FreshInv, FilesInv, AskedInv

LEMMA ChangeRecordsFresh == ASSUME FreshInv, ChangeRecords PROVE FreshInv'
<1>1. TypeOK /\ TypeOK'
    BY SourceTypeOK DEF FreshInv
<1>2. UNCHANGED <<mapping, remaps, fileVars, builder>> /\ Seen(Content')
    BY DEF ChangeRecords, Content
<1>3. /\ generation \in Nat /\ fresh \in Nat /\ generation < fresh /\ MappedOnce
      /\ \A f \in Copies : f.generation \in Nat /\ f.generation # 0 /\ f.generation <= generation
    BY <1>1, CopyTypes DEF TypeOK, FreshInv, FilesInv, GenerationsAreDrawn, CopiesAreOlder, Upto, Name, Live
<1>4. Copies' = Copies
    BY <1>2 DEF Copies, fileVars
<1>5. generation <= generation' /\ generation' < fresh' /\ (missed => missed')
    <2>1. generation <= generation' /\ generation' < fresh'
        BY <1>3 DEF ChangeRecords, Trigger
    <2>2. missed => missed'
        BY DEF ChangeRecords
    <2> QED
        BY <2>1, <2>2
<1>6. CurrentIsExact'
    <2>1. CASE generation = 0
        <3>1. Copies = {}
            BY <1>3, <2>1
        <3> QED
            BY <1>4, <3>1 DEF CurrentIsExact
    <2>2. CASE generation # 0 /\ Trigger
        <3>1. dirty' # 0 \/ generation < generation'
            BY <1>3, <2>2 DEF Trigger
        <3>2. dirty' # 0
            BY <2>2 DEF Trigger
        <3> QED
            BY <3>2 DEF CurrentIsExact
    <2>3. CASE generation # 0 /\ missed'
        BY <2>3 DEF CurrentIsExact
    <2> QED
        BY <2>1, <2>2, <2>3 DEF ChangeRecords
<1>7. \A n \in Names : Upto(n, Live) => Upto(n, Live)'
    BY <1>2, <1>3, <1>5, <1>1 DEF Upto, Live, Names, TypeOK
<1>8. remaps' >= remaps /\ (remaps' = 0 => mapping' = FirstMapping)
    BY <1>1, <1>2, <1>3 DEF TypeOK, MappedOnce
<1> QED
    BY <1>1, <1>2, <1>5, <1>6, <1>7, <1>8, ChangeFresh

\* After the first remapping, copies of the mapping before it are all there are.
LEMMA RemapFresh == ASSUME FreshInv, NEW m \in Mappings, Remap(m) PROVE FreshInv'
<1>1. TypeOK /\ TypeOK'
    BY SourceTypeOK DEF FreshInv
<1>2. /\ UNCHANGED <<data, generation, dirty, fresh, missed, fileVars, builder>>
      /\ remaps' = remaps + 1 /\ Seen(Content') /\ remaps \in Nat
    BY <1>1 DEF Remap, Content, TypeOK
<1>3. CurrentIsExact'
    BY <1>2 DEF FreshInv, FilesInv, CurrentIsExact, Copies, fileVars
<1>4. \A n \in Names : Upto(n, Live) => Upto(n, Live)'
    <2>1. remaps' <= 1 => remaps = 0 /\ mapping = FirstMapping
        BY <1>2 DEF FreshInv, FilesInv, MappedOnce
    <2> QED
        BY <1>2, <2>1 DEF Upto, Live
<1>5. generation <= generation' /\ generation' < fresh'
    BY <1>1, <1>2 DEF TypeOK, FreshInv, FilesInv, GenerationsAreDrawn
<1> QED
    BY <1>1, <1>2, <1>3, <1>4, <1>5, ChangeFresh

\* Triggers go; a database without a generation gets one, and there is no copy of it yet.
LEMMA DropTriggersFresh == ASSUME FreshInv, DropTriggers PROVE FreshInv'
<1>1. TypeOK /\ TypeOK'
    BY BuildTypeOK DEF FreshInv, BuildStep
<1>2. UNCHANGED <<data, mapping, missed, remaps, fileVars, request>> /\ builder.at = "idle"
      /\ builder' = [builder EXCEPT !.at = "tracking"]
    BY DEF DropTriggers, To
<1>3. builder'.at = "tracking" /\ builder'.temp = builder.temp
    BY <1>1, <1>2 DEF TypeOK, Builds
<1>4. Copies' = Copies /\ Usable' = Usable
    BY <1>2, <1>3 DEF Copies, Usable, fileVars
<1>5. /\ generation \in Nat /\ fresh \in Nat /\ generation < fresh
      /\ \A f \in Copies : f.generation \in Nat /\ f.generation # 0 /\ f.generation <= generation
    BY <1>1, CopyTypes DEF TypeOK, FreshInv, FilesInv, GenerationsAreDrawn, CopiesAreOlder, Upto, Name, Live
<1>6. generation <= generation' /\ generation' < fresh' /\ generation' # 0 /\ generation' \in Nat
    BY <1>5 DEF DropTriggers
<1>7. \A n : n[1] \in Nat /\ Upto(n, Live) => Upto(n, Live)'
    BY <1>2, <1>5, <1>6 DEF Upto, Live
<1>8. \A a, b : Upto(a, b)' <=> Upto(a, b)
    BY <1>2 DEF Upto
<1>9. GenerationsAreDrawn' /\ MappedOnce'
    BY <1>2, <1>6 DEF FreshInv, FilesInv, GenerationsAreDrawn, MappedOnce
<1>10. CopiesAreOlder'
    BY <1>1, <1>4, <1>7, CopyTypes DEF FreshInv, FilesInv, CopiesAreOlder, Name
<1>11. CurrentIsExact'
    <2>1. CASE generation = 0
        <3>1. Copies = {}
            BY <1>5, <2>1
        <3> QED
            BY <1>4, <3>1 DEF CurrentIsExact
    <2>2. CASE generation # 0
        <3>1. UNCHANGED <<generation, dirty>>
            BY <2>2 DEF DropTriggers
        <3> QED
            BY <1>2, <1>4, <3>1 DEF FreshInv, FilesInv, CurrentIsExact
    <2> QED
        BY <2>1, <2>2
<1>12. TempIsNewest'
    BY <1>2, <1>3, <1>8 DEF FreshInv, FilesInv, TempIsNewest, Name, fileVars
<1>13. HeldIsOlder'
    BY <1>1, <1>2, <1>4, <1>7, <1>8, CopyTypes DEF FreshInv, AskedInv, HeldIsOlder, Name
<1>14. NowIsSeen' /\ QueriedAreFresh' /\ AnswersAreFresh'
    BY <1>2, <1>4 DEF FreshInv, AskedInv, NowIsSeen, QueriedAreFresh, AnswersAreFresh, Fresh, Content
<1> QED
    BY <1>1, <1>9, <1>10, <1>11, <1>12, <1>13, <1>14 DEF FreshInv, FilesInv, AskedInv

\* The new copy is the newest, has the records of now and their generation.
LEMMA CopyFresh == ASSUME FreshInv, Copy PROVE FreshInv'
<1>1. TypeOK /\ TypeOK'
    BY BuildTypeOK DEF FreshInv, BuildStep
<1>2. UNCHANGED <<data, mapping, missed, remaps, fileVars, request>> /\ builder.at = "tracked"
      /\ builder.temp = None /\ builder'.at = "copied" /\ dirty' = 0
    BY <1>1 DEF Copy, TypeOK
<1>3. PICK new : new = builder'.temp /\ new.generation = generation' /\ new.mapping = mapping
                 /\ new.data = data
    BY DEF Copy
<1>4. /\ Copies' \subseteq Copies \cup {new} /\ Usable' \subseteq Usable \cup {new}
      /\ Name(new) = Live'
    <2>1. Copies' \subseteq Copies \cup {new}
        BY <1>2, <1>3 DEF Copies, fileVars
    <2>2. Usable' \subseteq Usable \cup {new}
        BY <1>2, <1>3 DEF Usable, fileVars
    <2>3. Name(new) = Live'
        BY <1>2, <1>3 DEF Name, Live
    <2> QED
        BY <2>1, <2>2, <2>3
<1>5. /\ generation \in Nat /\ fresh \in Nat /\ generation < fresh /\ generation # 0 /\ dirty \in {0, 1}
      /\ \A f \in Copies : f.generation \in Nat /\ f.generation # 0 /\ f.generation <= generation
    BY <1>1, <1>2, CopyTypes
    DEF TypeOK, FreshInv, FilesInv, GenerationsAreDrawn, CopiesAreOlder, Upto, Name, Live
<1>6. generation <= generation' /\ generation' < fresh' /\ generation' # 0 /\ generation' \in Nat
    BY <1>5 DEF Copy
<1>7. \A n : n[1] \in Nat /\ Upto(n, Live) => Upto(n, Live)' /\ Upto(n, Name(new))'
    BY <1>2, <1>4, <1>5, <1>6 DEF Upto, Live
<1>8. \A a, b : Upto(a, b)' <=> Upto(a, b)
    BY <1>2 DEF Upto
<1>9. GenerationsAreDrawn' /\ MappedOnce'
    BY <1>2, <1>6 DEF FreshInv, FilesInv, GenerationsAreDrawn, MappedOnce
<1>10. \A f \in Copies : Upto(Name(f), Live)' /\ Upto(Name(f), Name(new))'
    BY <1>1, <1>7, CopyTypes DEF FreshInv, FilesInv, CopiesAreOlder, Name
<1>11. Upto(Live, Live)' /\ Live[1]' \in Nat
    BY <1>6 DEF Upto, Live
<1>12. CopiesAreOlder'
    BY <1>3, <1>4, <1>5, <1>6, <1>10, <1>11 DEF CopiesAreOlder
<1>13. CurrentIsExact'
    <2>1. CASE dirty = 0
        <3>1. UNCHANGED <<generation, dirty>>
            BY <1>2, <2>1 DEF Copy
        <3> QED
            BY <1>2, <1>3, <1>4, <3>1 DEF FreshInv, FilesInv, CurrentIsExact
    <2>2. CASE dirty = 1
        <3>1. \A f \in Copies : f.generation # generation'
            BY <1>5, <2>2 DEF Copy
        <3> QED
            BY <1>2, <1>3, <1>4, <3>1 DEF CurrentIsExact
    <2> QED
        BY <1>5, <2>1, <2>2
<1>14. TempIsNewest'
    <2>1. SUFFICES ASSUME installed' # None, builder'.temp # None
                   PROVE  Upto(Name(installed), Name(builder.temp))'
        BY DEF TempIsNewest
    <2>2. installed \in Copies /\ installed' = installed
        BY <1>2, <2>1 DEF Copies, fileVars
    <2>3. Upto(Name(installed), Name(new))'
        BY <1>10, <2>2
    <2> QED
        BY <1>3, <2>2, <2>3 DEF Name
<1>15. HeldIsOlder'
    <2>1. \A r \in Requests : request[r].held # None =>
              Upto(request[r].held, Live)' /\ Upto(request[r].held, Name(new))'
        BY <1>1, <1>2, <1>7, CopyTypes DEF FreshInv, AskedInv, HeldIsOlder
    <2>2. \A r \in Requests, f \in Usable : request[r].held # None => Upto(request[r].held, Name(f))'
        BY <1>2, <1>8 DEF FreshInv, AskedInv, HeldIsOlder, Name
    <2> QED
        BY <1>2, <1>4, <2>1, <2>2 DEF HeldIsOlder
<1>16. NowIsSeen' /\ AnswersAreFresh'
    BY <1>2 DEF FreshInv, AskedInv, NowIsSeen, AnswersAreFresh, Content
<1>17. QueriedAreFresh'
    <2>1. \A r \in Requests : request[r].at = "query" => Fresh(new, request[r].since)
        BY <1>3 DEF FreshInv, AskedInv, NowIsSeen, Fresh, Content
    <2>2. \A r \in Requests : \A f : Fresh(f, request[r].since)' <=> Fresh(f, request[r].since)
        BY <1>2 DEF Fresh
    <2> QED
        BY <1>2, <1>4, <2>1, <2>2 DEF FreshInv, AskedInv, QueriedAreFresh
<1> QED
    BY <1>1, <1>9, <1>12, <1>13, <1>14, <1>15, <1>16, <1>17 DEF FreshInv, FilesInv, AskedInv

LEMMA BuildFresh == ASSUME FreshInv, BuildStep PROVE FreshInv'
<1>1. TypeOK /\ TypeOK'
    BY BuildTypeOK DEF FreshInv
<1>2. builder \in Builds
    BY <1>1 DEF TypeOK
<1>3. \A at : To(at) => builder'.at = at /\ builder'.temp = builder.temp
    BY <1>2 DEF To, Builds
<1> USE DEF Copies, Usable, fileVars, NoBuild
<1>4. CASE CreateTriggers
    <2>1. UNCHANGED <<data, mapping, generation, dirty, fresh, missed, remaps, fileVars, request>>
          /\ builder'.at = "tracked" /\ builder'.temp = builder.temp /\ builder.at = "tracking"
        BY <1>3, <1>4 DEF CreateTriggers
    <2>2. Copies' = Copies /\ Usable' = Usable
        BY <2>1
    <2> HIDE DEF Copies, Usable
    <2>3. FilesInv'
        BY <2>1, <2>2 DEF FreshInv, FilesInv, GenerationsAreDrawn, MappedOnce, CopiesAreOlder,
                          CurrentIsExact, TempIsNewest, Upto, Live, Name
    <2>4. AskedInv'
        BY <2>1, <2>2 DEF FreshInv, AskedInv, HeldIsOlder, NowIsSeen, QueriedAreFresh, AnswersAreFresh,
                          Fresh, Content, Upto, Live, Name
    <2> QED
        BY <1>1, <2>3, <2>4 DEF FreshInv
<1>5. CASE CheckCopy
    BY <1>1, <1>3, <1>5, MoveFresh DEF CheckCopy
<1>6. CASE Lock
    BY <1>1, <1>3, <1>6, MoveFresh DEF Lock
<1>7. CASE RemoveStaleBackup
    BY <1>1, <1>3, <1>7, MoveFresh DEF RemoveStaleBackup
<1>8. CASE MoveAside
    BY <1>1, <1>3, <1>8, MoveFresh DEF MoveAside
<1>9. CASE MoveIn
    BY <1>1, <1>3, <1>9, MoveFresh DEF MoveIn
<1>10. CASE MoveInFails
    BY <1>1, <1>10, MoveFresh DEF MoveInFails
<1>11. CASE RemoveBackup
    BY <1>1, <1>11, MoveFresh DEF RemoveBackup
<1>12. CASE FailBuild
    BY <1>1, <1>12, MoveFresh DEF FailBuild
<1> QED
    BY <1>4, <1>5, <1>6, <1>7, <1>8, <1>9, <1>10, <1>11, <1>12, DropTriggersFresh, CopyFresh DEF BuildStep

\* A request leaves the database and the copies alone, so only what it holds is to be shown.
LEMMA OneRequestFresh ==
    ASSUME FreshInv, TypeOK', UNCHANGED <<sourceVars, fileVars, builder>>,
           NEW r \in Requests, NEW q, request' = [request EXCEPT ![r] = q],
           q.held # None => Upto(q.held, Live) /\ \A f \in Usable : Upto(q.held, Name(f)),
           q.at # "idle" => Content \in q.since,
           q.at = "query" /\ ~missed => \A f \in Usable : Fresh(f, q.since),
           q.at = "answered" /\ ~missed =>
               \E c \in q.since : q.answer.data = c.data /\ (remaps <= 1 => q.answer.mapping = c.mapping)
    PROVE  FreshInv'
<1> USE DEF sourceVars, fileVars
<1>1. Copies' = Copies /\ Usable' = Usable /\ Live' = Live /\ Content' = Content
    BY DEF Copies, Usable, Live, Content
<1>2. request \in [Requests -> RequestStates]
    BY DEF FreshInv, TypeOK
<1>3. \A o \in Requests : request'[o] = IF o = r THEN q ELSE request[o]
    BY <1>2
<1>4. FilesInv'
    BY <1>1 DEF FreshInv, FilesInv, GenerationsAreDrawn, MappedOnce, CopiesAreOlder, CurrentIsExact,
                TempIsNewest, Upto, Name
<1>5. HeldIsOlder'
    BY <1>1, <1>3 DEF FreshInv, AskedInv, HeldIsOlder, Upto, Name
<1>6. NowIsSeen'
    BY <1>1, <1>3 DEF FreshInv, AskedInv, NowIsSeen
<1>7. QueriedAreFresh'
    BY <1>1, <1>3 DEF FreshInv, AskedInv, QueriedAreFresh, Fresh
<1>8. AnswersAreFresh'
    BY <1>3 DEF FreshInv, AskedInv, AnswersAreFresh
<1> QED
    BY <1>4, <1>5, <1>6, <1>7, <1>8 DEF FreshInv, AskedInv

\* A request that turns to SQLite, or goes on without a name, holds nothing.
LEMMA GoFresh ==
    ASSUME FreshInv, TypeOK', UNCHANGED <<sourceVars, fileVars, builder>>,
           NEW r \in Requests, request[r].at # "idle",
           NEW at \in {"looking", "probing", "probe", "confirming", "asking"},
           Go(r, at) \/ AnswerFromSqlite(r)
    PROVE  FreshInv'
<1>1. request[r] \in RequestStates /\ Content \in request[r].since
    BY DEF FreshInv, TypeOK, AskedInv, NowIsSeen
<1>2. CASE Go(r, at)
    <2>1. PICK q : request' = [request EXCEPT ![r] = q] /\ q = [request[r] EXCEPT !.at = at, !.held = None]
        BY <1>2 DEF Go
    <2>2. q.at = at /\ q.held = None /\ q.since = request[r].since
        BY <1>1, <2>1 DEF RequestStates
    <2> QED
        BY <1>1, <2>1, <2>2, OneRequestFresh
<1>3. CASE AnswerFromSqlite(r)
    <2>1. NoRequest.held = None /\ NoRequest.at = "idle"
        BY DEF NoRequest
    <2> QED
        BY <1>3, <2>1, OneRequestFresh DEF AnswerFromSqlite
<1> QED
    BY <1>2, <1>3

\* The last check finds the name it holds current: so are all copies that may be asked.
LEMMA CheckAgainFresh ==
    ASSUME FreshInv, TypeOK', NEW r \in Requests, CheckAgain(r)
    PROVE  FreshInv'
<1>1. /\ request[r].at = "asking" /\ request[r].held # None
      /\ UNCHANGED <<sourceVars, fileVars, builder>>
    BY DEF CheckAgain, Compare
<1>2. CASE ~IsSource(request[r].held)
    BY <1>1, <1>2, GoFresh DEF CheckAgain, Compare
<1>3. CASE IsSource(request[r].held)
    <2>1. TypeOK /\ request[r] \in RequestStates /\ Content \in request[r].since
        BY <1>1 DEF FreshInv, TypeOK, AskedInv, NowIsSeen
    <2>2. PICK q : request' = [request EXCEPT ![r] = q] /\ q = [request[r] EXCEPT !.at = "query", !.held = None]
        BY <1>3 DEF CheckAgain, Compare, Go
    <2>3. q.at = "query" /\ q.held = None /\ q.since = request[r].since
        BY <2>1, <2>2 DEF RequestStates
    <2>4. request[r].held = Live /\ dirty = 0
        BY <1>3 DEF IsSource, Live
    <2>5. ASSUME NEW f \in Usable, ~missed PROVE Fresh(f, q.since)
        <3>1. f \in Copies /\ f.generation \in Nat /\ generation \in Nat /\ Name(f) = <<f.generation, f.mapping>>
            BY <2>1, CopyTypes DEF TypeOK
        <3>2. Upto(Live, Name(f)) /\ Upto(Name(f), Live)
            BY <1>1, <2>4, <3>1 DEF FreshInv, AskedInv, HeldIsOlder, FilesInv, CopiesAreOlder
        <3>3. f.generation = generation /\ (remaps <= 1 => f.mapping = mapping)
            BY <3>1, <3>2 DEF Upto, Live
        <3>4. f.data = data
            BY <2>4, <2>5, <3>1, <3>3 DEF FreshInv, FilesInv, CurrentIsExact
        <3> QED
            BY <2>1, <2>3, <3>3, <3>4 DEF Fresh, Content
    <2> QED
        BY <1>1, <2>1, <2>2, <2>3, <2>5, OneRequestFresh
<1> QED
    BY <1>2, <1>3

LEMMA RequestFresh ==
    ASSUME FreshInv, NEW r \in Requests, RequestStep(r)
    PROVE  FreshInv'
<1>1. TypeOK /\ TypeOK' /\ UNCHANGED <<sourceVars, fileVars, builder>>
    BY RequestTypeOK, RequestFrame DEF FreshInv
<1>2. request[r] \in RequestStates /\ (request[r].at # "idle" => Content \in request[r].since)
    BY <1>1 DEF TypeOK, FreshInv, AskedInv, NowIsSeen
<1>3. CASE Begin(r)
    <2>1. PICK q : /\ request' = [request EXCEPT ![r] = q]
                   /\ q = [NoRequest EXCEPT !.at = "named", !.key = Name(installed), !.since = {Content}]
        BY <1>3 DEF Begin
    <2>2. q.at = "named" /\ q.held = None /\ q.since = {Content}
        BY <2>1 DEF NoRequest
    <2> QED
        BY <1>1, <2>1, <2>2, OneRequestFresh
<1>4. CASE ReadName(r)
    <2>1. PICK q : request' = [request EXCEPT ![r] = q] /\ q = [request[r] EXCEPT !.held = Name(installed)]
        BY <1>4 DEF ReadName
    <2>2. q.at = request[r].at /\ q.held = Name(installed) /\ q.since = request[r].since
        BY <1>2, <2>1 DEF RequestStates
    <2>3. installed \in Copies /\ builder.at # "moving"
        BY <1>4 DEF ReadName, CanOpen, Replacing, Copies
    <2>4. Upto(Name(installed), Live) /\ \A f \in Usable : Upto(Name(installed), Name(f))
        <3>1. Upto(Name(installed), Name(installed))
            BY <1>1, <2>3, CopyTypes DEF Upto
        <3> QED
            BY <2>3, <3>1 DEF FreshInv, FilesInv, CopiesAreOlder, TempIsNewest, Usable, Copies
    <2>5. q.at \in {"named", "probing", "confirming", "asking"}
        BY <1>4, <2>2 DEF ReadName
    <2> QED
        BY <1>1, <1>2, <2>1, <2>2, <2>4, <2>5, OneRequestFresh
<1>5. CASE CheckCurrent(r) \/ CheckProbe(r)
    BY <1>1, <1>5, GoFresh DEF CheckCurrent, CheckProbe, Compare
<1>6. CASE CheckAgain(r)
    BY <1>1, <1>6, CheckAgainFresh
<1>7. CASE LookUpTrust(r) \/ Probe(r)
    BY <1>1, <1>7, GoFresh DEF LookUpTrust, Probe
<1>8. CASE Confirm(r) \/ FallBack(r) \/ Finish(r)
    BY <1>1, <1>8, GoFresh DEF Confirm, FallBack, Finish
<1>9. CASE Query(r)
    <2>1. PICK a : a = [data |-> installed.data, mapping |-> installed.mapping]
        OBVIOUS
    <2>2. PICK q : request' = [request EXCEPT ![r] = q] /\ q = [request[r] EXCEPT !.at = "answered", !.answer = a]
        BY <1>9, <2>1 DEF Query
    <2>3. q.at = "answered" /\ q.answer = a /\ q.since = request[r].since /\ q.held = request[r].held
        BY <1>2, <2>2 DEF RequestStates
    <2>4. installed \in Usable /\ request[r].at = "query"
        BY <1>9 DEF Query, CanOpen, Usable
    <2>5. ~missed => Fresh(installed, request[r].since)
        BY <2>4 DEF FreshInv, AskedInv, QueriedAreFresh
    <2>6. ~missed => \E c \in q.since : a.data = c.data /\ (remaps <= 1 => a.mapping = c.mapping)
        BY <2>1, <2>3, <2>5 DEF Fresh
    <2>7. q.held # None => Upto(q.held, Live) /\ \A f \in Usable : Upto(q.held, Name(f))
        BY <2>3 DEF FreshInv, AskedInv, HeldIsOlder
    <2> QED
        BY <1>1, <1>2, <2>2, <2>3, <2>4, <2>6, <2>7, OneRequestFresh
<1> QED
    BY <1>3, <1>4, <1>5, <1>6, <1>7, <1>8, <1>9 DEF RequestStep

LEMMA NextFresh == FreshInv /\ [Next]_vars => FreshInv'
<1> SUFFICES ASSUME FreshInv, [Next]_vars PROVE FreshInv'
    OBVIOUS
<1>1. TypeOK'
    BY NextTypeOK DEF FreshInv
<1>2. CASE Crash
    <2>1. UNCHANGED <<sourceVars, fileVars>> /\ builder' = NoBuild
          /\ \A r \in Requests : request'[r].at = "idle" /\ request'[r].held = None
        BY <1>2 DEF Crash, NoRequest
    <2>2. Copies' \subseteq Copies /\ builder'.at = "idle" /\ builder'.temp = None
        BY <2>1 DEF Copies, NoBuild, fileVars
    <2>3. FilesInv'
        BY <2>1, <2>2 DEF FreshInv, FilesInv, GenerationsAreDrawn, MappedOnce, CopiesAreOlder,
                          CurrentIsExact, TempIsNewest, Upto, Live, Name, sourceVars
    <2>4. AskedInv'
        BY <2>1 DEF AskedInv, HeldIsOlder, NowIsSeen, QueriedAreFresh, AnswersAreFresh
    <2> QED
        BY <1>1, <2>3, <2>4 DEF FreshInv
<1>3. CASE UNCHANGED vars
    <2>1. UNCHANGED <<sourceVars, fileVars, builder, request>>
        BY <1>3 DEF vars
    <2>2. FilesInv'
        BY <2>1 DEF FreshInv, FilesInv, GenerationsAreDrawn, MappedOnce, CopiesAreOlder, CurrentIsExact,
                    TempIsNewest, Upto, Live, Name, Copies, sourceVars, fileVars
    <2>3. AskedInv'
        BY <2>1 DEF FreshInv, AskedInv, HeldIsOlder, NowIsSeen, QueriedAreFresh, AnswersAreFresh, Fresh,
                    Content, Upto, Live, Name, Usable, sourceVars, fileVars
    <2> QED
        BY <1>1, <2>2, <2>3 DEF FreshInv
<1> QED
    BY <1>2, <1>3, ChangeRecordsFresh, RemapFresh, BuildFresh, RequestFresh DEF Next

(* An answer is of records as they were at some time since the request     *)
(* began, and of the mapping of that time if none was set back, however    *)
(* often the projection was replaced meanwhile; unless records changed     *)
(* while a build had taken the triggers away (ready_projection and         *)
(* ensure_usable over the trigger-drawn generations of duckdb_olap.rs).    *)
THEOREM FreshAnswers == Spec => []AnswersAreFresh
<1>1. FreshInv => AnswersAreFresh
    BY DEF FreshInv, AskedInv
<1> QED
    BY <1>1, InitFresh, NextFresh, PTL DEF Spec

(* The fact behind it: a copy that carries the generation of a database    *)
(* without changes since holds exactly the records of that database.       *)
THEOREM CurrentProjectionIsExact == Spec => []CurrentIsExact
<1>1. FreshInv => CurrentIsExact
    BY DEF FreshInv, FilesInv
<1> QED
    BY <1>1, InitFresh, NextFresh, PTL DEF Spec
=============================================================================
