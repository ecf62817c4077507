----------------------------- MODULE Projection -----------------------------
(***************************************************************************)
(* The analytical projection: a copy of the records in a file of its own,  *)
(* built in the background, put in place by renames, and asked instead of  *)
(* the database while it is current.                                       *)
(*                                                                         *)
(* What the records hold is a number, renewed by every change; a mapping   *)
(* stands for the schemas and the semantic mapping, which can be set back. *)
(* A generation is random in the code and a fresh number here.  A file is  *)
(* named by what its meta table says of its source: generation and         *)
(* mapping, hashed in the code.                                            *)
(***************************************************************************)
EXTENDS Integers, FiniteSets

CONSTANTS
    Requests,
    Mappings, FirstMapping,
    MaxChanges, MaxRemaps, MaxFaults,   \* bounds of the exploration
    None

ASSUME MappingAssumption == FirstMapping \in Mappings
ASSUME BoundAssumption == {MaxChanges, MaxRemaps, MaxFaults} \subseteq Nat

VARIABLES
    data, mapping,       \* the records; the schemas and the semantic mapping
    generation, dirty,   \* of base_search_olap_state; 0 while there is no such row
    triggers,            \* on records: all there
    fresh,               \* the next generation to draw
    installed, backup,   \* the projection in place; the one moved aside
    builder,             \* where the build stands, and its temporary file
    trust,               \* projection_trust: the contract last verified, and the verdict
    request,             \* where each request stands, and what the database held since it began
    missed,              \* the records changed while triggers were away
    built,               \* a projection was put in place
    remaps, faults       \* how many there were

sourceVars == <<data, mapping, generation, dirty, triggers, fresh, missed, remaps>>
fileVars   == <<installed, backup, built>>
vars == <<sourceVars, fileVars, builder, trust, request, faults>>

Content == [data |-> data, mapping |-> mapping]

Name(f) == <<f.generation, f.mapping>>

\* source_contract: the name the database would give a projection of now, if it can tell.
IsSource(name) == triggers /\ dirty = 0 /\ name = <<generation, mapping>>

NoBuild == [at |-> "idle", temp |-> None]
NoRequest == [at |-> "idle", key |-> None, held |-> None, answer |-> None, since |-> {}]
----------------------------------------------------------------------------
(* The database                                                            *)

Seen(c) == request' = [r \in Requests |->
    IF request[r].at = "idle" THEN request[r] ELSE [request[r] EXCEPT !.since = @ \cup {c}]]

\* Mutant: the trigger leaves the generation to the next build, and says nothing.
TriggerSilent == UNCHANGED <<generation, dirty, fresh>>

\* The trigger of an insert, update or delete, in the transaction of the change.
Trigger ==
    IF generation # 0 /\ dirty = 0
    THEN /\ generation' = fresh
         /\ fresh' = fresh + 1
         /\ dirty' = 1
    ELSE UNCHANGED <<generation, dirty, fresh>>

\* A transaction changes the records.  With some triggers away, its own may be or not.
ChangeRecords ==
    /\ data < MaxChanges
    /\ data' = data + 1
    /\ \/ /\ Trigger
          /\ UNCHANGED missed
       \/ /\ ~triggers
          /\ missed' = (missed \/ generation # 0)
          /\ UNCHANGED <<generation, dirty, fresh>>
    /\ Seen([data |-> data + 1, mapping |-> mapping])
    /\ UNCHANGED <<mapping, triggers, remaps, fileVars, builder, trust, faults>>

\* A column is given another meaning, or its former one; no trigger watches.
Remap(m) ==
    /\ remaps < MaxRemaps /\ m # mapping
    /\ mapping' = m
    /\ remaps' = remaps + 1
    /\ Seen([data |-> data, mapping |-> m])
    /\ UNCHANGED <<data, generation, dirty, triggers, fresh, missed, fileVars, builder, trust,
                   faults>>
----------------------------------------------------------------------------
(* The build: one at a time                                                *)

To(at) == builder' = [builder EXCEPT !.at = at]

\* install_source_tracking, statement by statement: the row if there is none; triggers go.
DropTriggers ==
    /\ builder.at = "idle"
    /\ IF generation = 0
       THEN generation' = fresh /\ fresh' = fresh + 1 /\ dirty' = 1
       ELSE UNCHANGED <<generation, dirty, fresh>>
    /\ triggers' = FALSE
    /\ To("tracking")
    /\ UNCHANGED <<data, mapping, missed, remaps, fileVars, trust, request, faults>>

\* Triggers come back; the generation is what it was.
CreateTriggers ==
    /\ builder.at = "tracking"
    /\ triggers' = TRUE
    /\ To("tracked")
    /\ UNCHANGED <<data, mapping, generation, dirty, fresh, missed, remaps, fileVars, trust,
                   request, faults>>

\* One immediate transaction prepares the generation and copies what it names.
Copy ==
    /\ builder.at = "tracked"
    /\ generation' = IF dirty = 1 THEN fresh ELSE generation
    /\ fresh' = IF dirty = 1 THEN fresh + 1 ELSE fresh
    /\ dirty' = 0
    /\ builder' = [at   |-> "copied",
                   temp |-> [generation |-> generation', mapping |-> mapping, data |-> data]]
    /\ UNCHANGED <<data, mapping, triggers, missed, remaps, fileVars, trust, request, faults>>

\* Mutant: a copy that is not current is left where it is.
CheckCopyLeaving ==
    /\ builder.at = "copied"
    /\ IF IsSource(Name(builder.temp)) THEN To("checked") ELSE To("idle")
    /\ UNCHANGED <<sourceVars, fileVars, trust, request, faults>>

\* The copy must still be current; if not the previous projection is kept.
CheckCopy ==
    /\ builder.at = "copied"
    /\ IF IsSource(Name(builder.temp)) THEN To("checked") ELSE builder' = NoBuild
    /\ UNCHANGED <<sourceVars, fileVars, trust, request, faults>>

\* PROJECTION_ACCESS is held for writing from here until the build ends.
Replacing == builder.at \in {"locked", "cleared", "moving", "placed"}

Lock ==
    /\ builder.at = "checked"
    /\ To("locked")
    /\ UNCHANGED <<sourceVars, fileVars, trust, request, faults>>

RemoveStaleBackup ==
    /\ builder.at = "locked"
    /\ backup' = None
    /\ To("cleared")
    /\ UNCHANGED <<sourceVars, installed, built, trust, request, faults>>

\* Mutant: the projection in place is removed to make room.
MoveAsideForGood ==
    /\ builder.at = "cleared"
    /\ installed' = None
    /\ To("moving")
    /\ UNCHANGED <<sourceVars, backup, built, trust, request, faults>>

MoveAside ==
    /\ builder.at = "cleared"
    /\ backup' = installed
    /\ installed' = None
    /\ To("moving")
    /\ UNCHANGED <<sourceVars, built, trust, request, faults>>

MoveIn ==
    /\ builder.at = "moving"
    /\ installed' = builder.temp
    /\ built' = TRUE
    /\ To("placed")
    /\ UNCHANGED <<sourceVars, backup, trust, request, faults>>

\* The previous projection is moved back, which may fail too.
MoveInFails ==
    /\ builder.at = "moving" /\ faults < MaxFaults
    /\ \/ installed' = backup /\ backup' = None
       \/ UNCHANGED <<installed, backup>>
    /\ builder' = NoBuild
    /\ faults' = faults + 1
    /\ UNCHANGED <<sourceVars, built, trust, request>>

\* Whether it could be removed is not asked.
RemoveBackup ==
    /\ builder.at = "placed"
    /\ backup' \in {None, backup}
    /\ builder' = NoBuild
    /\ UNCHANGED <<sourceVars, installed, built, trust, request, faults>>

\* Any other step fails; the temporary file goes.
FailBuild ==
    /\ \/ builder.at \in {"tracking", "tracked", "copied"}
       \/ builder.at = "locked" /\ backup # None
       \/ builder.at = "cleared" /\ installed # None
    /\ builder' = NoBuild
    /\ UNCHANGED <<sourceVars, fileVars, trust, request, faults>>

\* The process ends: files and database stay.
Crash ==
    /\ faults < MaxFaults
    /\ faults' = faults + 1
    /\ builder' = NoBuild
    /\ trust' = None
    /\ request' = [r \in Requests |-> NoRequest]
    /\ UNCHANGED <<sourceVars, fileVars>>
----------------------------------------------------------------------------
(* An analytics request: ready_projection, then the engine                 *)

Go(r, at) == request' = [request EXCEPT ![r] = [@ EXCEPT !.at = at, !.held = None]]
AnswerFromSqlite(r) == request' = [request EXCEPT ![r] = NoRequest]
CanOpen == installed # None /\ ~Replacing

\* read_projection_meta of the file in place.
Begin(r) ==
    /\ request[r].at = "idle" /\ CanOpen
    /\ request' = [request EXCEPT
           ![r] = [NoRequest EXCEPT !.at = "named", !.key = Name(installed), !.since = {Content}]]
    /\ UNCHANGED <<sourceVars, fileVars, builder, trust, faults>>

\* projection_is_current reads the meta of the file first, then the database.
ReadName(r) ==
    /\ request[r].at \in {"named", "probing", "confirming", "asking"} /\ request[r].held = None
    /\ CanOpen
    /\ request' = [request EXCEPT ![r].held = Name(installed)]
    /\ UNCHANGED <<sourceVars, fileVars, builder, trust, faults>>

\* The file in place is of the database as it is, or the request turns to SQLite.
Compare(r, at, next) ==
    /\ request[r].at = at /\ request[r].held # None
    /\ IF IsSource(request[r].held) THEN Go(r, next) ELSE AnswerFromSqlite(r)
    /\ UNCHANGED <<sourceVars, fileVars, builder, trust, faults>>

CheckCurrent(r) == Compare(r, "named", "looking")
CheckProbe(r)   == Compare(r, "probing", "probe")
CheckAgain(r)   == Compare(r, "asking", "query")

Verdict(r, ok) == trust' = [key |-> request[r].key, ok |-> ok]

\* The cached verdict is used if it is of the same contract.
LookUpTrust(r) ==
    /\ request[r].at = "looking"
    /\ IF trust # None /\ trust.key = request[r].key
       THEN IF trust.ok THEN Go(r, "asking") ELSE AnswerFromSqlite(r)
       ELSE Go(r, "probing")
    /\ UNCHANGED <<sourceVars, fileVars, builder, trust, faults>>

\* verify: the totals of both engines agree or not, whichever file is in place.
Probe(r) ==
    /\ request[r].at = "probe" /\ CanOpen
    /\ \/ Go(r, "confirming") /\ UNCHANGED trust
       \/ AnswerFromSqlite(r) /\ Verdict(r, FALSE)
    /\ UNCHANGED <<sourceVars, fileVars, builder, faults>>

\* The verdict is stored for the contract the request began with.
Confirm(r) ==
    /\ request[r].at = "confirming" /\ request[r].held # None
    /\ Verdict(r, IsSource(request[r].held))
    /\ IF IsSource(request[r].held) THEN Go(r, "asking") ELSE AnswerFromSqlite(r)
    /\ UNCHANGED <<sourceVars, fileVars, builder, faults>>

\* The answer comes from the file now in place.
Query(r) ==
    /\ request[r].at = "query" /\ CanOpen
    /\ request' = [request EXCEPT ![r] = [@ EXCEPT
           !.at = "answered", !.answer = [data |-> installed.data, mapping |-> installed.mapping]]]
    /\ UNCHANGED <<sourceVars, fileVars, builder, trust, faults>>

\* An error anywhere: SQLite answers.  One that comes while confirming is a verdict.
FallBack(r) ==
    /\ request[r].at \in {"named", "looking", "probing", "probe", "confirming", "asking", "query"}
    /\ IF request[r].at = "confirming" THEN Verdict(r, FALSE) ELSE UNCHANGED trust
    /\ AnswerFromSqlite(r)
    /\ UNCHANGED <<sourceVars, fileVars, builder, faults>>

Finish(r) ==
    /\ request[r].at = "answered"
    /\ AnswerFromSqlite(r)
    /\ UNCHANGED <<sourceVars, fileVars, builder, trust, faults>>
----------------------------------------------------------------------------
Init ==
    /\ data = 0 /\ mapping = FirstMapping
    /\ generation = 0 /\ dirty = 0 /\ triggers = FALSE
    /\ fresh = 1
    /\ installed = None /\ backup = None
    /\ builder = NoBuild
    /\ trust = None
    /\ request = [r \in Requests |-> NoRequest]
    /\ missed = FALSE /\ built = FALSE
    /\ remaps = 0 /\ faults = 0

BuildStep ==
    \/ DropTriggers \/ CreateTriggers \/ Copy \/ CheckCopy \/ Lock \/ RemoveStaleBackup
    \/ MoveAside \/ MoveIn \/ MoveInFails \/ RemoveBackup \/ FailBuild

RequestStep(r) ==
    \/ Begin(r) \/ ReadName(r) \/ CheckCurrent(r) \/ CheckProbe(r) \/ CheckAgain(r)
    \/ LookUpTrust(r) \/ Probe(r) \/ Confirm(r) \/ Query(r) \/ FallBack(r) \/ Finish(r)

Next ==
    \/ ChangeRecords
    \/ \E m \in Mappings : Remap(m)
    \/ BuildStep
    \/ \E r \in Requests : RequestStep(r)
    \/ Crash

Spec == Init /\ [][Next]_vars
----------------------------------------------------------------------------
Contents == [data : Nat, mapping : Mappings]
Names == Nat \X Mappings
Projections == [generation : Nat, mapping : Mappings, data : Nat]

Builds == [at : {"idle", "tracking", "tracked", "copied", "checked", "locked", "cleared", "moving",
                 "placed"},
           temp : Projections \cup {None}]
RequestStates == [at : {"idle", "named", "looking", "probing", "probe", "confirming", "asking",
                        "query", "answered"},
                  key : Names \cup {None}, held : Names \cup {None},
                  answer : Contents \cup {None}, since : SUBSET Contents]
Verdicts == [key : Names, ok : BOOLEAN]

\* A marker is no file, no name and no verdict.
ASSUME NoneAssumption == None \notin Projections \cup Names \cup Verdicts

(* Type invariant.                                                         *)
TypeOK ==
    /\ data \in Nat /\ mapping \in Mappings
    /\ generation \in Nat /\ dirty \in {0, 1} /\ triggers \in BOOLEAN /\ fresh \in Nat \ {0}
    /\ installed \in Projections \cup {None} /\ backup \in Projections \cup {None}
    /\ builder \in Builds
    /\ builder.temp = None <=> builder.at \in {"idle", "tracking", "tracked"}
    /\ trust \in Verdicts \cup {None}
    /\ request \in [Requests -> RequestStates]
    /\ \A r \in Requests : request[r].at # "idle" => request[r].key # None
    /\ missed \in BOOLEAN /\ built \in BOOLEAN
    /\ remaps \in Nat /\ faults \in Nat

(* A projection answers with records as they were at some time since the   *)
(* request began, whatever was checked, changed or replaced meanwhile; and *)
(* under a mapping of that same time, if none was ever set back.  Unless   *)
(* records changed while a build had taken the triggers away.              *)
AnswersAreFresh ==
    \A r \in Requests : request[r].at = "answered" /\ ~missed =>
        \E c \in request[r].since :
            /\ request[r].answer.data = c.data
            /\ remaps <= 1 => request[r].answer.mapping = c.mapping

(* Once there is a projection, one crash or one failing rename, at         *)
(* whatever point of a replacement, leaves a whole one: in place, moved    *)
(* aside, or about to be put in place.                                     *)
PreviousIsKept ==
    built /\ faults <= 1 =>
        installed # None \/ backup # None \/ builder.at \in {"cleared", "moving"}
=============================================================================
