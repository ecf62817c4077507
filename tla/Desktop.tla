------------------------------ MODULE Desktop ------------------------------
(***************************************************************************)
(* The desktop application: a window thread that never blocks, a search    *)
(* worker with a count worker behind it, an analytics worker, and a thread *)
(* for each operation.  The window sends requests through two channels and *)
(* reads all answers from one.  A request carries the generation counter   *)
(* of its kind, and an answer of an earlier generation is thrown away.     *)
(* Between a request and its answer the user may do anything and the data  *)
(* may change.                                                             *)
(*                                                                         *)
(* Rows, counts and reports are abstracted to what they are of: the query, *)
(* the page or settings they were asked with, and the version of the data. *)
(***************************************************************************)
EXTENDS Naturals, Sequences

CONSTANTS
    None,
    NoQuery, Queries,   \* the empty query, which matches every row, and the others
    Pages,              \* how many pages each query matches while there are rows
    ALL,                \* the scopes of analytics in their order, one sub-tab each
    Kinds,              \* groupings that the explorer lists
    Levels,             \* levels of product codes
    Dims,               \* choices of rows, columns and metric of a pivot
    Companies,          \* companies with a dossier
    MaxClicks, MaxHaste, MaxPending, MaxMessages, MaxOps, MaxCommits, MaxFaults   \* bounds of the exploration

Asked == Queries \cup {NoQuery}
Scopes == {ALL[i] : i \in DOMAIN ALL}
Views == Scopes \cup {"Overview", "Pivot", "Report", "Compare"}
Limits == {10, 50}
Versions == 0..MaxCommits
Section == [query : Asked, at : Versions, limit : Limits, level : Levels]

ASSUME NamesAssumption ==
    /\ ALL \in Seq(STRING) /\ "Products" \in Scopes
    /\ Scopes \cap {"Overview", "Pivot", "Report", "Compare"} = {}
    /\ None \notin Asked /\ None \notin Scopes /\ None \notin Companies /\ None \notin Section
    /\ None \notin [query : Asked, at : Versions] \cup [query : Asked, at : Versions, pages : Nat]
                   \cup [query : Asked, page : Nat, at : Versions, none : BOOLEAN]
                   \cup [kind : {"Count"}, query : Asked, gen : Nat]
    /\ Levels # {} /\ Dims # {}
    /\ NoQuery \notin Queries
ASSUME NumbersAssumption ==
    /\ Pages \in [Asked -> Nat]
    /\ {MaxClicks, MaxHaste, MaxPending, MaxMessages, MaxOps, MaxCommits, MaxFaults} \subseteq Nat

VARIABLES
    app,        \* the window: its fields and the channels it sends to
    messages,   \* the channel it reads
    startup,    \* the thread that opens the database for it
    search,     \* the search worker
    count,      \* the count worker: channel, cache, and the request it is at
    analyst,    \* the analytics worker
    ops,        \* the threads of operations, in the order they were started
    data,       \* the database
    clicks, faults

workerVars == <<startup, search, count, analyst, ops, data>>
vars == <<app, messages, workerVars, clicks, faults>>

PagesOf(q) == IF data.empty THEN 0 ELSE Pages[q]
Tell(m) == Len(messages) < MaxMessages /\ messages' = Append(messages, m)
----------------------------------------------------------------------------
(* Requests: what the window does to its own state and its channels        *)

\* The view whose data a scope is; the base of all views is the overview's.
ViewOf(scope) == IF scope = None THEN "Overview" ELSE scope
ScopeOf(view) == IF view \in Scopes THEN view ELSE None

AskSearch(a, req) == [a EXCEPT !.searchTx = Append(@, req)]
AskAnalyst(a, reqs) == [a EXCEPT !.analyticsTx = @ \o reqs]

Loaded(a, view) == a.analyticsGen = a.gen /\ view \in a.loaded
BaseNeeded(a) == a.analytics = None \/ a.analyticsGen # a.gen

ScopeRequest(a, scope) ==
    [kind |-> "Analytics", query |-> a.active, scope |-> scope,
     limit |-> a.limit, level |-> a.level, gen |-> a.gen]

RequestScopes(a, scopes) ==
    IF scopes = <<>> THEN a
    ELSE AskAnalyst([a EXCEPT !.loading = TRUE],
                    [i \in DOMAIN scopes |-> ScopeRequest(a, scopes[i])])

Base(a) == IF BaseNeeded(a) THEN <<None>> ELSE <<>>

\* The loop over the scopes: those of S, in their order.
InOrder(S) ==
    LET upTo[i \in 0..Len(ALL)] ==
            IF i = 0 THEN <<>>
            ELSE IF ALL[i] \in S THEN Append(upTo[i - 1], ALL[i]) ELSE upTo[i - 1]
    IN  upTo[Len(ALL)]

RequestReportData(a) ==
    RequestScopes(a, Base(a) \o InOrder({s \in Scopes : ~Loaded(a, s)}))

RequestPivot(a) ==
    IF a.active = NoQuery THEN a
    ELSE AskAnalyst([a EXCEPT !.pivot = None, !.loaded = @ \ {"Pivot"}, !.loading = TRUE],
                    <<[kind |-> "Pivot", query |-> a.active, dims |-> a.dims, gen |-> a.gen]>>)

RequestPivotView(a) == RequestPivot(RequestScopes(a, Base(a)))

RequestAnalytics(a) ==
    IF a.active = NoQuery THEN a
    ELSE CASE a.view = "Report" -> RequestReportData(a)
           [] a.view = "Compare" -> RequestScopes(a, Base(a))
           [] a.view = "Pivot" -> RequestPivotView(a)
           [] OTHER -> IF Loaded(a, a.view) THEN a ELSE RequestScopes(a, <<ScopeOf(a.view)>>)

Closed(p) == [p EXCEPT !.loading = FALSE, !.shown = None]

SearchAgain(a) ==
    AskSearch([a EXCEPT !.gen = @ + 1, !.searching = TRUE, !.counting = TRUE,
                        !.more = FALSE, !.total = None],
              [kind |-> "Search", query |-> a.active, page |-> a.page, gen |-> a.gen + 1])

\* Mutant: an answer to a scan under way is still awaited.
ClosedOnly(p) == Closed(p)

Invalidated(p) == [Closed(p) EXCEPT !.gen = @ + 1]

StartSearch(a) ==
    LET b == SearchAgain([a EXCEPT
                 !.page = 0, !.active = a.typed, !.turned = FALSE, !.overtaken = FALSE,
                 !.analytics = None, !.loaded = {}, !.loading = FALSE,
                 !.explorer = None, !.pivot = None, !.compare = Closed(@),
                 !.underpricing = Invalidated(@)])
    IN  IF b.tab = "Analytics" THEN RequestAnalytics(b) ELSE b

GotoPage(a, p) == SearchAgain([a EXCEPT !.page = p, !.turned = TRUE])

OpenGroupExplorer(a, k) ==
    IF a.active = NoQuery THEN a
    ELSE AskAnalyst(
           [a EXCEPT !.explorer = [kind |-> k, gen |-> a.gen, loading |-> TRUE, rows |-> None]],
           <<[kind |-> "Section", query |-> a.active, section |-> k, gen |-> a.gen]>>)

RequestUnderpricing(a) ==
    IF a.active = NoQuery THEN a
    ELSE AskAnalyst([a EXCEPT !.underpricing = [gen |-> @.gen + 1, loading |-> TRUE, shown |-> None]],
                    <<[kind |-> "Underpricing", query |-> a.active, gen |-> a.underpricing.gen + 1]>>)

\* The comparison is of the active query with another text or year.
RequestCompare(a) ==
    IF a.active = NoQuery THEN a
    ELSE AskAnalyst([a EXCEPT !.compare = [gen |-> @.gen + 1, loading |-> TRUE, shown |-> None]],
                    <<[kind |-> "Compare", query |-> a.active, gen |-> a.compare.gen + 1]>>)

OpenProfile(a, c) ==
    AskAnalyst([a EXCEPT !.profile = [gen |-> @.gen + 1, loading |-> TRUE, shown |-> None],
                         !.dossier = c],
               <<[kind |-> "Profile", query |-> c, gen |-> a.profile.gen + 1]>>)

CloseProfile(a) ==
    [a EXCEPT !.profile = [gen |-> @.gen + 1, loading |-> FALSE, shown |-> None],
              !.dossier = None]
----------------------------------------------------------------------------
(* Answers: drain_messages                                                 *)

Source(m) == [query |-> m.query, at |-> m.at]

SearchPage(a, m) ==
    IF m.gen # a.gen THEN a
    ELSE LET none == a.page = 0 /\ m.none
         IN  [a EXCEPT !.rows = [query |-> m.query, page |-> m.page, at |-> m.at, none |-> m.none],
                       !.more = m.more, !.searching = FALSE,
                       !.total = IF none THEN [query |-> m.query, at |-> m.at, pages |-> 0] ELSE @,
                       !.counting = @ /\ ~none]

SearchCount(a, m) ==
    IF m.gen # a.gen THEN a
    ELSE [a EXCEPT !.total = [query |-> m.query, at |-> m.at, pages |-> m.pages],
                   !.counting = FALSE]

\* Mutant: the count of a search that failed is still awaited.
SearchErrorCounting(a, m) ==
    IF m.gen # a.gen THEN a ELSE [a EXCEPT !.searching = FALSE, !.loading = FALSE]

SearchError(a, m) ==
    LET b == IF m.gen # a.gen THEN a
             ELSE [a EXCEPT !.searching = FALSE, !.counting = FALSE, !.loading = FALSE]
    IN  IF b.explorer # None /\ b.explorer.gen = m.gen
        THEN [b EXCEPT !.explorer.loading = FALSE] ELSE b

AnalyticsDone(a, m) ==
    LET same == a.analytics # None /\ a.analyticsGen = m.gen
        sections == IF same THEN a.analytics.sections ELSE [s \in Scopes |-> None]
        section == [query |-> m.query, at |-> m.at, limit |-> m.limit, level |-> m.level]
    IN  IF m.gen # a.gen THEN a
        ELSE [a EXCEPT !.analytics = [base |-> Source(m),
                                      sections |-> [s \in Scopes |->
                                         IF s = m.scope THEN section ELSE sections[s]]],
                       !.loaded = (IF same THEN @ ELSE {}) \cup {ViewOf(m.scope)},
                       !.analyticsGen = m.gen, !.loading = FALSE]

SectionDone(a, m) ==
    IF a.explorer # None /\ a.explorer.gen = m.gen /\ a.explorer.kind = m.section
    THEN [a EXCEPT !.explorer.rows = Source(m), !.explorer.loading = FALSE]
    ELSE a

PivotDone(a, m) ==
    IF m.gen # a.gen THEN a
    ELSE [a EXCEPT !.pivot = [query |-> m.query, at |-> m.at, dims |-> m.dims],
                   !.analyticsGen = m.gen, !.loaded = @ \cup {"Pivot"}, !.loading = FALSE]

PanelDone(p, m) ==
    IF m.gen # p.gen THEN p ELSE [p EXCEPT !.shown = Source(m), !.loading = FALSE]

\* Mutant: the search is asked for before the worker is told of the change.
AfterChangeLate(a) == AskSearch(StartSearch([a EXCEPT !.busy = FALSE]), [kind |-> "Stats"])

AfterChange(a) == StartSearch(AskSearch([a EXCEPT !.busy = FALSE], [kind |-> "Stats"]))

\* An index that an earlier run left behind the rows is repaired at once.
StartupDone(a, m) ==
    LET b == [a EXCEPT !.ready = TRUE, !.dbTotal = m.at, !.busy = @ \/ m.unindexed]
    IN  IF m.kind = "StartupFailed" THEN [a EXCEPT !.searching = FALSE, !.counting = FALSE]
        ELSE IF m.empty THEN [b EXCEPT !.rows = None,
                                       !.total = [query |-> a.active, at |-> m.at, pages |-> 0]]
        ELSE StartSearch(AskSearch(b, [kind |-> "Stats"]))

Handled(a, m) ==
    CASE m.kind = "SearchPage" -> SearchPage(a, m)
      [] m.kind = "SearchCount" -> SearchCount(a, m)
      [] m.kind = "SearchError" -> SearchError(a, m)
      [] m.kind = "AnalyticsDone" -> AnalyticsDone(a, m)
      [] m.kind = "SectionDone" -> SectionDone(a, m)
      [] m.kind = "PivotDone" -> PivotDone(a, m)
      [] m.kind = "ProfileDone" -> [a EXCEPT !.profile = PanelDone(@, m)]
      [] m.kind = "CompareDone" -> [a EXCEPT !.compare = PanelDone(@, m)]
      [] m.kind = "CompareError" ->
           [a EXCEPT !.compare.loading = @ /\ m.gen # a.compare.gen]
      [] m.kind = "UnderpricingDone" -> [a EXCEPT !.underpricing = PanelDone(@, m)]
      [] m.kind = "Stats" -> [a EXCEPT !.dbTotal = m.at]
      [] m.kind = "ImportDone" -> AfterChange([a EXCEPT !.dbTotal = m.at])
      [] m.kind = "DbCleared" -> AfterChange(a)
      [] m.kind \in {"ExportDone", "MaintenanceDone", "Fatal"} -> [a EXCEPT !.busy = FALSE]
      [] m.kind \in {"StartupDone", "StartupFailed"} -> StartupDone(a, m)

\* A channel whose receiver is gone takes nothing.
Window(a) == app' = [a EXCEPT !.searchTx = IF search = "dead" THEN <<>> ELSE @,
                              !.analyticsTx = IF analyst = "dead" THEN <<>> ELSE @]

Operation(kind) == [kind |-> kind, at |-> "running", changed |-> FALSE]

Drain ==
    /\ messages # <<>>
    /\ Window(Handled(app, Head(messages)))
    /\ messages' = Tail(messages)
    /\ ops' = IF Head(messages).kind = "StartupDone" /\ Head(messages).unindexed
              THEN Append(ops, Operation("Repair")) ELSE ops
    /\ UNCHANGED <<startup, search, count, analyst, data, clicks, faults>>
----------------------------------------------------------------------------
(* The threads behind the window                                           *)

Fails == faults < MaxFaults /\ faults' = faults + 1

Startup ==
    /\ startup = "running" /\ startup' = "ended"
    /\ \/ \E unindexed \in BOOLEAN :
            /\ unindexed => ~data.empty /\ Len(ops) < MaxOps
            /\ Tell([kind |-> "StartupDone", at |-> data.version, empty |-> data.empty,
                     unindexed |-> unindexed])
            /\ UNCHANGED faults
       \/ /\ Fails
          /\ Tell([kind |-> "StartupFailed", at |-> data.version, empty |-> data.empty,
                   unindexed |-> FALSE])
    /\ UNCHANGED <<app, search, count, analyst, ops, data, clicks>>

\* A worker opens the database at its first request, and ends if it cannot.
SearchDies ==
    /\ search = "new" /\ app.searchTx # <<>> /\ Fails
    /\ search' = "dead" /\ Tell([kind |-> "Fatal"])
    /\ app' = [app EXCEPT !.searchTx = <<>>]
    /\ UNCHANGED <<startup, count, analyst, ops, data, clicks>>

AnalystDies ==
    /\ analyst = "new" /\ app.analyticsTx # <<>> /\ Fails
    /\ analyst' = "dead" /\ Tell([kind |-> "Fatal"])
    /\ app' = [app EXCEPT !.analyticsTx = <<>>]
    /\ UNCHANGED <<startup, search, count, ops, data, clicks>>

AskCount(req) ==
    count' = [count EXCEPT !.worker = IF @ = "none" THEN "new" ELSE @,
                           !.rx = IF count.worker = "dead" THEN <<>> ELSE Append(@, req)]
NoCount == count' = [count EXCEPT !.worker = IF @ = "none" THEN "new" ELSE @]

PageOf(req) ==
    [kind |-> "SearchPage", gen |-> req.gen, query |-> req.query, page |-> req.page,
     at |-> data.version, none |-> PagesOf(req.query) <= req.page,
     more |-> PagesOf(req.query) > req.page + 1]

CountOf(req, at, pages) ==
    [kind |-> "SearchCount", gen |-> req.gen, query |-> req.query, at |-> at, pages |-> pages]

\* The search worker serves its next request; an empty first page needs no count.
ServeSearch ==
    LET req == Head(app.searchTx)
        page == PageOf(req)
    IN  /\ search \in {"new", "open"} /\ app.searchTx # <<>>
        /\ search' = "open"
        /\ app' = [app EXCEPT !.searchTx = Tail(@)]
        /\ \/ /\ req.kind = "Search" /\ page.none /\ req.page = 0
              /\ Len(messages) < MaxMessages
              /\ messages' = messages \o <<page, CountOf(req, data.version, 0)>>
              /\ NoCount /\ UNCHANGED faults
           \/ /\ req.kind = "Search" /\ ~(page.none /\ req.page = 0)
              /\ Tell(page)
              /\ AskCount([kind |-> "Count", query |-> req.query, gen |-> req.gen])
              /\ UNCHANGED faults
           \/ /\ req.kind = "Search" /\ Fails
              /\ Tell([kind |-> "SearchError", gen |-> req.gen])
              /\ NoCount
           \/ /\ req.kind = "Stats"
              /\ AskCount([kind |-> "ClearCache"])
              /\ Tell([kind |-> "Stats", at |-> data.version])
              /\ UNCHANGED faults
        /\ UNCHANGED <<startup, analyst, ops, data, clicks>>

CountDies ==
    /\ count.worker = "new" /\ Fails
    /\ count' = [count EXCEPT !.worker = "dead", !.rx = <<>>]
    /\ Tell([kind |-> "Fatal"])
    /\ UNCHANGED <<app, startup, search, analyst, ops, data, clicks>>

\* It takes all there is: only the last request is served, and none that a
\* change of the data has overtaken.
DrainCounts ==
    LET last == count.rx[Len(count.rx)]
        cleared == \E i \in DOMAIN count.rx : count.rx[i].kind = "ClearCache"
    IN  /\ count.worker \in {"new", "open"} /\ count.rx # <<>> /\ count.at = None
        /\ count' = [count EXCEPT !.worker = "open", !.rx = <<>>,
                                  !.at = IF last.kind = "Count" THEN last ELSE None,
                                  !.cache = IF cleared THEN None ELSE @]
        /\ UNCHANGED <<app, messages, startup, search, analyst, ops, data, clicks, faults>>

Count ==
    LET req == count.at
        hit == count.cache # None /\ count.cache.query = req.query
        fresh == [query |-> req.query, at |-> data.version, pages |-> PagesOf(req.query)]
        total == IF hit THEN count.cache ELSE fresh
    IN  /\ req # None
        /\ \/ /\ Tell(CountOf(req, total.at, total.pages))
              /\ count' = [count EXCEPT !.at = None, !.cache = total]
              /\ UNCHANGED faults
           \/ /\ ~hit /\ Fails
              /\ Tell([kind |-> "SearchError", gen |-> req.gen])
              /\ count' = [count EXCEPT !.at = None]
        /\ UNCHANGED <<app, startup, search, analyst, ops, data, clicks>>

Answer(req) ==
    CASE req.kind = "Analytics" ->
           [kind |-> "AnalyticsDone", gen |-> req.gen, query |-> req.query, at |-> data.version,
            scope |-> req.scope, limit |-> req.limit, level |-> req.level]
      [] req.kind = "Section" ->
           [kind |-> "SectionDone", gen |-> req.gen, query |-> req.query, at |-> data.version,
            section |-> req.section]
      [] req.kind = "Pivot" ->
           [kind |-> "PivotDone", gen |-> req.gen, query |-> req.query, at |-> data.version,
            dims |-> req.dims]
      [] req.kind \in {"Profile", "Compare", "Underpricing"} ->
           [kind |-> IF req.kind = "Profile" THEN "ProfileDone"
                     ELSE IF req.kind = "Compare" THEN "CompareDone" ELSE "UnderpricingDone",
            gen |-> req.gen, query |-> req.query, at |-> data.version]

\* A failure is an error of the search, whatever was asked, but for the comparison.
ServeAnalytics ==
    LET req == Head(app.analyticsTx)
        error == IF req.kind = "Compare" THEN "CompareError" ELSE "SearchError"
    IN  /\ analyst \in {"new", "open"} /\ app.analyticsTx # <<>>
        /\ analyst' = "open"
        /\ app' = [app EXCEPT !.analyticsTx = Tail(@)]
        /\ \/ Tell(Answer(req)) /\ UNCHANGED faults
           \/ Fails /\ Tell([kind |-> error, gen |-> req.gen])
        /\ UNCHANGED <<startup, search, count, ops, data, clicks>>

Running(i) == ops[i].at = "running"
Ended(i) == ops' = [ops EXCEPT ![i].at = "ended"]

\* A file is committed, the index catches up, or everything is deleted.
Commit(i) ==
    /\ Running(i) /\ data.version < MaxCommits
    /\ \/ ops[i].kind = "Import" /\ data' = [version |-> data.version + 1, empty |-> FALSE]
       \/ ops[i].kind = "Repair" /\ data' = [data EXCEPT !.version = @ + 1]
       \/ /\ ops[i].kind = "Clear" /\ ~ops[i].changed
          /\ data' = [version |-> data.version + 1, empty |-> TRUE]
    /\ ops' = [ops EXCEPT ![i].changed = TRUE]
    /\ UNCHANGED <<app, messages, startup, search, count, analyst, clicks, faults>>

\* An operation ends, with or without success, early if it was cancelled.
Finish(i) ==
    /\ Running(i) /\ Ended(i)
    /\ Tell(CASE ops[i].kind \in {"Import", "Repair"} -> [kind |-> "ImportDone", at |-> data.version]
              [] ops[i].kind = "Clear" -> [kind |-> "DbCleared"]
              [] ops[i].kind = "Export" -> [kind |-> "ExportDone"]
              [] ops[i].kind = "Maintenance" -> [kind |-> "MaintenanceDone"])
    /\ UNCHANGED <<app, startup, search, count, analyst, data, clicks, faults>>

CannotOpen(i) ==
    /\ Running(i) /\ ~ops[i].changed /\ ops[i].kind \in {"Import", "Repair", "Export"}
    /\ Fails /\ Ended(i) /\ Tell([kind |-> "Fatal"])
    /\ UNCHANGED <<app, startup, search, count, analyst, data, clicks>>
----------------------------------------------------------------------------
(* The user                                                                *)

Pending ==
    Len(app.searchTx) + Len(app.analyticsTx) + Len(messages) + Len(count.rx)
    + (IF count.at = None THEN 0 ELSE 1) + (IF startup = "running" THEN 1 ELSE 0)
    + (IF \E i \in DOMAIN ops : Running(i) THEN 1 ELSE 0)

Click(a) ==
    /\ clicks.all < MaxClicks /\ Pending <= MaxPending
    /\ Pending > 0 => clicks.hasty < MaxHaste
    /\ clicks' = [all |-> clicks.all + 1, hasty |-> clicks.hasty + IF Pending > 0 THEN 1 ELSE 0]
    /\ Window(a)
    /\ UNCHANGED <<messages, startup, search, count, analyst, data, faults>>

ProfileOpen == app.profile.shown # None \/ app.profile.loading
InResults == app.ready /\ app.tab = "Results" /\ ~ProfileOpen
InAnalytics ==
    app.ready /\ app.tab = "Analytics" /\ ~ProfileOpen
    /\ app.active # NoQuery /\ app.analytics # None
HasRows == app.rows # None /\ ~app.rows.none

Type(q) == q # app.typed /\ Click([app EXCEPT !.typed = q]) /\ UNCHANGED ops

\* A search from the toolbar stays on its tab; one from a stored query, a
\* dossier or a report goes to the results.
Find(q, tab) ==
    /\ app.ready /\ tab \in {app.tab, "Results"}
    /\ \/ Click(StartSearch([app EXCEPT !.typed = q, !.tab = tab]))
       \/ /\ ProfileOpen /\ tab = "Results"
          /\ Click(StartSearch([CloseProfile(app) EXCEPT !.typed = q, !.tab = tab]))
    /\ UNCHANGED ops

PageCount ==
    IF app.total # None THEN IF app.total.pages = 0 THEN 1 ELSE app.total.pages
    ELSE IF ~app.searching /\ app.more THEN app.page + 2 ELSE app.page + 1

CanGoNext ==
    IF app.total # None THEN app.page + 1 < PageCount ELSE ~app.searching /\ app.more

\* Mutant: the page before the first can be turned to.
TargetsBelow ==
    {app.page - 1, 0} \cup (IF CanGoNext THEN {app.page + 1} ELSE {})

Targets ==
    (IF app.page > 0 THEN {app.page - 1, 0} ELSE {})
    \cup (IF CanGoNext THEN {app.page + 1} ELSE {})
    \cup (IF app.total # None /\ app.page + 1 < PageCount THEN {PageCount - 1} ELSE {})

TurnPage == \E p \in Targets : Click(GotoPage(app, p)) /\ UNCHANGED ops

ShowTab(tab) ==
    LET a == [app EXCEPT !.tab = tab]
    IN  /\ tab # app.tab
        /\ Click(IF tab = "Analytics" /\ app.ready THEN RequestAnalytics(a) ELSE a)
        /\ UNCHANGED ops

ChooseView(v) ==
    /\ InAnalytics /\ v # app.view
    /\ Click(RequestAnalytics([app EXCEPT !.view = v])) /\ UNCHANGED ops

ChooseLevel(l) ==
    /\ InAnalytics /\ app.view = "Products" /\ l # app.level
    /\ Click(RequestAnalytics([app EXCEPT !.level = l, !.loaded = @ \ {"Products"}]))
    /\ UNCHANGED ops

ShowMore ==
    /\ InAnalytics /\ app.view \in Scopes \ {"Prices"} /\ app.limit < 50
    /\ Click(RequestAnalytics([app EXCEPT
                !.limit = 50, !.loaded = {},
                !.overtaken = @ \/ app.analyticsTx # <<>> \/ messages # <<>>]))
    /\ UNCHANGED ops

Repivot(d) ==
    /\ InAnalytics /\ app.view = "Pivot" /\ d # app.dims
    /\ Click(RequestPivot([app EXCEPT !.dims = d])) /\ UNCHANGED ops

Compare == InAnalytics /\ app.view = "Compare" /\ Click(RequestCompare(app)) /\ UNCHANGED ops

Scan ==
    /\ InAnalytics /\ app.view = "Prices" /\ "Prices" \in app.loaded /\ ~app.underpricing.loading
    /\ Click(RequestUnderpricing(app)) /\ UNCHANGED ops

Explore(k) ==
    /\ InAnalytics /\ app.view \in app.loaded \cap Scopes
    /\ Click(OpenGroupExplorer(app, k)) /\ UNCHANGED ops

CloseExplorer ==
    app.explorer # None /\ Click([app EXCEPT !.explorer = None]) /\ UNCHANGED ops

ShowProfile(c) == Click(OpenProfile(app, c)) /\ UNCHANGED ops
LeaveProfile == ProfileOpen /\ Click(CloseProfile(app)) /\ UNCHANGED ops

(* A guided question asks about what is typed, searched for or not, and is *)
(* there before the database is.                                           *)
Guide(a) ==
    /\ app.typed # NoQuery
    /\ Click(IF app.typed # app.active THEN StartSearch(a) ELSE RequestAnalytics(a))
    /\ UNCHANGED ops

GuideToView(v) == Guide([app EXCEPT !.tab = "Analytics", !.view = v])

GuideToPivot(d) ==
    Guide([app EXCEPT !.tab = "Analytics", !.view = "Pivot", !.dims = d, !.pivot = None,
                      !.loaded = @ \ {"Pivot"}])

GuideToGroups(k) ==
    LET a == [app EXCEPT !.tab = "Analytics"]
    IN  /\ app.typed # NoQuery
        /\ Click(OpenGroupExplorer(IF app.typed # app.active THEN StartSearch(a) ELSE a, k))
        /\ UNCHANGED ops

(* Operations are started one at a time, but for the import button of the  *)
(* empty workspace and the confirmation of a clearing, which may have been *)
(* opened before.                                                          *)
Start(kind) ==
    /\ Len(ops) < MaxOps
    /\ Click([app EXCEPT !.busy = TRUE])
    /\ ops' = Append(ops, Operation(kind))

EmptyWorkspace ==
    InResults /\ ~HasRows /\ app.total # None /\ app.total.pages = 0 /\ app.active = NoQuery

StartImport == app.ready /\ (~app.busy \/ EmptyWorkspace) /\ Start("Import")
StartExport ==
    /\ app.ready /\ ~app.busy /\ (HasRows \/ (app.total # None /\ app.total.pages > 0))
    /\ Start("Export")
StartClear == app.ready /\ Start("Clear")
StartMaintenance == app.ready /\ ~app.busy /\ Start("Maintenance")

\* A frame of the analytics tab that finds nothing to show asks for it.
Repaint ==
    /\ app.ready /\ app.tab = "Analytics" /\ ~ProfileOpen /\ app.active # NoQuery
    /\ app.analytics = None /\ ~app.loading
    /\ Window(RequestAnalytics(app))
    /\ UNCHANGED <<messages, workerVars, clicks, faults>>
----------------------------------------------------------------------------
NoPanel == [gen |-> 0, loading |-> FALSE, shown |-> None]

Init ==
    /\ data \in [version : {0}, empty : BOOLEAN]
    /\ app \in [ready : {FALSE}, typed : {NoQuery}, active : {NoQuery}, page : {0},
                rows : {None}, total : {None}, more : {FALSE}, gen : {0},
                searching : {FALSE}, counting : {FALSE}, tab : {"Results"}, view : {"Overview"},
                analytics : {None}, analyticsGen : {0}, loaded : {{}}, loading : {FALSE},
                level : {CHOOSE l \in Levels : TRUE}, limit : {10}, explorer : {None},
                pivot : {None}, dims : {CHOOSE d \in Dims : TRUE},
                profile : {NoPanel}, compare : {NoPanel}, underpricing : {NoPanel},
                busy : {FALSE}, dbTotal : {None}, searchTx : {<<>>}, analyticsTx : {<<>>},
                turned : {FALSE}, overtaken : {FALSE}, dossier : {None}]
    /\ messages = <<>> /\ startup = "running" /\ search = "new" /\ analyst = "new"
    /\ count = [worker |-> "none", rx |-> <<>>, cache |-> None, at |-> None]
    /\ ops = <<>> /\ clicks = [all |-> 0, hasty |-> 0] /\ faults = 0

Threads ==
    \/ Drain \/ Repaint \/ Startup \/ SearchDies \/ ServeSearch \/ CountDies \/ DrainCounts \/ Count
    \/ AnalystDies \/ ServeAnalytics
    \/ \E i \in DOMAIN ops : Commit(i) \/ Finish(i) \/ CannotOpen(i)

User ==
    \/ \E q \in Asked : Type(q) \/ \E tab \in {"Results", "Analytics"} : Find(q, tab)
    \/ TurnPage
    \/ \E tab \in {"Results", "Analytics"} : ShowTab(tab)
    \/ \E v \in Views : ChooseView(v) \/ GuideToView(v)
    \/ \E l \in Levels : ChooseLevel(l)
    \/ ShowMore \/ Compare \/ Scan \/ CloseExplorer \/ LeaveProfile
    \/ \E d \in Dims : Repivot(d) \/ GuideToPivot(d)
    \/ \E k \in Kinds : Explore(k) \/ GuideToGroups(k)
    \/ \E c \in Companies : ShowProfile(c)
    \/ StartImport \/ StartExport \/ StartClear \/ StartMaintenance

Next == Threads \/ User
Spec == Init /\ [][Next]_vars

(* The threads run; operations end.  The user need not do anything.        *)
Fairness ==
    /\ WF_vars(Drain) /\ WF_vars(Repaint) /\ WF_vars(Startup)
    /\ WF_vars(ServeSearch) /\ WF_vars(DrainCounts) /\ WF_vars(Count) /\ WF_vars(ServeAnalytics)
    /\ \A i \in 1..MaxOps : WF_vars(i \in DOMAIN ops /\ Finish(i))

FairSpec == Spec /\ Fairness
----------------------------------------------------------------------------
Panel(S) == [gen : Nat, loading : BOOLEAN, shown : {None} \cup [query : S, at : Versions]]

\* Every field of the window holds what its type allows; pages are not below the first.
TypeOK ==
    /\ app.page \in Nat /\ app.gen \in Nat /\ app.analyticsGen \in 0..app.gen
    /\ {app.typed, app.active} \subseteq Asked
    /\ {app.ready, app.more, app.searching, app.counting, app.loading, app.busy, app.turned,
      app.overtaken} \subseteq BOOLEAN
    /\ app.rows \in {None} \cup [query : Asked, page : Nat, at : Versions, none : BOOLEAN]
    /\ app.total \in {None} \cup [query : Asked, at : Versions, pages : Nat]
    /\ app.tab \in {"Results", "Analytics"} /\ app.view \in Views /\ app.loaded \subseteq Views
    /\ app.level \in Levels /\ app.limit \in Limits /\ app.dims \in Dims
    /\ app.profile \in Panel(Companies) /\ app.compare \in Panel(Asked)
    /\ app.underpricing \in Panel(Asked)
    /\ app.dbTotal \in {None} \cup Versions /\ data \in [version : Versions, empty : BOOLEAN]

ShownSection(scope) == app.analytics.sections[scope]
ReportReady ==
    /\ app.analyticsGen = app.gen /\ app.analytics # None /\ Scopes \subseteq app.loaded

(* Whatever the user does while requests are under way, what the window    *)
(* shows as found belongs to what is asked: rows and count to the active   *)
(* query and page once no search is in flight (an error leaves the rows    *)
(* before), analytics, pivot, groups and scan to the active query, a       *)
(* dossier to the company that is open, and a view that counts as loaded   *)
(* has its section (drain_messages, handle_analytics_done).                *)
ShownIsAsked ==
    /\ app.ready /\ app.rows # None /\ ~app.searching /\ faults = 0 =>
          app.rows.query = app.active /\ app.rows.page = app.page
    /\ app.total # None => app.total.query = app.active
    /\ app.analytics # None =>
          /\ app.analytics.base.query = app.active
          /\ \A s \in app.loaded \cap Scopes :
                ShownSection(s) # None /\ ShownSection(s).query = app.active
    /\ app.pivot # None => app.pivot.query = app.active
    /\ app.explorer # None /\ app.explorer.rows # None => app.explorer.rows.query = app.active
    /\ app.underpricing.shown # None => app.underpricing.shown.query = app.active
    /\ app.profile.shown # None => app.profile.shown.query = app.dossier

AtRest ==
    /\ app.ready /\ Pending = 0 /\ faults = 0

(* When all threads have come to rest, without a failure, the window shows *)
(* the present data and the present settings: no answer that was computed  *)
(* before an import or a clearing, or with the settings before the last    *)
(* ones, is the last word.  A dossier is not renewed, and a comparison     *)
(* need not be of the present search; after a page was turned an answer of *)
(* the last level or pivot may have been thrown away (goto_page), and more *)
(* rows asked for while other answers are under way are not asked of those.*)
FreshAtRest ==
    AtRest =>
      /\ app.dbTotal = data.version
      /\ app.rows = None => data.empty
      /\ app.rows # None => app.rows.at = data.version /\ app.total # None
      /\ app.total # None => app.total.at = data.version /\ app.total.pages = PagesOf(app.active)
      /\ app.analytics # None =>
            /\ app.analytics.base.at = data.version
            /\ \A s \in app.loaded \cap Scopes :
                  /\ ShownSection(s).at = data.version
                  /\ ~app.overtaken => ShownSection(s).limit = app.limit
                  /\ ~app.turned /\ s = "Products" => ShownSection(s).level = app.level
      /\ app.pivot # None =>
            app.pivot.at = data.version /\ (~app.turned => app.pivot.dims = app.dims)
      /\ app.explorer # None => app.explorer.rows # None /\ app.explorer.rows.at = data.version
      /\ app.underpricing.shown # None => app.underpricing.shown.at = data.version

\* The view the user is on has a spinner where its contents should be.
ViewWaits ==
    /\ app.ready /\ app.tab = "Analytics" /\ ~ProfileOpen /\ app.active # NoQuery
    /\ \/ app.analytics = None
       \/ app.view \in Scopes /\ app.view \notin app.loaded
       \/ app.view = "Pivot" /\ (app.pivot = None \/ "Pivot" \notin app.loaded)
       \/ app.view = "Report" /\ ~ReportReady

(* Waiting ends.  A search and its count are answered, with an error at    *)
(* worst, unless a worker could not open the database; a view of the       *)
(* analytics is filled, unless something failed or a page was turned since *)
(* the search, which makes every answer under way stale (goto_page).       *)
WaitingEnds ==
    /\ app.searching \/ app.counting ~>
          ~(app.searching \/ app.counting) \/ search = "dead" \/ count.worker = "dead"
    /\ ViewWaits ~> ~ViewWaits \/ app.turned \/ faults > 0
=============================================================================
