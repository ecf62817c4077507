----------------------------- MODULE DesktopProofs -----------------------------
(***************************************************************************)
(* Theorems about Desktop: its type, and that what the window shows is of  *)
(* what is asked.                                                          *)
(*                                                                         *)
(* An answer is shown when its generation is the one the window expects.   *)
(* That this makes it an answer to what is asked is a fact about all that  *)
(* is under way, requests in the channels, the request the count worker is *)
(* at, and answers: none has a generation the window has not reached, and  *)
(* one of the generation that is expected is of the query (and page, or    *)
(* company) that is asked now.  The window changes what is asked only with *)
(* a new generation, so what is under way stays so (Carries): the proof    *)
(* shows for each change of the window that it leaves a good window and    *)
(* carries what was under way, and for each thread that it answers with    *)
(* what it was asked.                                                      *)
(***************************************************************************)
EXTENDS Desktop, SequenceTheorems, WellFoundedInduction, TLAPS

(* What is under way, by what it belongs to.  An item is a request or an   *)
(* answer; a is the window it belongs to.  An item of the generation that  *)
(* is expected is of what is asked now.                                    *)
Current(a, m) == m.gen <= a.gen /\ (m.gen = a.gen => m.query = a.active)
OfPage(a, m) == Current(a, m) /\ (m.gen = a.gen => m.page = a.page)
OfGroups(a, m) ==
    Current(a, m) /\ (a.explorer # None /\ a.explorer.gen = m.gen => m.query = a.active)
OfScan(a, m) ==
    m.gen <= a.underpricing.gen /\ (m.gen = a.underpricing.gen => m.query = a.active)
OfDossier(a, m) ==
    m.gen <= a.profile.gen /\ (m.gen = a.profile.gen => m.query = a.dossier)

Searches(a) ==
    {m \in [kind : {"Search"}, query : Asked, page : Nat, gen : Nat] : OfPage(a, m)}
    \cup [kind : {"Stats"}]

CountsAsked(a) == {m \in [kind : {"Count"}, query : Asked, gen : Nat] : Current(a, m)}
Counts(a) == CountsAsked(a) \cup [kind : {"ClearCache"}]

ScopesAsked(a) ==
    {m \in [kind : {"Analytics"}, query : Asked, scope : Scopes \cup {None}, limit : Limits,
            level : Levels, gen : Nat] : Current(a, m)}
GroupsAsked(a) ==
    {m \in [kind : {"Section"}, query : Asked, section : Kinds, gen : Nat] : OfGroups(a, m)}
PivotsAsked(a) ==
    {m \in [kind : {"Pivot"}, query : Asked, dims : Dims, gen : Nat] : Current(a, m)}
ScansAsked(a) ==
    {m \in [kind : {"Underpricing"}, query : Asked, gen : Nat] : OfScan(a, m)}
DossiersAsked(a) ==
    {m \in [kind : {"Profile"}, query : Companies, gen : Nat] : OfDossier(a, m)}
Comparisons == [kind : {"Compare"}, query : Asked, gen : Nat]

Analyses(a) ==
    ScopesAsked(a) \cup GroupsAsked(a) \cup PivotsAsked(a) \cup ScansAsked(a) \cup DossiersAsked(a)
    \cup Comparisons

PagesFound(a) ==
    {m \in [kind : {"SearchPage"}, gen : Nat, query : Asked, page : Nat, at : Versions,
            none : BOOLEAN, more : BOOLEAN] : OfPage(a, m)}
CountsFound(a) ==
    {m \in [kind : {"SearchCount"}, gen : Nat, query : Asked, at : Versions, pages : Nat] :
        Current(a, m)}
ScopesFound(a) ==
    {m \in [kind : {"AnalyticsDone"}, gen : Nat, query : Asked, at : Versions,
            scope : Scopes \cup {None}, limit : Limits, level : Levels] : Current(a, m)}
GroupsFound(a) ==
    {m \in [kind : {"SectionDone"}, gen : Nat, query : Asked, at : Versions, section : Kinds] :
        OfGroups(a, m)}
PivotsFound(a) ==
    {m \in [kind : {"PivotDone"}, gen : Nat, query : Asked, at : Versions, dims : Dims] :
        Current(a, m)}
ScansFound(a) ==
    {m \in [kind : {"UnderpricingDone"}, gen : Nat, query : Asked, at : Versions] : OfScan(a, m)}
DossiersFound(a) ==
    {m \in [kind : {"ProfileDone"}, gen : Nat, query : Companies, at : Versions] : OfDossier(a, m)}
ComparisonsFound == [kind : {"CompareDone"}, gen : Nat, query : Asked, at : Versions]

Errors(f) == {m \in [kind : {"SearchError", "CompareError"}, gen : Nat] : f > 0}
Starts == [kind : {"StartupDone"}, at : Versions, empty : BOOLEAN, unindexed : BOOLEAN]
FailedStarts(f) ==
    {m \in [kind : {"StartupFailed"}, at : Versions, empty : BOOLEAN, unindexed : BOOLEAN] : f > 0}
News == [kind : {"Stats", "ImportDone"}, at : Versions]
Ends == [kind : {"DbCleared", "ExportDone", "MaintenanceDone", "Fatal"}]

Found(a) ==
    PagesFound(a) \cup CountsFound(a) \cup ScopesFound(a) \cup GroupsFound(a) \cup PivotsFound(a)
    \cup ScansFound(a) \cup DossiersFound(a) \cup ComparisonsFound
Notices(f) == Errors(f) \cup Starts \cup FailedStarts(f) \cup News \cup Ends
Answers(a, f) == Found(a) \cup Notices(f)

\* What is under way for the window a is under way for b.
Carries(a, b) ==
    /\ Searches(a) \subseteq Searches(b) /\ CountsAsked(a) \subseteq CountsAsked(b)
    /\ Analyses(a) \subseteq Analyses(b) /\ Found(a) \subseteq Found(b)
----------------------------------------------------------------------------
(* The window.                                                             *)

Fields ==
    {"ready", "typed", "active", "page", "rows", "total", "more", "gen", "searching", "counting",
     "tab", "view", "analytics", "analyticsGen", "loaded", "loading", "level", "limit", "explorer",
     "pivot", "dims", "profile", "compare", "underpricing", "busy", "dbTotal", "searchTx",
     "analyticsTx", "turned", "overtaken", "dossier"}

IsWindow(a) == a = [x \in Fields |-> a[x]]

Settings(a) ==
    /\ a.ready \in BOOLEAN /\ a.more \in BOOLEAN /\ a.counting \in BOOLEAN /\ a.loading \in BOOLEAN
    /\ a.busy \in BOOLEAN /\ a.turned \in BOOLEAN /\ a.overtaken \in BOOLEAN
    /\ a.typed \in Asked /\ a.tab \in {"Results", "Analytics"} /\ a.view \in Views
    /\ a.level \in Levels /\ a.limit \in Limits /\ a.dims \in Dims
    /\ a.dbTotal \in {None} \cup Versions

Explorer == [kind : Kinds, gen : Nat, loading : BOOLEAN, rows : {None} \cup [query : Asked, at : Versions]]

Results(a) ==
    /\ a.page \in Nat /\ a.gen \in Nat /\ a.analyticsGen \in 0..a.gen
    /\ a.active \in Asked /\ a.searching \in BOOLEAN /\ a.loaded \subseteq Views
    /\ a.rows \in {None} \cup [query : Asked, page : Nat, at : Versions, none : BOOLEAN]
    /\ a.total \in {None} \cup [query : Asked, at : Versions, pages : Nat]
    /\ a.explorer \in {None} \cup Explorer
    /\ a.profile \in Panel(Companies) /\ a.compare \in Panel(Asked)
    /\ a.underpricing \in Panel(Asked)

PageShown(a, f) ==
    a.rows # None /\ ~a.searching /\ f = 0 => a.rows.query = a.active /\ a.rows.page = a.page
SectionsShown(a) ==
    a.analytics # None =>
        /\ a.analytics.base.query = a.active
        /\ \A s \in a.loaded \cap Scopes :
              a.analytics.sections[s] # None /\ a.analytics.sections[s].query = a.active
Shown(a, f) ==
    /\ PageShown(a, f)
    /\ a.total # None => a.total.query = a.active
    /\ SectionsShown(a)
    /\ a.pivot # None => a.pivot.query = a.active
    /\ a.explorer # None /\ a.explorer.rows # None => a.explorer.rows.query = a.active
    /\ a.underpricing.shown # None => a.underpricing.shown.query = a.active
    /\ a.profile.shown # None => a.profile.shown.query = a.dossier

Sent(a) == a.searchTx \in Seq(Searches(a)) /\ a.analyticsTx \in Seq(Analyses(a))

Good(a, f) == IsWindow(a) /\ Settings(a) /\ Results(a) /\ Shown(a, f) /\ Sent(a)

CountStates(a) ==
    [worker : {"none", "new", "open", "dead"}, rx : Seq(Counts(a)),
     cache : {None} \cup [query : Asked, at : Versions, pages : Nat],
     at : {None} \cup CountsAsked(a)]

OpKinds == {"Import", "Repair", "Clear", "Export", "Maintenance"}
Operations == [kind : OpKinds, at : {"running", "ended"}, changed : BOOLEAN]

IInv ==
    /\ faults \in Nat
    /\ data \in [version : Versions, empty : BOOLEAN]
    /\ ops \in Seq(Operations)
    /\ Good(app, faults)
    /\ messages \in Seq(Answers(app, faults))
    /\ count \in CountStates(app)

----------------------------------------------------------------------------
(* The scopes in their order.                                              *)

\* A set of natural numbers has a least element.
LEMMA LeastOf ==
    ASSUME NEW S \in SUBSET Nat, S # {}
    PROVE  \E x \in S : \A y \in S : x <= y
<1> DEFINE R == OpToRel(<, Nat)
<1>1. IsWellFoundedOn(R, Nat)
    BY NatLessThanWellFounded
<1>2. \A x, y \in Nat : y < x => <<y, x>> \in R
    BY DEF OpToRel
<1> HIDE DEF R
<1>3. PICK x \in S : \A y \in S : ~(<<y, x>> \in R)
    BY <1>1, WFMin, Zenon
<1>4. \A y \in S : ~(y < x)
    BY <1>2, <1>3
<1> QED
    BY <1>4

LoopOver(S, n, loop) ==
    loop = [i \in 0..n |-> IF i = 0 THEN <<>>
                           ELSE IF ALL[i] \in S THEN Append(loop[i - 1], ALL[i]) ELSE loop[i - 1]]

\* The loop over the first n scopes runs: by the least n for which it would not.
LEMMA LoopRuns ==
    ASSUME NEW S, NEW N \in Nat
    PROVE  \E loop : LoopOver(S, N, loop)
<1> DEFINE Bad == {n \in Nat : ~\E loop : LoopOver(S, n, loop)}
<1> SUFFICES ASSUME Bad # {} PROVE FALSE
    OBVIOUS
<1>1. PICK n \in Bad : \A m \in Bad : n <= m
    BY LeastOf
<1>2. n # 0
    <2>1. LoopOver(S, 0, [i \in 0..0 |-> <<>>])
        BY DEF LoopOver
    <2> QED
        BY <2>1
<1>3. n - 1 \in Nat /\ n - 1 \notin Bad
    BY <1>1, <1>2
<1>4. PICK before : LoopOver(S, n - 1, before)
    BY <1>3
<1> DEFINE next == IF ALL[n] \in S THEN Append(before[n - 1], ALL[n]) ELSE before[n - 1]
           loop == [i \in 0..n |-> IF i = n THEN next ELSE before[i]]
<1>5. \A i \in 0..n : i = n \/ i \in 0..(n - 1)
    BY <1>1
<1>6. \A i \in 0..(n - 1) : i # n /\ i \in 0..n /\ (i # 0 => i - 1 \in 0..(n - 1))
    BY <1>1, <1>2
<1>7. n \in 0..n /\ n - 1 \in 0..n /\ n - 1 # n
    BY <1>1, <1>2
<1>8. \A i \in 0..(n - 1) : loop[i] = before[i]
    BY <1>6
<1>9. \A i \in 0..(n - 1) :
          before[i] = IF i = 0 THEN <<>>
                      ELSE IF ALL[i] \in S THEN Append(before[i - 1], ALL[i]) ELSE before[i - 1]
    BY <1>4 DEF LoopOver
<1>10. loop[n] = next /\ before[n - 1] = loop[n - 1]
    BY <1>7
<1> HIDE DEF loop
<1>11. \A i \in 0..n :
          loop[i] = IF i = 0 THEN <<>>
                    ELSE IF ALL[i] \in S THEN Append(loop[i - 1], ALL[i]) ELSE loop[i - 1]
    <2> SUFFICES ASSUME NEW i \in 0..n
                 PROVE  loop[i] = IF i = 0 THEN <<>>
                        ELSE IF ALL[i] \in S THEN Append(loop[i - 1], ALL[i]) ELSE loop[i - 1]
        OBVIOUS
    <2>1. CASE i = n
        BY <2>1, <1>2, <1>10
    <2>2. CASE i \in 0..(n - 1)
        BY <2>2, <1>6, <1>8, <1>9
    <2> QED
        BY <2>1, <2>2, <1>5
<1>12. LoopOver(S, n, loop)
    <2>1. loop = [i \in 0..n |-> loop[i]]
        BY DEF loop
    <2> QED
        BY <2>1, <1>11, Zenon DEF LoopOver
<1> QED
    BY <1>12, <1>1

\* What the loop has collected are scopes.
LEMMA LoopCollectsScopes ==
    ASSUME NEW S \in SUBSET Scopes, NEW N \in Nat, NEW loop, LoopOver(S, N, loop)
    PROVE  loop[N] \in Seq(Scopes)
<1> DEFINE Bad == {n \in 0..N : loop[n] \notin Seq(Scopes)}
<1> SUFFICES ASSUME Bad # {} PROVE FALSE
    OBVIOUS
<1>1. PICK n \in Bad : \A m \in Bad : n <= m
    <2>1. Bad \subseteq Nat
        OBVIOUS
    <2> HIDE DEF Bad
    <2> QED
        BY <2>1, LeastOf
<1>2. loop[n] = IF n = 0 THEN <<>>
                ELSE IF ALL[n] \in S THEN Append(loop[n - 1], ALL[n]) ELSE loop[n - 1]
    BY <1>1 DEF LoopOver
<1>3. n # 0
    <2>1. <<>> \in Seq(Scopes)
        OBVIOUS
    <2> QED
        BY <2>1, <1>1, <1>2
<1>4. n - 1 \in 0..N /\ n - 1 \notin Bad
    BY <1>1, <1>3
<1>5. loop[n - 1] \in Seq(Scopes)
    BY <1>4
<1>6. loop[n] \in Seq(Scopes)
    BY <1>2, <1>3, <1>5
<1> QED
    BY <1>1, <1>6

\* The loop over the scopes asks for scopes (request_report_data).
LEMMA InOrderType ==
    ASSUME NEW S \in SUBSET Scopes
    PROVE  InOrder(S) \in Seq(Scopes)
<1> DEFINE loop == CHOOSE loop : LoopOver(S, Len(ALL), loop)
<1>1. Len(ALL) \in Nat
    BY NamesAssumption
<1>2. LoopOver(S, Len(ALL), loop)
    BY <1>1, LoopRuns, Zenon
<1>3. InOrder(S) = loop[Len(ALL)]
    BY Zenon DEF InOrder, LoopOver
<1> QED
    BY <1>1, <1>2, <1>3, LoopCollectsScopes

----------------------------------------------------------------------------
(* Sequences of items.                                                     *)

\* A channel that carries items of a kind carries items of a wider one.
LEMMA WiderChannel ==
    ASSUME NEW S, NEW T, S \subseteq T, NEW s \in Seq(S)
    PROVE  s \in Seq(T)
OBVIOUS

\* What is sent to a channel, dropped with it, or taken from its head.
LEMMA Channels ==
    ASSUME NEW S, NEW s \in Seq(S)
    PROVE  /\ <<>> \in Seq(S)
           /\ \A e \in S : Append(s, e) \in Seq(S)
           /\ \A t \in Seq(S) : s \o t \in Seq(S)
           /\ s # <<>> => Head(s) \in S /\ Tail(s) \in Seq(S)
OBVIOUS

\* What is under way stays under way when the generations only grow.
LEMMA Carried ==
    ASSUME NEW a, NEW b,
           a.gen \in Nat, b.gen \in Nat, a.gen <= b.gen,
           b.gen = a.gen => b.active = a.active /\ b.page = a.page,
           b.explorer # None =>
               \/ b.explorer.gen = b.gen
               \/ /\ a.explorer # None /\ b.explorer.gen = a.explorer.gen
                  /\ b.active = a.active,
           a.profile.gen \in Nat, b.profile.gen \in Nat, a.profile.gen <= b.profile.gen,
           b.profile.gen = a.profile.gen => b.dossier = a.dossier,
           a.underpricing.gen \in Nat, b.underpricing.gen \in Nat,
           a.underpricing.gen <= b.underpricing.gen,
           b.underpricing.gen = a.underpricing.gen => b.active = a.active
    PROVE  Carries(a, b)
<1>1. ASSUME NEW m, m.gen \in Nat
      PROVE  /\ Current(a, m) => Current(b, m)
             /\ OfPage(a, m) => OfPage(b, m)
             /\ OfGroups(a, m) => OfGroups(b, m)
             /\ OfDossier(a, m) => OfDossier(b, m)
             /\ OfScan(a, m) => OfScan(b, m)
    <2>1. Current(a, m) => Current(b, m)
        BY <1>1 DEF Current
    <2>2. OfPage(a, m) => OfPage(b, m)
        BY <1>1, <2>1 DEF OfPage, Current
    <2>3. OfGroups(a, m) => OfGroups(b, m)
        BY <1>1, <2>1 DEF OfGroups, Current
    <2>4. OfDossier(a, m) => OfDossier(b, m)
        BY <1>1 DEF OfDossier
    <2>5. OfScan(a, m) => OfScan(b, m)
        BY <1>1 DEF OfScan
    <2> QED
        BY <2>1, <2>2, <2>3, <2>4, <2>5
<1>2. Searches(a) \subseteq Searches(b) /\ CountsAsked(a) \subseteq CountsAsked(b)
    BY <1>1 DEF Searches, CountsAsked
<1>3. /\ ScopesAsked(a) \subseteq ScopesAsked(b) /\ GroupsAsked(a) \subseteq GroupsAsked(b)
      /\ PivotsAsked(a) \subseteq PivotsAsked(b) /\ ScansAsked(a) \subseteq ScansAsked(b)
      /\ DossiersAsked(a) \subseteq DossiersAsked(b)
    BY <1>1 DEF ScopesAsked, GroupsAsked, PivotsAsked, ScansAsked, DossiersAsked
<1>4. /\ PagesFound(a) \subseteq PagesFound(b) /\ CountsFound(a) \subseteq CountsFound(b)
      /\ ScopesFound(a) \subseteq ScopesFound(b) /\ GroupsFound(a) \subseteq GroupsFound(b)
      /\ PivotsFound(a) \subseteq PivotsFound(b) /\ ScansFound(a) \subseteq ScansFound(b)
      /\ DossiersFound(a) \subseteq DossiersFound(b)
    BY <1>1 DEF PagesFound, CountsFound, ScopesFound, GroupsFound, PivotsFound, ScansFound, DossiersFound
<1>5. Analyses(a) \subseteq Analyses(b)
    BY <1>3 DEF Analyses
<1>6. Found(a) \subseteq Found(b)
    BY <1>4 DEF Found
<1> QED
    BY <1>2, <1>5, <1>6 DEF Carries

\* What the window carries.
LEMMA CarriesOn ==
    ASSUME NEW a, NEW b, NEW c, Carries(a, b), Carries(b, c)
    PROVE  Carries(a, c)
BY DEF Carries

\* What was sent stays sent when the window's generations only grow.
LEMMA SentIsCarried ==
    ASSUME NEW a, NEW b, Sent(a), Carries(a, b),
           b.searchTx = a.searchTx, b.analyticsTx = a.analyticsTx
    PROVE  Sent(b)
BY WiderChannel DEF Sent, Carries

(* The window after a change of settings.                                  *)
Minor(a, b, f) ==
    /\ IsWindow(b) /\ Settings(b)
    /\ b.gen = a.gen /\ b.active = a.active /\ b.page = a.page /\ b.analyticsGen = a.analyticsGen
    /\ b.rows = a.rows /\ (b.total = a.total \/ b.total = None)
    /\ b.analytics = a.analytics /\ b.loaded \subseteq a.loaded
    /\ b.pivot = a.pivot \/ b.pivot = None
    /\ b.explorer = a.explorer \/ b.explorer = None
    /\ b.underpricing = a.underpricing /\ b.profile = a.profile /\ b.dossier = a.dossier
    /\ b.compare \in Panel(Asked)
    /\ b.searching \in BOOLEAN /\ (b.searching = a.searching \/ f > 0)

\* A change of settings drops answers, at most.
LEMMA MinorKeeps ==
    ASSUME NEW a, NEW b, NEW f \in Nat, Good(a, f), Minor(a, b, f)
    PROVE  /\ Carries(a, b) /\ IsWindow(b) /\ Settings(b) /\ Results(b) /\ Shown(b, f)
           /\ (b.searchTx = a.searchTx /\ b.analyticsTx = a.analyticsTx => Good(b, f))
<1>1. Results(b)
    BY DEF Good, Minor, Results
<1>2. PageShown(b, f)
    BY DEF Good, Minor, Shown, PageShown
<1>3. SectionsShown(b)
    BY DEF Good, Minor, Shown, SectionsShown
<1>4. Shown(b, f)
    BY <1>2, <1>3 DEF Good, Minor, Shown
<1>5. Carries(a, b)
    <2>1. /\ a.gen \in Nat /\ b.gen = a.gen /\ b.active = a.active /\ b.page = a.page
          /\ b.profile = a.profile /\ b.dossier = a.dossier /\ b.underpricing = a.underpricing
          /\ (b.explorer = a.explorer \/ b.explorer = None)
        BY DEF Good, Minor, Results
    <2>2. a.profile.gen \in Nat /\ a.underpricing.gen \in Nat
        BY DEF Good, Results, Panel
    <2> QED
        BY <2>1, <2>2, Carried
<1>6. b.searchTx = a.searchTx /\ b.analyticsTx = a.analyticsTx => Sent(b)
    BY <1>5, SentIsCarried DEF Good
<1> QED
    BY <1>1, <1>4, <1>5, <1>6 DEF Good, Minor

----------------------------------------------------------------------------
(* Requests.                                                               *)

\* A panel that is closed, or closed and made to expect no answer under way, shows nothing.
LEMMA Panels ==
    ASSUME NEW S, NEW p \in Panel(S)
    PROVE  /\ p.gen \in Nat /\ p.loading \in BOOLEAN
           /\ p.shown \in {None} \cup [query : S, at : Versions]
           /\ Closed(p) \in Panel(S) /\ Closed(p).gen = p.gen /\ Closed(p).shown = None
           /\ Invalidated(p) \in Panel(S)
           /\ Invalidated(p).gen = p.gen + 1 /\ Invalidated(p).shown = None
<1>1. p.gen \in Nat /\ p.loading \in BOOLEAN /\ p.shown \in {None} \cup [query : S, at : Versions]
    BY DEF Panel
<1>2. /\ Closed(p) \in Panel(S) /\ Closed(p).gen = p.gen /\ Closed(p).shown = None
    BY DEF Panel, Closed
<1>3. p.gen + 1 \in Nat
    BY <1>1
<1>4. /\ Invalidated(p) \in Panel(S)
      /\ Invalidated(p).gen = p.gen + 1 /\ Invalidated(p).shown = None
    BY <1>2, <1>3 DEF Panel, Invalidated
<1> QED
    BY <1>1, <1>2, <1>4

\* Requests that belong to the window can be sent.
LEMMA AskAnalystKeeps ==
    ASSUME NEW a, NEW f \in Nat, Good(a, f), NEW reqs \in Seq(Analyses(a))
    PROVE  Good(AskAnalyst(a, reqs), f) /\ Carries(a, AskAnalyst(a, reqs))
<1> DEFINE b == AskAnalyst(a, reqs)
<1>1. /\ IsWindow(b) /\ b.analyticsTx = a.analyticsTx \o reqs /\ b.searchTx = a.searchTx
      /\ b.page = a.page /\ b.gen = a.gen /\ b.analyticsGen = a.analyticsGen /\ b.active = a.active
      /\ b.searching = a.searching /\ b.loaded = a.loaded /\ b.rows = a.rows /\ b.total = a.total
      /\ b.explorer = a.explorer /\ b.profile = a.profile /\ b.compare = a.compare
      /\ b.underpricing = a.underpricing /\ b.analytics = a.analytics /\ b.pivot = a.pivot
      /\ b.dossier = a.dossier
    BY DEF Good, IsWindow, Fields, AskAnalyst
<1>2. /\ b.ready = a.ready /\ b.more = a.more /\ b.counting = a.counting /\ b.loading = a.loading
      /\ b.busy = a.busy /\ b.turned = a.turned /\ b.overtaken = a.overtaken /\ b.typed = a.typed
      /\ b.tab = a.tab /\ b.view = a.view /\ b.level = a.level /\ b.limit = a.limit
      /\ b.dims = a.dims /\ b.dbTotal = a.dbTotal
    BY DEF Good, IsWindow, Fields, AskAnalyst
<1> HIDE DEF b
<1>3. Minor(a, b, f)
    BY <1>1, <1>2 DEF Good, Minor, Settings, Results
<1>4. Carries(a, b) /\ Results(b) /\ Shown(b, f)
    BY <1>3, MinorKeeps
<1>5. Sent(b)
    <2>1. a.analyticsTx \in Seq(Analyses(b)) /\ reqs \in Seq(Analyses(b)) /\ b.searchTx \in Seq(Searches(b))
        BY <1>1, <1>4, WiderChannel DEF Good, Sent, Carries
    <2> QED
        BY <2>1, <1>1, Channels DEF Sent
<1> QED
    BY <1>1, <1>3, <1>4, <1>5 DEF Good, Minor, b

\* A search that belongs to the window can be asked for.
LEMMA AskSearchKeeps ==
    ASSUME NEW a, NEW f \in Nat, Good(a, f), NEW req \in Searches(a)
    PROVE  Good(AskSearch(a, req), f) /\ Carries(a, AskSearch(a, req))
<1> DEFINE b == AskSearch(a, req)
<1>1. /\ IsWindow(b) /\ b.analyticsTx = a.analyticsTx /\ b.searchTx = Append(a.searchTx, req)
      /\ b.page = a.page /\ b.gen = a.gen /\ b.analyticsGen = a.analyticsGen /\ b.active = a.active
      /\ b.searching = a.searching /\ b.loaded = a.loaded /\ b.rows = a.rows /\ b.total = a.total
      /\ b.explorer = a.explorer /\ b.profile = a.profile /\ b.compare = a.compare
      /\ b.underpricing = a.underpricing /\ b.analytics = a.analytics /\ b.pivot = a.pivot
      /\ b.dossier = a.dossier
    BY DEF Good, IsWindow, Fields, AskSearch
<1>2. /\ b.ready = a.ready /\ b.more = a.more /\ b.counting = a.counting /\ b.loading = a.loading
      /\ b.busy = a.busy /\ b.turned = a.turned /\ b.overtaken = a.overtaken /\ b.typed = a.typed
      /\ b.tab = a.tab /\ b.view = a.view /\ b.level = a.level /\ b.limit = a.limit
      /\ b.dims = a.dims /\ b.dbTotal = a.dbTotal
    BY DEF Good, IsWindow, Fields, AskSearch
<1> HIDE DEF b
<1>3. Minor(a, b, f)
    BY <1>1, <1>2 DEF Good, Minor, Settings, Results
<1>4. Carries(a, b) /\ Results(b) /\ Shown(b, f)
    BY <1>3, MinorKeeps
<1>5. Sent(b)
    <2>1. /\ a.searchTx \in Seq(Searches(b)) /\ req \in Searches(b)
          /\ b.analyticsTx \in Seq(Analyses(b))
        BY <1>1, <1>4, WiderChannel DEF Good, Sent, Carries
    <2> QED
        BY <2>1, <1>1, Channels DEF Sent
<1> QED
    BY <1>1, <1>3, <1>4, <1>5 DEF Good, Minor, b

\* Scopes are asked for, of the active query.
LEMMA RequestScopesKeeps ==
    ASSUME NEW a, NEW f \in Nat, Good(a, f), NEW scopes \in Seq(Scopes \cup {None})
    PROVE  Good(RequestScopes(a, scopes), f) /\ Carries(a, RequestScopes(a, scopes))
<1> DEFINE b == [a EXCEPT !.loading = TRUE]
           reqs == [i \in DOMAIN scopes |-> ScopeRequest(a, scopes[i])]
<1>1. CASE scopes = <<>>
    BY <1>1 DEF RequestScopes, Carries
<1>2. CASE scopes # <<>>
    <2>1. IsWindow(b) /\ b.loading = TRUE /\ (\A x \in Fields : x # "loading" => b[x] = a[x])
        <3>1. IsWindow(b) /\ \A x \in Fields \ {"loading"} : b[x] = a[x]
            BY DEF Good, IsWindow
        <3>2. b.loading = TRUE
            BY DEF Good, IsWindow, Fields
        <3> QED
            BY <3>1, <3>2
    <2> HIDE DEF b
    <2>2. Minor(a, b, f) /\ b.searchTx = a.searchTx /\ b.analyticsTx = a.analyticsTx
        <3>1. Settings(b)
            BY <2>1 DEF Good, Settings, Fields
        <3>2. Minor(a, b, f)
            BY <2>1, <3>1 DEF Good, Minor, Results, Fields
        <3>3. b.searchTx = a.searchTx /\ b.analyticsTx = a.analyticsTx
            BY <2>1 DEF Fields
        <3> QED
            BY <3>2, <3>3
    <2>3. Good(b, f) /\ Carries(a, b)
        BY <2>2, MinorKeeps
    <2>4. \A s \in Scopes \cup {None} : ScopeRequest(a, s) \in ScopesAsked(b)
        BY <2>2 DEF ScopeRequest, ScopesAsked, Current, Good, Minor, Settings, Results
    <2>5. reqs \in Seq(ScopesAsked(b))
        BY <2>4
    <2>6. reqs \in Seq(Analyses(b))
        BY <2>5, WiderChannel DEF Analyses
    <2> HIDE DEF reqs
    <2>7. Good(AskAnalyst(b, reqs), f) /\ Carries(b, AskAnalyst(b, reqs))
        BY <2>3, <2>6, AskAnalystKeeps
    <2>8. RequestScopes(a, scopes) = AskAnalyst(b, reqs)
        BY <1>2 DEF RequestScopes, b, reqs
    <2> QED
        BY <2>3, <2>7, <2>8, CarriesOn
<1> QED
    BY <1>1, <1>2

----------------------------------------------------------------------------
(* Requests of the analytics.                                              *)

\* The base of a report is the overview's (request_report_data).
LEMMA BaseType ==
    ASSUME NEW a
    PROVE  Base(a) \in Seq(Scopes \cup {None})
<1>1. <<>> \in Seq(Scopes \cup {None}) /\ <<None>> \in Seq(Scopes \cup {None})
    OBVIOUS
<1> QED
    BY <1>1 DEF Base

\* A report asks for the scopes it lacks, of the active query (request_report_data).
LEMMA RequestReportDataKeeps ==
    ASSUME NEW a, NEW f \in Nat, Good(a, f)
    PROVE  Good(RequestReportData(a), f) /\ Carries(a, RequestReportData(a))
<1> DEFINE S == {s \in Scopes : ~Loaded(a, s)}
<1>1. InOrder(S) \in Seq(Scopes \cup {None})
    BY InOrderType, WiderChannel
<1>2. Base(a) \o InOrder(S) \in Seq(Scopes \cup {None})
    BY <1>1, BaseType, Channels
<1> QED
    BY <1>2, RequestScopesKeeps DEF RequestReportData

\* A pivot is asked of the active query, and the one before is not shown any more (request_pivot).
LEMMA RequestPivotKeeps ==
    ASSUME NEW a, NEW f \in Nat, Good(a, f)
    PROVE  Good(RequestPivot(a), f) /\ Carries(a, RequestPivot(a))
<1> DEFINE b == [a EXCEPT !.pivot = None, !.loaded = @ \ {"Pivot"}, !.loading = TRUE]
           req == [kind |-> "Pivot", query |-> a.active, dims |-> a.dims, gen |-> a.gen]
<1>1. CASE a.active = NoQuery
    BY <1>1 DEF RequestPivot, Carries
<1>2. CASE a.active # NoQuery
    <2>1. /\ IsWindow(b) /\ b.loading = TRUE /\ b.pivot = None /\ b.loaded \subseteq a.loaded
          /\ \A x \in Fields : x \notin {"loading", "pivot", "loaded"} => b[x] = a[x]
        <3>1. IsWindow(b) /\ \A x \in Fields : x \notin {"loading", "pivot", "loaded"} => b[x] = a[x]
            BY DEF Good, IsWindow
        <3>2. b.loading = TRUE /\ b.pivot = None /\ b.loaded \subseteq a.loaded
            BY DEF Good, IsWindow, Fields
        <3> QED
            BY <3>1, <3>2
    <2> HIDE DEF b
    <2>2. Minor(a, b, f) /\ b.searchTx = a.searchTx /\ b.analyticsTx = a.analyticsTx
        <3>1. Settings(b)
            BY <2>1 DEF Good, Settings, Fields
        <3>2. Minor(a, b, f)
            BY <2>1, <3>1 DEF Good, Minor, Results, Fields
        <3>3. b.searchTx = a.searchTx /\ b.analyticsTx = a.analyticsTx
            BY <2>1 DEF Fields
        <3> QED
            BY <3>2, <3>3
    <2>3. Good(b, f) /\ Carries(a, b)
        BY <2>2, MinorKeeps
    <2>4. req \in PivotsAsked(b)
        BY <2>2 DEF PivotsAsked, Current, Good, Minor, Settings, Results
    <2>5. <<req>> \in Seq(Analyses(b))
        BY <2>4 DEF Analyses
    <2> HIDE DEF req
    <2>6. Good(AskAnalyst(b, <<req>>), f) /\ Carries(b, AskAnalyst(b, <<req>>))
        BY <2>3, <2>5, AskAnalystKeeps
    <2>7. RequestPivot(a) = AskAnalyst(b, <<req>>)
        BY <1>2 DEF RequestPivot, b, req
    <2> QED
        BY <2>3, <2>6, <2>7, CarriesOn
<1> QED
    BY <1>1, <1>2

\* The view of the pivot asks for the base it lacks and for the pivot.
LEMMA RequestPivotViewKeeps ==
    ASSUME NEW a, NEW f \in Nat, Good(a, f)
    PROVE  Good(RequestPivotView(a), f) /\ Carries(a, RequestPivotView(a))
<1> DEFINE b == RequestScopes(a, Base(a))
<1>1. Good(b, f) /\ Carries(a, b)
    BY BaseType, RequestScopesKeeps
<1> HIDE DEF b
<1>2. Good(RequestPivot(b), f) /\ Carries(b, RequestPivot(b))
    BY <1>1, RequestPivotKeeps
<1> QED
    BY <1>1, <1>2, CarriesOn DEF RequestPivotView, b

\* Whatever view asks, it asks about the active query.
LEMMA RequestAnalyticsKeeps ==
    ASSUME NEW a, NEW f \in Nat, Good(a, f)
    PROVE  Good(RequestAnalytics(a), f) /\ Carries(a, RequestAnalytics(a))
<1>1. Carries(a, a)
    BY DEF Carries
<1>2. <<ScopeOf(a.view)>> \in Seq(Scopes \cup {None})
    BY DEF ScopeOf
<1>3. \/ RequestAnalytics(a) = a \/ RequestAnalytics(a) = RequestReportData(a)
      \/ RequestAnalytics(a) = RequestScopes(a, Base(a)) \/ RequestAnalytics(a) = RequestPivotView(a)
      \/ RequestAnalytics(a) = RequestScopes(a, <<ScopeOf(a.view)>>)
    BY DEF RequestAnalytics
<1> QED
    BY <1>1, <1>2, <1>3, BaseType, RequestReportDataKeeps, RequestPivotViewKeeps, RequestScopesKeeps

\* The window of a new generation, before its search is sent, has nothing to show of another query.
Renewed(a, b) ==
    /\ IsWindow(b) /\ Settings(b)
    /\ b.gen = a.gen + 1 /\ b.searching = TRUE /\ b.total = None
    /\ b.page \in Nat /\ b.active \in Asked /\ b.rows = a.rows
    /\ b.profile = a.profile /\ b.dossier = a.dossier /\ b.compare \in Panel(Asked)
    /\ b.searchTx = a.searchTx /\ b.analyticsTx = a.analyticsTx
    /\ b.analyticsGen = a.analyticsGen
    /\ \/ /\ b.active = a.active
          /\ b.analytics = a.analytics /\ b.loaded = a.loaded /\ b.explorer = a.explorer
          /\ b.pivot = a.pivot /\ b.underpricing = a.underpricing
       \/ /\ b.analytics = None /\ b.loaded = {} /\ b.explorer = None /\ b.pivot = None
          /\ b.underpricing = Invalidated(a.underpricing)

\* A new generation expects no answer that is under way (start_search, goto_page).
LEMMA RenewedKeeps ==
    ASSUME NEW a, NEW b, NEW f \in Nat, Good(a, f), Renewed(a, b)
    PROVE  Good(b, f) /\ Carries(a, b)
<1>1. /\ a.gen \in Nat /\ b.gen = a.gen + 1 /\ b.gen \in Nat /\ a.gen <= b.gen /\ b.gen # a.gen
      /\ a.analyticsGen \in 0..b.gen
    BY DEF Good, Results, Renewed
<1>2. /\ b.underpricing \in Panel(Asked) /\ a.underpricing.gen \in Nat /\ b.underpricing.gen \in Nat
      /\ a.underpricing.gen <= b.underpricing.gen
      /\ (b.underpricing.gen = a.underpricing.gen => b.active = a.active)
      /\ (b.underpricing.shown # None => b.underpricing.shown = a.underpricing.shown /\ b.active = a.active)
    <2>1. a.underpricing \in Panel(Asked)
        BY DEF Good, Results
    <2>2. CASE b.underpricing = a.underpricing /\ b.active = a.active
        BY <2>1, <2>2, Panels
    <2>3. CASE b.underpricing = Invalidated(a.underpricing)
        <3>1. /\ b.underpricing \in Panel(Asked) /\ a.underpricing.gen \in Nat
              /\ b.underpricing.gen = a.underpricing.gen + 1 /\ b.underpricing.shown = None
            BY <2>1, <2>3, Panels
        <3> QED
            BY <3>1
    <2> QED
        BY <2>2, <2>3 DEF Renewed
<1>3. Results(b)
    BY <1>1, <1>2 DEF Good, Results, Renewed
<1>4. Shown(b, f)
    <2>1. PageShown(b, f)
        BY DEF Renewed, PageShown
    <2>2. SectionsShown(b)
        BY DEF Renewed, SectionsShown, Good, Shown
    <2> QED
        BY <1>2, <2>1, <2>2 DEF Renewed, Good, Shown
<1>5. Carries(a, b)
    <2>1. a.profile.gen \in Nat
        BY Panels DEF Good, Results
    <2>2. b.explorer # None => a.explorer # None /\ b.explorer.gen = a.explorer.gen /\ b.active = a.active
        BY DEF Renewed
    <2>3. b.profile = a.profile /\ b.dossier = a.dossier
        BY DEF Renewed
    <2> QED
        BY <1>1, <1>2, <2>1, <2>2, <2>3, Carried
<1>6. Sent(b)
    BY <1>5, SentIsCarried DEF Renewed, Good
<1> QED
    BY <1>3, <1>4, <1>5, <1>6 DEF Good, Renewed

----------------------------------------------------------------------------
(* Searches.                                                               *)

\* The window that SearchAgain makes before it sends.
NextSearch(a) ==
    [a EXCEPT !.gen = @ + 1, !.searching = TRUE, !.counting = TRUE, !.more = FALSE, !.total = None]

\* A search in a window of a new generation.
LEMMA SearchAgainKeeps ==
    ASSUME NEW a, NEW c, NEW f \in Nat, Good(a, f), IsWindow(c), c.gen = a.gen,
           Renewed(a, NextSearch(c))
    PROVE  Good(SearchAgain(c), f) /\ Carries(a, SearchAgain(c))
<1> DEFINE b == NextSearch(c)
           req == [kind |-> "Search", query |-> c.active, page |-> c.page, gen |-> c.gen + 1]
<1>1. Good(b, f) /\ Carries(a, b)
    BY RenewedKeeps
<1>2. b.gen = c.gen + 1 /\ b.active = c.active /\ b.page = c.page
    BY DEF NextSearch, IsWindow, Fields
<1>3. SearchAgain(c) = AskSearch(b, req)
    BY DEF SearchAgain, NextSearch
<1> HIDE DEF b
<1>4. b.gen \in Nat /\ b.active \in Asked /\ b.page \in Nat
    BY <1>1 DEF Good, Results
<1>5. req \in Searches(b)
    BY <1>2, <1>4 DEF Searches, OfPage, Current
<1> HIDE DEF req
<1>6. Good(AskSearch(b, req), f) /\ Carries(b, AskSearch(b, req))
    BY <1>1, <1>5, AskSearchKeeps
<1> QED
    BY <1>1, <1>3, <1>6, CarriesOn

\* The window of a search that is started, before it asks.
Cleared(a) ==
    [a EXCEPT !.page = 0, !.active = a.typed, !.turned = FALSE, !.overtaken = FALSE,
              !.analytics = None, !.loaded = {}, !.loading = FALSE,
              !.explorer = None, !.pivot = None, !.compare = Closed(@),
              !.underpricing = Invalidated(@)]

\* The window of a search that is started, before it sends: it shows nothing of the query before
\* but its rows, and expects a new generation (start_search).
LEMMA ClearedRenews ==
    ASSUME NEW a, NEW f \in Nat, Good(a, f)
    PROVE  /\ IsWindow(Cleared(a)) /\ Cleared(a).gen = a.gen /\ IsWindow(NextSearch(Cleared(a)))
           /\ Renewed(a, NextSearch(Cleared(a)))
           /\ \A x \in Fields \ {"page", "active", "turned", "overtaken", "analytics", "loaded", "loading",
                                 "explorer", "pivot", "compare", "underpricing", "gen", "searching",
                                 "counting", "more", "total"} : NextSearch(Cleared(a))[x] = a[x]
           /\ LET d == NextSearch(Cleared(a))
              IN  /\ d.searching = TRUE /\ d.counting = TRUE /\ d.total = None
                  /\ d.turned = FALSE /\ d.overtaken = FALSE /\ d.active = a.typed /\ d.analytics = None
                  /\ d.loaded = {} /\ d.explorer = None /\ d.pivot = None
                  /\ d.underpricing = Invalidated(a.underpricing)
<1> DEFINE c == Cleared(a)
           d == NextSearch(c)
<1>1. /\ IsWindow(c) /\ c.page = 0 /\ c.active = a.typed /\ c.turned = FALSE /\ c.overtaken = FALSE
      /\ c.analytics = None /\ c.loaded = {} /\ c.loading = FALSE /\ c.explorer = None
      /\ c.pivot = None
    <2>1. /\ c.page = 0 /\ c.active = a.typed /\ c.turned = FALSE /\ c.overtaken = FALSE
          /\ c.analytics = None /\ c.loaded = {}
        BY DEF Good, IsWindow, Fields, Cleared
    <2>2. c.loading = FALSE /\ c.explorer = None /\ c.pivot = None
        BY DEF Good, IsWindow, Fields, Cleared
    <2>3. IsWindow(c)
        <3> DEFINE e == [a EXCEPT !.page = 0, !.active = a.typed, !.turned = FALSE, !.overtaken = FALSE,
                                  !.analytics = None]
                   g == [e EXCEPT !.loaded = {}, !.loading = FALSE, !.explorer = None, !.pivot = None]
        <3>1. IsWindow(e) /\ e.compare = a.compare /\ e.underpricing = a.underpricing
            <4>1. IsWindow(e)
                BY DEF Good, IsWindow
            <4>2. e.compare = a.compare /\ e.underpricing = a.underpricing
                BY DEF Good, IsWindow, Fields
            <4> QED
                BY <4>1, <4>2
        <3>2. c = [g EXCEPT !.compare = Closed(a.compare), !.underpricing = Invalidated(a.underpricing)]
            BY DEF Cleared
        <3> HIDE DEF e, c
        <3>3. IsWindow(g)
            BY <3>1 DEF IsWindow
        <3> HIDE DEF g
        <3> QED
            BY <3>2, <3>3 DEF IsWindow
    <2> QED
        BY <2>1, <2>2, <2>3
<1>2. /\ c.compare = Closed(a.compare) /\ c.underpricing = Invalidated(a.underpricing)
      /\ \A x \in Fields \ {"page", "active", "turned", "overtaken", "analytics", "loaded", "loading",
                            "explorer", "pivot", "compare", "underpricing"} : c[x] = a[x]
    <2>1. \A x \in Fields \ {"page", "active", "turned", "overtaken", "analytics", "loaded", "loading",
                             "explorer", "pivot", "compare", "underpricing"} : c[x] = a[x]
        BY DEF Good, IsWindow, Cleared
    <2>2. c.compare = Closed(a.compare) /\ c.underpricing = Invalidated(a.underpricing)
        BY DEF Good, IsWindow, Fields, Cleared
    <2> QED
        BY <2>1, <2>2
<1> HIDE DEF c
<1>3. /\ IsWindow(d) /\ d.gen = c.gen + 1 /\ d.searching = TRUE /\ d.counting = TRUE
      /\ d.more = FALSE /\ d.total = None
      /\ \A x \in Fields \ {"gen", "searching", "counting", "more", "total"} : d[x] = c[x]
    <2>1. /\ IsWindow(d)
          /\ \A x \in Fields \ {"gen", "searching", "counting", "more", "total"} : d[x] = c[x]
        BY <1>1 DEF IsWindow, NextSearch
    <2>2. /\ d.gen = c.gen + 1 /\ d.searching = TRUE /\ d.counting = TRUE /\ d.more = FALSE
          /\ d.total = None
        BY <1>1 DEF IsWindow, Fields, NextSearch
    <2> QED
        BY <2>1, <2>2
<1> HIDE DEF d
<1>4. Settings(d)
    <2>1. /\ d.ready = a.ready /\ d.busy = a.busy /\ d.typed = a.typed /\ d.tab = a.tab
          /\ d.view = a.view /\ d.level = a.level /\ d.limit = a.limit /\ d.dims = a.dims
          /\ d.dbTotal = a.dbTotal /\ d.loading = FALSE /\ d.turned = FALSE /\ d.overtaken = FALSE
        BY <1>1, <1>2, <1>3 DEF Fields
    <2> QED
        BY <2>1, <1>3 DEF Good, Settings
<1>5. /\ c.gen = a.gen /\ d.gen = a.gen + 1 /\ d.page = 0 /\ d.active = a.typed /\ d.rows = a.rows
      /\ d.profile = a.profile /\ d.dossier = a.dossier /\ d.compare = Closed(a.compare)
      /\ d.searchTx = a.searchTx /\ d.analyticsTx = a.analyticsTx
      /\ d.analyticsGen = a.analyticsGen
    BY <1>1, <1>2, <1>3 DEF Fields
<1>6. /\ d.analytics = None /\ d.loaded = {} /\ d.explorer = None /\ d.pivot = None
      /\ d.underpricing = Invalidated(a.underpricing)
    BY <1>1, <1>2, <1>3 DEF Fields
<1>7. d.compare \in Panel(Asked) /\ a.typed \in Asked
    BY <1>5, Panels DEF Good, Results, Settings
<1>8. Renewed(a, d)
    BY <1>3, <1>4, <1>5, <1>6, <1>7 DEF Renewed
<1>9. d.turned = FALSE /\ d.overtaken = FALSE
    BY <1>1, <1>3 DEF Fields
<1>10. \A x \in Fields \ {"page", "active", "turned", "overtaken", "analytics", "loaded", "loading",
                          "explorer", "pivot", "compare", "underpricing", "gen", "searching",
                          "counting", "more", "total"} : d[x] = a[x]
    BY <1>2, <1>3
<1>11. /\ IsWindow(c) /\ c.gen = a.gen /\ IsWindow(d) /\ Renewed(a, d)
       /\ d.searching = TRUE /\ d.counting = TRUE /\ d.total = None
       /\ d.turned = FALSE /\ d.overtaken = FALSE /\ d.active = a.typed /\ d.analytics = None
       /\ d.loaded = {} /\ d.explorer = None /\ d.pivot = None
       /\ d.underpricing = Invalidated(a.underpricing)
    BY <1>1, <1>3, <1>5, <1>6, <1>8, <1>9
<1> QED
    BY <1>10, <1>11 DEF c, d

\* A new search shows nothing of the query before but its rows, and these only while it is
\* under way (start_search).
LEMMA StartSearchKeeps ==
    ASSUME NEW a, NEW f \in Nat, Good(a, f)
    PROVE  Good(StartSearch(a), f) /\ Carries(a, StartSearch(a))
<1> DEFINE c == Cleared(a)
           b == SearchAgain(c)
<1>1. IsWindow(c) /\ c.gen = a.gen /\ Renewed(a, NextSearch(c))
    BY ClearedRenews
<1>2. StartSearch(a) = IF b.tab = "Analytics" THEN RequestAnalytics(b) ELSE b
    BY DEF StartSearch, Cleared
<1> HIDE DEF c
<1>3. Good(b, f) /\ Carries(a, b)
    BY <1>1, SearchAgainKeeps
<1> HIDE DEF b
<1>4. Good(RequestAnalytics(b), f) /\ Carries(b, RequestAnalytics(b))
    BY <1>3, RequestAnalyticsKeeps
<1> QED
    BY <1>2, <1>3, <1>4, CarriesOn

\* The window that turns to a page, before it sends: it expects a new generation (goto_page).
TurnedTo(a, p) == [a EXCEPT !.page = p, !.turned = TRUE]

\* It shows what it did but the total.
LEMMA TurnedRenews ==
    ASSUME NEW a, NEW f \in Nat, Good(a, f), NEW p \in Nat
    PROVE  /\ IsWindow(TurnedTo(a, p)) /\ TurnedTo(a, p).gen = a.gen /\ IsWindow(NextSearch(TurnedTo(a, p)))
           /\ Renewed(a, NextSearch(TurnedTo(a, p)))
           /\ \A x \in Fields \ {"page", "turned", "gen", "searching", "counting", "more", "total"} :
                 NextSearch(TurnedTo(a, p))[x] = a[x]
           /\ LET d == NextSearch(TurnedTo(a, p))
              IN  d.searching = TRUE /\ d.counting = TRUE /\ d.total = None /\ d.turned = TRUE
<1> DEFINE c == TurnedTo(a, p)
           d == NextSearch(c)
<1>1. /\ IsWindow(c) /\ c.page = p /\ c.turned = TRUE
      /\ \A x \in Fields \ {"page", "turned"} : c[x] = a[x]
    <2>1. IsWindow(c) /\ \A x \in Fields \ {"page", "turned"} : c[x] = a[x]
        BY DEF Good, IsWindow, TurnedTo
    <2>2. c.page = p /\ c.turned = TRUE
        BY DEF Good, IsWindow, Fields, TurnedTo
    <2> QED
        BY <2>1, <2>2
<1> HIDE DEF c
<1>2. /\ IsWindow(d) /\ d.gen = c.gen + 1 /\ d.searching = TRUE /\ d.counting = TRUE
      /\ d.more = FALSE /\ d.total = None
      /\ \A x \in Fields \ {"gen", "searching", "counting", "more", "total"} : d[x] = c[x]
    <2>1. /\ IsWindow(d)
          /\ \A x \in Fields \ {"gen", "searching", "counting", "more", "total"} : d[x] = c[x]
        BY <1>1 DEF IsWindow, NextSearch
    <2>2. /\ d.gen = c.gen + 1 /\ d.searching = TRUE /\ d.counting = TRUE /\ d.more = FALSE
          /\ d.total = None
        BY <1>1 DEF IsWindow, Fields, NextSearch
    <2> QED
        BY <2>1, <2>2
<1> HIDE DEF d
<1>3. Settings(d)
    <2>1. /\ d.ready = a.ready /\ d.busy = a.busy /\ d.typed = a.typed /\ d.tab = a.tab
          /\ d.view = a.view /\ d.level = a.level /\ d.limit = a.limit /\ d.dims = a.dims
          /\ d.dbTotal = a.dbTotal /\ d.loading = a.loading /\ d.turned = TRUE
          /\ d.overtaken = a.overtaken
        BY <1>1, <1>2 DEF Fields
    <2> QED
        BY <2>1, <1>2 DEF Good, Settings
<1>4. /\ c.gen = a.gen /\ d.gen = a.gen + 1 /\ d.page = p /\ d.active = a.active /\ d.rows = a.rows
      /\ d.profile = a.profile /\ d.dossier = a.dossier /\ d.compare = a.compare
      /\ d.searchTx = a.searchTx /\ d.analyticsTx = a.analyticsTx
      /\ d.analyticsGen = a.analyticsGen
      /\ d.analytics = a.analytics /\ d.loaded = a.loaded /\ d.explorer = a.explorer
      /\ d.pivot = a.pivot /\ d.underpricing = a.underpricing
    BY <1>1, <1>2 DEF Fields
<1>5. Renewed(a, d)
    BY <1>2, <1>3, <1>4 DEF Renewed, Good, Results
<1>6. d.turned = TRUE
    BY <1>1, <1>2 DEF Fields
<1>7. \A x \in Fields \ {"page", "turned", "gen", "searching", "counting", "more", "total"} : d[x] = a[x]
    BY <1>1, <1>2
<1>8. /\ IsWindow(c) /\ c.gen = a.gen /\ IsWindow(d) /\ Renewed(a, d)
      /\ d.searching = TRUE /\ d.counting = TRUE /\ d.total = None /\ d.turned = TRUE
    BY <1>1, <1>2, <1>4, <1>5, <1>6
<1> QED
    BY <1>7, <1>8 DEF c, d

\* A page that is turned to is searched for under a new generation (goto_page).
LEMMA GotoPageKeeps ==
    ASSUME NEW a, NEW f \in Nat, Good(a, f), NEW p \in Nat
    PROVE  Good(GotoPage(a, p), f) /\ Carries(a, GotoPage(a, p))
<1> DEFINE c == TurnedTo(a, p)
<1>1. IsWindow(c) /\ c.gen = a.gen /\ Renewed(a, NextSearch(c))
    BY TurnedRenews
<1>2. GotoPage(a, p) = SearchAgain(c)
    BY DEF GotoPage, TurnedTo
<1> HIDE DEF c
<1> QED
    BY <1>1, <1>2, SearchAgainKeeps

----------------------------------------------------------------------------
(* Panels and the explorer.                                                *)

\* The panels and the company asked for.
Parts == {"explorer", "underpricing", "profile", "dossier"}

\* The panels of the window, as they are or opened anew.
LEMMA PartsKeep ==
    ASSUME NEW a, NEW b, NEW f \in Nat, Good(a, f), IsWindow(b),
           \A x \in Fields \ Parts : b[x] = a[x],
           b.explorer \in {None} \cup Explorer,
           b.explorer = a.explorer \/ (b.explorer.gen = a.gen /\ b.explorer.rows = None),
           b.underpricing \in Panel(Asked),
           \/ b.underpricing = a.underpricing
           \/ b.underpricing.gen = a.underpricing.gen + 1 /\ b.underpricing.shown = None,
           b.profile \in Panel(Companies),
           \/ b.profile = a.profile /\ b.dossier = a.dossier
           \/ b.profile.gen = a.profile.gen + 1 /\ b.profile.shown = None
    PROVE  Good(b, f) /\ Carries(a, b)
<1>1. /\ b.page = a.page /\ b.gen = a.gen /\ b.analyticsGen = a.analyticsGen /\ b.active = a.active
      /\ b.searching = a.searching /\ b.loaded = a.loaded /\ b.rows = a.rows /\ b.total = a.total
      /\ b.compare = a.compare /\ b.analytics = a.analytics /\ b.pivot = a.pivot
      /\ b.searchTx = a.searchTx /\ b.analyticsTx = a.analyticsTx
    BY DEF Fields, Parts
<1>2. Settings(b)
    BY DEF Fields, Parts, Good, Settings
<1>3. Results(b)
    BY <1>1 DEF Good, Results
<1>4. Shown(b, f)
    <2>1. PageShown(b, f) /\ SectionsShown(b)
        BY <1>1 DEF Good, Shown, PageShown, SectionsShown
    <2> QED
        BY <1>1, <2>1 DEF Good, Shown
<1>5. Carries(a, b)
    <2>1. /\ a.profile.gen \in Nat /\ b.profile.gen \in Nat
          /\ a.underpricing.gen \in Nat /\ b.underpricing.gen \in Nat /\ a.gen \in Nat
        BY Panels DEF Good, Results
    <2>2. /\ a.profile.gen <= b.profile.gen /\ (b.profile.gen = a.profile.gen => b.dossier = a.dossier)
          /\ a.underpricing.gen <= b.underpricing.gen
        BY <2>1
    <2> QED
        BY <1>1, <2>1, <2>2, Carried
<1>6. Sent(b)
    BY <1>1, <1>5, SentIsCarried DEF Good
<1> QED
    BY <1>2, <1>3, <1>4, <1>5, <1>6 DEF Good

\* The explorer opens empty, for the generation it asks with (open_group_explorer).
LEMMA OpenGroupExplorerKeeps ==
    ASSUME NEW a, NEW f \in Nat, Good(a, f), NEW k \in Kinds
    PROVE  Good(OpenGroupExplorer(a, k), f) /\ Carries(a, OpenGroupExplorer(a, k))
<1> DEFINE e == [kind |-> k, gen |-> a.gen, loading |-> TRUE, rows |-> None]
           b == [a EXCEPT !.explorer = e]
           req == [kind |-> "Section", query |-> a.active, section |-> k, gen |-> a.gen]
<1>0. Carries(a, a)
    BY DEF Carries
<1>1. CASE a.active # NoQuery
    <2>1. e \in Explorer /\ e.gen = a.gen /\ e.rows = None
        BY DEF Explorer, Good, Results
    <2> HIDE DEF e
    <2>2. IsWindow(b) /\ b.explorer = e /\ \A x \in Fields \ {"explorer"} : b[x] = a[x]
        <3>1. IsWindow(b) /\ \A x \in Fields \ {"explorer"} : b[x] = a[x]
            BY DEF Good, IsWindow
        <3>2. b.explorer = e
            BY DEF Good, IsWindow, Fields
        <3> QED
            BY <3>1, <3>2
    <2> HIDE DEF b
    <2>3. /\ \A x \in Fields \ Parts : b[x] = a[x]
          /\ b.underpricing = a.underpricing /\ b.profile = a.profile /\ b.dossier = a.dossier
          /\ b.gen = a.gen /\ b.active = a.active
        BY <2>2 DEF Parts, Fields
    <2>4. Good(b, f) /\ Carries(a, b)
        BY <2>1, <2>2, <2>3, PartsKeep DEF Good, Results
    <2>5. req \in GroupsAsked(b)
        BY <2>3, <2>4 DEF GroupsAsked, OfGroups, Current, Good, Results
    <2>6. <<req>> \in Seq(Analyses(b))
        BY <2>5 DEF Analyses
    <2> HIDE DEF req
    <2>7. Good(AskAnalyst(b, <<req>>), f) /\ Carries(b, AskAnalyst(b, <<req>>))
        BY <2>4, <2>6, AskAnalystKeeps
    <2>8. OpenGroupExplorer(a, k) = AskAnalyst(b, <<req>>)
        BY <1>1 DEF OpenGroupExplorer, b, req, e
    <2> QED
        BY <2>4, <2>7, <2>8, CarriesOn
<1> QED
    BY <1>0, <1>1 DEF OpenGroupExplorer

\* A panel that is opened anew.
LEMMA NewPanel ==
    ASSUME NEW S, NEW p \in Panel(S), NEW loading \in BOOLEAN
    PROVE  [gen |-> p.gen + 1, loading |-> loading, shown |-> None] \in Panel(S)
<1>1. p.gen \in Nat
    BY DEF Panel
<1>2. p.gen + 1 \in Nat
    BY <1>1
<1> QED
    BY <1>2 DEF Panel

\* A scan is asked under a generation of its own (request_underpricing).
LEMMA RequestUnderpricingKeeps ==
    ASSUME NEW a, NEW f \in Nat, Good(a, f)
    PROVE  Good(RequestUnderpricing(a), f) /\ Carries(a, RequestUnderpricing(a))
<1> DEFINE p == [gen |-> a.underpricing.gen + 1, loading |-> TRUE, shown |-> None]
           b == [a EXCEPT !.underpricing = p]
           req == [kind |-> "Underpricing", query |-> a.active, gen |-> a.underpricing.gen + 1]
<1>0. Carries(a, a)
    BY DEF Carries
<1>1. CASE a.active # NoQuery
    <2>1. p \in Panel(Asked) /\ p.gen = a.underpricing.gen + 1 /\ p.shown = None
        BY NewPanel DEF Good, Results
    <2> HIDE DEF p
    <2>2. IsWindow(b) /\ b.underpricing = p /\ \A x \in Fields \ {"underpricing"} : b[x] = a[x]
        <3>1. IsWindow(b) /\ \A x \in Fields \ {"underpricing"} : b[x] = a[x]
            BY DEF Good, IsWindow
        <3>2. b.underpricing = p
            BY DEF Good, IsWindow, Fields
        <3> QED
            BY <3>1, <3>2
    <2> HIDE DEF b
    <2>3. /\ \A x \in Fields \ Parts : b[x] = a[x]
          /\ b.explorer = a.explorer /\ b.profile = a.profile /\ b.dossier = a.dossier
          /\ b.gen = a.gen /\ b.active = a.active
        BY <2>2 DEF Parts, Fields
    <2>4. Good(b, f) /\ Carries(a, b)
        BY <2>1, <2>2, <2>3, PartsKeep DEF Good, Results
    <2>5. b.underpricing.gen \in Nat /\ b.underpricing.gen = a.underpricing.gen + 1
        BY <2>1, <2>2, Panels
    <2>6. req \in ScansAsked(b)
        BY <2>3, <2>4, <2>5 DEF ScansAsked, OfScan, Good, Results
    <2>7. <<req>> \in Seq(Analyses(b))
        BY <2>6 DEF Analyses
    <2> HIDE DEF req
    <2>8. Good(AskAnalyst(b, <<req>>), f) /\ Carries(b, AskAnalyst(b, <<req>>))
        BY <2>4, <2>7, AskAnalystKeeps
    <2>9. RequestUnderpricing(a) = AskAnalyst(b, <<req>>)
        BY <1>1 DEF RequestUnderpricing, b, req, p
    <2> QED
        BY <2>4, <2>8, <2>9, CarriesOn
<1> QED
    BY <1>0, <1>1 DEF RequestUnderpricing

\* A comparison is asked under a generation of its own (request_compare).
LEMMA RequestCompareKeeps ==
    ASSUME NEW a, NEW f \in Nat, Good(a, f)
    PROVE  Good(RequestCompare(a), f) /\ Carries(a, RequestCompare(a))
<1> DEFINE p == [gen |-> a.compare.gen + 1, loading |-> TRUE, shown |-> None]
           b == [a EXCEPT !.compare = p]
           req == [kind |-> "Compare", query |-> a.active, gen |-> a.compare.gen + 1]
<1>0. Carries(a, a)
    BY DEF Carries
<1>1. CASE a.active # NoQuery
    <2>1. p \in Panel(Asked) /\ a.compare.gen + 1 \in Nat
        <3>1. a.compare \in Panel(Asked)
            BY DEF Good, Results
        <3>2. p \in Panel(Asked)
            BY <3>1, NewPanel
        <3>3. a.compare.gen \in Nat
            BY <3>1 DEF Panel
        <3> QED
            BY <3>2, <3>3
    <2> HIDE DEF p
    <2>2. IsWindow(b) /\ b.compare = p /\ \A x \in Fields \ {"compare"} : b[x] = a[x]
        <3>1. IsWindow(b) /\ \A x \in Fields \ {"compare"} : b[x] = a[x]
            BY DEF Good, IsWindow
        <3>2. b.compare = p
            BY DEF Good, IsWindow, Fields
        <3> QED
            BY <3>1, <3>2
    <2> HIDE DEF b
    <2>3. Minor(a, b, f) /\ b.searchTx = a.searchTx /\ b.analyticsTx = a.analyticsTx
        <3>1. Settings(b)
            BY <2>1, <2>2 DEF Good, Settings, Fields
        <3>2. Minor(a, b, f)
            BY <2>1, <2>2, <3>1 DEF Good, Minor, Results, Fields
        <3>3. b.searchTx = a.searchTx /\ b.analyticsTx = a.analyticsTx
            BY <2>1, <2>2 DEF Fields
        <3> QED
            BY <3>2, <3>3
    <2>4. Good(b, f) /\ Carries(a, b)
        BY <2>3, MinorKeeps
    <2>5. <<req>> \in Seq(Analyses(b))
        <3>1. req \in Comparisons
            BY <2>1 DEF Comparisons, Good, Results
        <3> QED
            BY <3>1 DEF Analyses
    <2> HIDE DEF req
    <2>6. Good(AskAnalyst(b, <<req>>), f) /\ Carries(b, AskAnalyst(b, <<req>>))
        BY <2>4, <2>5, AskAnalystKeeps
    <2>7. RequestCompare(a) = AskAnalyst(b, <<req>>)
        BY <1>1 DEF RequestCompare, b, req, p
    <2> QED
        BY <2>4, <2>6, <2>7, CarriesOn
<1> QED
    BY <1>0, <1>1 DEF RequestCompare

\* A dossier is asked under a generation of its own (open_profile).
LEMMA OpenProfileKeeps ==
    ASSUME NEW a, NEW f \in Nat, Good(a, f), NEW c \in Companies
    PROVE  Good(OpenProfile(a, c), f) /\ Carries(a, OpenProfile(a, c))
<1> DEFINE p == [gen |-> a.profile.gen + 1, loading |-> TRUE, shown |-> None]
           b == [a EXCEPT !.profile = p, !.dossier = c]
           req == [kind |-> "Profile", query |-> c, gen |-> a.profile.gen + 1]
<1>1. p \in Panel(Companies) /\ p.gen = a.profile.gen + 1 /\ p.shown = None /\ a.profile.gen + 1 \in Nat
    <2>1. a.profile \in Panel(Companies)
        BY DEF Good, Results
    <2>2. p \in Panel(Companies)
        BY <2>1, NewPanel
    <2>3. a.profile.gen \in Nat
        BY <2>1 DEF Panel
    <2> QED
        BY <2>2, <2>3
<1> HIDE DEF p
<1>2. /\ IsWindow(b) /\ b.profile = p /\ b.dossier = c
      /\ \A x \in Fields \ {"profile", "dossier"} : b[x] = a[x]
    <2>1. IsWindow(b) /\ \A x \in Fields \ {"profile", "dossier"} : b[x] = a[x]
        BY DEF Good, IsWindow
    <2>2. b.profile = p /\ b.dossier = c
        BY DEF Good, IsWindow, Fields
    <2> QED
        BY <2>1, <2>2
<1> HIDE DEF b
<1>3. /\ \A x \in Fields \ Parts : b[x] = a[x]
      /\ b.explorer = a.explorer /\ b.underpricing = a.underpricing
    BY <1>2 DEF Parts, Fields
<1>4. Good(b, f) /\ Carries(a, b)
    BY <1>1, <1>2, <1>3, PartsKeep DEF Good, Results
<1>5. req \in DossiersAsked(b)
    BY <1>1, <1>2 DEF DossiersAsked, OfDossier
<1>6. <<req>> \in Seq(Analyses(b))
    BY <1>5 DEF Analyses
<1> HIDE DEF req
<1>7. Good(AskAnalyst(b, <<req>>), f) /\ Carries(b, AskAnalyst(b, <<req>>))
    BY <1>4, <1>6, AskAnalystKeeps
<1>8. OpenProfile(a, c) = AskAnalyst(b, <<req>>)
    BY DEF OpenProfile, b, req, p
<1> QED
    BY <1>4, <1>7, <1>8, CarriesOn

\* A dossier that is closed expects no answer under way (close_profile).
LEMMA CloseProfileKeeps ==
    ASSUME NEW a, NEW f \in Nat, Good(a, f)
    PROVE  Good(CloseProfile(a), f) /\ Carries(a, CloseProfile(a))
<1> DEFINE p == [gen |-> a.profile.gen + 1, loading |-> FALSE, shown |-> None]
           b == CloseProfile(a)
<1>1. p \in Panel(Companies) /\ p.gen = a.profile.gen + 1 /\ p.shown = None
    BY NewPanel DEF Good, Results
<1> HIDE DEF p
<1>2. /\ IsWindow(b) /\ b.profile = p /\ b.dossier = None
      /\ \A x \in Fields \ {"profile", "dossier"} : b[x] = a[x]
    <2>1. IsWindow(b) /\ \A x \in Fields \ {"profile", "dossier"} : b[x] = a[x]
        BY DEF Good, IsWindow, CloseProfile, p
    <2>2. b.profile = p /\ b.dossier = None
        BY DEF Good, IsWindow, Fields, CloseProfile, p
    <2> QED
        BY <2>1, <2>2
<1> HIDE DEF b
<1>3. /\ \A x \in Fields \ Parts : b[x] = a[x]
      /\ b.explorer = a.explorer /\ b.underpricing = a.underpricing
    BY <1>2 DEF Parts, Fields
<1>4. Good(b, f) /\ Carries(a, b)
    BY <1>1, <1>2, <1>3, PartsKeep DEF Good, Results
<1> QED
    BY <1>4 DEF b

----------------------------------------------------------------------------
(* Answers.                                                                *)

\* An answer leaves the generations as they are.
LEMMA AnswerKeeps ==
    ASSUME NEW a, NEW b, NEW f \in Nat, Good(a, f), IsWindow(b),
           b.gen = a.gen, b.active = a.active, b.page = a.page, b.dossier = a.dossier,
           b.profile.gen = a.profile.gen, b.underpricing.gen = a.underpricing.gen,
           \/ b.explorer = a.explorer
           \/ a.explorer # None /\ b.explorer.gen = a.explorer.gen,
           b.searchTx = a.searchTx, b.analyticsTx = a.analyticsTx,
           Settings(b), Results(b), Shown(b, f)
    PROVE  Good(b, f) /\ Carries(a, b)
<1>1. a.gen \in Nat /\ a.profile \in Panel(Companies) /\ a.underpricing \in Panel(Asked)
    BY DEF Good, Results
<1>2. a.profile.gen \in Nat /\ a.underpricing.gen \in Nat
    BY <1>1 DEF Panel
<1>3. Carries(a, b)
    BY <1>1, <1>2, Carried
<1>4. Sent(b)
    BY <1>3, SentIsCarried DEF Good
<1> QED
    BY <1>3, <1>4 DEF Good

\* What a page of answers changes.
PageParts == {"rows", "more", "searching", "total", "counting"}

\* A page of the generation that is expected is of the active query and page; another is
\* thrown away (drain_messages).
LEMMA SearchPageKeeps ==
    ASSUME NEW a, NEW f \in Nat, Good(a, f), NEW m \in PagesFound(a)
    PROVE  Good(SearchPage(a, m), f) /\ Carries(a, SearchPage(a, m))
<1> DEFINE rows == [query |-> m.query, page |-> m.page, at |-> m.at, none |-> m.none]
           none == a.page = 0 /\ m.none
           total == IF none THEN [query |-> m.query, at |-> m.at, pages |-> 0] ELSE a.total
           counting == a.counting /\ ~none
           b == [a EXCEPT !.rows = rows, !.more = m.more, !.searching = FALSE, !.total = total,
                          !.counting = counting]
<1>0. Carries(a, a)
    BY DEF Carries
<1>1. CASE m.gen = a.gen
    <2>1. /\ m.query = a.active /\ m.page = a.page /\ m.query \in Asked /\ m.page \in Nat
          /\ m.at \in Versions /\ m.none \in BOOLEAN /\ m.more \in BOOLEAN
        BY <1>1 DEF PagesFound, OfPage, Current
    <2>2. rows \in [query : Asked, page : Nat, at : Versions, none : BOOLEAN]
          /\ rows.query = a.active /\ rows.page = a.page
        BY <2>1
    <2>3. /\ total \in {None} \cup [query : Asked, at : Versions, pages : Nat]
          /\ total # None => total.query = a.active
        BY <2>1 DEF Good, Results, Shown
    <2>4. counting \in BOOLEAN
        BY DEF Good, Settings
    <2>5. SearchPage(a, m) = b
        BY <1>1 DEF SearchPage
    <2> HIDE DEF rows, none, total, counting
    <2>6. IsWindow(b)
        BY DEF Good, IsWindow
    <2>7. /\ b.rows = rows /\ b.more = m.more /\ b.searching = FALSE /\ b.total = total
          /\ b.counting = counting
        BY DEF Good, IsWindow, Fields
    <2>8. \A x \in Fields \ PageParts : b[x] = a[x]
        BY DEF Good, IsWindow, PageParts
    <2> HIDE DEF b
    <2>9. /\ b.gen = a.gen /\ b.active = a.active /\ b.page = a.page /\ b.dossier = a.dossier
          /\ b.profile = a.profile /\ b.underpricing = a.underpricing /\ b.explorer = a.explorer
          /\ b.searchTx = a.searchTx /\ b.analyticsTx = a.analyticsTx
          /\ b.analytics = a.analytics /\ b.analyticsGen = a.analyticsGen /\ b.loaded = a.loaded
          /\ b.pivot = a.pivot /\ b.compare = a.compare
        BY <2>8 DEF Fields, PageParts
    <2>10. Settings(b)
        <3>1. /\ b.ready = a.ready /\ b.loading = a.loading /\ b.busy = a.busy /\ b.turned = a.turned
              /\ b.overtaken = a.overtaken /\ b.typed = a.typed /\ b.tab = a.tab /\ b.view = a.view
              /\ b.level = a.level /\ b.limit = a.limit /\ b.dims = a.dims /\ b.dbTotal = a.dbTotal
            BY <2>8 DEF Fields, PageParts
        <3> QED
            BY <3>1, <2>1, <2>4, <2>7 DEF Good, Settings
    <2>11. Results(b)
        BY <2>2, <2>3, <2>7, <2>9 DEF Good, Results
    <2>12. Shown(b, f)
        <3>1. PageShown(b, f) /\ SectionsShown(b)
            BY <2>2, <2>7, <2>9 DEF Good, Shown, PageShown, SectionsShown
        <3> QED
            BY <3>1, <2>3, <2>7, <2>9 DEF Good, Shown
    <2> QED
        BY <2>5, <2>6, <2>9, <2>10, <2>11, <2>12, AnswerKeeps
<1> QED
    BY <1>0, <1>1 DEF SearchPage

\* A count of the generation that is expected is of the active query (drain_messages).
LEMMA SearchCountKeeps ==
    ASSUME NEW a, NEW f \in Nat, Good(a, f), NEW m \in CountsFound(a)
    PROVE  Good(SearchCount(a, m), f) /\ Carries(a, SearchCount(a, m))
<1> DEFINE total == [query |-> m.query, at |-> m.at, pages |-> m.pages]
           b == [a EXCEPT !.total = total, !.counting = FALSE]
<1>0. Carries(a, a)
    BY DEF Carries
<1>1. CASE m.gen = a.gen
    <2>1. /\ total \in [query : Asked, at : Versions, pages : Nat] /\ total.query = a.active
        BY <1>1 DEF CountsFound, Current
    <2>2. SearchCount(a, m) = b
        BY <1>1 DEF SearchCount
    <2> HIDE DEF total
    <2>3. /\ IsWindow(b) /\ b.total = total /\ b.counting = FALSE
          /\ \A x \in Fields \ {"total", "counting"} : b[x] = a[x]
        <3>1. IsWindow(b) /\ \A x \in Fields \ {"total", "counting"} : b[x] = a[x]
            BY DEF Good, IsWindow
        <3>2. b.total = total /\ b.counting = FALSE
            BY DEF Good, IsWindow, Fields
        <3> QED
            BY <3>1, <3>2
    <2> HIDE DEF b
    <2>4. /\ b.gen = a.gen /\ b.active = a.active /\ b.page = a.page /\ b.dossier = a.dossier
          /\ b.profile = a.profile /\ b.underpricing = a.underpricing /\ b.explorer = a.explorer
          /\ b.searchTx = a.searchTx /\ b.analyticsTx = a.analyticsTx
          /\ b.analytics = a.analytics /\ b.analyticsGen = a.analyticsGen /\ b.loaded = a.loaded
          /\ b.pivot = a.pivot /\ b.compare = a.compare /\ b.rows = a.rows /\ b.searching = a.searching
        BY <2>3 DEF Fields
    <2>5. Settings(b)
        BY <2>3 DEF Good, Settings, Fields
    <2>6. Results(b)
        BY <2>1, <2>3, <2>4 DEF Good, Results
    <2>7. Shown(b, f)
        <3>1. PageShown(b, f) /\ SectionsShown(b)
            BY <2>4 DEF Good, Shown, PageShown, SectionsShown
        <3> QED
            BY <3>1, <2>1, <2>3, <2>4 DEF Good, Shown
    <2> QED
        BY <2>2, <2>3, <2>4, <2>5, <2>6, <2>7, AnswerKeeps
<1> QED
    BY <1>0, <1>1 DEF SearchCount

\* The report of a scope: the sections that count as loaded are of the active query.
LEMMA AnalyticsDoneKeeps ==
    ASSUME NEW a, NEW f \in Nat, Good(a, f), NEW m \in ScopesFound(a)
    PROVE  Good(AnalyticsDone(a, m), f) /\ Carries(a, AnalyticsDone(a, m))
<1> DEFINE same == a.analytics # None /\ a.analyticsGen = m.gen
           sections == IF same THEN a.analytics.sections ELSE [s \in Scopes |-> None]
           section == [query |-> m.query, at |-> m.at, limit |-> m.limit, level |-> m.level]
           all == [s \in Scopes |-> IF s = m.scope THEN section ELSE sections[s]]
           base == Source(m)
           analytics == [base |-> base, sections |-> all]
           loaded == (IF same THEN a.loaded ELSE {}) \cup {ViewOf(m.scope)}
           b == [a EXCEPT !.analytics = analytics, !.loaded = loaded, !.analyticsGen = m.gen,
                          !.loading = FALSE]
<1>0. Carries(a, a)
    BY DEF Carries
<1>1. CASE m.gen = a.gen
    <2>1. /\ m.query = a.active /\ m.query \in Asked /\ m.at \in Versions
          /\ m.scope \in Scopes \cup {None} /\ m.limit \in Limits /\ m.level \in Levels
        BY <1>1 DEF ScopesFound, Current
    <2>2. section \in Section /\ section.query = a.active /\ section # None
        BY <2>1, NamesAssumption DEF Section
    <2>3. base.query = a.active
        BY <2>1 DEF Source
    <2>4. loaded \subseteq Views /\ ViewOf(m.scope) \in Views
        BY <2>1 DEF ViewOf, Views, Good, Results
    <2>5. ASSUME NEW s \in loaded \cap Scopes
          PROVE  all[s] # None /\ all[s].query = a.active
        <3>1. CASE s = m.scope
            BY <3>1, <2>2
        <3>2. CASE s # m.scope
            <4>1. s # ViewOf(m.scope)
                BY <3>2, <2>1, NamesAssumption DEF ViewOf
            <4>2. same /\ s \in a.loaded
                BY <4>1
            <4>3. sections[s] # None /\ sections[s].query = a.active
                BY <4>2 DEF Good, Shown, SectionsShown
            <4> QED
                BY <4>3, <3>2
        <3> QED
            BY <3>1, <3>2
    <2>6. AnalyticsDone(a, m) = b
        BY <1>1 DEF AnalyticsDone
    <2> HIDE DEF all, base, loaded
    <2>7. analytics.base = base /\ analytics.sections = all
        OBVIOUS
    <2> HIDE DEF analytics
    <2>8. IsWindow(b)
        BY DEF Good, IsWindow
    <2>9. /\ b.analytics = analytics /\ b.loaded = loaded /\ b.analyticsGen = m.gen /\ b.loading = FALSE
          /\ \A x \in Fields \ {"analytics", "loaded", "analyticsGen", "loading"} : b[x] = a[x]
        <3>1. \A x \in Fields \ {"analytics", "loaded", "analyticsGen", "loading"} : b[x] = a[x]
            BY DEF Good, IsWindow
        <3>2. /\ b.analytics = analytics /\ b.loaded = loaded /\ b.analyticsGen = m.gen
              /\ b.loading = FALSE
            BY DEF Good, IsWindow, Fields
        <3> QED
            BY <3>1, <3>2
    <2> HIDE DEF b
    <2>10. /\ b.gen = a.gen /\ b.active = a.active /\ b.page = a.page /\ b.dossier = a.dossier
           /\ b.profile = a.profile /\ b.underpricing = a.underpricing /\ b.explorer = a.explorer
           /\ b.searchTx = a.searchTx /\ b.analyticsTx = a.analyticsTx
           /\ b.pivot = a.pivot /\ b.compare = a.compare /\ b.rows = a.rows /\ b.total = a.total
           /\ b.searching = a.searching
        BY <2>9 DEF Fields
    <2>11. Settings(b)
        BY <2>9 DEF Good, Settings, Fields
    <2>12. Results(b)
        <3>1. b.analyticsGen \in 0..b.gen
            BY <1>1, <2>9, <2>10 DEF Good, Results
        <3> QED
            BY <3>1, <2>4, <2>9, <2>10 DEF Good, Results
    <2>13. Shown(b, f)
        <3>1. PageShown(b, f)
            BY <2>10 DEF Good, Shown, PageShown
        <3>2. SectionsShown(b)
            BY <2>3, <2>5, <2>7, <2>9, <2>10 DEF SectionsShown
        <3> QED
            BY <3>1, <3>2, <2>10 DEF Good, Shown
    <2> QED
        BY <2>6, <2>8, <2>10, <2>11, <2>12, <2>13, AnswerKeeps
<1> QED
    BY <1>0, <1>1 DEF AnalyticsDone

----------------------------------------------------------------------------
(* Answers to what the analytics asked.                                    *)

\* The explorer may show what is of the active query.
LEMMA ExplorerKeeps ==
    ASSUME NEW a, NEW f \in Nat, Good(a, f), a.explorer # None,
           NEW e \in Explorer, e.gen = a.explorer.gen,
           e.rows # None => e.rows.query = a.active
    PROVE  Good([a EXCEPT !.explorer = e], f) /\ Carries(a, [a EXCEPT !.explorer = e])
<1> DEFINE b == [a EXCEPT !.explorer = e]
<1>1. IsWindow(b) /\ b.explorer = e /\ \A x \in Fields \ {"explorer"} : b[x] = a[x]
    <2>1. IsWindow(b) /\ \A x \in Fields \ {"explorer"} : b[x] = a[x]
        BY DEF Good, IsWindow
    <2>2. b.explorer = e
        BY DEF Good, IsWindow, Fields
    <2> QED
        BY <2>1, <2>2
<1> HIDE DEF b
<1>2. /\ b.gen = a.gen /\ b.active = a.active /\ b.page = a.page /\ b.dossier = a.dossier
      /\ b.profile = a.profile /\ b.underpricing = a.underpricing
      /\ b.searchTx = a.searchTx /\ b.analyticsTx = a.analyticsTx
      /\ b.pivot = a.pivot /\ b.compare = a.compare /\ b.rows = a.rows /\ b.total = a.total
      /\ b.searching = a.searching /\ b.analytics = a.analytics /\ b.analyticsGen = a.analyticsGen
      /\ b.loaded = a.loaded
    BY <1>1 DEF Fields
<1>3. Settings(b)
    BY <1>1 DEF Good, Settings, Fields
<1>4. Results(b)
    BY <1>1, <1>2 DEF Good, Results
<1>5. Shown(b, f)
    <2>1. PageShown(b, f) /\ SectionsShown(b)
        BY <1>2 DEF Good, Shown, PageShown, SectionsShown
    <2> QED
        BY <2>1, <1>1, <1>2 DEF Good, Shown
<1>6. Good(b, f) /\ Carries(a, b)
    BY <1>1, <1>2, <1>3, <1>4, <1>5, AnswerKeeps
<1> QED
    BY <1>6 DEF b

\* An error ends the search and shows nothing (drain_messages).
LEMMA SearchErrorKeeps ==
    ASSUME NEW a, NEW f \in Nat, Good(a, f), NEW m \in Errors(f)
    PROVE  Good(SearchError(a, m), f) /\ Carries(a, SearchError(a, m))
<1> DEFINE d == [a EXCEPT !.searching = FALSE, !.counting = FALSE, !.loading = FALSE]
           b == IF m.gen # a.gen THEN a ELSE d
           e == [b.explorer EXCEPT !.loading = FALSE]
<1>1. f > 0
    BY DEF Errors
<1>2. /\ IsWindow(d) /\ d.searching = FALSE /\ d.counting = FALSE /\ d.loading = FALSE
      /\ \A x \in Fields \ {"searching", "counting", "loading"} : d[x] = a[x]
    <2>1. IsWindow(d) /\ \A x \in Fields \ {"searching", "counting", "loading"} : d[x] = a[x]
        BY DEF Good, IsWindow
    <2>2. d.searching = FALSE /\ d.counting = FALSE /\ d.loading = FALSE
        BY DEF Good, IsWindow, Fields
    <2> QED
        BY <2>1, <2>2
<1> HIDE DEF d
<1>3. Minor(a, d, f) /\ d.searchTx = a.searchTx /\ d.analyticsTx = a.analyticsTx
    <2>1. Settings(d)
        BY <1>1, <1>2 DEF Good, Settings, Fields
    <2>2. Minor(a, d, f)
        BY <1>1, <1>2, <2>1 DEF Good, Minor, Results, Fields
    <2>3. d.searchTx = a.searchTx /\ d.analyticsTx = a.analyticsTx
        BY <1>1, <1>2 DEF Fields
    <2> QED
        BY <2>2, <2>3
<1>4. Good(d, f) /\ Carries(a, d)
    BY <1>3, MinorKeeps
<1>5. Good(b, f) /\ Carries(a, b)
    BY <1>4 DEF Carries
<1>6. SearchError(a, m) = IF b.explorer # None /\ b.explorer.gen = m.gen
                          THEN [b EXCEPT !.explorer = e] ELSE b
    BY DEF SearchError, d
<1> HIDE DEF b
<1>7. CASE b.explorer # None
    <2>1. b.explorer \in Explorer
        BY <1>5, <1>7 DEF Good, Results
    <2>2. e \in Explorer /\ e.gen = b.explorer.gen /\ e.rows = b.explorer.rows
        BY <2>1 DEF Explorer
    <2> HIDE DEF e
    <2>3. e.rows # None => e.rows.query = b.active
        BY <2>2, <1>5, <1>7 DEF Good, Shown
    <2>4. Good([b EXCEPT !.explorer = e], f) /\ Carries(b, [b EXCEPT !.explorer = e])
        BY <1>5, <1>7, <2>2, <2>3, ExplorerKeeps
    <2> QED
        BY <1>5, <1>6, <2>4, CarriesOn
<1> QED
    BY <1>5, <1>6, <1>7

\* Groups reach the explorer that asked for them only (drain_messages).
LEMMA SectionDoneKeeps ==
    ASSUME NEW a, NEW f \in Nat, Good(a, f), NEW m \in GroupsFound(a)
    PROVE  Good(SectionDone(a, m), f) /\ Carries(a, SectionDone(a, m))
<1> DEFINE rows == [query |-> m.query, at |-> m.at]
           e == [a.explorer EXCEPT !.rows = rows, !.loading = FALSE]
<1>0. Carries(a, a)
    BY DEF Carries
<1>1. CASE a.explorer # None /\ a.explorer.gen = m.gen /\ a.explorer.kind = m.section
    <2>1. m.query = a.active /\ m.query \in Asked /\ m.at \in Versions
        BY <1>1 DEF GroupsFound, OfGroups
    <2>2. rows \in [query : Asked, at : Versions] /\ rows.query = a.active
        BY <2>1
    <2>3. SectionDone(a, m) = [a EXCEPT !.explorer = e]
        BY <1>1 DEF SectionDone, Source
    <2> HIDE DEF rows
    <2>4. a.explorer \in Explorer
        BY <1>1 DEF Good, Results
    <2>5. e \in Explorer /\ e.gen = a.explorer.gen /\ e.rows = rows
        BY <2>2, <2>4 DEF Explorer
    <2> HIDE DEF e
    <2> QED
        BY <1>1, <2>2, <2>3, <2>5, ExplorerKeeps
<1> QED
    BY <1>0, <1>1 DEF SectionDone

\* A pivot of the generation that is expected is of the active query (drain_messages).
LEMMA PivotDoneKeeps ==
    ASSUME NEW a, NEW f \in Nat, Good(a, f), NEW m \in PivotsFound(a)
    PROVE  Good(PivotDone(a, m), f) /\ Carries(a, PivotDone(a, m))
<1> DEFINE pivot == [query |-> m.query, at |-> m.at, dims |-> m.dims]
           loaded == a.loaded \cup {"Pivot"}
           b == [a EXCEPT !.pivot = pivot, !.analyticsGen = m.gen, !.loaded = loaded, !.loading = FALSE]
<1>0. Carries(a, a)
    BY DEF Carries
<1>1. CASE m.gen = a.gen
    <2>1. pivot.query = a.active
        BY <1>1 DEF PivotsFound, Current
    <2>2. loaded \subseteq Views /\ loaded \cap Scopes \subseteq a.loaded \cap Scopes
        BY NamesAssumption DEF Views, Good, Results
    <2>3. PivotDone(a, m) = b
        BY <1>1 DEF PivotDone
    <2> HIDE DEF pivot, loaded
    <2>4. IsWindow(b)
        BY DEF Good, IsWindow
    <2>5. /\ b.pivot = pivot /\ b.loaded = loaded /\ b.analyticsGen = m.gen /\ b.loading = FALSE
          /\ \A x \in Fields \ {"pivot", "loaded", "analyticsGen", "loading"} : b[x] = a[x]
        <3>1. \A x \in Fields \ {"pivot", "loaded", "analyticsGen", "loading"} : b[x] = a[x]
            BY DEF Good, IsWindow
        <3>2. b.pivot = pivot /\ b.loaded = loaded /\ b.analyticsGen = m.gen /\ b.loading = FALSE
            BY DEF Good, IsWindow, Fields
        <3> QED
            BY <3>1, <3>2
    <2> HIDE DEF b
    <2>6. /\ b.gen = a.gen /\ b.active = a.active /\ b.page = a.page /\ b.dossier = a.dossier
          /\ b.profile = a.profile /\ b.underpricing = a.underpricing /\ b.explorer = a.explorer
          /\ b.searchTx = a.searchTx /\ b.analyticsTx = a.analyticsTx
          /\ b.analytics = a.analytics /\ b.compare = a.compare /\ b.rows = a.rows /\ b.total = a.total
          /\ b.searching = a.searching
        BY <2>5 DEF Fields
    <2>7. Settings(b)
        BY <2>5 DEF Good, Settings, Fields
    <2>8. Results(b)
        <3>1. b.analyticsGen \in 0..b.gen
            BY <1>1, <2>5, <2>6 DEF Good, Results
        <3> QED
            BY <3>1, <2>2, <2>5, <2>6 DEF Good, Results
    <2>9. Shown(b, f)
        <3>1. PageShown(b, f)
            BY <2>6 DEF Good, Shown, PageShown
        <3>2. SectionsShown(b)
            BY <2>2, <2>5, <2>6 DEF SectionsShown, Good, Shown
        <3> QED
            BY <3>1, <3>2, <2>1, <2>5, <2>6 DEF Good, Shown
    <2> QED
        BY <2>3, <2>4, <2>6, <2>7, <2>8, <2>9, AnswerKeeps
<1> QED
    BY <1>0, <1>1 DEF PivotDone

\* The answer to a panel.
LEMMA PanelAnswered ==
    ASSUME NEW S, NEW p \in Panel(S), NEW m, m.query \in S, m.at \in Versions
    PROVE  /\ PanelDone(p, m) \in Panel(S) /\ PanelDone(p, m).gen = p.gen
           /\ \/ PanelDone(p, m) = p
              \/ m.gen = p.gen /\ PanelDone(p, m).shown.query = m.query
<1> DEFINE source == Source(m)
<1>1. source \in [query : S, at : Versions] /\ source.query = m.query
    BY DEF Source
<1>2. PanelDone(p, m) = IF m.gen # p.gen THEN p ELSE [p EXCEPT !.shown = source, !.loading = FALSE]
    BY DEF PanelDone
<1> HIDE DEF source
<1> QED
    BY <1>1, <1>2 DEF Panel

\* The panels that an answer fills.
PanelNames == {"profile", "compare", "underpricing"}

\* A window with an answered panel.
LEMMA PanelKeeps ==
    ASSUME NEW a, NEW b, NEW f \in Nat, Good(a, f), IsWindow(b),
           \A x \in Fields \ PanelNames : b[x] = a[x],
           b.profile \in Panel(Companies), b.compare \in Panel(Asked), b.underpricing \in Panel(Asked),
           b.profile.gen = a.profile.gen, b.underpricing.gen = a.underpricing.gen,
           b.profile = a.profile \/ b.profile.shown.query = a.dossier,
           b.underpricing = a.underpricing \/ b.underpricing.shown.query = a.active
    PROVE  Good(b, f) /\ Carries(a, b)
<1>1. /\ b.gen = a.gen /\ b.active = a.active /\ b.page = a.page /\ b.dossier = a.dossier
      /\ b.explorer = a.explorer /\ b.searchTx = a.searchTx /\ b.analyticsTx = a.analyticsTx
      /\ b.analytics = a.analytics /\ b.rows = a.rows /\ b.total = a.total
      /\ b.searching = a.searching /\ b.analyticsGen = a.analyticsGen /\ b.loaded = a.loaded
      /\ b.pivot = a.pivot
    BY DEF Fields, PanelNames
<1>2. Settings(b)
    BY DEF Good, Settings, Fields, PanelNames
<1>3. Results(b)
    BY <1>1 DEF Good, Results
<1>4. Shown(b, f)
    <2>1. PageShown(b, f) /\ SectionsShown(b)
        BY <1>1 DEF Good, Shown, PageShown, SectionsShown
    <2> QED
        BY <2>1, <1>1 DEF Good, Shown
<1> QED
    BY <1>1, <1>2, <1>3, <1>4, AnswerKeeps

----------------------------------------------------------------------------
(* Answers to panels, and notices.                                         *)

\* A dossier of the generation that is expected is of the company that is open.
LEMMA ProfileDoneKeeps ==
    ASSUME NEW a, NEW f \in Nat, Good(a, f), NEW m \in DossiersFound(a)
    PROVE  /\ Good([a EXCEPT !.profile = PanelDone(@, m)], f)
           /\ Carries(a, [a EXCEPT !.profile = PanelDone(@, m)])
<1> DEFINE p == PanelDone(a.profile, m)
           b == [a EXCEPT !.profile = p]
<1>1. a.profile \in Panel(Companies) /\ m.query \in Companies /\ m.at \in Versions
    BY DEF Good, Results, DossiersFound
<1>2. p \in Panel(Companies) /\ p.gen = a.profile.gen /\ (p = a.profile \/ p.shown.query = a.dossier)
    BY <1>1, PanelAnswered DEF DossiersFound, OfDossier
<1> HIDE DEF p
<1>3. IsWindow(b) /\ b.profile = p /\ \A x \in Fields \ {"profile"} : b[x] = a[x]
    <2>1. IsWindow(b) /\ \A x \in Fields \ {"profile"} : b[x] = a[x]
        BY DEF Good, IsWindow
    <2>2. b.profile = p
        BY DEF Good, IsWindow, Fields
    <2> QED
        BY <2>1, <2>2
<1> HIDE DEF b
<1>4. /\ \A x \in Fields \ PanelNames : b[x] = a[x]
      /\ b.compare = a.compare /\ b.underpricing = a.underpricing
    BY <1>3 DEF Fields, PanelNames
<1>5. Good(b, f) /\ Carries(a, b)
    BY <1>2, <1>3, <1>4, PanelKeeps DEF Good, Results
<1> QED
    BY <1>5 DEF b, p

\* A scan of the generation that is expected is of the active query.
LEMMA UnderpricingDoneKeeps ==
    ASSUME NEW a, NEW f \in Nat, Good(a, f), NEW m \in ScansFound(a)
    PROVE  /\ Good([a EXCEPT !.underpricing = PanelDone(@, m)], f)
           /\ Carries(a, [a EXCEPT !.underpricing = PanelDone(@, m)])
<1> DEFINE p == PanelDone(a.underpricing, m)
           b == [a EXCEPT !.underpricing = p]
<1>1. a.underpricing \in Panel(Asked) /\ m.query \in Asked /\ m.at \in Versions
    BY DEF Good, Results, ScansFound
<1>2. /\ p \in Panel(Asked) /\ p.gen = a.underpricing.gen
      /\ p = a.underpricing \/ p.shown.query = a.active
    BY <1>1, PanelAnswered DEF ScansFound, OfScan
<1> HIDE DEF p
<1>3. IsWindow(b) /\ b.underpricing = p /\ \A x \in Fields \ {"underpricing"} : b[x] = a[x]
    <2>1. IsWindow(b) /\ \A x \in Fields \ {"underpricing"} : b[x] = a[x]
        BY DEF Good, IsWindow
    <2>2. b.underpricing = p
        BY DEF Good, IsWindow, Fields
    <2> QED
        BY <2>1, <2>2
<1> HIDE DEF b
<1>4. /\ \A x \in Fields \ PanelNames : b[x] = a[x]
      /\ b.compare = a.compare /\ b.profile = a.profile
    BY <1>3 DEF Fields, PanelNames
<1>5. Good(b, f) /\ Carries(a, b)
    BY <1>2, <1>3, <1>4, PanelKeeps DEF Good, Results
<1> QED
    BY <1>5 DEF b, p

\* A comparison need not be of the active query, and nothing else depends on it.
LEMMA ComparisonKeeps ==
    ASSUME NEW a, NEW f \in Nat, Good(a, f), NEW p \in Panel(Asked)
    PROVE  Good([a EXCEPT !.compare = p], f) /\ Carries(a, [a EXCEPT !.compare = p])
<1> DEFINE b == [a EXCEPT !.compare = p]
<1>1. IsWindow(b) /\ b.compare = p /\ \A x \in Fields \ {"compare"} : b[x] = a[x]
    <2>1. IsWindow(b) /\ \A x \in Fields \ {"compare"} : b[x] = a[x]
        BY DEF Good, IsWindow
    <2>2. b.compare = p
        BY DEF Good, IsWindow, Fields
    <2> QED
        BY <2>1, <2>2
<1> HIDE DEF b
<1>2. /\ \A x \in Fields \ PanelNames : b[x] = a[x]
      /\ b.underpricing = a.underpricing /\ b.profile = a.profile
    BY <1>1 DEF Fields, PanelNames
<1>3. Good(b, f) /\ Carries(a, b)
    BY <1>1, <1>2, PanelKeeps DEF Good, Results
<1> QED
    BY <1>3 DEF b

\* A comparison that was found leaves the rest of the window alone.
LEMMA CompareDoneKeeps ==
    ASSUME NEW a, NEW f \in Nat, Good(a, f), NEW m \in ComparisonsFound
    PROVE  /\ Good([a EXCEPT !.compare = PanelDone(@, m)], f)
           /\ Carries(a, [a EXCEPT !.compare = PanelDone(@, m)])
<1>1. a.compare \in Panel(Asked) /\ m.query \in Asked /\ m.at \in Versions
    BY DEF Good, Results, ComparisonsFound
<1>2. PanelDone(a.compare, m) \in Panel(Asked)
    BY <1>1, PanelAnswered
<1> QED
    BY <1>2, ComparisonKeeps

\* A comparison that failed leaves the rest of the window alone.
LEMMA CompareErrorKeeps ==
    ASSUME NEW a, NEW f \in Nat, Good(a, f), NEW m
    PROVE  /\ Good([a EXCEPT !.compare.loading = @ /\ m.gen # a.compare.gen], f)
           /\ Carries(a, [a EXCEPT !.compare.loading = @ /\ m.gen # a.compare.gen])
<1> DEFINE loading == a.compare.loading /\ m.gen # a.compare.gen
           p == [a.compare EXCEPT !.loading = loading]
<1>1. a.compare \in Panel(Asked)
    BY DEF Good, Results
<1>2. loading \in BOOLEAN
    OBVIOUS
<1>3. [a EXCEPT !.compare.loading = @ /\ m.gen # a.compare.gen] = [a EXCEPT !.compare = p]
    OBVIOUS
<1> HIDE DEF loading
<1>4. p \in Panel(Asked)
    BY <1>1, <1>2 DEF Panel
<1> HIDE DEF p
<1> QED
    BY <1>3, <1>4, ComparisonKeeps

\* A change of settings alone.
Settled == {"ready", "typed", "tab", "view", "level", "limit", "dims", "busy", "dbTotal", "overtaken",
            "loading", "more", "counting"}

\* Nothing that is shown depends on the settings alone.
LEMMA SettledKeeps ==
    ASSUME NEW a, NEW b, NEW f \in Nat, Good(a, f), IsWindow(b), Settings(b),
           \A x \in Fields \ Settled : b[x] = a[x]
    PROVE  Good(b, f) /\ Carries(a, b)
<1>1. /\ b.gen = a.gen /\ b.active = a.active /\ b.page = a.page /\ b.dossier = a.dossier
      /\ b.profile = a.profile /\ b.underpricing = a.underpricing
      /\ b.explorer = a.explorer /\ b.searchTx = a.searchTx /\ b.analyticsTx = a.analyticsTx
      /\ b.analytics = a.analytics /\ b.compare = a.compare /\ b.rows = a.rows /\ b.total = a.total
      /\ b.searching = a.searching /\ b.analyticsGen = a.analyticsGen /\ b.loaded = a.loaded
      /\ b.pivot = a.pivot
    BY DEF Fields, Settled
<1>2. Minor(a, b, f)
    BY <1>1 DEF Minor, Good, Results
<1> QED
    BY <1>1, <1>2, MinorKeeps

\* The total of the database is shown beside the results (drain_messages).
LEMMA StatsKeeps ==
    ASSUME NEW a, NEW f \in Nat, Good(a, f), NEW v \in Versions
    PROVE  Good([a EXCEPT !.dbTotal = v], f) /\ Carries(a, [a EXCEPT !.dbTotal = v])
<1> DEFINE b == [a EXCEPT !.dbTotal = v]
<1>1. IsWindow(b) /\ b.dbTotal = v /\ \A x \in Fields \ {"dbTotal"} : b[x] = a[x]
    <2>1. IsWindow(b) /\ \A x \in Fields \ {"dbTotal"} : b[x] = a[x]
        BY DEF Good, IsWindow
    <2>2. b.dbTotal = v
        BY DEF Good, IsWindow, Fields
    <2> QED
        BY <2>1, <2>2
<1> HIDE DEF b
<1>2. Settings(b) /\ \A x \in Fields \ Settled : b[x] = a[x]
    BY <1>1 DEF Good, Settings, Fields, Settled
<1>3. Good(b, f) /\ Carries(a, b)
    BY <1>1, <1>2, SettledKeeps
<1> QED
    BY <1>3 DEF b

\* An operation that starts or ends leaves what is shown alone.
LEMMA BusyKeeps ==
    ASSUME NEW a, NEW f \in Nat, Good(a, f), NEW v \in BOOLEAN
    PROVE  Good([a EXCEPT !.busy = v], f) /\ Carries(a, [a EXCEPT !.busy = v])
<1> DEFINE b == [a EXCEPT !.busy = v]
<1>1. IsWindow(b) /\ b.busy = v /\ \A x \in Fields \ {"busy"} : b[x] = a[x]
    <2>1. IsWindow(b) /\ \A x \in Fields \ {"busy"} : b[x] = a[x]
        BY DEF Good, IsWindow
    <2>2. b.busy = v
        BY DEF Good, IsWindow, Fields
    <2> QED
        BY <2>1, <2>2
<1> HIDE DEF b
<1>2. Settings(b) /\ \A x \in Fields \ Settled : b[x] = a[x]
    BY <1>1 DEF Good, Settings, Fields, Settled
<1>3. Good(b, f) /\ Carries(a, b)
    BY <1>1, <1>2, SettledKeeps
<1> QED
    BY <1>3 DEF b

\* The data are asked for anew.
LEMMA RefreshKeeps ==
    ASSUME NEW a, NEW f \in Nat, Good(a, f)
    PROVE  /\ Good(StartSearch(AskSearch(a, [kind |-> "Stats"])), f)
           /\ Carries(a, StartSearch(AskSearch(a, [kind |-> "Stats"])))
<1> DEFINE b == AskSearch(a, [kind |-> "Stats"])
<1>1. [kind |-> "Stats"] \in Searches(a)
    BY DEF Searches
<1>2. Good(b, f) /\ Carries(a, b)
    BY <1>1, AskSearchKeeps
<1> HIDE DEF b
<1>3. Good(StartSearch(b), f) /\ Carries(b, StartSearch(b))
    BY <1>2, StartSearchKeeps
<1>4. Carries(a, StartSearch(b))
    BY <1>2, <1>3, CarriesOn
<1> QED
    BY <1>3, <1>4 DEF b

\* After an import or a clearing everything is asked for anew (drain_messages).
LEMMA AfterChangeKeeps ==
    ASSUME NEW a, NEW f \in Nat, Good(a, f)
    PROVE  Good(AfterChange(a), f) /\ Carries(a, AfterChange(a))
<1> DEFINE b == [a EXCEPT !.busy = FALSE]
<1>1. Good(b, f) /\ Carries(a, b)
    BY BusyKeeps
<1>2. AfterChange(a) = StartSearch(AskSearch(b, [kind |-> "Stats"]))
    BY DEF AfterChange
<1> HIDE DEF b
<1> QED
    BY <1>1, <1>2, RefreshKeeps, CarriesOn

\* The database that was opened is asked for its rows, unless it is empty (drain_messages).
LEMMA StartupDoneKeeps ==
    ASSUME NEW a, NEW f \in Nat, Good(a, f), NEW m \in Starts \cup FailedStarts(f)
    PROVE  Good(StartupDone(a, m), f) /\ Carries(a, StartupDone(a, m))
<1> DEFINE busy == a.busy \/ m.unindexed
           b == [a EXCEPT !.ready = TRUE, !.dbTotal = m.at, !.busy = busy]
           c == [a EXCEPT !.searching = FALSE, !.counting = FALSE]
           total == [query |-> a.active, at |-> m.at, pages |-> 0]
           d == [b EXCEPT !.rows = None, !.total = total]
<1>1. m.at \in Versions /\ m.unindexed \in BOOLEAN /\ (m.kind = "StartupFailed" => f > 0)
    BY DEF Starts, FailedStarts
<1>2. busy \in BOOLEAN /\ total \in [query : Asked, at : Versions, pages : Nat] /\ total.query = a.active
    BY <1>1 DEF Good, Settings, Results
<1>3. \/ m.kind = "StartupFailed" /\ StartupDone(a, m) = c
      \/ StartupDone(a, m) = d
      \/ StartupDone(a, m) = StartSearch(AskSearch(b, [kind |-> "Stats"]))
    BY DEF StartupDone
<1> HIDE DEF busy, total
<1>4. /\ IsWindow(b) /\ b.ready = TRUE /\ b.dbTotal = m.at /\ b.busy = busy
      /\ \A x \in Fields \ {"ready", "dbTotal", "busy"} : b[x] = a[x]
    <2>1. IsWindow(b) /\ \A x \in Fields \ {"ready", "dbTotal", "busy"} : b[x] = a[x]
        BY DEF Good, IsWindow
    <2>2. b.ready = TRUE /\ b.dbTotal = m.at /\ b.busy = busy
        BY DEF Good, IsWindow, Fields
    <2> QED
        BY <2>1, <2>2
<1>5. /\ IsWindow(c) /\ c.searching = FALSE /\ c.counting = FALSE
      /\ \A x \in Fields \ {"searching", "counting"} : c[x] = a[x]
    <2>1. IsWindow(c) /\ \A x \in Fields \ {"searching", "counting"} : c[x] = a[x]
        BY DEF Good, IsWindow
    <2>2. c.searching = FALSE /\ c.counting = FALSE
        BY DEF Good, IsWindow, Fields
    <2> QED
        BY <2>1, <2>2
<1> HIDE DEF b, c
<1>6. Good(b, f) /\ Carries(a, b)
    <2>1. Settings(b) /\ \A x \in Fields \ Settled : b[x] = a[x]
        BY <1>1, <1>2, <1>4 DEF Good, Settings, Fields, Settled
    <2> QED
        BY <1>4, <2>1, SettledKeeps
<1>7. f > 0 => Good(c, f) /\ Carries(a, c)
    <2>1. f > 0 => Minor(a, c, f) /\ c.searchTx = a.searchTx /\ c.analyticsTx = a.analyticsTx
        BY <1>5 DEF Good, Minor, Settings, Results, Fields
    <2> QED
        BY <2>1, MinorKeeps
<1>8. Good(d, f) /\ Carries(a, d)
    <2>1. /\ IsWindow(d) /\ d.rows = None /\ d.total = total
          /\ \A x \in Fields \ {"rows", "total"} : d[x] = b[x]
        <3>1. IsWindow(d) /\ \A x \in Fields \ {"rows", "total"} : d[x] = b[x]
            BY <1>4 DEF IsWindow
        <3>2. d.rows = None /\ d.total = total
            BY <1>4 DEF IsWindow, Fields
        <3> QED
            BY <3>1, <3>2
    <2> HIDE DEF d
    <2>2. /\ d.gen = b.gen /\ d.active = b.active /\ d.page = b.page /\ d.dossier = b.dossier
          /\ d.profile = b.profile /\ d.underpricing = b.underpricing /\ d.explorer = b.explorer
          /\ d.searchTx = b.searchTx /\ d.analyticsTx = b.analyticsTx
          /\ d.analytics = b.analytics /\ d.analyticsGen = b.analyticsGen /\ d.loaded = b.loaded
          /\ d.pivot = b.pivot /\ d.compare = b.compare /\ d.searching = b.searching
          /\ b.active = a.active
        BY <1>4, <2>1 DEF Fields
    <2>3. Settings(d)
        BY <1>6, <2>1 DEF Good, Settings, Fields
    <2>4. Results(d)
        BY <1>2, <1>6, <2>1, <2>2 DEF Good, Results
    <2>5. Shown(d, f)
        <3>1. PageShown(d, f) /\ SectionsShown(d)
            BY <1>6, <2>1, <2>2 DEF Good, Shown, PageShown, SectionsShown
        <3> QED
            BY <3>1, <1>2, <1>6, <2>1, <2>2 DEF Good, Shown
    <2>6. Good(d, f) /\ Carries(b, d)
        BY <1>6, <2>1, <2>2, <2>3, <2>4, <2>5, AnswerKeeps
    <2> QED
        BY <1>6, <2>6, CarriesOn
<1>9. Good(StartSearch(AskSearch(b, [kind |-> "Stats"])), f)
      /\ Carries(a, StartSearch(AskSearch(b, [kind |-> "Stats"])))
    BY <1>6, RefreshKeeps, CarriesOn
<1> HIDE DEF d
<1> QED
    BY <1>1, <1>3, <1>7, <1>8, <1>9

----------------------------------------------------------------------------
(* Whatever answer.                                                        *)

\* Whatever answer the window handles, it stays good, and nothing under way is taken for more than it is.
LEMMA HandledKeeps ==
    ASSUME NEW a, NEW f \in Nat, Good(a, f), NEW m \in Answers(a, f)
    PROVE  Good(Handled(a, m), f) /\ Carries(a, Handled(a, m))
<1>1. CASE m \in PagesFound(a)
    <2>1. m.kind = "SearchPage"
        BY <1>1 DEF PagesFound
    <2> QED
        BY <1>1, <2>1, SearchPageKeeps DEF Handled
<1>2. CASE m \in CountsFound(a)
    <2>1. m.kind = "SearchCount"
        BY <1>2 DEF CountsFound
    <2> QED
        BY <1>2, <2>1, SearchCountKeeps DEF Handled
<1>3. CASE m \in ScopesFound(a)
    <2>1. m.kind = "AnalyticsDone"
        BY <1>3 DEF ScopesFound
    <2> QED
        BY <1>3, <2>1, AnalyticsDoneKeeps DEF Handled
<1>4. CASE m \in GroupsFound(a)
    <2>1. m.kind = "SectionDone"
        BY <1>4 DEF GroupsFound
    <2> QED
        BY <1>4, <2>1, SectionDoneKeeps DEF Handled
<1>5. CASE m \in PivotsFound(a)
    <2>1. m.kind = "PivotDone"
        BY <1>5 DEF PivotsFound
    <2> QED
        BY <1>5, <2>1, PivotDoneKeeps DEF Handled
<1>6. CASE m \in ScansFound(a)
    <2>1. m.kind = "UnderpricingDone"
        BY <1>6 DEF ScansFound
    <2> QED
        BY <1>6, <2>1, UnderpricingDoneKeeps DEF Handled
<1>7. CASE m \in DossiersFound(a)
    <2>1. m.kind = "ProfileDone"
        BY <1>7 DEF DossiersFound
    <2> QED
        BY <1>7, <2>1, ProfileDoneKeeps DEF Handled
<1>8. CASE m \in ComparisonsFound
    <2>1. m.kind = "CompareDone"
        BY <1>8 DEF ComparisonsFound
    <2> QED
        BY <1>8, <2>1, CompareDoneKeeps DEF Handled
<1>9. CASE m \in Errors(f)
    <2>1. m.kind = "SearchError" \/ m.kind = "CompareError"
        BY <1>9 DEF Errors
    <2>2. CASE m.kind = "SearchError"
        BY <1>9, <2>2, SearchErrorKeeps DEF Handled
    <2>3. CASE m.kind = "CompareError"
        BY <2>3, CompareErrorKeeps DEF Handled
    <2> QED
        BY <2>1, <2>2, <2>3
<1>10. CASE m \in Starts \cup FailedStarts(f)
    <2>1. m.kind = "StartupDone" \/ m.kind = "StartupFailed"
        BY <1>10 DEF Starts, FailedStarts
    <2>2. Handled(a, m) = StartupDone(a, m)
        BY <2>1 DEF Handled
    <2> QED
        BY <1>10, <2>2, StartupDoneKeeps
<1>11. CASE m \in News
    <2>1. m.at \in Versions /\ (m.kind = "Stats" \/ m.kind = "ImportDone")
        BY <1>11 DEF News
    <2> DEFINE b == [a EXCEPT !.dbTotal = m.at]
    <2>2. Good(b, f) /\ Carries(a, b)
        BY <2>1, StatsKeeps
    <2>3. Handled(a, m) = b \/ Handled(a, m) = AfterChange(b)
        BY <2>1 DEF Handled
    <2> HIDE DEF b
    <2>4. Good(AfterChange(b), f) /\ Carries(b, AfterChange(b))
        BY <2>2, AfterChangeKeeps
    <2> QED
        BY <2>2, <2>3, <2>4, CarriesOn
<1>12. CASE m \in Ends
    <2>1. m.kind \in {"DbCleared", "ExportDone", "MaintenanceDone", "Fatal"}
        BY <1>12 DEF Ends
    <2>2. Handled(a, m) = AfterChange(a) \/ Handled(a, m) = [a EXCEPT !.busy = FALSE]
        BY <2>1 DEF Handled
    <2> QED
        BY <2>2, AfterChangeKeeps, BusyKeeps
<1> QED
    BY <1>1, <1>2, <1>3, <1>4, <1>5, <1>6, <1>7, <1>8, <1>9, <1>10, <1>11, <1>12
       DEF Answers, Found, Notices

\* The channels that the window sends to, after a worker has taken or dropped something.
LEMMA TakenKeeps ==
    ASSUME NEW a, NEW f \in Nat, Good(a, f), NEW s \in Seq(Searches(a)), NEW t \in Seq(Analyses(a))
    PROVE  /\ Good([a EXCEPT !.searchTx = s, !.analyticsTx = t], f)
           /\ Carries(a, [a EXCEPT !.searchTx = s, !.analyticsTx = t])
<1> DEFINE b == [a EXCEPT !.searchTx = s, !.analyticsTx = t]
<1>1. /\ IsWindow(b) /\ b.searchTx = s /\ b.analyticsTx = t
      /\ \A x \in Fields \ {"searchTx", "analyticsTx"} : b[x] = a[x]
    <2>1. IsWindow(b) /\ \A x \in Fields \ {"searchTx", "analyticsTx"} : b[x] = a[x]
        BY DEF Good, IsWindow
    <2>2. b.searchTx = s /\ b.analyticsTx = t
        BY DEF Good, IsWindow, Fields
    <2> QED
        BY <2>1, <2>2
<1> HIDE DEF b
<1>2. Minor(a, b, f)
    <2>1. Settings(b)
        BY <1>1 DEF Good, Settings, Fields
    <2> QED
        BY <1>1, <2>1 DEF Good, Minor, Results, Fields
<1>3. Carries(a, b) /\ IsWindow(b) /\ Settings(b) /\ Results(b) /\ Shown(b, f)
    BY <1>2, MinorKeeps
<1>4. Sent(b)
    BY <1>1, <1>3, WiderChannel DEF Sent, Carries
<1> QED
    BY <1>3, <1>4 DEF Good, b

\* The search worker takes a request; the window stays as good as it was.
LEMMA SearchTaken ==
    ASSUME NEW a, NEW f \in Nat, Good(a, f), NEW s \in Seq(Searches(a))
    PROVE  Good([a EXCEPT !.searchTx = s], f) /\ Carries(a, [a EXCEPT !.searchTx = s])
<1>1. a.analyticsTx \in Seq(Analyses(a)) /\ IsWindow(a)
    BY DEF Good, Sent
<1>2. [a EXCEPT !.searchTx = s, !.analyticsTx = a.analyticsTx] = [a EXCEPT !.searchTx = s]
    BY <1>1 DEF IsWindow, Fields
<1> QED
    BY <1>1, <1>2, TakenKeeps

\* The analytics worker takes a request; the window stays as good as it was.
LEMMA AnalysisTaken ==
    ASSUME NEW a, NEW f \in Nat, Good(a, f), NEW t \in Seq(Analyses(a))
    PROVE  Good([a EXCEPT !.analyticsTx = t], f) /\ Carries(a, [a EXCEPT !.analyticsTx = t])
<1>1. a.searchTx \in Seq(Searches(a)) /\ IsWindow(a)
    BY DEF Good, Sent
<1>2. [a EXCEPT !.searchTx = a.searchTx, !.analyticsTx = t] = [a EXCEPT !.analyticsTx = t]
    BY <1>1 DEF IsWindow, Fields
<1> QED
    BY <1>1, <1>2, TakenKeeps

\* Answers under way stay under way when the generations and the faults only grow.
LEMMA AnswersCarried ==
    ASSUME NEW a, NEW b, Carries(a, b), NEW f \in Nat, NEW g \in Nat, f <= g,
           NEW s \in Seq(Answers(a, f))
    PROVE  s \in Seq(Answers(b, g))
<1>1. Errors(f) \subseteq Errors(g) /\ FailedStarts(f) \subseteq FailedStarts(g)
    BY DEF Errors, FailedStarts
<1>2. Answers(a, f) \subseteq Answers(b, g)
    BY <1>1 DEF Carries, Answers, Notices
<1> QED
    BY <1>2, WiderChannel

\* What the count worker has stays of the window when the generations only grow.
LEMMA CountsCarried ==
    ASSUME NEW a, NEW b, Carries(a, b), NEW c \in CountStates(a)
    PROVE  c \in CountStates(b)
<1>1. CountsAsked(a) \subseteq CountsAsked(b) /\ Counts(a) \subseteq Counts(b)
    BY DEF Carries, Counts
<1>2. c.rx \in Seq(Counts(a))
    BY DEF CountStates
<1>3. c.rx \in Seq(Counts(b))
    BY <1>1, <1>2, WiderChannel
<1> QED
    BY <1>1, <1>3 DEF CountStates

\* A failure takes nothing from what is shown.
LEMMA FailureKeeps ==
    ASSUME NEW a, NEW f \in Nat, Good(a, f)
    PROVE  Good(a, f + 1)
BY DEF Good, Shown, PageShown

----------------------------------------------------------------------------
(* Steps of the user.                                                      *)

\* Whatever becomes of the window, the threads still have what they can serve.
LEMMA StepKeeps ==
    ASSUME IInv, Good(app', faults'), Carries(app, app'), faults' \in Nat, faults <= faults',
           data' \in [version : Versions, empty : BOOLEAN], ops' \in Seq(Operations),
           \/ messages' = messages
           \/ messages # <<>> /\ messages' = Tail(messages)
           \/ \E s \in Seq(Answers(app, faults')) : messages' = messages \o s,
           count' \in CountStates(app)
    PROVE  IInv'
<1>1. messages \in Seq(Answers(app, faults)) /\ faults \in Nat
    BY DEF IInv
<1>2. messages \in Seq(Answers(app, faults'))
    <2>1. Carries(app, app)
        BY DEF Carries
    <2> QED
        BY <1>1, <2>1, AnswersCarried
<1>3. messages' \in Seq(Answers(app, faults'))
    <2>1. CASE messages' = messages
        BY <1>2, <2>1
    <2>2. CASE messages # <<>> /\ messages' = Tail(messages)
        BY <1>2, <2>2, Channels
    <2>3. CASE \E s \in Seq(Answers(app, faults')) : messages' = messages \o s
        BY <1>2, <2>3, Channels
    <2> QED
        BY <2>1, <2>2, <2>3
<1>4. messages' \in Seq(Answers(app', faults'))
    BY <1>3, AnswersCarried
<1>5. count' \in CountStates(app')
    BY CountsCarried
<1> QED
    BY <1>4, <1>5 DEF IInv

\* A channel whose receiver is gone drops what is sent; the window stays good.
LEMMA WindowKeeps ==
    ASSUME IInv, NEW b, Good(b, faults), Carries(app, b), Window(b)
    PROVE  Good(app', faults) /\ Carries(app, app')
<1> DEFINE s == IF search = "dead" THEN <<>> ELSE b.searchTx
           t == IF analyst = "dead" THEN <<>> ELSE b.analyticsTx
<1>1. s \in Seq(Searches(b)) /\ t \in Seq(Analyses(b))
    BY Channels DEF Good, Sent
<1>2. app' = [b EXCEPT !.searchTx = s, !.analyticsTx = t]
    BY DEF Window
<1>3. faults \in Nat
    BY DEF IInv
<1> HIDE DEF s, t
<1>4. Good(app', faults) /\ Carries(b, app')
    BY <1>1, <1>2, <1>3, TakenKeeps
<1> QED
    BY <1>4, CarriesOn

\* A click that leaves a good window behind.
LEMMA ClickKeeps ==
    ASSUME IInv, NEW b, Good(b, faults), Carries(app, b), Click(b), ops' \in Seq(Operations)
    PROVE  IInv'
<1>1. Window(b) /\ UNCHANGED <<messages, count, data, faults>>
    BY DEF Click
<1>2. Good(app', faults) /\ Carries(app, app')
    BY <1>1, WindowKeeps
<1>3. /\ faults' = faults /\ messages' = messages /\ count' = count /\ data' = data
      /\ faults \in Nat /\ data \in [version : Versions, empty : BOOLEAN] /\ count \in CountStates(app)
    BY <1>1 DEF IInv
<1>4. Good(app', faults') /\ faults' \in Nat /\ faults <= faults'
    BY <1>2, <1>3
<1> QED
    BY <1>2, <1>3, <1>4, StepKeeps

\* The user's own choices, which nothing that is shown depends on.
LEMMA ChoicesKeep ==
    ASSUME NEW a, NEW f \in Nat, Good(a, f)
    PROVE  /\ \A q \in Asked : Good([a EXCEPT !.typed = q], f) /\ Carries(a, [a EXCEPT !.typed = q])
           /\ \A tab \in {"Results", "Analytics"} :
                 /\ Good([a EXCEPT !.tab = tab], f) /\ Carries(a, [a EXCEPT !.tab = tab])
                 /\ \A q \in Asked :
                       /\ Good([a EXCEPT !.typed = q, !.tab = tab], f)
                       /\ Carries(a, [a EXCEPT !.typed = q, !.tab = tab])
           /\ \A v \in Views :
                 /\ Good([a EXCEPT !.view = v], f) /\ Carries(a, [a EXCEPT !.view = v])
                 /\ Good([a EXCEPT !.tab = "Analytics", !.view = v], f)
                 /\ Carries(a, [a EXCEPT !.tab = "Analytics", !.view = v])
           /\ \A d \in Dims : Good([a EXCEPT !.dims = d], f) /\ Carries(a, [a EXCEPT !.dims = d])
<1>1. ASSUME NEW b, IsWindow(b), \A x \in Fields \ {"typed", "tab", "view", "dims"} : b[x] = a[x],
             b.typed \in Asked, b.tab \in {"Results", "Analytics"}, b.view \in Views, b.dims \in Dims
      PROVE  Good(b, f) /\ Carries(a, b)
    <2>1. Settings(a)
        BY DEF Good
    <2>2. Settings(b)
        BY <1>1, <2>1 DEF Settings, Fields
    <2>3. \A x \in Fields \ Settled : b[x] = a[x]
        BY <1>1 DEF Settled
    <2> QED
        BY <1>1, <2>2, <2>3, SettledKeeps
<1>2. IsWindow(a) /\ a.typed \in Asked /\ a.tab \in {"Results", "Analytics"} /\ a.view \in Views
      /\ a.dims \in Dims
    BY DEF Good, Settings
<1>3. ASSUME NEW q \in Asked
      PROVE  Good([a EXCEPT !.typed = q], f) /\ Carries(a, [a EXCEPT !.typed = q])
    <2> DEFINE b == [a EXCEPT !.typed = q]
    <2>1. IsWindow(b) /\ b.typed = q /\ \A x \in Fields \ {"typed"} : b[x] = a[x]
        <3>1. IsWindow(b) /\ \A x \in Fields \ {"typed"} : b[x] = a[x]
            BY <1>2 DEF IsWindow
        <3>2. b.typed = q
            BY <1>2 DEF IsWindow, Fields
        <3> QED
            BY <3>1, <3>2
    <2> HIDE DEF b
    <2>2. b.tab = a.tab /\ b.view = a.view /\ b.dims = a.dims
        BY <2>1 DEF Fields
    <2>3. Good(b, f) /\ Carries(a, b)
        BY <1>1, <1>2, <2>1, <2>2
    <2> QED
        BY <2>3 DEF b
<1>4. ASSUME NEW tab \in {"Results", "Analytics"}
      PROVE  Good([a EXCEPT !.tab = tab], f) /\ Carries(a, [a EXCEPT !.tab = tab])
    <2> DEFINE b == [a EXCEPT !.tab = tab]
    <2>1. IsWindow(b) /\ b.tab = tab /\ \A x \in Fields \ {"tab"} : b[x] = a[x]
        <3>1. IsWindow(b) /\ \A x \in Fields \ {"tab"} : b[x] = a[x]
            BY <1>2 DEF IsWindow
        <3>2. b.tab = tab
            BY <1>2 DEF IsWindow, Fields
        <3> QED
            BY <3>1, <3>2
    <2> HIDE DEF b
    <2>2. b.typed = a.typed /\ b.view = a.view /\ b.dims = a.dims
        BY <2>1 DEF Fields
    <2>3. Good(b, f) /\ Carries(a, b)
        BY <1>1, <1>2, <2>1, <2>2
    <2> QED
        BY <2>3 DEF b
<1>5. ASSUME NEW tab \in {"Results", "Analytics"}, NEW q \in Asked
      PROVE  /\ Good([a EXCEPT !.typed = q, !.tab = tab], f)
             /\ Carries(a, [a EXCEPT !.typed = q, !.tab = tab])
    <2> DEFINE b == [a EXCEPT !.typed = q, !.tab = tab]
    <2>1. IsWindow(b) /\ b.typed = q /\ b.tab = tab /\ \A x \in Fields \ {"typed", "tab"} : b[x] = a[x]
        <3>1. IsWindow(b) /\ \A x \in Fields \ {"typed", "tab"} : b[x] = a[x]
            BY <1>2 DEF IsWindow
        <3>2. b.typed = q /\ b.tab = tab
            BY <1>2 DEF IsWindow, Fields
        <3> QED
            BY <3>1, <3>2
    <2> HIDE DEF b
    <2>2. b.view = a.view /\ b.dims = a.dims
        BY <2>1 DEF Fields
    <2>3. Good(b, f) /\ Carries(a, b)
        BY <1>1, <1>2, <2>1, <2>2
    <2> QED
        BY <2>3 DEF b
<1>6. ASSUME NEW v \in Views
      PROVE  Good([a EXCEPT !.view = v], f) /\ Carries(a, [a EXCEPT !.view = v])
    <2> DEFINE b == [a EXCEPT !.view = v]
    <2>1. IsWindow(b) /\ b.view = v /\ \A x \in Fields \ {"view"} : b[x] = a[x]
        <3>1. IsWindow(b) /\ \A x \in Fields \ {"view"} : b[x] = a[x]
            BY <1>2 DEF IsWindow
        <3>2. b.view = v
            BY <1>2 DEF IsWindow, Fields
        <3> QED
            BY <3>1, <3>2
    <2> HIDE DEF b
    <2>2. b.typed = a.typed /\ b.tab = a.tab /\ b.dims = a.dims
        BY <2>1 DEF Fields
    <2>3. Good(b, f) /\ Carries(a, b)
        BY <1>1, <1>2, <2>1, <2>2
    <2> QED
        BY <2>3 DEF b
<1>7. ASSUME NEW v \in Views
      PROVE  /\ Good([a EXCEPT !.tab = "Analytics", !.view = v], f)
             /\ Carries(a, [a EXCEPT !.tab = "Analytics", !.view = v])
    <2> DEFINE b == [a EXCEPT !.tab = "Analytics", !.view = v]
    <2>1. IsWindow(b) /\ b.tab = "Analytics" /\ b.view = v
          /\ \A x \in Fields \ {"tab", "view"} : b[x] = a[x]
        <3>1. IsWindow(b) /\ \A x \in Fields \ {"tab", "view"} : b[x] = a[x]
            BY <1>2 DEF IsWindow
        <3>2. b.tab = "Analytics" /\ b.view = v
            BY <1>2 DEF IsWindow, Fields
        <3> QED
            BY <3>1, <3>2
    <2> HIDE DEF b
    <2>2. b.typed = a.typed /\ b.dims = a.dims
        BY <2>1 DEF Fields
    <2>3. Good(b, f) /\ Carries(a, b)
        BY <1>1, <1>2, <2>1, <2>2
    <2> QED
        BY <2>3 DEF b
<1>8. ASSUME NEW d \in Dims
      PROVE  Good([a EXCEPT !.dims = d], f) /\ Carries(a, [a EXCEPT !.dims = d])
    <2> DEFINE b == [a EXCEPT !.dims = d]
    <2>1. IsWindow(b) /\ b.dims = d /\ \A x \in Fields \ {"dims"} : b[x] = a[x]
        <3>1. IsWindow(b) /\ \A x \in Fields \ {"dims"} : b[x] = a[x]
            BY <1>2 DEF IsWindow
        <3>2. b.dims = d
            BY <1>2 DEF IsWindow, Fields
        <3> QED
            BY <3>1, <3>2
    <2> HIDE DEF b
    <2>2. b.typed = a.typed /\ b.tab = a.tab /\ b.view = a.view
        BY <2>1 DEF Fields
    <2>3. Good(b, f) /\ Carries(a, b)
        BY <1>1, <1>2, <2>1, <2>2
    <2> QED
        BY <2>3 DEF b
<1> QED
    BY <1>3, <1>4, <1>5, <1>6, <1>7, <1>8

----------------------------------------------------------------------------
(* Changes of the user.                                                    *)

\* What the user chooses in the analytics drops what was loaded with another choice.
LEMMA LevelKeeps ==
    ASSUME NEW a, NEW f \in Nat, Good(a, f), NEW l \in Levels
    PROVE  /\ Good([a EXCEPT !.level = l, !.loaded = @ \ {"Products"}], f)
           /\ Carries(a, [a EXCEPT !.level = l, !.loaded = @ \ {"Products"}])
<1> DEFINE b == [a EXCEPT !.level = l, !.loaded = @ \ {"Products"}]
<1>1. /\ IsWindow(b) /\ b.level = l /\ b.loaded = a.loaded \ {"Products"}
      /\ \A x \in Fields \ {"level", "loaded"} : b[x] = a[x]
    <2>1. IsWindow(b) /\ \A x \in Fields \ {"level", "loaded"} : b[x] = a[x]
        BY DEF Good, IsWindow
    <2>2. b.level = l /\ b.loaded = a.loaded \ {"Products"}
        BY DEF Good, IsWindow, Fields
    <2> QED
        BY <2>1, <2>2
<1> HIDE DEF b
<1>2. Settings(b)
    BY <1>1 DEF Good, Settings, Fields
<1>3. Minor(a, b, f)
    BY <1>1, <1>2 DEF Good, Minor, Results, Fields
<1>4. b.searchTx = a.searchTx /\ b.analyticsTx = a.analyticsTx
    BY <1>1 DEF Fields
<1>5. Good(b, f) /\ Carries(a, b)
    BY <1>3, <1>4, MinorKeeps
<1> QED
    BY <1>5 DEF b

\* More rows asked for: what was loaded with fewer counts as not loaded (show more).
LEMMA LimitKeeps ==
    ASSUME NEW a, NEW f \in Nat, Good(a, f), NEW v \in BOOLEAN
    PROVE  /\ Good([a EXCEPT !.limit = 50, !.loaded = {}, !.overtaken = v], f)
           /\ Carries(a, [a EXCEPT !.limit = 50, !.loaded = {}, !.overtaken = v])
<1> DEFINE b == [a EXCEPT !.limit = 50, !.loaded = {}, !.overtaken = v]
<1>1. /\ IsWindow(b) /\ b.limit = 50 /\ b.loaded = {} /\ b.overtaken = v
      /\ \A x \in Fields \ {"limit", "loaded", "overtaken"} : b[x] = a[x]
    <2>1. IsWindow(b) /\ \A x \in Fields \ {"limit", "loaded", "overtaken"} : b[x] = a[x]
        BY DEF Good, IsWindow
    <2>2. b.limit = 50 /\ b.loaded = {} /\ b.overtaken = v
        BY DEF Good, IsWindow, Fields
    <2> QED
        BY <2>1, <2>2
<1> HIDE DEF b
<1>2. Settings(b)
    BY <1>1 DEF Good, Settings, Fields, Limits
<1>3. Minor(a, b, f)
    BY <1>1, <1>2 DEF Good, Minor, Results, Fields
<1>4. b.searchTx = a.searchTx /\ b.analyticsTx = a.analyticsTx
    BY <1>1 DEF Fields
<1>5. Good(b, f) /\ Carries(a, b)
    BY <1>3, <1>4, MinorKeeps
<1> QED
    BY <1>5 DEF b

\* An explorer that is closed takes its groups with it.
LEMMA ExplorerClosed ==
    ASSUME NEW a, NEW f \in Nat, Good(a, f)
    PROVE  Good([a EXCEPT !.explorer = None], f) /\ Carries(a, [a EXCEPT !.explorer = None])
<1> DEFINE b == [a EXCEPT !.explorer = None]
<1>1. IsWindow(b) /\ b.explorer = None /\ \A x \in Fields \ {"explorer"} : b[x] = a[x]
    <2>1. IsWindow(b) /\ \A x \in Fields \ {"explorer"} : b[x] = a[x]
        BY DEF Good, IsWindow
    <2>2. b.explorer = None
        BY DEF Good, IsWindow, Fields
    <2> QED
        BY <2>1, <2>2
<1> HIDE DEF b
<1>2. Settings(b)
    BY <1>1 DEF Good, Settings, Fields
<1>3. Minor(a, b, f)
    BY <1>1, <1>2 DEF Good, Minor, Results, Fields
<1>4. b.searchTx = a.searchTx /\ b.analyticsTx = a.analyticsTx
    BY <1>1 DEF Fields
<1>5. Good(b, f) /\ Carries(a, b)
    BY <1>3, <1>4, MinorKeeps
<1> QED
    BY <1>5 DEF b

\* A guided question for a pivot drops the one before.
LEMMA GuidedPivotKeeps ==
    ASSUME NEW a, NEW f \in Nat, Good(a, f), NEW d \in Dims
    PROVE  /\ Good([a EXCEPT !.tab = "Analytics", !.view = "Pivot", !.dims = d, !.pivot = None,
                             !.loaded = @ \ {"Pivot"}], f)
           /\ Carries(a, [a EXCEPT !.tab = "Analytics", !.view = "Pivot", !.dims = d, !.pivot = None,
                                   !.loaded = @ \ {"Pivot"}])
<1> DEFINE b == [a EXCEPT !.tab = "Analytics", !.view = "Pivot", !.dims = d, !.pivot = None,
                          !.loaded = @ \ {"Pivot"}]
           New == {"tab", "view", "dims", "pivot", "loaded"}
<1>1. IsWindow(b) /\ \A x \in Fields \ New : b[x] = a[x]
    BY DEF Good, IsWindow
<1>2. /\ b.tab = "Analytics" /\ b.view = "Pivot" /\ b.dims = d /\ b.pivot = None
      /\ b.loaded = a.loaded \ {"Pivot"}
    BY DEF Good, IsWindow, Fields
<1> HIDE DEF b
<1>3. Settings(b)
    BY <1>1, <1>2 DEF Good, Settings, Fields, Views
<1>4. Minor(a, b, f)
    BY <1>1, <1>2, <1>3 DEF Good, Minor, Results, Fields
<1>5. b.searchTx = a.searchTx /\ b.analyticsTx = a.analyticsTx
    BY <1>1 DEF Fields
<1>6. Good(b, f) /\ Carries(a, b)
    BY <1>4, <1>5, MinorKeeps
<1> QED
    BY <1>6 DEF b

\* The pages that can be turned to are pages: none is before the first.
LEMMA TargetsAreNatural ==
    ASSUME IInv
    PROVE  Targets \subseteq Nat
<1>1. app.page \in Nat /\ app.total \in {None} \cup [query : Asked, at : Versions, pages : Nat]
    BY DEF IInv, Good, Results
<1>2. app.total # None => app.total.pages \in Nat
    BY <1>1
<1>3. PageCount \in Nat \ {0}
    BY <1>1, <1>2 DEF PageCount
<1>4. app.page > 0 => app.page - 1 \in Nat
    BY <1>1
<1>5. PageCount - 1 \in Nat /\ app.page + 1 \in Nat
    BY <1>1, <1>3
<1> QED
    BY <1>4, <1>5 DEF Targets

\* What an action does in two parts of the window.
LEMMA Onward ==
    ASSUME NEW a, NEW b, NEW c, NEW f \in Nat,
           Carries(a, b), Good(c, f), Carries(b, c)
    PROVE  Good(c, f) /\ Carries(a, c)
BY CarriesOn
----------------------------------------------------------------------------
(* The user's steps, one by one.                                           *)

\* The user types.
LEMMA TypeStep ==
    ASSUME IInv, NEW q \in Asked, Type(q)
    PROVE  IInv'
<1>1. faults \in Nat /\ Good(app, faults) /\ ops \in Seq(Operations)
    BY DEF IInv
<1> DEFINE b == [app EXCEPT !.typed = q]
<1>2. Good(b, faults) /\ Carries(app, b)
    BY <1>1, ChoicesKeep
<1>3. Click(b) /\ ops' = ops
    BY DEF Type
<1> HIDE DEF b
<1> QED
    BY <1>1, <1>2, <1>3, ClickKeeps

\* The user searches, from the toolbar or from a dossier.
LEMMA FindStep ==
    ASSUME IInv, NEW q \in Asked, NEW tab \in {"Results", "Analytics"}, Find(q, tab)
    PROVE  IInv'
<1>1. faults \in Nat /\ Good(app, faults) /\ ops \in Seq(Operations)
    BY DEF IInv
<1> DEFINE b == [app EXCEPT !.typed = q, !.tab = tab]
           c == [CloseProfile(app) EXCEPT !.typed = q, !.tab = tab]
<1>2. Good(b, faults) /\ Carries(app, b)
    BY <1>1, ChoicesKeep
<1>3. Good(CloseProfile(app), faults) /\ Carries(app, CloseProfile(app))
    BY <1>1, CloseProfileKeeps
<1>4. Good(c, faults) /\ Carries(CloseProfile(app), c)
    BY <1>1, <1>3, ChoicesKeep
<1>5. (Click(StartSearch(b)) \/ Click(StartSearch(c))) /\ ops' = ops
    BY DEF Find
<1> HIDE DEF b, c
<1>6. Good(StartSearch(b), faults) /\ Carries(app, StartSearch(b))
    BY <1>1, <1>2, StartSearchKeeps, CarriesOn
<1>7. Good(StartSearch(c), faults) /\ Carries(app, StartSearch(c))
    BY <1>1, <1>3, <1>4, StartSearchKeeps, CarriesOn
<1> QED
    BY <1>1, <1>5, <1>6, <1>7, ClickKeeps

\* The user turns the page.
LEMMA TurnPageStep ==
    ASSUME IInv, TurnPage
    PROVE  IInv'
<1>1. faults \in Nat /\ Good(app, faults) /\ ops \in Seq(Operations)
    BY DEF IInv
<1>2. PICK p \in Targets : Click(GotoPage(app, p)) /\ ops' = ops
    BY DEF TurnPage
<1>3. Good(GotoPage(app, p), faults) /\ Carries(app, GotoPage(app, p))
    BY <1>1, TargetsAreNatural, GotoPageKeeps
<1> QED
    BY <1>1, <1>2, <1>3, ClickKeeps

\* The user changes the tab.
LEMMA ShowTabStep ==
    ASSUME IInv, NEW tab \in {"Results", "Analytics"}, ShowTab(tab)
    PROVE  IInv'
<1>1. faults \in Nat /\ Good(app, faults) /\ ops \in Seq(Operations)
    BY DEF IInv
<1> DEFINE b == [app EXCEPT !.tab = tab]
<1>2. Good(b, faults) /\ Carries(app, b)
    BY <1>1, ChoicesKeep
<1>3. (Click(RequestAnalytics(b)) \/ Click(b)) /\ ops' = ops
    BY DEF ShowTab
<1> HIDE DEF b
<1>4. Good(RequestAnalytics(b), faults) /\ Carries(app, RequestAnalytics(b))
    BY <1>1, <1>2, RequestAnalyticsKeeps, CarriesOn
<1> QED
    BY <1>1, <1>2, <1>3, <1>4, ClickKeeps

\* The user chooses a view of the analytics.
LEMMA ChooseViewStep ==
    ASSUME IInv, NEW v \in Views, ChooseView(v)
    PROVE  IInv'
<1>1. faults \in Nat /\ Good(app, faults) /\ ops \in Seq(Operations)
    BY DEF IInv
<1> DEFINE b == [app EXCEPT !.view = v]
<1>2. Good(b, faults) /\ Carries(app, b)
    BY <1>1, ChoicesKeep
<1>3. Click(RequestAnalytics(b)) /\ ops' = ops
    BY DEF ChooseView
<1> HIDE DEF b
<1>4. Good(RequestAnalytics(b), faults) /\ Carries(app, RequestAnalytics(b))
    BY <1>1, <1>2, RequestAnalyticsKeeps, CarriesOn
<1> QED
    BY <1>1, <1>3, <1>4, ClickKeeps

\* The user chooses a level of product codes.
LEMMA ChooseLevelStep ==
    ASSUME IInv, NEW l \in Levels, ChooseLevel(l)
    PROVE  IInv'
<1>1. faults \in Nat /\ Good(app, faults) /\ ops \in Seq(Operations)
    BY DEF IInv
<1> DEFINE b == [app EXCEPT !.level = l, !.loaded = @ \ {"Products"}]
<1>2. Good(b, faults) /\ Carries(app, b)
    BY <1>1, LevelKeeps
<1>3. Click(RequestAnalytics(b)) /\ ops' = ops
    BY DEF ChooseLevel
<1> HIDE DEF b
<1>4. Good(RequestAnalytics(b), faults) /\ Carries(app, RequestAnalytics(b))
    BY <1>1, <1>2, RequestAnalyticsKeeps, CarriesOn
<1> QED
    BY <1>1, <1>3, <1>4, ClickKeeps

\* The user asks for more rows of a view.
LEMMA ShowMoreStep ==
    ASSUME IInv, ShowMore
    PROVE  IInv'
<1>1. faults \in Nat /\ Good(app, faults) /\ ops \in Seq(Operations)
    BY DEF IInv
<1> DEFINE v == app.overtaken \/ app.analyticsTx # <<>> \/ messages # <<>>
           b == [app EXCEPT !.limit = 50, !.loaded = {}, !.overtaken = v]
<1>2. Good(b, faults) /\ Carries(app, b)
    BY <1>1, LimitKeeps
<1>3. Click(RequestAnalytics(b)) /\ ops' = ops
    BY DEF ShowMore
<1> HIDE DEF b
<1>4. Good(RequestAnalytics(b), faults) /\ Carries(app, RequestAnalytics(b))
    BY <1>1, <1>2, RequestAnalyticsKeeps, CarriesOn
<1> QED
    BY <1>1, <1>3, <1>4, ClickKeeps

\* The user chooses what a pivot is of.
LEMMA RepivotStep ==
    ASSUME IInv, NEW d \in Dims, Repivot(d)
    PROVE  IInv'
<1>1. faults \in Nat /\ Good(app, faults) /\ ops \in Seq(Operations)
    BY DEF IInv
<1> DEFINE b == [app EXCEPT !.dims = d]
<1>2. Good(b, faults) /\ Carries(app, b)
    BY <1>1, ChoicesKeep
<1>3. Click(RequestPivot(b)) /\ ops' = ops
    BY DEF Repivot
<1> HIDE DEF b
<1>4. Good(RequestPivot(b), faults) /\ Carries(app, RequestPivot(b))
    BY <1>1, <1>2, RequestPivotKeeps, CarriesOn
<1> QED
    BY <1>1, <1>3, <1>4, ClickKeeps

\* The steps that only ask.
LEMMA AskingStep ==
    ASSUME IInv, Compare \/ Scan \/ CloseExplorer \/ LeaveProfile
    PROVE  IInv'
<1>1. faults \in Nat /\ Good(app, faults) /\ ops \in Seq(Operations)
    BY DEF IInv
<1>2. CASE Compare
    <2>1. Click(RequestCompare(app)) /\ ops' = ops
        BY <1>2 DEF Compare
    <2> QED
        BY <1>1, <2>1, RequestCompareKeeps, ClickKeeps
<1>3. CASE Scan
    <2>1. Click(RequestUnderpricing(app)) /\ ops' = ops
        BY <1>3 DEF Scan
    <2> QED
        BY <1>1, <2>1, RequestUnderpricingKeeps, ClickKeeps
<1>4. CASE CloseExplorer
    <2> DEFINE b == [app EXCEPT !.explorer = None]
    <2>1. Click(b) /\ ops' = ops
        BY <1>4 DEF CloseExplorer
    <2>2. Good(b, faults) /\ Carries(app, b)
        BY <1>1, ExplorerClosed
    <2> HIDE DEF b
    <2> QED
        BY <1>1, <2>1, <2>2, ClickKeeps
<1>5. CASE LeaveProfile
    <2>1. Click(CloseProfile(app)) /\ ops' = ops
        BY <1>5 DEF LeaveProfile
    <2> QED
        BY <1>1, <2>1, CloseProfileKeeps, ClickKeeps
<1> QED
    BY <1>2, <1>3, <1>4, <1>5

\* The user opens the explorer.
LEMMA ExploreStep ==
    ASSUME IInv, NEW k \in Kinds, Explore(k)
    PROVE  IInv'
<1>1. faults \in Nat /\ Good(app, faults) /\ ops \in Seq(Operations)
    BY DEF IInv
<1>2. Click(OpenGroupExplorer(app, k)) /\ ops' = ops
    BY DEF Explore
<1> QED
    BY <1>1, <1>2, OpenGroupExplorerKeeps, ClickKeeps

\* The user opens a dossier.
LEMMA ShowProfileStep ==
    ASSUME IInv, NEW c \in Companies, ShowProfile(c)
    PROVE  IInv'
<1>1. faults \in Nat /\ Good(app, faults) /\ ops \in Seq(Operations)
    BY DEF IInv
<1>2. Click(OpenProfile(app, c)) /\ ops' = ops
    BY DEF ShowProfile
<1> QED
    BY <1>1, <1>2, OpenProfileKeeps, ClickKeeps

----------------------------------------------------------------------------
(* Guided questions and operations.                                        *)

\* A guided question searches for what is typed, or asks about what is active.
LEMMA GuideKeeps ==
    ASSUME IInv, NEW b, Good(b, faults), Carries(app, b), Guide(b)
    PROVE  IInv'
<1>1. faults \in Nat /\ Good(app, faults) /\ ops \in Seq(Operations)
    BY DEF IInv
<1>2. (Click(StartSearch(b)) \/ Click(RequestAnalytics(b))) /\ ops' = ops
    BY DEF Guide
<1>3. Good(StartSearch(b), faults) /\ Carries(app, StartSearch(b))
    BY <1>1, StartSearchKeeps, CarriesOn
<1>4. Good(RequestAnalytics(b), faults) /\ Carries(app, RequestAnalytics(b))
    BY <1>1, RequestAnalyticsKeeps, CarriesOn
<1> QED
    BY <1>1, <1>2, <1>3, <1>4, ClickKeeps

\* The user follows a guided question to a view.
LEMMA GuideToViewStep ==
    ASSUME IInv, NEW v \in Views, GuideToView(v)
    PROVE  IInv'
<1>1. faults \in Nat /\ Good(app, faults)
    BY DEF IInv
<1> DEFINE b == [app EXCEPT !.tab = "Analytics", !.view = v]
<1>2. Good(b, faults) /\ Carries(app, b)
    BY <1>1, ChoicesKeep
<1>3. Guide(b)
    BY DEF GuideToView
<1> HIDE DEF b
<1> QED
    BY <1>2, <1>3, GuideKeeps

\* The user follows a guided question to a pivot.
LEMMA GuideToPivotStep ==
    ASSUME IInv, NEW d \in Dims, GuideToPivot(d)
    PROVE  IInv'
<1>1. faults \in Nat /\ Good(app, faults)
    BY DEF IInv
<1> DEFINE b == [app EXCEPT !.tab = "Analytics", !.view = "Pivot", !.dims = d, !.pivot = None,
                            !.loaded = @ \ {"Pivot"}]
<1>2. Good(b, faults) /\ Carries(app, b)
    BY <1>1, GuidedPivotKeeps
<1>3. Guide(b)
    BY DEF GuideToPivot
<1> HIDE DEF b
<1> QED
    BY <1>2, <1>3, GuideKeeps

\* The user follows a guided question to the groups.
LEMMA GuideToGroupsStep ==
    ASSUME IInv, NEW k \in Kinds, GuideToGroups(k)
    PROVE  IInv'
<1>1. faults \in Nat /\ Good(app, faults) /\ ops \in Seq(Operations)
    BY DEF IInv
<1> DEFINE b == [app EXCEPT !.tab = "Analytics"]
           c == IF app.typed # app.active THEN StartSearch(b) ELSE b
<1>2. Good(b, faults) /\ Carries(app, b)
    BY <1>1, ChoicesKeep
<1>3. Click(OpenGroupExplorer(c, k)) /\ ops' = ops
    BY DEF GuideToGroups
<1>4. c = StartSearch(b) \/ c = b
    OBVIOUS
<1> HIDE DEF b, c
<1>5. Good(StartSearch(b), faults) /\ Carries(app, StartSearch(b))
    BY <1>1, <1>2, StartSearchKeeps, CarriesOn
<1>6. Good(c, faults) /\ Carries(app, c)
    BY <1>2, <1>4, <1>5
<1>7. Good(OpenGroupExplorer(c, k), faults) /\ Carries(app, OpenGroupExplorer(c, k))
    BY <1>1, <1>6, OpenGroupExplorerKeeps, CarriesOn
<1> QED
    BY <1>1, <1>3, <1>7, ClickKeeps

\* An operation is started in a thread of its own.
LEMMA StartStep ==
    ASSUME IInv, NEW kind \in OpKinds, Start(kind)
    PROVE  IInv'
<1>1. faults \in Nat /\ Good(app, faults) /\ ops \in Seq(Operations)
    BY DEF IInv
<1> DEFINE b == [app EXCEPT !.busy = TRUE]
<1>2. Good(b, faults) /\ Carries(app, b)
    BY <1>1, BusyKeeps
<1>3. Click(b) /\ ops' = Append(ops, Operation(kind))
    BY DEF Start
<1>4. ops' \in Seq(Operations)
    <2>1. Operation(kind) \in Operations
        BY DEF Operation, Operations
    <2>2. Append(ops, Operation(kind)) \in Seq(Operations)
        BY <1>1, <2>1, Channels
    <2> QED
        BY <1>3, <2>2
<1> HIDE DEF b
<1> QED
    BY <1>2, <1>3, <1>4, ClickKeeps

\* The user starts an import, an export, a clearing or a maintenance.
LEMMA StartsStep ==
    ASSUME IInv, StartImport \/ StartExport \/ StartClear \/ StartMaintenance
    PROVE  IInv'
<1>1. \E kind \in OpKinds : Start(kind)
    BY DEF StartImport, StartExport, StartClear, StartMaintenance, OpKinds
<1> QED
    BY <1>1, StartStep

\* Whatever the user does, the invariant holds.
LEMMA UserStep ==
    ASSUME IInv, User
    PROVE  IInv'
<1>1. CASE \E q \in Asked : Type(q) \/ \E tab \in {"Results", "Analytics"} : Find(q, tab)
    BY <1>1, TypeStep, FindStep
<1>2. CASE TurnPage \/ ShowMore
    BY <1>2, TurnPageStep, ShowMoreStep
<1>3. CASE \E tab \in {"Results", "Analytics"} : ShowTab(tab)
    BY <1>3, ShowTabStep
<1>4. CASE \E v \in Views : ChooseView(v) \/ GuideToView(v)
    BY <1>4, ChooseViewStep, GuideToViewStep
<1>5. CASE \E l \in Levels : ChooseLevel(l)
    BY <1>5, ChooseLevelStep
<1>6. CASE Compare \/ Scan \/ CloseExplorer \/ LeaveProfile
    BY <1>6, AskingStep
<1>7. CASE \E d \in Dims : Repivot(d) \/ GuideToPivot(d)
    BY <1>7, RepivotStep, GuideToPivotStep
<1>8. CASE \E k \in Kinds : Explore(k) \/ GuideToGroups(k)
    BY <1>8, ExploreStep, GuideToGroupsStep
<1>9. CASE \E c \in Companies : ShowProfile(c)
    BY <1>9, ShowProfileStep
<1>10. CASE StartImport \/ StartExport \/ StartClear \/ StartMaintenance
    BY <1>10, StartsStep
<1> QED
    BY <1>1, <1>2, <1>3, <1>4, <1>5, <1>6, <1>7, <1>8, <1>9, <1>10 DEF User
----------------------------------------------------------------------------
(* Steps of the threads.                                                   *)

\* The window paints a frame that finds nothing to show.
LEMMA RepaintStep ==
    ASSUME IInv, Repaint
    PROVE  IInv'
<1>1. /\ faults \in Nat /\ Good(app, faults) /\ ops \in Seq(Operations)
      /\ data \in [version : Versions, empty : BOOLEAN] /\ count \in CountStates(app)
    BY DEF IInv
<1>2. /\ Window(RequestAnalytics(app)) /\ messages' = messages /\ count' = count /\ ops' = ops
      /\ data' = data /\ faults' = faults
    BY DEF Repaint, workerVars
<1>3. Good(RequestAnalytics(app), faults) /\ Carries(app, RequestAnalytics(app))
    BY <1>1, RequestAnalyticsKeeps
<1>4. Good(app', faults) /\ Carries(app, app')
    BY <1>2, <1>3, WindowKeeps
<1>5. Good(app', faults') /\ faults' \in Nat /\ faults <= faults'
    BY <1>1, <1>2, <1>4
<1> QED
    BY <1>1, <1>2, <1>4, <1>5, StepKeeps

\* The window handles the next answer.
LEMMA DrainStep ==
    ASSUME IInv, Drain
    PROVE  IInv'
<1>1. /\ faults \in Nat /\ Good(app, faults) /\ ops \in Seq(Operations)
      /\ data \in [version : Versions, empty : BOOLEAN] /\ count \in CountStates(app)
      /\ messages \in Seq(Answers(app, faults))
    BY DEF IInv
<1>2. /\ messages # <<>> /\ messages' = Tail(messages) /\ Window(Handled(app, Head(messages)))
      /\ count' = count /\ data' = data /\ faults' = faults
    BY DEF Drain
<1>3. ops' = ops \/ ops' = Append(ops, Operation("Repair"))
    BY DEF Drain
<1>4. ops' \in Seq(Operations)
    <2>1. Operation("Repair") \in Operations
        BY DEF Operation, Operations, OpKinds
    <2>2. Append(ops, Operation("Repair")) \in Seq(Operations)
        BY <1>1, <2>1, Channels
    <2> QED
        BY <1>1, <1>3, <2>2
<1>5. Head(messages) \in Answers(app, faults)
    BY <1>1, <1>2, Channels
<1>6. /\ Good(Handled(app, Head(messages)), faults)
      /\ Carries(app, Handled(app, Head(messages)))
    BY <1>1, <1>5, HandledKeeps
<1>7. Good(app', faults) /\ Carries(app, app')
    BY <1>2, <1>6, WindowKeeps
<1>8. Good(app', faults') /\ faults' \in Nat /\ faults <= faults'
    BY <1>1, <1>2, <1>7
<1> QED
    BY <1>1, <1>2, <1>4, <1>7, <1>8, StepKeeps

----------------------------------------------------------------------------
(* Starting, and workers that cannot.                                      *)

\* A thread tells the window one thing.
LEMMA Told ==
    ASSUME messages \in Seq(Answers(app, faults)), NEW f \in Nat, NEW m \in Answers(app, f), Tell(m)
    PROVE  \E s \in Seq(Answers(app, f)) : messages' = messages \o s
<1>1. messages' = Append(messages, m)
    BY DEF Tell
<1>2. messages' = messages \o <<m>> /\ <<m>> \in Seq(Answers(app, f))
    BY <1>1
<1> QED
    BY <1>2

\* The notices that tell of no request.
LEMMA NoticesToldOf ==
    ASSUME NEW a, NEW f \in Nat
    PROVE  /\ \A k \in {"DbCleared", "ExportDone", "MaintenanceDone", "Fatal"} :
                 [kind |-> k] \in Answers(a, f)
           /\ \A k \in {"Stats", "ImportDone"}, v \in Versions :
                 [kind |-> k, at |-> v] \in Answers(a, f)
           /\ \A k \in {"SearchError", "CompareError"}, g \in Nat :
                 f > 0 => [kind |-> k, gen |-> g] \in Answers(a, f)
           /\ \A v \in Versions, e \in BOOLEAN, u \in BOOLEAN :
                 /\ [kind |-> "StartupDone", at |-> v, empty |-> e, unindexed |-> u] \in Answers(a, f)
                 /\ f > 0 => [kind |-> "StartupFailed", at |-> v, empty |-> e, unindexed |-> u]
                                \in Answers(a, f)
<1>1. \A k \in {"DbCleared", "ExportDone", "MaintenanceDone", "Fatal"} : [kind |-> k] \in Ends
    BY DEF Ends
<1>2. \A k \in {"Stats", "ImportDone"}, v \in Versions : [kind |-> k, at |-> v] \in News
    BY DEF News
<1>3. \A k \in {"SearchError", "CompareError"}, g \in Nat :
         f > 0 => [kind |-> k, gen |-> g] \in Errors(f)
    BY DEF Errors
<1>4. \A v \in Versions, e \in BOOLEAN, u \in BOOLEAN :
         /\ [kind |-> "StartupDone", at |-> v, empty |-> e, unindexed |-> u] \in Starts
         /\ f > 0 => [kind |-> "StartupFailed", at |-> v, empty |-> e, unindexed |-> u]
                        \in FailedStarts(f)
    BY DEF Starts, FailedStarts
<1>5. Ends \subseteq Answers(a, f) /\ News \subseteq Answers(a, f) /\ Errors(f) \subseteq Answers(a, f)
      /\ Starts \subseteq Answers(a, f) /\ FailedStarts(f) \subseteq Answers(a, f)
    BY DEF Answers, Notices
<1> HIDE DEF Ends, News, Errors, Starts, FailedStarts
<1> QED
    BY <1>1, <1>2, <1>3, <1>4, <1>5

\* A failure is counted, and what is good stays good.
LEMMA FailsKeeps ==
    ASSUME IInv, Fails
    PROVE  /\ faults' = faults + 1 /\ faults' \in Nat /\ faults <= faults' /\ faults' > 0
           /\ Good(app, faults')
<1>1. faults' = faults + 1 /\ faults \in Nat /\ Good(app, faults)
    BY DEF IInv, Fails
<1> QED
    BY <1>1, FailureKeeps

\* A step of a thread that leaves the window alone.
LEMMA ThreadKeeps ==
    ASSUME IInv, app' = app, NEW m \in Answers(app, faults'), Tell(m),
           faults' = faults \/ Fails,
           data' = data, ops' \in Seq(Operations), count' \in CountStates(app)
    PROVE  IInv'
<1>1. /\ faults \in Nat /\ Good(app, faults) /\ data \in [version : Versions, empty : BOOLEAN]
      /\ messages \in Seq(Answers(app, faults))
    BY DEF IInv
<1>2. faults' \in Nat /\ faults <= faults' /\ Good(app, faults')
    BY <1>1, FailsKeeps
<1>3. Good(app', faults') /\ Carries(app, app')
    BY <1>2 DEF Carries
<1>4. \E s \in Seq(Answers(app, faults')) : messages' = messages \o s
    BY <1>1, <1>2, Told
<1> QED
    BY <1>1, <1>2, <1>3, <1>4, StepKeeps

\* The database has been opened for the window, or could not be.
LEMMA StartupStep ==
    ASSUME IInv, Startup
    PROVE  IInv'
<1>1. /\ faults \in Nat /\ ops \in Seq(Operations) /\ count \in CountStates(app)
      /\ data.version \in Versions /\ data.empty \in BOOLEAN
    BY DEF IInv
<1>2. app' = app /\ data' = data /\ ops' = ops /\ count' = count
    BY DEF Startup
<1>3. ASSUME NEW u \in BOOLEAN, faults' = faults,
             Tell([kind |-> "StartupDone", at |-> data.version, empty |-> data.empty, unindexed |-> u])
      PROVE  IInv'
    <2>1. [kind |-> "StartupDone", at |-> data.version, empty |-> data.empty, unindexed |-> u]
             \in Answers(app, faults')
        BY <1>1, <1>3, NoticesToldOf
    <2> QED
        BY <1>1, <1>2, <1>3, <2>1, ThreadKeeps
<1>4. ASSUME Fails,
             Tell([kind |-> "StartupFailed", at |-> data.version, empty |-> data.empty,
                   unindexed |-> FALSE])
      PROVE  IInv'
    <2>1. faults' \in Nat /\ faults' > 0
        BY <1>4, FailsKeeps
    <2>2. [kind |-> "StartupFailed", at |-> data.version, empty |-> data.empty, unindexed |-> FALSE]
             \in Answers(app, faults')
        BY <1>1, <2>1, NoticesToldOf
    <2> QED
        BY <1>1, <1>2, <1>4, <2>2, ThreadKeeps
<1>5. \/ \E u \in BOOLEAN :
            /\ faults' = faults
            /\ Tell([kind |-> "StartupDone", at |-> data.version, empty |-> data.empty, unindexed |-> u])
      \/ /\ Fails
         /\ Tell([kind |-> "StartupFailed", at |-> data.version, empty |-> data.empty,
                  unindexed |-> FALSE])
    BY DEF Startup
<1> QED
    BY <1>3, <1>4, <1>5

\* A worker that cannot open the database drops what it was sent.
LEMMA WorkerDiesStep ==
    ASSUME IInv, SearchDies \/ AnalystDies
    PROVE  IInv'
<1>1. /\ faults \in Nat /\ ops \in Seq(Operations) /\ count \in CountStates(app)
      /\ data \in [version : Versions, empty : BOOLEAN] /\ messages \in Seq(Answers(app, faults))
    BY DEF IInv
<1>2. Fails /\ Tell([kind |-> "Fatal"]) /\ data' = data /\ ops' = ops /\ count' = count
    BY DEF SearchDies, AnalystDies
<1>3. app' = [app EXCEPT !.searchTx = <<>>] \/ app' = [app EXCEPT !.analyticsTx = <<>>]
    BY DEF SearchDies, AnalystDies
<1>4. faults' \in Nat /\ faults <= faults' /\ Good(app, faults')
    BY <1>2, FailsKeeps
<1>5. Good(app', faults') /\ Carries(app, app')
    <2>1. <<>> \in Seq(Searches(app)) /\ <<>> \in Seq(Analyses(app))
        OBVIOUS
    <2>2. CASE app' = [app EXCEPT !.searchTx = <<>>]
        BY <1>4, <2>1, <2>2, SearchTaken
    <2>3. CASE app' = [app EXCEPT !.analyticsTx = <<>>]
        BY <1>4, <2>1, <2>3, AnalysisTaken
    <2> QED
        BY <1>3, <2>2, <2>3
<1>6. [kind |-> "Fatal"] \in Answers(app, faults')
    BY <1>4, NoticesToldOf
<1>7. \E s \in Seq(Answers(app, faults')) : messages' = messages \o s
    BY <1>1, <1>2, <1>4, <1>6, Told
<1> QED
    BY <1>1, <1>2, <1>4, <1>5, <1>7, StepKeeps

\* The count worker's state, field by field.
LEMMA CountStateOf ==
    ASSUME NEW a, NEW c \in CountStates(a)
    PROVE  /\ c.rx \in Seq(Counts(a)) /\ c.at \in {None} \cup CountsAsked(a)
           /\ c.worker \in {"none", "new", "open", "dead"}
           /\ c.cache \in {None} \cup [query : Asked, at : Versions, pages : Nat]
           /\ c = [worker |-> c.worker, rx |-> c.rx, cache |-> c.cache, at |-> c.at]
BY DEF CountStates

\* A count worker after one of its own steps or a message to it.
LEMMA CountStateKept ==
    ASSUME NEW a, NEW c \in CountStates(a), NEW w \in {"none", "new", "open", "dead"},
           NEW q \in Seq(Counts(a)), NEW t \in {None} \cup [query : Asked, at : Versions, pages : Nat],
           NEW r \in {None} \cup CountsAsked(a)
    PROVE  [c EXCEPT !.worker = w, !.rx = q, !.cache = t, !.at = r] \in CountStates(a)
<1> DEFINE S == Seq(Counts(a))
           T == {None} \cup [query : Asked, at : Versions, pages : Nat]
           R == {None} \cup CountsAsked(a)
<1>1. CountStates(a) = [worker : {"none", "new", "open", "dead"}, rx : S, cache : T, at : R]
    BY DEF CountStates
<1>2. q \in S /\ t \in T /\ r \in R
    OBVIOUS
<1> HIDE DEF S, T, R
<1> DEFINE b == [c EXCEPT !.worker = w, !.rx = q, !.cache = t, !.at = r]
<1>3. c = [x \in {"worker", "rx", "cache", "at"} |-> c[x]]
    BY <1>1
<1>4. b = [x \in {"worker", "rx", "cache", "at"} |-> b[x]]
    BY <1>3
<1>5. b.worker = w /\ b.rx = q /\ b.cache = t /\ b.at = r
    BY <1>3
<1> HIDE DEF b
<1>6. b = [worker |-> w, rx |-> q, cache |-> t, at |-> r]
    BY <1>4, <1>5
<1>7. b \in CountStates(a)
    BY <1>1, <1>2, <1>6
<1> QED
    BY <1>7 DEF b

\* The count worker cannot open the database and drops what it was sent.
LEMMA CountDiesStep ==
    ASSUME IInv, CountDies
    PROVE  IInv'
<1>1. ops \in Seq(Operations) /\ count \in CountStates(app)
    BY DEF IInv
<1>2. /\ Fails /\ Tell([kind |-> "Fatal"]) /\ app' = app /\ data' = data /\ ops' = ops
      /\ count' = [count EXCEPT !.worker = "dead", !.rx = <<>>]
    BY DEF CountDies
<1>3. count' \in CountStates(app)
    <2>1. <<>> \in Seq(Counts(app))
        OBVIOUS
    <2>2. count' = [count EXCEPT !.worker = "dead", !.rx = <<>>, !.cache = count.cache, !.at = count.at]
        BY <1>1, <1>2, CountStateOf
    <2> QED
        BY <1>1, <2>1, <2>2, CountStateOf, CountStateKept
<1>4. [kind |-> "Fatal"] \in Answers(app, faults')
    BY <1>2, FailsKeeps, NoticesToldOf
<1> QED
    BY <1>1, <1>2, <1>3, <1>4, ThreadKeeps

----------------------------------------------------------------------------
(* The search worker.                                                      *)

\* A query matches a number of pages.
LEMMA PagesAreCounted ==
    ASSUME IInv, NEW q \in Asked
    PROVE  PagesOf(q) \in Nat
BY NumbersAssumption DEF PagesOf

\* What the search worker asks the count worker is asked of the window's search.
LEMMA AskCountKeeps ==
    ASSUME IInv, NEW req \in Counts(app), AskCount(req)
    PROVE  count' \in CountStates(app)
<1> DEFINE w == IF count.worker = "none" THEN "new" ELSE count.worker
           q == IF count.worker = "dead" THEN <<>> ELSE Append(count.rx, req)
<1>1. count \in CountStates(app)
    BY DEF IInv
<1>2. /\ count.rx \in Seq(Counts(app)) /\ count.at \in {None} \cup CountsAsked(app)
      /\ count.worker \in {"none", "new", "open", "dead"}
      /\ count.cache \in {None} \cup [query : Asked, at : Versions, pages : Nat]
    BY <1>1, CountStateOf
<1>3. w \in {"none", "new", "open", "dead"}
    BY <1>2
<1>4. q \in Seq(Counts(app))
    BY <1>2, Channels
<1>5. count' = [count EXCEPT !.worker = w, !.rx = q]
    BY DEF AskCount
<1> HIDE DEF w, q
<1>6. count' = [count EXCEPT !.worker = w, !.rx = q, !.cache = count.cache, !.at = count.at]
    <2>1. count = [x \in {"worker", "rx", "cache", "at"} |-> count[x]]
        BY <1>1 DEF CountStates
    <2> QED
        BY <1>5, <2>1
<1> QED
    BY <1>1, <1>2, <1>3, <1>4, <1>6, CountStateKept

\* The count worker is made with the first request of the search worker, count or not.
LEMMA NoCountKeeps ==
    ASSUME IInv, NoCount
    PROVE  count' \in CountStates(app)
<1> DEFINE w == IF count.worker = "none" THEN "new" ELSE count.worker
<1>1. count \in CountStates(app)
    BY DEF IInv
<1>2. /\ count.rx \in Seq(Counts(app)) /\ count.at \in {None} \cup CountsAsked(app)
      /\ count.worker \in {"none", "new", "open", "dead"}
      /\ count.cache \in {None} \cup [query : Asked, at : Versions, pages : Nat]
    BY <1>1, CountStateOf
<1>3. w \in {"none", "new", "open", "dead"}
    BY <1>2
<1>4. count' = [count EXCEPT !.worker = w]
    BY DEF NoCount
<1> HIDE DEF w
<1>5. count' = [count EXCEPT !.worker = w, !.rx = count.rx, !.cache = count.cache, !.at = count.at]
    <2>1. count = [x \in {"worker", "rx", "cache", "at"} |-> count[x]]
        BY <1>1 DEF CountStates
    <2> QED
        BY <1>4, <2>1
<1> QED
    BY <1>1, <1>2, <1>3, <1>5, CountStateKept

\* An answer to a search belongs to the window that asked.
LEMMA PageIsFound ==
    ASSUME IInv, NEW req \in Searches(app), req.kind = "Search"
    PROVE  /\ req.query \in Asked /\ req.gen \in Nat
           /\ PageOf(req) \in PagesFound(app)
           /\ [kind |-> "Count", query |-> req.query, gen |-> req.gen] \in CountsAsked(app)
           /\ \A v \in Versions, n \in Nat : CountOf(req, v, n) \in CountsFound(app)
<1>1. /\ req \in [kind : {"Search"}, query : Asked, page : Nat, gen : Nat]
      /\ OfPage(app, req)
    BY DEF Searches
<1>2. req.query \in Asked /\ req.page \in Nat /\ req.gen \in Nat /\ data.version \in Versions
    BY <1>1 DEF IInv
<1>3. PageOf(req) \in PagesFound(app)
    <2> DEFINE m == PageOf(req)
    <2>1. m \in [kind : {"SearchPage"}, gen : Nat, query : Asked, page : Nat, at : Versions,
                 none : BOOLEAN, more : BOOLEAN]
        BY <1>2 DEF PageOf
    <2>2. m.gen = req.gen /\ m.query = req.query /\ m.page = req.page
        BY DEF PageOf
    <2> HIDE DEF m
    <2>3. OfPage(app, m)
        BY <1>1, <2>2 DEF OfPage, Current
    <2>4. m \in PagesFound(app)
        BY <2>1, <2>3 DEF PagesFound
    <2> QED
        BY <2>4 DEF m
<1>4. Current(app, req)
    BY <1>1 DEF OfPage
<1>5. [kind |-> "Count", query |-> req.query, gen |-> req.gen] \in CountsAsked(app)
    BY <1>2, <1>4 DEF CountsAsked, Current
<1>6. ASSUME NEW v \in Versions, NEW n \in Nat
      PROVE  CountOf(req, v, n) \in CountsFound(app)
    BY <1>2, <1>4, <1>6 DEF CountOf, CountsFound, Current
<1> QED
    BY <1>2, <1>3, <1>5, <1>6

\* A request the search worker has served is gone from its channel, and its answers are under
\* way.
LEMMA SearchServed ==
    ASSUME IInv, app' = [app EXCEPT !.searchTx = Tail(@)], app.searchTx # <<>>,
           faults' = faults \/ Fails, data' = data, ops' = ops, count' \in CountStates(app),
           \E s \in Seq(Answers(app, faults')) : messages' = messages \o s
    PROVE  IInv'
<1>1. /\ faults \in Nat /\ Good(app, faults) /\ data \in [version : Versions, empty : BOOLEAN]
      /\ ops \in Seq(Operations)
    BY DEF IInv
<1>2. faults' \in Nat /\ faults <= faults' /\ Good(app, faults')
    BY <1>1, FailsKeeps
<1>3. Tail(app.searchTx) \in Seq(Searches(app))
    <2>1. app.searchTx \in Seq(Searches(app))
        BY <1>1 DEF Good, Sent
    <2> QED
        BY <2>1, Channels
<1>4. Good(app', faults') /\ Carries(app, app')
    BY <1>2, <1>3, SearchTaken
<1> QED
    BY <1>1, <1>2, <1>4, StepKeeps

\* The search worker serves its next request.
LEMMA ServeSearchStep ==
    ASSUME IInv, ServeSearch
    PROVE  IInv'
<1> DEFINE req == Head(app.searchTx)
           page == PageOf(req)
           total == CountOf(req, data.version, 0)
           asked == [kind |-> "Count", query |-> req.query, gen |-> req.gen]
<1>1. /\ faults \in Nat /\ Good(app, faults) /\ data.version \in Versions
      /\ messages \in Seq(Answers(app, faults))
    BY DEF IInv
<1>2. /\ app.searchTx # <<>> /\ app' = [app EXCEPT !.searchTx = Tail(@)] /\ data' = data /\ ops' = ops
    BY DEF ServeSearch
<1>3. req \in Searches(app)
    <2>1. app.searchTx \in Seq(Searches(app))
        BY <1>1 DEF Good, Sent
    <2> QED
        BY <1>2, <2>1, Channels
<1>4. ASSUME req.kind = "Search"
      PROVE  /\ page \in Answers(app, faults) /\ total \in Answers(app, faults)
             /\ asked \in Counts(app) /\ req.gen \in Nat
    <2>1. page \in PagesFound(app) /\ total \in CountsFound(app) /\ asked \in CountsAsked(app)
          /\ req.gen \in Nat
        BY <1>1, <1>3, <1>4, PageIsFound
    <2> HIDE DEF page, total, asked, req
    <2> QED
        BY <2>1 DEF Answers, Found, Counts
<1>5. \/ /\ req.kind = "Search" /\ messages' = messages \o <<page, total>> /\ NoCount /\ faults' = faults
      \/ req.kind = "Search" /\ Tell(page) /\ AskCount(asked) /\ faults' = faults
      \/ /\ req.kind = "Search" /\ Fails /\ Tell([kind |-> "SearchError", gen |-> req.gen]) /\ NoCount
      \/ /\ AskCount([kind |-> "ClearCache"]) /\ Tell([kind |-> "Stats", at |-> data.version])
         /\ faults' = faults
    BY DEF ServeSearch
<1> HIDE DEF req, page, total, asked
<1>6. CASE /\ req.kind = "Search" /\ messages' = messages \o <<page, total>> /\ NoCount
           /\ faults' = faults
    <2>1. <<page, total>> \in Seq(Answers(app, faults'))
        BY <1>4, <1>6
    <2>2. \E s \in Seq(Answers(app, faults')) : messages' = messages \o s
        BY <1>6, <2>1
    <2> QED
        BY <1>2, <1>6, <2>2, NoCountKeeps, SearchServed
<1>7. CASE req.kind = "Search" /\ Tell(page) /\ AskCount(asked) /\ faults' = faults
    <2>1. page \in Answers(app, faults')
        BY <1>4, <1>7
    <2>2. \E s \in Seq(Answers(app, faults')) : messages' = messages \o s
        BY <1>1, <1>7, <2>1, Told
    <2> QED
        BY <1>2, <1>4, <1>7, <2>2, AskCountKeeps, SearchServed
<1>8. CASE req.kind = "Search" /\ Fails /\ Tell([kind |-> "SearchError", gen |-> req.gen]) /\ NoCount
    <2>1. faults' \in Nat /\ faults' > 0
        BY <1>8, FailsKeeps
    <2>2. [kind |-> "SearchError", gen |-> req.gen] \in Answers(app, faults')
        BY <1>4, <1>8, <2>1, NoticesToldOf
    <2>3. \E s \in Seq(Answers(app, faults')) : messages' = messages \o s
        BY <1>1, <1>8, <2>1, <2>2, Told
    <2> QED
        BY <1>2, <1>8, <2>3, NoCountKeeps, SearchServed
<1>9. CASE /\ AskCount([kind |-> "ClearCache"]) /\ Tell([kind |-> "Stats", at |-> data.version])
           /\ faults' = faults
    <2>1. [kind |-> "Stats", at |-> data.version] \in Answers(app, faults')
        BY <1>1, <1>9, NoticesToldOf
    <2>2. \E s \in Seq(Answers(app, faults')) : messages' = messages \o s
        BY <1>1, <1>9, <2>1, Told
    <2>3. [kind |-> "ClearCache"] \in Counts(app)
        BY DEF Counts
    <2> QED
        BY <1>2, <1>9, <2>2, <2>3, AskCountKeeps, SearchServed
<1> QED
    BY <1>5, <1>6, <1>7, <1>8, <1>9

----------------------------------------------------------------------------
(* The count worker.                                                       *)

\* The count worker takes all there is, and serves the last.
LEMMA DrainCountsStep ==
    ASSUME IInv, DrainCounts
    PROVE  IInv'
<1> DEFINE last == count.rx[Len(count.rx)]
           r == IF last.kind = "Count" THEN last ELSE None
           t == IF \E i \in DOMAIN count.rx : count.rx[i].kind = "ClearCache" THEN None ELSE count.cache
<1>1. /\ faults \in Nat /\ Good(app, faults) /\ data \in [version : Versions, empty : BOOLEAN]
      /\ ops \in Seq(Operations) /\ count \in CountStates(app)
    BY DEF IInv
<1>2. /\ app' = app /\ messages' = messages /\ data' = data /\ ops' = ops /\ faults' = faults
      /\ count.rx # <<>>
      /\ count' = [count EXCEPT !.worker = "open", !.rx = <<>>, !.at = r, !.cache = t]
    BY DEF DrainCounts
<1>3. /\ count.rx \in Seq(Counts(app))
      /\ count.cache \in {None} \cup [query : Asked, at : Versions, pages : Nat]
    BY <1>1, CountStateOf
<1>4. last \in Counts(app)
    BY <1>2, <1>3
<1>5. r \in {None} \cup CountsAsked(app)
    BY <1>4 DEF Counts
<1>6. t \in {None} \cup [query : Asked, at : Versions, pages : Nat] /\ <<>> \in Seq(Counts(app))
    BY <1>3
<1> HIDE DEF last, r, t
<1>7. count' = [count EXCEPT !.worker = "open", !.rx = <<>>, !.cache = t, !.at = r]
    <2>1. count = [x \in {"worker", "rx", "cache", "at"} |-> count[x]]
        BY <1>1 DEF CountStates
    <2> QED
        BY <1>2, <2>1
<1>8. count' \in CountStates(app)
    BY <1>1, <1>5, <1>6, <1>7, CountStateKept
<1>9. Good(app', faults') /\ Carries(app, app') /\ faults' \in Nat /\ faults <= faults'
    BY <1>1, <1>2 DEF Carries
<1> QED
    BY <1>1, <1>2, <1>8, <1>9, StepKeeps

\* A count is of the request, from the cache or from the data.
LEMMA CountStep ==
    ASSUME IInv, Count
    PROVE  IInv'
<1> DEFINE req == count.at
           Totals == [query : Asked, at : Versions, pages : Nat]
           hit == count.cache # None /\ count.cache.query = req.query
           fresh == [query |-> req.query, at |-> data.version, pages |-> PagesOf(req.query)]
           total == IF hit THEN count.cache ELSE fresh
<1>1. /\ faults \in Nat /\ Good(app, faults) /\ data.version \in Versions
      /\ ops \in Seq(Operations) /\ count \in CountStates(app)
    BY DEF IInv
<1>2. app' = app /\ data' = data /\ ops' = ops /\ req # None
    BY DEF Count
<1>3. /\ count.rx \in Seq(Counts(app)) /\ req \in CountsAsked(app)
      /\ count.worker \in {"none", "new", "open", "dead"} /\ count.cache \in {None} \cup Totals
    BY <1>1, <1>2, CountStateOf
<1>4. req.query \in Asked /\ req.gen \in Nat /\ Current(app, req)
    BY <1>3 DEF CountsAsked
<1>5. fresh \in Totals
    BY <1>1, <1>4, PagesAreCounted
<1>6. total \in Totals
    BY <1>3, <1>5
<1>7. CountOf(req, total.at, total.pages) \in Answers(app, faults)
    <2>1. total.at \in Versions /\ total.pages \in Nat
        BY <1>6
    <2> HIDE DEF total, req
    <2>2. CountOf(req, total.at, total.pages) \in CountsFound(app)
        BY <1>4, <2>1 DEF CountOf, CountsFound, Current
    <2> QED
        BY <2>2 DEF Answers, Found
<1>8. \/ /\ Tell(CountOf(req, total.at, total.pages)) /\ faults' = faults
         /\ count' = [count EXCEPT !.at = None, !.cache = total]
      \/ /\ Fails /\ Tell([kind |-> "SearchError", gen |-> req.gen])
         /\ count' = [count EXCEPT !.at = None]
    BY DEF Count
<1> HIDE DEF req, hit, fresh, total
<1>9. count = [x \in {"worker", "rx", "cache", "at"} |-> count[x]]
    BY <1>1 DEF CountStates
<1>10. CASE /\ Tell(CountOf(req, total.at, total.pages)) /\ faults' = faults
            /\ count' = [count EXCEPT !.at = None, !.cache = total]
    <2>1. count' = [count EXCEPT !.worker = count.worker, !.rx = count.rx, !.cache = total, !.at = None]
        BY <1>9, <1>10
    <2>2. count' \in CountStates(app)
        BY <1>1, <1>3, <1>6, <2>1, CountStateKept
    <2>3. CountOf(req, total.at, total.pages) \in Answers(app, faults')
        BY <1>7, <1>10
    <2> QED
        BY <1>1, <1>2, <1>10, <2>2, <2>3, ThreadKeeps
<1>11. CASE /\ Fails /\ Tell([kind |-> "SearchError", gen |-> req.gen])
            /\ count' = [count EXCEPT !.at = None]
    <2>1. count' = [count EXCEPT !.worker = count.worker, !.rx = count.rx, !.cache = count.cache,
                                 !.at = None]
        BY <1>9, <1>11
    <2>2. count' \in CountStates(app)
        BY <1>1, <1>3, <2>1, CountStateKept
    <2>3. faults' \in Nat /\ faults' > 0
        BY <1>11, FailsKeeps
    <2>4. [kind |-> "SearchError", gen |-> req.gen] \in Answers(app, faults')
        BY <1>4, <2>3, NoticesToldOf
    <2> QED
        BY <1>1, <1>2, <1>11, <2>2, <2>4, ThreadKeeps
<1> QED
    BY <1>8, <1>10, <1>11
----------------------------------------------------------------------------
(* The analytics worker.                                                   *)

\* An answer of the analytics worker is of what was asked.
LEMMA AnswerIsFound ==
    ASSUME IInv, NEW req \in Analyses(app)
    PROVE  Answer(req) \in Answers(app, faults) /\ req.gen \in Nat
<1>1. data.version \in Versions
    BY DEF IInv
<1> DEFINE m == Answer(req)
<1>2. CASE req \in ScopesAsked(app)
    <2>1. /\ m = [kind |-> "AnalyticsDone", gen |-> req.gen, query |-> req.query, at |-> data.version,
                  scope |-> req.scope, limit |-> req.limit, level |-> req.level]
          /\ req.gen \in Nat
        BY <1>2 DEF ScopesAsked, Answer
    <2>2. m \in ScopesFound(app)
        BY <1>1, <1>2, <2>1 DEF ScopesAsked, ScopesFound, Current
    <2> HIDE DEF m
    <2> QED
        BY <2>1, <2>2 DEF Answers, Found, m
<1>3. CASE req \in GroupsAsked(app)
    <2>1. /\ m = [kind |-> "SectionDone", gen |-> req.gen, query |-> req.query, at |-> data.version,
                  section |-> req.section]
          /\ req.gen \in Nat
        BY <1>3 DEF GroupsAsked, Answer
    <2>2. m \in GroupsFound(app)
        BY <1>1, <1>3, <2>1 DEF GroupsAsked, GroupsFound, OfGroups, Current
    <2> HIDE DEF m
    <2> QED
        BY <2>1, <2>2 DEF Answers, Found, m
<1>4. CASE req \in PivotsAsked(app)
    <2>1. /\ m = [kind |-> "PivotDone", gen |-> req.gen, query |-> req.query, at |-> data.version,
                  dims |-> req.dims]
          /\ req.gen \in Nat
        BY <1>4 DEF PivotsAsked, Answer
    <2>2. m \in PivotsFound(app)
        BY <1>1, <1>4, <2>1 DEF PivotsAsked, PivotsFound, Current
    <2> HIDE DEF m
    <2> QED
        BY <2>1, <2>2 DEF Answers, Found, m
<1>5. CASE req \in ScansAsked(app)
    <2>1. /\ m = [kind |-> "UnderpricingDone", gen |-> req.gen, query |-> req.query,
                  at |-> data.version]
          /\ req.gen \in Nat
        BY <1>5 DEF ScansAsked, Answer
    <2>2. m \in ScansFound(app)
        BY <1>1, <1>5, <2>1 DEF ScansAsked, ScansFound, OfScan
    <2> HIDE DEF m
    <2> QED
        BY <2>1, <2>2 DEF Answers, Found, m
<1>6. CASE req \in DossiersAsked(app)
    <2>1. /\ m = [kind |-> "ProfileDone", gen |-> req.gen, query |-> req.query, at |-> data.version]
          /\ req.gen \in Nat
        BY <1>6 DEF DossiersAsked, Answer
    <2>2. m \in DossiersFound(app)
        BY <1>1, <1>6, <2>1 DEF DossiersAsked, DossiersFound, OfDossier
    <2> HIDE DEF m
    <2> QED
        BY <2>1, <2>2 DEF Answers, Found, m
<1>7. CASE req \in Comparisons
    <2>1. /\ m = [kind |-> "CompareDone", gen |-> req.gen, query |-> req.query, at |-> data.version]
          /\ req.gen \in Nat
        BY <1>7 DEF Comparisons, Answer
    <2>2. m \in ComparisonsFound
        BY <1>1, <1>7, <2>1 DEF Comparisons, ComparisonsFound
    <2> HIDE DEF m
    <2> QED
        BY <2>1, <2>2 DEF Answers, Found, m
<1> QED
    BY <1>2, <1>3, <1>4, <1>5, <1>6, <1>7 DEF Analyses

\* The analytics worker serves its next request.
LEMMA ServeAnalyticsStep ==
    ASSUME IInv, ServeAnalytics
    PROVE  IInv'
<1> DEFINE req == Head(app.analyticsTx)
           error == IF req.kind = "Compare" THEN "CompareError" ELSE "SearchError"
<1>1. /\ faults \in Nat /\ Good(app, faults) /\ data \in [version : Versions, empty : BOOLEAN]
      /\ messages \in Seq(Answers(app, faults)) /\ ops \in Seq(Operations) /\ count \in CountStates(app)
    BY DEF IInv
<1>2. /\ app.analyticsTx # <<>> /\ app' = [app EXCEPT !.analyticsTx = Tail(@)]
      /\ data' = data /\ ops' = ops /\ count' = count
    BY DEF ServeAnalytics
<1>3. req \in Analyses(app) /\ Tail(app.analyticsTx) \in Seq(Analyses(app))
    <2>1. app.analyticsTx \in Seq(Analyses(app))
        BY <1>1 DEF Good, Sent
    <2> QED
        BY <1>2, <2>1, Channels
<1>4. \/ Tell(Answer(req)) /\ faults' = faults
      \/ Fails /\ Tell([kind |-> error, gen |-> req.gen])
    BY DEF ServeAnalytics
<1>5. error \in {"SearchError", "CompareError"}
    OBVIOUS
<1> HIDE DEF req, error
<1>6. Answer(req) \in Answers(app, faults) /\ req.gen \in Nat
    BY <1>3, AnswerIsFound
<1>7. faults' \in Nat /\ faults <= faults' /\ Good(app, faults')
    <2>1. faults' = faults \/ Fails
        BY <1>4
    <2> QED
        BY <1>1, <2>1, FailsKeeps
<1>8. \E s \in Seq(Answers(app, faults')) : messages' = messages \o s
    <2>1. CASE Tell(Answer(req)) /\ faults' = faults
        <3>1. Answer(req) \in Answers(app, faults')
            BY <1>6, <2>1
        <3> QED
            BY <1>1, <1>7, <2>1, <3>1, Told
    <2>2. CASE Fails /\ Tell([kind |-> error, gen |-> req.gen])
        <3>1. [kind |-> error, gen |-> req.gen] \in Answers(app, faults')
            BY <1>5, <1>6, <1>7, <2>2, FailsKeeps, NoticesToldOf
        <3> QED
            BY <1>1, <1>7, <2>2, <3>1, Told
    <2> QED
        BY <1>4, <2>1, <2>2
<1>9. Good(app', faults') /\ Carries(app, app')
    BY <1>2, <1>3, <1>7, AnalysisTaken
<1> QED
    BY <1>1, <1>2, <1>7, <1>8, <1>9, StepKeeps

----------------------------------------------------------------------------
(* Operations.                                                             *)

\* An operation changes the data, or is done with it, and stays an operation.
LEMMA OperationKept ==
    ASSUME ops \in Seq(Operations), NEW i \in DOMAIN ops
    PROVE  /\ [ops EXCEPT ![i].at = "ended"] \in Seq(Operations)
           /\ [ops EXCEPT ![i].changed = TRUE] \in Seq(Operations)
           /\ ops[i].kind \in OpKinds
<1>1. ops[i] \in Operations
    OBVIOUS
<1>2. [ops[i] EXCEPT !.at = "ended"] \in Operations /\ [ops[i] EXCEPT !.changed = TRUE] \in Operations
      /\ ops[i].kind \in OpKinds
    BY <1>1 DEF Operations
<1> QED
    BY <1>2, ExceptSeq

\* An operation commits a change of the data.
LEMMA CommitStep ==
    ASSUME IInv, NEW i \in DOMAIN ops, Commit(i)
    PROVE  IInv'
<1>1. /\ faults \in Nat /\ Good(app, faults) /\ ops \in Seq(Operations) /\ count \in CountStates(app)
      /\ data \in [version : Versions, empty : BOOLEAN]
    BY DEF IInv
<1>2. /\ app' = app /\ messages' = messages /\ count' = count /\ faults' = faults
      /\ ops' = [ops EXCEPT ![i].changed = TRUE] /\ data.version < MaxCommits
    BY DEF Commit
<1>3. data.version + 1 \in Versions
    BY <1>1, <1>2, NumbersAssumption DEF Versions
<1>4. \/ data' = [version |-> data.version + 1, empty |-> FALSE]
      \/ data' = [version |-> data.version + 1, empty |-> TRUE]
      \/ data' = [data EXCEPT !.version = @ + 1]
    BY DEF Commit
<1>5. data' \in [version : Versions, empty : BOOLEAN]
    <2> DEFINE v == data.version + 1
    <2>1. v \in Versions
        BY <1>3
    <2>2. \/ \E e \in BOOLEAN : data' = [version |-> v, empty |-> e]
          \/ data' = [data EXCEPT !.version = v]
        BY <1>4
    <2> HIDE DEF v
    <2>3. CASE data' = [data EXCEPT !.version = v]
        <3>1. data' = [version |-> v, empty |-> data.empty] /\ data.empty \in BOOLEAN
            BY <1>1, <2>3
        <3> QED
            BY <2>1, <3>1
    <2>4. CASE \E e \in BOOLEAN : data' = [version |-> v, empty |-> e]
        BY <2>1, <2>4
    <2> QED
        BY <2>2, <2>3, <2>4
<1>6. ops' \in Seq(Operations)
    BY <1>1, <1>2, OperationKept
<1>7. Good(app', faults') /\ Carries(app, app') /\ faults' \in Nat /\ faults <= faults'
      /\ count' \in CountStates(app)
    BY <1>1, <1>2 DEF Carries
<1> QED
    BY <1>2, <1>5, <1>6, <1>7, StepKeeps

\* An operation ends, and the window is told.
LEMMA OperationEndsStep ==
    ASSUME IInv, NEW i \in DOMAIN ops, Finish(i) \/ CannotOpen(i)
    PROVE  IInv'
<1>1. /\ faults \in Nat /\ ops \in Seq(Operations) /\ count \in CountStates(app)
      /\ data.version \in Versions
    BY DEF IInv
<1>2. app' = app /\ data' = data /\ count' = count /\ ops' = [ops EXCEPT ![i].at = "ended"]
    BY DEF Finish, CannotOpen, Ended
<1>3. ops' \in Seq(Operations) /\ ops[i].kind \in OpKinds /\ count' \in CountStates(app)
    BY <1>1, <1>2, OperationKept
<1>4. CASE Finish(i)
    <2>1. \E k \in {"DbCleared", "ExportDone", "MaintenanceDone"} :
             \/ Tell([kind |-> k])
             \/ Tell([kind |-> "ImportDone", at |-> data.version])
        BY <1>3, <1>4 DEF Finish, OpKinds
    <2>2. faults' = faults
        BY <1>4 DEF Finish
    <2>3. [kind |-> "ImportDone", at |-> data.version] \in Answers(app, faults')
        BY <1>1, <2>2, NoticesToldOf
    <2>4. \A k \in {"DbCleared", "ExportDone", "MaintenanceDone"} :
             [kind |-> k] \in Answers(app, faults')
        BY <1>1, <2>2, NoticesToldOf
    <2> QED
        BY <1>2, <1>3, <2>1, <2>2, <2>3, <2>4, ThreadKeeps
<1>5. CASE CannotOpen(i)
    <2>1. Fails /\ Tell([kind |-> "Fatal"])
        BY <1>5 DEF CannotOpen
    <2>2. [kind |-> "Fatal"] \in Answers(app, faults')
        BY <2>1, FailsKeeps, NoticesToldOf
    <2> QED
        BY <1>2, <1>3, <2>1, <2>2, ThreadKeeps
<1> QED
    BY <1>4, <1>5

\* Whatever a thread does, the invariant holds.
LEMMA ThreadsStep ==
    ASSUME IInv, Threads
    PROVE  IInv'
<1>1. CASE Drain \/ Repaint
    BY <1>1, DrainStep, RepaintStep
<1>2. CASE Startup
    BY <1>2, StartupStep
<1>3. CASE SearchDies \/ AnalystDies
    BY <1>3, WorkerDiesStep
<1>4. CASE ServeSearch \/ ServeAnalytics
    BY <1>4, ServeSearchStep, ServeAnalyticsStep
<1>5. CASE CountDies \/ DrainCounts \/ Count
    BY <1>5, CountDiesStep, DrainCountsStep, CountStep
<1>6. CASE \E i \in DOMAIN ops : Commit(i) \/ Finish(i) \/ CannotOpen(i)
    BY <1>6, CommitStep, OperationEndsStep
<1> QED
    BY <1>1, <1>2, <1>3, <1>4, <1>5, <1>6 DEF Threads

\* Nothing happens.
LEMMA StillStep ==
    ASSUME IInv, UNCHANGED vars
    PROVE  IInv'
<1>1. /\ faults \in Nat /\ Good(app, faults) /\ ops \in Seq(Operations) /\ count \in CountStates(app)
      /\ data \in [version : Versions, empty : BOOLEAN]
    BY DEF IInv
<1>2. /\ app' = app /\ messages' = messages /\ count' = count /\ faults' = faults /\ ops' = ops
      /\ data' = data
    BY DEF vars, workerVars
<1>3. Good(app', faults') /\ Carries(app, app') /\ faults' \in Nat /\ faults <= faults'
      /\ count' \in CountStates(app)
    BY <1>1, <1>2 DEF Carries
<1> QED
    BY <1>1, <1>2, <1>3, StepKeeps
----------------------------------------------------------------------------
(* The theorems.                                                           *)

\* The window opens empty, with nothing asked.
LEMMA Opened ==
    ASSUME Init
    PROVE  Good(app, 0)
<1>1. IsWindow(app)
    BY DEF Init, IsWindow, Fields
<1>2. Settings(app)
    <2>1. /\ app.ready = FALSE /\ app.more = FALSE /\ app.counting = FALSE /\ app.loading = FALSE
          /\ app.busy = FALSE /\ app.turned = FALSE /\ app.overtaken = FALSE
        BY DEF Init
    <2>2. /\ app.typed = NoQuery /\ app.tab = "Results" /\ app.view = "Overview" /\ app.limit = 10
          /\ app.dbTotal = None
        BY DEF Init
    <2>3. app.level = (CHOOSE l \in Levels : TRUE) /\ app.dims = (CHOOSE d \in Dims : TRUE)
        BY DEF Init
    <2>4. app.level \in Levels /\ app.dims \in Dims
        BY <2>3, NamesAssumption
    <2> QED
        BY <2>1, <2>2, <2>4 DEF Settings, Asked, Views, Limits
<1>3. /\ app.page = 0 /\ app.gen = 0 /\ app.analyticsGen = 0 /\ app.active = NoQuery
      /\ app.searching = FALSE /\ app.loaded = {} /\ app.rows = None /\ app.total = None
    BY DEF Init
<1>4. /\ app.explorer = None /\ app.profile = NoPanel /\ app.compare = NoPanel
      /\ app.underpricing = NoPanel
    BY DEF Init
<1>5. app.analytics = None /\ app.pivot = None /\ app.searchTx = <<>> /\ app.analyticsTx = <<>>
    BY DEF Init
<1>6. NoPanel \in Panel(Asked) /\ NoPanel \in Panel(Companies) /\ NoPanel.shown = None
    BY DEF NoPanel, Panel
<1>7. Results(app)
    <2>1. app.analyticsGen \in 0..app.gen /\ app.page \in Nat /\ app.gen \in Nat
        BY <1>3
    <2> QED
        BY <1>3, <1>4, <1>6, <2>1 DEF Results, Asked
<1>8. Shown(app, 0)
    BY <1>3, <1>4, <1>5, <1>6 DEF Shown, PageShown, SectionsShown
<1>9. Sent(app)
    BY <1>5 DEF Sent
<1> QED
    BY <1>1, <1>2, <1>7, <1>8, <1>9 DEF Good

\* The application starts with nothing asked and nothing under way.
LEMMA InitHolds ==
    ASSUME Init
    PROVE  IInv
<1>1. faults = 0 /\ ops = <<>> /\ messages = <<>> /\ data \in [version : {0}, empty : BOOLEAN]
    BY DEF Init
<1>2. 0 \in Versions
    BY NumbersAssumption DEF Versions
<1>3. data \in [version : Versions, empty : BOOLEAN]
    BY <1>1, <1>2
<1>4. count = [worker |-> "none", rx |-> <<>>, cache |-> None, at |-> None]
    BY DEF Init
<1>5. count \in CountStates(app)
    <2> DEFINE S == Seq(Counts(app))
               T == {None} \cup [query : Asked, at : Versions, pages : Nat]
               R == {None} \cup CountsAsked(app)
    <2>1. <<>> \in S /\ None \in T /\ None \in R
        OBVIOUS
    <2>2. CountStates(app) = [worker : {"none", "new", "open", "dead"}, rx : S, cache : T, at : R]
        BY DEF CountStates
    <2> HIDE DEF S, T, R
    <2> QED
        BY <1>4, <2>1, <2>2
<1>6. Good(app, faults)
    BY <1>1, Opened
<1> QED
    BY <1>1, <1>3, <1>5, <1>6 DEF IInv

\* The invariant the others rest on: what is shown is of what is asked, and every request or
\* answer under way whose generation is the one expected is of what is asked now.
THEOREM Inductive == Spec => []IInv
<1>1. Init => IInv
    BY InitHolds
<1>2. IInv /\ [Next]_vars => IInv'
    BY ThreadsStep, UserStep, StillStep DEF Next
<1> QED
    BY <1>1, <1>2, PTL DEF Spec

\* Every field of the window, and the data, stay in the types the code gives them: pages are
\* never below the first, no answer brings a value of another kind.
THEOREM TypeCorrect == Spec => []TypeOK
<1>1. IInv => TypeOK
    BY DEF IInv, Good, Settings, Results, TypeOK
<1> QED
    BY <1>1, Inductive, PTL

\* What the window shows as found belongs to what is asked, whatever the user does and however
\* the threads run, for every number of scopes, queries, pages, clicks, operations and faults
\* (drain_messages, handle_analytics_done).
THEOREM ShownStaysAsked == Spec => []ShownIsAsked
<1>1. IInv => ShownIsAsked
    BY DEF IInv, Good, Shown, PageShown, SectionsShown, ShownIsAsked, ShownSection
<1> QED
    BY <1>1, Inductive, PTL
=============================================================================
