------------------------------ MODULE History ------------------------------
(***************************************************************************)
(* The message history page (HistoryPanel with TimelineCard and            *)
(* RetainedCard): a list that follows its filter, what is done to the      *)
(* archive from there, the trace of one token and the files that are       *)
(* written of both.  The archive is external.                              *)
(*                                                                         *)
(* An answer comes whenever it comes: a load that is not the newest is     *)
(* dropped, a trace and a timeline are not.  requestRef is kept as a mark  *)
(* on the newest load.                                                     *)
(***************************************************************************)
EXTENDS Integers, Sequences, FiniteSets, FiniteSetsExt

CONSTANTS
    Text,       \* what is searched for; "" is everything
    View,       \* direction, limit, window and staleDays, picked as one
    Token,      \* what is traced; "" is no token
    Days,       \* retention, in days
    Limit,      \* how many rows the list shows
    Whole,      \* the rows stored with all their bytes
    MaxRows,    \* bound: rows ever stored
    MaxCalls,   \* bound: answers under way
    MaxClicks   \* bound: what the user does

VARIABLES
    archive,    \* what is stored, days: how long
    search, debouncedSearch,
    timer,      \* the debounce is running
    view, autoRefresh,
    loads,      \* loads under way
    loading, error,
    shown,      \* what is on the screen, and which load it is of
    retentionDraft,
    orders,     \* clears and retentions under way, each with the filter its load will have
    expandedId,
    traceToken, tracing,
    traces,     \* traces under way
    requested,  \* the token handed over, until its run started
    trace, traceError, traceExpanded,
    timeline,   \* depth and gap chosen, whether a build is under way, and what the last one showed
    exporting, file, published,
    clicks

filterVars == <<search, debouncedSearch, timer, view, autoRefresh>>
listVars == <<loads, loading, error, shown, expandedId>>
orderVars == <<archive, orders, retentionDraft>>
traceVars == <<traceToken, tracing, traces, requested, trace, traceError, traceExpanded>>
fileVars == <<exporting, file, published>>
vars == <<filterVars, listVars, orderVars, traceVars, timeline, fileVars, clicks>>

None == <<>>
Filter == [search |-> debouncedSearch, view |-> view]
Rows(a) == {n \in a.ids : Cardinality({k \in a.ids : k > n}) < Limit}
Nothing == [of |-> None, after |-> FALSE, ids |-> {}, total |-> 0, topics |-> {}, retained |-> "unavailable",
            stats |-> 0, days |-> 0]

Click == clicks < MaxClicks /\ clicks' = clicks + 1
Calls == Cardinality(loads) + Cardinality(orders) + Cardinality(traces)

-----------------------------------------------------------------------------
(* Loading.  A new load makes every other one stale.                       *)

Stale(ls) == {[l EXCEPT !.newest = FALSE] : l \in ls}
load(filter, after) ==
    /\ loads' = Stale(loads) \cup {[filter |-> filter, after |-> after, stage |-> "stats", newest |-> TRUE, stats |-> 0, days |-> 0]}
    /\ loading' = TRUE

\* The filter changed: the effect's cleanup, then its load.
Reload(text, v) ==
    /\ debouncedSearch' = text /\ view' = v
    /\ IF [search |-> text, view |-> v] # Filter THEN load([search |-> text, view |-> v], FALSE)
       ELSE UNCHANGED <<loads, loading>>
    /\ UNCHANGED <<error, shown, expandedId, orderVars, traceVars, timeline, fileVars>>

\* history_stats: who is not the newest stops here.
StatsAnswered(l) ==
    /\ l.stage = "stats"
    /\ loads' = (loads \ {l}) \cup (IF l.newest THEN {[l EXCEPT !.stage = "query", !.stats = Cardinality(archive.ids),
                                                              !.days = archive.days]} ELSE {})
    /\ UNCHANGED <<filterVars, loading, error, shown, expandedId, orderVars, traceVars, timeline, fileVars, clicks>>

Install(l, retained) ==
    /\ shown' = [of |-> <<l.filter>>, after |-> l.after, ids |-> Rows(archive), total |-> Cardinality(archive.ids),
                 topics |-> {t \in Text : archive.ids # {} /\ t # ""}, retained |-> retained, stats |-> l.stats, days |-> l.days]
    /\ error' = FALSE /\ loading' = FALSE

\* Variant: whatever answers is shown.
AnyAnswered(l, retained) ==
    /\ l.stage = "query" /\ loads' = loads \ {l} /\ Install(l, retained)
    /\ UNCHANGED <<filterVars, expandedId, orderVars, traceVars, timeline, fileVars, clicks>>
\* The four queries are answered; only the retained values may fail by themselves.
QueryAnswered(l, retained) ==
    /\ l.stage = "query" /\ loads' = loads \ {l}
    /\ IF l.newest THEN Install(l, retained) ELSE UNCHANGED <<shown, error, loading>>
    /\ UNCHANGED <<filterVars, expandedId, orderVars, traceVars, timeline, fileVars, clicks>>

\* The list goes, the statistics stay.
LoadFails(l) ==
    /\ loads' = loads \ {l}
    /\ IF l.newest
       THEN /\ error' = TRUE /\ loading' = FALSE
            /\ shown' = [Nothing EXCEPT !.of = <<l.filter>>, !.after = l.after, !.stats = shown.stats, !.days = shown.days]
       ELSE UNCHANGED <<shown, error, loading>>
    /\ UNCHANGED <<filterVars, expandedId, orderVars, traceVars, timeline, fileVars, clicks>>

refresh ==
    /\ load(Filter, FALSE)
    /\ UNCHANGED <<filterVars, error, shown, expandedId, orderVars, traceVars, timeline, fileVars>>

\* Every 3 s, with the load of the last render.
AutoRefresh == autoRefresh /\ Calls < MaxCalls /\ refresh /\ UNCHANGED clicks

-----------------------------------------------------------------------------
(* The toolbar                                                             *)

setSearch(text) ==
    /\ search' = text /\ timer' = TRUE
    /\ UNCHANGED <<debouncedSearch, view, autoRefresh, listVars, orderVars, traceVars, timeline, fileVars>>

Debounced ==
    /\ timer /\ Calls < MaxCalls /\ timer' = FALSE /\ Reload(search, view) /\ UNCHANGED <<search, autoRefresh, clicks>>

runSearch ==
    \/ search # debouncedSearch /\ Reload(search, view) /\ UNCHANGED <<search, timer, autoRefresh>>
    \/ search = debouncedSearch /\ refresh

\* A topic of the totals: searched for at once.
pickTopic(t) == search' = t /\ timer' = TRUE /\ Reload(t, view) /\ UNCHANGED autoRefresh

setView(v) == Reload(debouncedSearch, v) /\ UNCHANGED <<search, timer, autoRefresh>>

setAutoRefresh ==
    /\ autoRefresh' = ~autoRefresh
    /\ UNCHANGED <<search, debouncedSearch, timer, view, listVars, orderVars, traceVars, timeline, fileVars>>

Toolbar ==
    /\ Click
    /\ \/ \E text \in Text : setSearch(text)
       \/ setAutoRefresh
       \/ Calls < MaxCalls /\ (runSearch \/ refresh \/ \E v \in View : setView(v) \/ \E t \in shown.topics : pickTopic(t))

-----------------------------------------------------------------------------
(* The archive.  A clear or a retention loads again when it is answered,   *)
(* with the load of the render in which it was ordered.                    *)

Order(what) ==
    /\ orders' = orders \cup {[what |-> what, filter |-> Filter]}
    /\ UNCHANGED <<archive, retentionDraft, filterVars, listVars, traceVars, timeline, fileVars>>

\* Confirmed, and only while something is stored.
clearAll == shown.stats > 0 /\ Order(0)

setRetentionDraft(d) ==
    /\ retentionDraft' = <<d>>
    /\ UNCHANGED <<archive, orders, filterVars, listVars, traceVars, timeline, fileVars>>
applyRetention == retentionDraft # None /\ retentionDraft[1] # shown.days /\ Order(retentionDraft[1])

Answered(o) ==
    /\ orders' = orders \ {o}
    /\ IF o.what = 0 THEN archive' = [archive EXCEPT !.ids = {}] /\ UNCHANGED retentionDraft
       ELSE /\ \E n \in 0 .. MaxRows : archive' = [archive EXCEPT !.days = o.what, !.ids = {k \in @ : k > n}]
            /\ retentionDraft' = None
    /\ load(o.filter, TRUE)
    /\ UNCHANGED <<filterVars, error, shown, expandedId, traceVars, timeline, fileVars, clicks>>

OrderFails(o) ==
    /\ orders' = orders \ {o} /\ error' = TRUE
    /\ UNCHANGED <<archive, retentionDraft, filterVars, loads, loading, shown, expandedId, traceVars, timeline, fileVars, clicks>>

\* External: a message is stored.
Store ==
    /\ archive.next <= MaxRows
    /\ archive' = [archive EXCEPT !.ids = @ \cup {archive.next}, !.next = @ + 1]
    /\ UNCHANGED <<orders, retentionDraft, filterVars, listVars, traceVars, timeline, fileVars, clicks>>

Archive == Click /\ (clearAll \/ applyRetention \/ \E d \in Days : setRetentionDraft(d)) /\ (Calls < MaxCalls)

-----------------------------------------------------------------------------
(* The trace                                                               *)

executeTrace(token) == traces' = traces \cup {[token |-> token, view |-> view]}

setTraceToken(token) ==
    /\ traceToken' = token
    /\ UNCHANGED <<filterVars, listVars, orderVars, tracing, traces, requested, trace, traceError, traceExpanded, timeline, fileVars>>

\* The button waits for the trace under way; the Enter key does not.
runTrace ==
    /\ IF traceToken = ""
       THEN trace' = None /\ traceError' = TRUE /\ UNCHANGED <<tracing, traces>>
       ELSE tracing' = TRUE /\ executeTrace(traceToken) /\ UNCHANGED <<trace, traceError>>
    /\ UNCHANGED <<filterVars, listVars, orderVars, traceToken, requested, traceExpanded, timeline, fileVars>>

\* The token handed over when the page opened runs once.
RunRequested ==
    /\ requested # "" /\ Calls < MaxCalls /\ executeTrace(requested) /\ requested' = ""
    /\ UNCHANGED <<filterVars, listVars, orderVars, traceToken, tracing, trace, traceError, traceExpanded, timeline, fileVars, clicks>>

TraceAnswered(tr) ==
    /\ traces' = traces \ {tr} /\ tracing' = FALSE
    /\ traceToken' = tr.token /\ trace' = <<[token |-> tr.token, view |-> tr.view, hits |-> archive.ids]>>
    /\ traceError' = FALSE /\ traceExpanded' = 0
    /\ UNCHANGED <<filterVars, listVars, orderVars, requested, timeline, fileVars, clicks>>

TraceFails(tr) ==
    /\ traces' = traces \ {tr} /\ tracing' = FALSE /\ trace' = None /\ traceError' = TRUE
    /\ UNCHANGED <<filterVars, listVars, orderVars, traceToken, requested, traceExpanded, timeline, fileVars, clicks>>

expandHop(n) ==
    /\ trace # None /\ n \in trace[1].hits /\ traceExpanded' = IF traceExpanded = n THEN 0 ELSE n
    /\ UNCHANGED <<filterVars, listVars, orderVars, traceToken, tracing, traces, requested, trace, traceError, timeline, fileVars>>

Trace ==
    /\ Click
    /\ (\E token \in Token : setTraceToken(token)) \/ (Calls < MaxCalls /\ runTrace) \/ (\E n \in Whole : expandHop(n))

-----------------------------------------------------------------------------
(* Files, and what is done to one row.                                     *)

WriteFile(f) == file' = <<f>> /\ UNCHANGED <<published, filterVars, listVars, orderVars, traceVars, timeline>>

\* Rows behind the last one shown.
listTruncation(ids, total) == ids # {} /\ total > Cardinality(ids)

handleExport ==
    /\ shown.ids # {} /\ ~loading /\ ~exporting /\ search = debouncedSearch
    /\ exporting' = TRUE
    /\ WriteFile([kind |-> "list", says |-> Filter, of |-> shown.of[1], after |-> shown.after, rows |-> shown.ids,
                  capped |-> listTruncation(shown.ids, shown.total)])

\* The trace, under what the token box and the window say by now.
exportTrace ==
    /\ trace # None /\ trace[1].hits # {} /\ UNCHANGED exporting
    /\ WriteFile([kind |-> "trace", says |-> [token |-> traceToken, view |-> view], of |-> trace[1], rows |-> trace[1].hits])
Saved == exporting /\ exporting' = FALSE /\ UNCHANGED <<file, published, filterVars, listVars, orderVars, traceVars, timeline, clicks>>

\* A row cut short in the archive is not sent again.
handleResend(n) ==
    /\ n \in shown.ids \cap Whole /\ published' = published \cup {n}
    /\ UNCHANGED <<exporting, file, filterVars, listVars, orderVars, traceVars, timeline>>

expandRow(n) ==
    /\ n \in shown.ids /\ expandedId' = IF expandedId = n THEN 0 ELSE n
    /\ UNCHANGED <<loads, loading, error, shown, filterVars, orderVars, traceVars, timeline, fileVars>>

Row == Click /\ (handleExport \/ exportTrace \/ \E n \in shown.ids : handleResend(n) \/ expandRow(n))

-----------------------------------------------------------------------------
(* The timeline: built when asked, one at a time.                          *)

build ==
    /\ Click /\ ~timeline.busy /\ shown.stats > 0
    /\ timeline' = [timeline EXCEPT !.busy = TRUE, !.asked = <<debouncedSearch>>]
    /\ UNCHANGED <<filterVars, listVars, orderVars, traceVars, fileVars>>

Built(ok) ==
    /\ timeline.busy
    /\ timeline' = [busy |-> FALSE, asked |-> None, result |-> IF ok THEN timeline.asked ELSE None]
    /\ UNCHANGED <<filterVars, listVars, orderVars, traceVars, fileVars, clicks>>

-----------------------------------------------------------------------------
Init ==
    /\ archive = [ids |-> {1}, next |-> 2, days |-> 0]
    /\ search = "" /\ debouncedSearch = "" /\ timer = TRUE /\ view = (CHOOSE v \in View : TRUE) /\ autoRefresh = FALSE
    /\ loads = {[filter |-> Filter, after |-> FALSE, stage |-> "stats", newest |-> TRUE, stats |-> 0, days |-> 0]}
    /\ loading = TRUE /\ error = FALSE /\ shown = [Nothing EXCEPT !.retained = "none"] /\ expandedId = 0
    /\ orders = {} /\ retentionDraft = None
    /\ traceToken = "" /\ tracing = FALSE /\ traces = {} /\ requested \in Token
    /\ trace = None /\ traceError = FALSE /\ traceExpanded = 0
    /\ timeline = [busy |-> FALSE, asked |-> None, result |-> None]
    /\ exporting = FALSE /\ file = None /\ published = {} /\ clicks = 0

Answers ==
    \/ \E l \in loads : StatsAnswered(l) \/ LoadFails(l) \/ \E retained \in {"none", "held", "unavailable"} : QueryAnswered(l, retained)
    \/ \E o \in orders : Answered(o) \/ OrderFails(o)
    \/ \E tr \in traces : TraceAnswered(tr) \/ TraceFails(tr)

Next ==
    \/ Answers \/ Toolbar \/ Archive \/ Trace \/ Row
    \/ AutoRefresh \/ Debounced \/ RunRequested \/ Saved \/ Store
    \/ build \/ \E ok \in BOOLEAN : Built(ok)

Spec == Init /\ [][Next]_vars

-----------------------------------------------------------------------------
(* Once nothing is loading, the list answers the filter over it, whatever  *)
(* the order in which the loads before it were answered; and an exported   *)
(* list says which question its rows answer (HistoryPanel.tsx:206-244,     *)
(* 312-344).  A load that a clear or a retention ordered is another        *)
(* matter: it has the filter of the render in which the user confirmed.    *)
ListIsNewest ==
    /\ ~loading /\ ~shown.after => shown.of = <<Filter>>
    /\ file # None /\ file[1].kind = "list" => (file[1].after \/ file[1].says = file[1].of)
=============================================================================
