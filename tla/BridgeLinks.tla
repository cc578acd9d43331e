---------------------------- MODULE BridgeLinks ----------------------------
(***************************************************************************)
(* The bridge's connections: the cards of BridgePanel, hooks/useBridge     *)
(* behind them, and the table of links in BridgeManager (bridge.rs).       *)
(*                                                                         *)
(* bridge_connect first disconnects what has the id, then builds the link  *)
(* (which may wait for a password from the credential store), and only     *)
(* then enters it.  Calls run side by side; the window hears their answers *)
(* and, separately, the status events, each a copy of the table.  A        *)
(* deliberate disconnect sends no event.                                   *)
(***************************************************************************)
EXTENDS Integers, Sequences, FiniteSets, Functions, SequencesExt

CONSTANTS
    Conn,        \* ids of connections
    Endpoint,    \* broker configs
    None,        \* a model value: nothing there
    Reach,       \* endpoints that can be built
    MaxCalls,    \* bound: calls in flight
    MaxEvents,   \* bound: status events under way
    MaxSessions, \* bound: sessions ever started
    MaxClicks    \* bound: what the user does

VARIABLES
    \* the window; the first three are on disk
    connections, remember, autoReconnect,
    booted,      \* bootRef: autostart has run
    conns,       \* the links the cards show: absent, down or up
    busy, lastError, selected,
    armedConn,
    \* what is under way
    calls,       \* bridge_connect and bridge_disconnect calls: [op, id, endpoint, at]
    events,      \* status events
    \* the backend
    table,       \* conns: the session of each id
    sessions,    \* event loops that run
    up,          \* those whose link is up
    started,     \* sessions started so far
    overlapped,  \* history: connections that two calls were about at the same time
    clicks

vars == <<connections, remember, autoReconnect, booted, conns, busy, lastError, selected, armedConn,
          calls, events, table, sessions, up, started, overlapped, clicks>>
window == <<connections, remember, autoReconnect, booted, conns, busy, lastError, selected, armedConn>>
backend == <<table, sessions, up, started>>

Session == 1 .. MaxSessions

\* Two connections to begin with, with or without what was used last.
Init ==
    /\ connections = {"src", "dst"} /\ remember \in [Conn -> Endpoint \cup {None}]
    /\ \A c \in Conn \ connections : remember[c] = None
    /\ autoReconnect \in BOOLEAN /\ booted = FALSE
    /\ conns = [c \in Conn |-> "absent"] /\ busy = FALSE /\ lastError = FALSE
    /\ selected = remember /\ armedConn = None
    /\ calls = <<>> /\ events = <<>>
    /\ table = [c \in Conn |-> None] /\ sessions = {} /\ up = {} /\ started = 0
    /\ overlapped = {} /\ clicks = 0

\* Autostart comes before anything the user does.
Click == (autoReconnect => booted) /\ clicks < MaxClicks /\ clicks' = clicks + 1

\* bridge_status.
bridge_status(tb, u) == [c \in Conn |-> IF tb[c] = None THEN "absent" ELSE IF tb[c] \in u THEN "up" ELSE "down"]
emit_status(tb, u) == Len(events) < MaxEvents /\ events' = Append(events, bridge_status(tb, u))

Ask(op, c, e) == [op |-> op, id |-> c, endpoint |-> e, at |-> "asked"]
\* Calls go out; which connections already had one is noted.
Invoke(cs) ==
    /\ Len(calls) + Len(cs) <= MaxCalls /\ calls' = calls \o cs
    /\ overlapped' = overlapped \cup {c \in Conn : /\ \E k \in DOMAIN calls : calls[k].id = c
                                                  /\ \E k \in DOMAIN cs : cs[k].id = c}

-----------------------------------------------------------------------------
(* The window                                                              *)

\* connect: it sets the flag that disables the cards' buttons, whose ever call ends first.
connect(c, e) ==
    /\ Invoke(<<Ask("connect", c, e)>>)
    /\ busy' = TRUE /\ lastError' = FALSE

\* The Connect button and the quick picks of a card that has no link.
ConnectCard(c, e) ==
    /\ Click /\ c \in connections /\ conns[c] = "absent" /\ ~busy
    /\ connect(c, e) /\ selected' = [selected EXCEPT ![c] = e]
    /\ UNCHANGED <<connections, remember, autoReconnect, booted, conns, armedConn, events, backend>>

\* The select of a card, with the endpoint typed into it or used last.
setSelected(c, e) ==
    /\ Click /\ c \in connections /\ e # selected[c] /\ selected' = [selected EXCEPT ![c] = e]
    /\ UNCHANGED <<connections, remember, autoReconnect, booted, conns, busy, lastError, armedConn,
                   calls, events, backend, overlapped>>

disconnect(c) ==
    /\ Click /\ c \in connections /\ conns[c] # "absent"
    /\ Invoke(<<Ask("disconnect", c, None)>>)
    /\ UNCHANGED <<window, events, backend>>

\* nextConnId: the first number not taken.
addConnection(c) ==
    /\ Click /\ c \in Conn \ (connections \cup {"src", "dst"}) /\ connections' = connections \cup {c}
    /\ UNCHANGED <<remember, autoReconnect, booted, conns, busy, lastError, selected, armedConn, calls,
                   events, backend, overlapped>>

\* Two clicks, of which the first lapses.  No rule names the connection (BridgeRules).
removeConnection(c) ==
    /\ Click /\ c \in connections
    /\ IF armedConn # c
       THEN armedConn' = c /\ UNCHANGED <<connections, remember, calls, overlapped>>
       ELSE /\ armedConn' = None /\ connections' = connections \ {c}
            /\ remember' = [remember EXCEPT ![c] = None]
            /\ IF conns[c] = "absent" THEN UNCHANGED <<calls, overlapped>>
               ELSE Invoke(<<Ask("disconnect", c, None)>>)
    /\ UNCHANGED <<autoReconnect, booted, conns, busy, lastError, selected, events, backend>>

Lapse ==
    /\ armedConn # None /\ armedConn' = None
    /\ UNCHANGED <<connections, remember, autoReconnect, booted, conns, busy, lastError, selected, calls,
                   events, backend, overlapped, clicks>>

setAutoReconnect ==
    /\ Click /\ autoReconnect' = ~autoReconnect
    /\ UNCHANGED <<connections, remember, booted, conns, busy, lastError, selected, armedConn, calls,
                   events, backend, overlapped>>

\* Autostart runs once, when the preference is on or is first switched on: "The list, not the
\* stored map".
Autostart ==
    LET ids == SetToSeq({c \in connections : remember[c] # None}) IN
    /\ autoReconnect /\ ~booted /\ booted' = TRUE
    /\ Invoke([k \in DOMAIN ids |-> Ask("connect", ids[k], remember[ids[k]])])
    /\ busy' = (busy \/ ids # <<>>) /\ lastError' = (lastError /\ ids = <<>>)
    /\ UNCHANGED <<connections, remember, autoReconnect, conns, selected, armedConn, events, backend, clicks>>

\* The answer of a call.
Answered(k) ==
    /\ calls[k].at \in {"ok", "failed"} /\ calls' = RemoveAt(calls, k)
    /\ LET ok == calls[k].at = "ok"  c == calls[k].id IN
       /\ remember' = IF ok THEN [remember EXCEPT ![c] = calls[k].endpoint] ELSE remember
       /\ conns' = IF ok /\ calls[k].op = "disconnect" THEN [conns EXCEPT ![c] = "absent"] ELSE conns
       /\ busy' = (busy /\ calls[k].op # "connect")
       /\ lastError' = (lastError \/ ~ok)
    /\ UNCHANGED <<connections, autoReconnect, booted, selected, armedConn, events, backend, overlapped, clicks>>

Deliver ==
    /\ events # <<>> /\ events' = Tail(events) /\ conns' = Head(events)
    /\ UNCHANGED <<connections, remember, autoReconnect, booted, busy, lastError, selected, armedConn,
                   calls, backend, overlapped, clicks>>

-----------------------------------------------------------------------------
(* The backend                                                             *)

\* BridgeManager::disconnect: out of the tables, and its event loop stopped.
Disconnect(c) ==
    /\ table' = [table EXCEPT ![c] = None]
    /\ sessions' = sessions \ {table[c]} /\ up' = up \ {table[c]}

DisconnectRuns(k) ==
    /\ calls[k].op = "disconnect" /\ calls[k].at = "asked"
    /\ calls' = [calls EXCEPT ![k].at = "ok"]
    /\ Disconnect(calls[k].id) /\ UNCHANGED <<window, events, started, overlapped, clicks>>

\* BridgeManager::connect disconnects, ...
ConnectBegins(k) ==
    /\ calls[k].op = "connect" /\ calls[k].at = "asked"
    /\ calls' = [calls EXCEPT ![k].at = "built"]
    /\ Disconnect(calls[k].id) /\ UNCHANGED <<window, events, started, overlapped, clicks>>

\* ... builds the link, ...
BuildFails(k) ==
    /\ calls[k].at = "built" /\ calls[k].endpoint \notin Reach
    /\ calls' = [calls EXCEPT ![k].at = "failed"]
    /\ UNCHANGED <<window, events, backend, overlapped, clicks>>

\* Variant: the status goes out before the link is entered.
TellsFirst(k) ==
    /\ calls[k].at = "built" /\ calls[k].endpoint \in Reach
    /\ started < MaxSessions /\ started' = started + 1
    /\ table' = [table EXCEPT ![calls[k].id] = started'] /\ sessions' = sessions \cup {started'}
    /\ calls' = [calls EXCEPT ![k].at = "ok"]
    /\ emit_status(table, up) /\ UNCHANGED <<window, up, overlapped, clicks>>

\* ... and enters it over whatever is there by now.
ConnectEnters(k) ==
    /\ calls[k].at = "built" /\ calls[k].endpoint \in Reach
    /\ started < MaxSessions /\ started' = started + 1
    /\ table' = [table EXCEPT ![calls[k].id] = started'] /\ sessions' = sessions \cup {started'}
    /\ calls' = [calls EXCEPT ![k].at = "ok"]
    /\ emit_status(table', up) /\ UNCHANGED <<window, up, overlapped, clicks>>

\* A CONNACK, or the loss of a link, that its event loop reports.
LinkChanges(s) ==
    /\ s \in sessions /\ up' = IF s \in up THEN up \ {s} ELSE up \cup {s}
    /\ emit_status(table, up') /\ UNCHANGED <<window, calls, table, sessions, started, overlapped, clicks>>

\* The program is started again.
Restart ==
    /\ Click /\ booted' = FALSE /\ conns' = [c \in Conn |-> "absent"]
    /\ busy' = FALSE /\ lastError' = FALSE /\ selected' = remember /\ armedConn' = None
    /\ calls' = <<>> /\ events' = <<>>
    /\ table' = [c \in Conn |-> None] /\ sessions' = {} /\ up' = {}
    /\ UNCHANGED <<connections, remember, autoReconnect, started, overlapped>>

-----------------------------------------------------------------------------
User ==
    \/ setAutoReconnect \/ Restart
    \/ \E c \in Conn : disconnect(c) \/ addConnection(c) \/ removeConnection(c)
    \/ \E c \in Conn, e \in Endpoint : ConnectCard(c, e) \/ setSelected(c, e)
Calls ==
    \E k \in DOMAIN calls :
        Answered(k) \/ DisconnectRuns(k) \/ ConnectBegins(k) \/ BuildFails(k) \/ ConnectEnters(k)
Next == User \/ Autostart \/ Lapse \/ Deliver \/ Calls \/ \E s \in Session : LinkChanges(s)

Spec == Init /\ [][Next]_vars

-----------------------------------------------------------------------------
Quiet == calls = <<>> /\ events = <<>>

(* When nothing is under way, a card that shows no link has none: nothing *)
(* forwards on behind a card that offers to connect it.  Where two calls   *)
(* were about the same connection at once, the later answer may hide it.   *)
NoneHidden ==
    Quiet => \A c \in connections \ overlapped : conns[c] = "absent" => table[c] = None
=============================================================================
