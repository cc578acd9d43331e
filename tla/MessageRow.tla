----------------------------- MODULE MessageRow -----------------------------
(***************************************************************************)
(* One row of the console feed: which view its bytes are shown in          *)
(* (resolveView of MessageStream.tsx), the display codec that may replace  *)
(* the view by what a script makes of the payload (useCodec.ts, codec.ts), *)
(* what the row tells and offers, and the mosquitto_pub command copied     *)
(* from it (mqttCommand.ts).                                               *)
(* A payload is a sequence of units, each a class of bytes: see Bytes.     *)
(***************************************************************************)
EXTENDS Integers, Sequences, FiniteSets, SequencesExt

CONSTANTS
    Rows,      \* the messages a behaviour may show
    Modes,     \* view modes the user picks from
    Scripts,   \* [id, len] of the codec scripts the user types; len 0 is no usable script
    CacheCap,  \* CACHE_CAP (200)
    MaxClicks  \* bound on what the user does

VARIABLES
    msg,       \* the row's message
    viewMode, connected, expanded,
    codecScript, \* the script as the panel has it
    cache,     \* decoded texts, oldest first: [len, text]
    decoding,  \* answers of the sandbox under way: [script, live]
    codec,     \* [text, error, pending]; a text is the id of the script that made it
    marks,     \* "row": copied, "cmd": command copied, "done": replayed
    clipboard, \* what was copied last: what is drawn, or the command
    rpcSent,   \* the last request made of the row
    clicks

row == <<viewMode, connected, expanded>>
lens == <<codecScript, cache, decoding, codec>>
out == <<clipboard, rpcSent>>
vars == <<msg, row, lens, marks, out, clicks>>

None == <<>>
NoText == 0

----------------------------------------------------------------------------
(* Payload bytes.  "a": printable; "ctl": a control byte; "bad": a byte    *)
(* that is no UTF-8; "cut": the first three bytes of a four-byte           *)
(* character.  A payload that parses also names what it parses as.         *)

Bytes(u) == IF u = "cut" THEN 3 ELSE 1
\* The text form: what is not UTF-8 becomes the replacement character, of three bytes.
TextOf(u) == IF u \in {"bad", "cut"} THEN "repl" ELSE u
TextBytes(u) == IF TextOf(u) = "repl" THEN 3 ELSE 1
Size(units, Width(_)) == FoldSeq(LAMBDA u, n : Width(u) + n, 0, units)
\* The bytes of the whole message, of which a truncated row holds the first.
Length(m) == Size(m.units, Bytes) + (IF m.truncated THEN 1 ELSE 0)
payload(m) == [i \in DOMAIN m.units |-> TextOf(m.units[i])]

ParsesJson(m) == m.parses \in {"json", "senmlJson"}
DecodesCbor(m) == m.parses \in {"cbor", "senmlCbor"}
looksLikeJson(m) == ParsesJson(m) /\ m.braced
looksLikeText(m) == \A i \in DOMAIN m.units : m.units[i] # "ctl"

----------------------------------------------------------------------------
(* resolveView.                                                            *)

\* What auto makes of the declared content type, else of the bytes.
AutoMode(m) ==
    CASE m.contentType \in {"senml+json", "senml+cbor"} -> "senml"
      [] m.contentType \in {"cbor", "md", "html", "json"} -> m.contentType
      [] m.contentType = "octet" -> "hex"
      [] looksLikeJson(m) -> IF m.parses = "senmlJson" THEN "senml" ELSE "json"
      [] ~looksLikeJson(m) /\ looksLikeText(m) -> "text"
      [] OTHER -> "hex"

SenmlDecodes(m) ==
    IF m.contentType \in {"senml+cbor", "cbor"} THEN m.parses = "senmlCbor" ELSE m.parses = "senmlJson"

\* The view and the form the bytes are drawn in: each decoder that fails has its own fallback.
resolveView(m, mode) ==
    LET eff == IF mode = "auto" THEN AutoMode(m) ELSE mode IN
    CASE eff = "senml" -> IF SenmlDecodes(m) THEN <<"senml", "table">> ELSE <<"json", "source">>
      [] eff = "json" -> IF ParsesJson(m) THEN <<"json", "pretty">> ELSE <<"text", "source">>
      [] eff = "cbor" -> IF DecodesCbor(m) THEN <<"cbor", "decoded">> ELSE <<"base64", "base64">>
      [] eff = "base64" -> <<eff, "base64">>
      [] eff = "hex" -> <<eff, "dump">>
      [] OTHER -> <<eff, "source">>

base == resolveView(msg, viewMode)
\* The codec is a lens: its text wins, its failure leaves the view as it was.
effective == IF codec.text # NoText THEN "text" ELSE base[1]
display == IF codec.text # NoText THEN <<"codec", codec.text>> ELSE base

\* How the row is drawn; the tree falls back to plain text when it cannot parse what it is given.
drawn ==
    CASE effective \in {"md", "html"} -> "rich"
      [] effective = "json" -> IF ParsesJson(msg) THEN "tree" ELSE "pre"
      [] OTHER -> "pre"

\* What the head of the row tells about the message.
chips ==
    {c \in {"retain", "contentType", "format", "reply", "corr", "corrHex", "truncated", "view",
            "byBroker", "byUs", "failed", "pending"} :
        CASE c = "retain" -> msg.retain
          [] c = "contentType" -> msg.contentType # "none"
          [] c = "format" -> msg.format # "unset"
          [] c = "reply" -> msg.reply # "none"
          [] c = "corr" -> msg.corr # "none"
          [] c = "corrHex" -> msg.corr = "hex"
          [] c = "truncated" -> msg.truncated
          [] c = "view" -> viewMode = "auto"
          [] c = "byBroker" -> msg.matched = "broker"
          [] c = "byUs" -> msg.matched = "us"
          [] c = "failed" -> codec.error
          [] c = "pending" -> codec.pending /\ ~codec.error}

CanResend == connected /\ ~msg.truncated

----------------------------------------------------------------------------
(* mosquittoCommand: the arguments, and a note for what they do not carry. *)

isShellText(v) == v # "ctl"

isFaithfulText(m) ==
    /\ \A i \in DOMAIN payload(m) : isShellText(payload(m)[i])
    /\ Size(m.units, TextBytes) = Length(m)

\* A property that is there and can stand in a shell argument.
Carries(v) == v \notin {"none", "ctl"}

mosquittoCommand(m) ==
    [args |->
        {"topic", "qos"}
        \cup (IF m.retain THEN {"retain"} ELSE {})
        \cup (IF isFaithfulText(m) THEN {"message"} ELSE {"file"})
        \cup (IF Carries(m.contentType) THEN {"content-type"} ELSE {})
        \cup (IF Carries(m.reply) THEN {"response-topic"} ELSE {})
        \cup (IF m.corr = "text" THEN {"correlation-data"} ELSE {})
        \cup (IF Carries(m.prop) THEN {"user-property"} ELSE {}),
     notes |->
        (IF isFaithfulText(m) THEN {} ELSE IF m.truncated THEN {"truncated"} ELSE {"base64"})
        \cup (IF m.corr = "hex" THEN {"correlation-data"} ELSE {})
        \cup (IF m.prop = "ctl" THEN {"user-property"} ELSE {})]

----------------------------------------------------------------------------
(* useCodec.                                                               *)

Idle == [text |-> NoText, error |-> FALSE, pending |-> FALSE]
codecScriptUsable(s) == s.len > 0

\* The script is not in the key, only its length.
codecGet(s) == {i \in DOMAIN cache : cache[i].len = s.len}
\* A Map: an entry that is replaced stays where it is, and room is made for it all the same.
codecPut(s) ==
    LET room == IF Len(cache) >= CacheCap THEN Tail(cache) ELSE cache
        entry == [len |-> s.len, text |-> s.id]
    IN  IF \A i \in DOMAIN room : room[i].len # s.len THEN Append(room, entry)
        ELSE [i \in DOMAIN room |-> IF room[i].len = s.len THEN entry ELSE room[i]]

Click == clicks < MaxClicks /\ clicks' = clicks + 1 /\ msg' = msg

\* The script changes: the effect of the row gives up the call under way and starts anew.
setCodecScript(s) ==
    /\ s # codecScript /\ codecScript' = s
    /\ LET left == [i \in DOMAIN decoding |-> [decoding[i] EXCEPT !.live = FALSE]]
       IN  IF ~codecScriptUsable(s) THEN codec' = Idle /\ decoding' = left
           ELSE IF codecGet(s) # {}
             THEN (\E i \in codecGet(s) : codec' = [Idle EXCEPT !.text = cache[i].text]) /\ decoding' = left
           ELSE codec' = [Idle EXCEPT !.pending = TRUE]
                /\ decoding' = Append(left, [script |-> s, live |-> TRUE])
    /\ Click
    /\ UNCHANGED <<row, cache, marks, out>>

\* Variant: the row takes whatever answer arrives.
runCodecAnyway(i, ok) ==
    LET call == decoding[i] IN
    /\ decoding' = RemoveAt(decoding, i)
    /\ cache' = IF ok THEN codecPut(call.script) ELSE cache
    /\ codec' = IF ok THEN [Idle EXCEPT !.text = call.script.id] ELSE [Idle EXCEPT !.error = TRUE]
    /\ UNCHANGED <<msg, row, codecScript, marks, out, clicks>>

\* The sandbox answers, in any order; a text is cached, a failure or a dropped message is not.
runCodec(i, ok) ==
    LET call == decoding[i] IN
    /\ decoding' = RemoveAt(decoding, i)
    /\ cache' = IF ok THEN codecPut(call.script) ELSE cache
    /\ codec' = IF ~call.live THEN codec
                ELSE IF ok THEN [Idle EXCEPT !.text = call.script.id] ELSE [Idle EXCEPT !.error = TRUE]
    /\ UNCHANGED <<msg, row, codecScript, marks, out, clicks>>

----------------------------------------------------------------------------
(* What the row offers.                                                    *)

setViewMode(v) ==
    /\ v # viewMode /\ viewMode' = v
    /\ Click
    /\ UNCHANGED <<connected, expanded, lens, marks, out>>

toggleExpanded ==
    /\ drawn = "pre" /\ msg.overflow
    /\ expanded' = ~expanded
    /\ Click
    /\ UNCHANGED <<viewMode, connected, lens, marks, out>>

Connection ==
    /\ connected' = ~connected
    /\ Click
    /\ UNCHANGED <<viewMode, expanded, lens, marks, out>>

\* Copies the text shown, or the command; only a copy that worked leaves a mark.
handleCopy(what, ok) ==
    /\ IF ok THEN /\ marks' = marks \cup {what}
                  /\ clipboard' = IF what = "row" THEN display ELSE <<"command", mosquittoCommand(msg)>>
       ELSE UNCHANGED <<marks, clipboard>>
    /\ Click
    /\ UNCHANGED <<row, lens, rpcSent>>

\* The mark of any copy goes with the timer of the first.
Unmark(what) ==
    /\ what \in marks /\ marks' = marks \ {what}
    /\ UNCHANGED <<msg, row, lens, out, clicks>>

handleReplay(ok) ==
    /\ CanResend
    /\ marks' = IF ok THEN marks \cup {"done"} ELSE marks
    /\ Click
    /\ UNCHANGED <<row, lens, out>>

\* The bytes go out as a request with an identity of its own.
handleSendAsRpc ==
    /\ CanResend
    /\ rpcSent' = [reply |-> IF Carries(msg.reply) THEN "given" ELSE "topic/reply", corr |-> "fresh",
                   retain |-> FALSE]
    /\ Click
    /\ UNCHANGED <<row, lens, marks, clipboard>>

----------------------------------------------------------------------------
Init ==
    /\ msg \in Rows
    /\ viewMode = "auto" /\ connected = TRUE /\ expanded = FALSE
    /\ codecScript \in {s \in Scripts : s.len = 0}
    /\ cache = <<>> /\ decoding = <<>> /\ codec = Idle
    /\ marks = {} /\ clipboard = None /\ rpcSent = None /\ clicks = 0

Next ==
    \/ \E s \in Scripts : setCodecScript(s)
    \/ \E i \in DOMAIN decoding, ok \in BOOLEAN : runCodec(i, ok)
    \/ \E v \in Modes : setViewMode(v)
    \/ toggleExpanded
    \/ Connection
    \/ \E what \in {"row", "cmd"}, ok \in BOOLEAN : handleCopy(what, ok)
    \/ \E what \in marks : Unmark(what)
    \/ \E ok \in BOOLEAN : handleReplay(ok)
    \/ handleSendAsRpc

Spec == Init /\ [][Next]_vars

----------------------------------------------------------------------------
\* A decoded text on screen was made by the script in force or by one of the same length, which
\* the cache key cannot tell from it (codec.ts:31): no answer of a script that was given up is
\* shown, however late it comes (useCodec.ts:39-41).  While a script is in force, a row that shows
\* its bytes undecoded says that it waits or that the script failed.
DecodedByKey ==
    /\ codec.text # NoText => \E s \in Scripts : s.id = codec.text /\ s.len = codecScript.len
    /\ codecScriptUsable(codecScript) => (codec.text # NoText \/ chips \cap {"pending", "failed"} # {})
=============================================================================
