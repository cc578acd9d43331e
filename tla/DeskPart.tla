------------------------------ MODULE DeskPart -------------------------------
(***************************************************************************)
(* What the parts of the desktop window have in common: one of them is     *)
(* open, and the user clicks in it.                                        *)
(***************************************************************************)
CONSTANTS
    NoValue,      \* a model value: nothing there
    Conn,         \* ids of connections of the bridge
    MaxCalls,     \* bound: answers under way, of the history page and of the bridge
    MaxClicks     \* bound: what the user does in each part, a record

VARIABLES
    part,         \* the part that is open
    clicks

ASSUME ConnAssumption == {"src", "dst"} \subseteq Conn
=============================================================================
