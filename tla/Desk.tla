-------------------------------- MODULE Desk ---------------------------------
(***************************************************************************)
(* The dialogs, lists, panels and cards of the desktop window that the     *)
(* user works with.  They share no state: each has its own copy of what    *)
(* the backend tells it.  So a behaviour is that of one part, chosen at    *)
(* the start, while the others stay closed, and every property is about    *)
(* one part.                                                               *)
(***************************************************************************)
EXTENDS DeskPanels, DeskLists, DeskCards

CONSTANT Parts    \* the parts that a behaviour may be about

vars == <<part, clicks, panelVars, listVars, cardVars>>

Init ==
    /\ part \in Parts
    /\ PanelsInit
    /\ ListsInit
    /\ CardsInit

Next ==
    /\ part' = part
    /\ \/ PanelsNext /\ UNCHANGED <<listVars, cardVars>>
       \/ ListsNext /\ UNCHANGED <<panelVars, cardVars>>
       \/ CardsNext /\ UNCHANGED <<panelVars, listVars>>

Spec == Init /\ [][Next]_vars
=============================================================================
