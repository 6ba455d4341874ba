-------------------------------- MODULE MCWeb --------------------------------
(***************************************************************************)
(* Small instances of the four modules of the web interface, which share   *)
(* no variable.  A behaviour is a behaviour of the one "part" names, the   *)
(* others stay as they begin: TLC explores their sum, not their product.   *)
(***************************************************************************)
EXTENDS WebRuns, WebGraphs, WebSchedules, WebAccess, TLC

CONSTANTS
    Parts,                      \* the modules a run explores
    c1, c2, a, b,               \* conversations and participants
    g1, g2, k1, k2,             \* graph runs and cards
    u1, u2, staff, guests       \* people and their groups

VARIABLE part

MCRoster  == <<a, b>>
MCModesOf == c1 :> {"parallel", "coordinator"} @@ c2 :> {"solo"}

\* One conversation without a group.
MCSoloChat == c2 :> {"solo"}

MCCardsOf == g1 :> {k1, k2} @@ g2 :> {}

MCGroupOf == u1 :> staff @@ u2 :> guests

Rules(admins, ofStaff, ofGuests, default) ==
    [admins   |-> admins,
     mappings |-> staff :> ofStaff @@ guests :> ofGuests,
     default  |-> default]

FirstRules == Rules({u1}, "none", "operator", "none")

\* Rules under which the first, the second, nobody and everybody administers.
MCRuleChoices ==
    {FirstRules,
     Rules({}, "none", "admin", "viewer"),
     Rules({}, "approver", "viewer", "none"),
     Rules({}, "admin", "none", "admin")}

webVars == <<part, webRunsVars, webGraphsVars, webSchedulesVars, webAccessVars>>

Init ==
    /\ part \in Parts
    /\ WebRunsInit /\ WebGraphsInit /\ WebSchedulesInit /\ WebAccessInit
    /\ part # "access" => rules = FirstRules
    /\ part # "runs" => mode = [c \in Conversations |-> CHOOSE m \in ModesOf[c] : TRUE]

Next ==
    /\ UNCHANGED part
    /\ \/ /\ part = "runs" /\ WebRunsNext
          /\ UNCHANGED <<webGraphsVars, webSchedulesVars, webAccessVars>>
       \/ /\ part = "graphs" /\ WebGraphsNext
          /\ UNCHANGED <<webRunsVars, webSchedulesVars, webAccessVars>>
       \/ /\ part = "schedules" /\ WebSchedulesNext
          /\ UNCHANGED <<webRunsVars, webGraphsVars, webAccessVars>>
       \/ /\ part = "access" /\ WebAccessNext
          /\ UNCHANGED <<webRunsVars, webGraphsVars, webSchedulesVars>>

Spec ==
    /\ Init /\ [][Next]_webVars
    /\ WebRunsFairness /\ WebGraphsFairness /\ WebSchedulesFairness
=============================================================================
