---------------------------- MODULE TrafficPage -----------------------------
(***************************************************************************)
(* The page that colours the links of a domain by the traffic of the       *)
(* circuits on them (traffic.js).  The status of every port and the        *)
(* traffic of every circuit are asked for one by one; a timer polls until  *)
(* all answers are counted, then adds the traffic up on the links.  Both   *)
(* are loaded again while older answers may still come.                    *)
(*                                                                         *)
(* The two directions of a circuit are one number, the two links between   *)
(* two devices one link; the dialog with the history of a link is left out *)
(* but for the list of circuits it is drawn from.                          *)
(***************************************************************************)
EXTENDS WebPage

CONSTANTS
    Ports,         \* the ports of the devices
    Crossed,       \* Crossed[c]: the links that circuit c crosses
    TrafficOf,     \* TrafficOf[c]: its traffic, as each answer says
    MaxRefreshes   \* bound on how often the page is refreshed

ASSUME TrafficAssumption ==
    /\ IsFiniteSet(Ports) /\ IsFiniteSet(DOMAIN Crossed)
    /\ DOMAIN TrafficOf = DOMAIN Crossed
    /\ \A c \in DOMAIN Crossed : TrafficOf[c] \in Nat /\ IsFiniteSet(Crossed[c])
    /\ MaxRefreshes \in Nat

VARIABLES
    loaded,     \* what is there of "domain", "devices" and "ports"
    statuses,   \* [asked, counted]: answers to come per port, and the counter
    lists,      \* [asked, newest, traffic]: lists of circuits to come, which of
                \* them the script holds, and the answers to come for each
    pollers,    \* the timers that wait to set the status of the links
    onLinks,    \* onLinks[l]: [traffic, circuits], the latter with how often
    refreshes   \* refreshes counted against MaxRefreshes

trafficVars == <<loaded, statuses, lists, pollers, onLinks, refreshes>>

Circuits == DOMAIN Crossed
Links == UNION {Crossed[c] : c \in Circuits}
NoTraffic == [traffic |-> 0, circuits |-> [c \in Circuits |-> 0]]

Has(what) == what \in loaded

-----------------------------------------------------------------------------
(***************************************************************************)
(* loadDomains, loadDevices and loadDevicePorts follow one another.  The   *)
(* last asks for the status of each port and for the circuits.             *)
(***************************************************************************)

AskStatuses == [p \in Ports |-> statuses.asked[p] + 1]

LoadDomain ==
    /\ loaded = {}
    /\ loaded' = {"domain"}
    /\ UNCHANGED <<statuses, lists, pollers, onLinks, refreshes>>

LoadDomainDevices ==
    /\ loaded = {"domain"}
    /\ loaded' = loaded \union {"devices"}
    /\ UNCHANGED <<statuses, lists, pollers, onLinks, refreshes>>

LoadDevicePorts ==
    /\ Has("devices") /\ ~Has("ports")
    /\ loaded' = loaded \union {"ports"}
    /\ statuses' = [statuses EXCEPT !.asked = AskStatuses]
    /\ lists' = [lists EXCEPT !.asked = @ + 1]
    /\ UNCHANGED <<pollers, onLinks, refreshes>>

\* An answer is counted, of whatever round it is.
PortStatus(p) ==
    /\ statuses.asked[p] > 0
    /\ statuses' = [asked |-> [statuses.asked EXCEPT ![p] = @ - 1],
                    counted |-> statuses.counted + 1]
    /\ UNCHANGED <<loaded, lists, pollers, onLinks, refreshes>>

-----------------------------------------------------------------------------
(***************************************************************************)
(* Refreshing.                                                             *)
(***************************************************************************)

\* Mutant: the circuits of the dialog stay on the links.
OnlyTrafficIsCleared ==
    [l \in Links |-> [onLinks[l] EXCEPT !.traffic = 0]]

\* clearCircuits, once there are ports: links without traffic or circuits.
Cleared == IF Has("ports") THEN [l \in Links |-> NoTraffic] ELSE onLinks

\* The circuits are asked for again: the refresh button.
RefreshButton ==
    /\ refreshes < MaxRefreshes
    /\ refreshes' = refreshes + 1
    /\ onLinks' = Cleared
    /\ lists' = [lists EXCEPT !.asked = @ + 1, !.newest = 0]
    /\ UNCHANGED <<loaded, statuses, pollers>>

\* reloadPortsStatus.
ReloadPortsStatus ==
    IF Has("ports") THEN [asked |-> AskStatuses, counted |-> 0]
    ELSE [statuses EXCEPT !.counted = 0]

\* The timer of two minutes.
Refresh ==
    /\ refreshes < MaxRefreshes
    /\ refreshes' = refreshes + 1
    /\ onLinks' = Cleared
    /\ statuses' = ReloadPortsStatus
    /\ lists' = [lists EXCEPT !.asked = @ + 1, !.newest = 0]
    /\ UNCHANGED <<loaded, pollers>>

\* The list of circuits: the traffic of each is asked for, and a timer started.
\* Before the devices are there the handler fails, and no timer is.
LoadCircuits ==
    /\ lists.asked > 0
    /\ lists' = [asked |-> lists.asked - 1, newest |-> Len(lists.traffic) + 1,
                 traffic |-> Append(lists.traffic, Circuits)]
    /\ pollers' = IF Has("devices") THEN pollers + 1 ELSE pollers
    /\ UNCHANGED <<loaded, statuses, onLinks, refreshes>>

LoadCircuitTraffic(n, c) ==
    /\ c \in lists.traffic[n]
    /\ lists' = [lists EXCEPT !.traffic[n] = @ \ {c}]
    /\ UNCHANGED <<loaded, statuses, pollers, onLinks, refreshes>>

-----------------------------------------------------------------------------
(***************************************************************************)
(* Setting the status of the links.                                        *)
(***************************************************************************)

\* No circuits at all, as refreshing leaves the script, are ready.
AreCircuitsReady ==
    lists.newest # 0 => lists.traffic[lists.newest] = {}

ArePortsStatusReady ==
    statuses.counted = IF Has("ports") THEN Cardinality(Ports) ELSE 0

\* Each circuit of the list adds its traffic to the links it crosses.
WithCircuits(ls) ==
    [l \in Links |->
        LET over == {c \in Circuits : l \in Crossed[c]}
        IN  [traffic  |-> ls[l].traffic
                + FoldSet(LAMBDA c, n : n + TrafficOf[c], 0, over),
             circuits |-> [c \in Circuits |-> IF c \in over
                THEN ls[l].circuits[c] + 1 ELSE ls[l].circuits[c]]]]

\* setLinkStatusWhenReady, when all is there; else the timer is set again.
SetLinkStatus ==
    /\ pollers > 0 /\ AreCircuitsReady /\ ArePortsStatusReady
    /\ pollers' = pollers - 1
    /\ onLinks' = IF lists.newest # 0 /\ Has("ports")
                  THEN WithCircuits(onLinks) ELSE onLinks
    /\ UNCHANGED <<loaded, statuses, lists, refreshes>>

-----------------------------------------------------------------------------
TrafficInit ==
    /\ loaded = {}
    /\ statuses = [asked |-> [p \in Ports |-> 0], counted |-> 0]
    /\ lists = [asked |-> 0, newest |-> 0, traffic |-> <<>>]
    /\ pollers = 0
    /\ onLinks = [l \in Links |-> NoTraffic]
    /\ refreshes = 0

TrafficNext ==
    \/ LoadDomain \/ LoadDomainDevices \/ LoadDevicePorts
    \/ \E p \in Ports : PortStatus(p)
    \/ RefreshButton \/ Refresh
    \/ LoadCircuits
    \/ \E n \in DOMAIN lists.traffic, c \in Circuits : LoadCircuitTraffic(n, c)
    \/ SetLinkStatus

TrafficSpec == TrafficInit /\ [][TrafficNext]_trafficVars

-----------------------------------------------------------------------------
(***************************************************************************)
(* Properties.                                                             *)
(***************************************************************************)

\* However refreshes and late answers meet, the traffic a link is coloured by is
\* that of the circuits its dialog lists, each as often as it is listed.
TrafficIsOfTheListed ==
    \A l \in Links :
       onLinks[l].traffic =
          FoldSet(LAMBDA c, n : n + onLinks[l].circuits[c] * TrafficOf[c], 0,
                  Circuits)
=============================================================================
