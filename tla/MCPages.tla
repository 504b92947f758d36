------------------------------ MODULE MCPages -------------------------------
(***************************************************************************)
(* The network the pages show when TLC checks them.                        *)
(***************************************************************************)
EXTENDS Pages

\* A path with a device between its ends.
MCPath == <<"d1", "d2", "d3">>

\* Two circuits that share a link, and their traffic.
MCCrossed == [c1 |-> {"l1"}, c2 |-> {"l1", "l2"}]
MCTraffic == [c1 |-> 1, c2 |-> 2]

\* Three devices in two domains, linked to one another within and across them.
MCDomainOf == [d1 |-> "x", d2 |-> "x", d3 |-> "y"]
MCDeviceLinks == {<<"d1", "d2">>, <<"d2", "d1">>, <<"d2", "d3">>}

\* The devices from which a test is chosen.
MCDevicesOf == [x |-> {"d1", "d2"}, y |-> {"d3"}]

\* Two links, one of which two circuits cross.
MCCircuitsOf == [l1 |-> {"c1", "c2"}, l2 |-> {"c2"}]

\* Two domains with a port each.
MCPortsOf == [x |-> {"p1"}, y |-> {"p2"}]

\* A network with two ports, one of which is known, and its device.
MCNetOf == [p1 |-> "u1", p2 |-> "u1"]
MCKnown ==
    {[domain |-> TRUE, nets |-> {"u1"}, devs |-> {"n1"}, ports |-> [p1 |-> "n1"]]}
=============================================================================
