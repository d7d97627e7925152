------------------------------- MODULE MCNetUp -------------------------------
(* Instances of NetUp: a machine with two interfaces, one with a wireless  *)
(* one that has no link, and one where everything works.                   *)
EXTENDS NetUp

World(ifs, link, if, works, added) ==
  [ifs |-> ifs, link |-> link, if |-> if, net |-> "dhcp", works |-> works, added |-> added]

Two     == World(<<"wlan0", "eth0">>, {"eth0", "wlan0"}, "wired", FALSE, "ok")
NoLink  == World(<<"wlan0">>, {}, "none", FALSE, "ok")
AsCoded == [NoLink EXCEPT !.added = "error"]
Working == World(<<"wlan0", "eth0">>, {"eth0", "wlan0"}, "eth0", TRUE, "ok")

MCWorlds     == {Two, NoLink, AsCoded}
WorkingAsCoded == {[Working EXCEPT !.added = "error"]}
=============================================================================
