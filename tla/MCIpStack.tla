------------------------------ MODULE MCIpStack ------------------------------
(* The frames that come in during the run.  Hosts are "a", with which the    *)
(* streamer talks, and "b".                                                  *)
EXTENDS IpStack

Ip(src, mine, proto, port, length, size) ==
    [type |-> "ip", src |-> src, mine |-> mine, ok |-> TRUE, proto |-> proto, port |-> port,
     length |-> length, size |-> size, checksum |-> 63487]

Short    == Ip("a", TRUE, "udp", "tty", 1, 2)   \* with padding
Full     == Ip("a", FALSE, "udp", "tty", 2, 2)
Foreign  == Ip("b", TRUE, "udp", "tty", 1, 1)
NoBytes  == Ip("a", TRUE, "udp", "tty", 0, 1)
Cutoff   == Ip("b", FALSE, "udp", "app", 3, 2)  \* shorter than it says
Long     == Ip("b", TRUE, "udp", "app", 2, 3)
NoPort   == Ip("a", TRUE, "udp", "none", 1, 1)
NoProto  == Ip("a", TRUE, "none", "none", 1, 1)
NotMine  == [Full EXCEPT !.ok = FALSE]
PingA    == Ip("a", TRUE, "icmp", "none", 2, 2)
PingB    == [Ip("b", TRUE, "icmp", "none", 1, 2) EXCEPT !.checksum = 63488]
BigPing  == Ip("b", TRUE, "icmp", "none", 4, 4)
Reply(h) == [type |-> "arp", src |-> h, mine |-> TRUE, op |-> "reply"]
Request  == [type |-> "arp", src |-> "b", mine |-> FALSE, op |-> "request"]
Unknown  == [type |-> "none", mine |-> FALSE]

Kinds == {Short, Full, Foreign, NoBytes, Cutoff, Long, NoPort, NoProto, NotMine, PingA, PingB,
          BigPing, Reply("a"), Request, Unknown}

\* Each kind, and then one that shows what it left behind.
MCScripts == {<< f, Long >> : f \in Kinds} \cup {<< f, PingB >> : f \in {Full, Cutoff, PingA, NotMine}}
             \cup {<< f, Full >> : f \in {Short, NoBytes, Foreign, NotMine, Request}}
             \cup {<< PingA, PingB, Reply("a") >>, << PingB, PingB, Reply("b") >>}
=============================================================================
