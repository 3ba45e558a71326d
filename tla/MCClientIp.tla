------------------------------ MODULE MCClientIp ------------------------------
(***************************************************************************)
(* Bounds for checking ClientIp: an IPv4 client c, an IPv6 client d in a   *)
(* network with the proxy q, and an IPv4 proxy p.                          *)
(***************************************************************************)
EXTENDS ClientIp, TLC

Plain(h) == [host |-> h, mapped |-> FALSE]

Mapped(h) == [host |-> h, mapped |-> TRUE]

Bare(ip) == [kind |-> "address", ip |-> ip]

ProxyByAddress == Bare(Plain("p"))

SiteNetwork == [kind |-> "cidr", network |-> {Plain("d"), Plain("q")}]

AddressAndNetwork == {ProxyByAddress, SiteNetwork}

SomeEntries ==
  [kind : {"empty", "junk", "bytes"}] \cup {Named(Plain("c")), Named(Mapped("p")), Named(Plain("d"))}

\* No header, one line of one or two entries, two lines of one.
ShortHeaders ==
  {<<>>}
    \cup {<<<<e>>>> : e \in SomeEntries}
    \cup {<<<<e, f>>>> : e \in SomeEntries, f \in SomeEntries}
    \cup {<<<<e>>, <<f>>>> : e \in SomeEntries, f \in SomeEntries}
==============================================================================
