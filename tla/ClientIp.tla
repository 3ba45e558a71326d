------------------------------- MODULE ClientIp -------------------------------
(***************************************************************************)
(* Client identification (client_ip.rs): the middleware identify_client    *)
(* and the walk of TrustedProxies::client_ip through the X-Forwarded-For   *)
(* header.  The environment is a request that travels from a client over a *)
(* chain of proxies to the relay; each proxy adds the address it received  *)
(* the connection from.                                                    *)
(*                                                                         *)
(* An address is a host and the form it is written in: an IPv4 address may *)
(* also appear IPv4-mapped (::ffff:198.51.100.8).  A network is the set of *)
(* the addresses in it, in the form of its own family.  A header is a      *)
(* sequence of lines, a line a sequence of entries:                        *)
(*   "address"  an IP address                                              *)
(*   "empty"    nothing between two commas, or a line without any entry    *)
(*   "junk"     ASCII text that does not parse as an IP address            *)
(*   "bytes"    an entry with bytes that are not ASCII                     *)
(***************************************************************************)
EXTENDS Integers, Sequences

CONSTANTS
  Hosts,       \* the hosts that have an address
  IPv4Hosts,   \* those whose address is an IPv4 address
  Proxies,     \* the hosts that run a reverse proxy
  Arguments,   \* the values --trusted-proxy may be given
  OwnHeaders,  \* the headers a request may have when the client sends it
  MaxHops      \* bound on the number of proxies on the way

Addresses == {a \in [host : Hosts, mapped : BOOLEAN] : a.mapped => a.host \in IPv4Hosts}

AddressesOf(host) == {a \in Addresses : a.host = host}

Named(ip) == [kind |-> "address", ip |-> ip]

Entries == {Named(ip) : ip \in Addresses} \cup [kind : {"empty", "junk", "bytes"}]

Headers == Seq(Seq(Entries))

ASSUME ClientIpAssumption ==
  /\ IPv4Hosts \subseteq Hosts
  /\ Proxies \subseteq Hosts
  /\ \A v \in Arguments : v \in [kind : {"cidr"}, network : SUBSET Addresses]
                                  \cup [kind : {"address"}, ip : Addresses]
  /\ OwnHeaders \subseteq Headers
  /\ MaxHops \in Nat

VARIABLES
  trusted_proxies,    \* the networks of TrustedProxies
  route,              \* the addresses the request was sent from: client, proxies
  header,             \* its X-Forwarded-For lines
  pc,                 \* "waiting" for a request, "travelling", "walking", "answered"
  line, entry,        \* the walk: the line being read, its entries still to read
  leftmost_proxy_ip,  \* a set: empty for None
  result              \* what identify_client made of the request

walk_vars == <<line, entry, leftmost_proxy_ip>>
ip_vars == <<trusted_proxies, route, header, pc, line, entry, leftmost_proxy_ip, result>>

peer == route[Len(route)]

Bug_to_canonical_Unchanged(ip) == ip

to_canonical(ip) == [ip EXCEPT !.mapped = FALSE]

\* parse_network: a CIDR network, or the network of just one address.
parse_network(value) == IF value.kind = "cidr" THEN value.network ELSE {value.ip}

contains(ip) == \E network \in trusted_proxies : to_canonical(ip) \in network

\* HeaderValue::to_str succeeds: it looks at the whole line.
readable(l) == \A j \in DOMAIN l : l[j].kind # "bytes"

Identified(ip) == [status |-> "identified", ip |-> to_canonical(ip)]

BadRequest == [status |-> "bad_request"]

IpInit ==
  /\ \E values \in SUBSET Arguments :
       trusted_proxies = {parse_network(v) : v \in values}
  /\ route = <<>>
  /\ header = <<>>
  /\ pc = "waiting"
  /\ line = 0 /\ entry = 0
  /\ leftmost_proxy_ip = {}
  /\ result = [status |-> "none"]

(***************************************************************************)
(* The environment.                                                        *)
(***************************************************************************)
send ==
  /\ pc \in {"waiting", "answered"}
  /\ \E ip \in Addresses : route' = <<ip>>
  /\ header' \in OwnHeaders
  /\ pc' = "travelling"
  /\ line' = 0 /\ entry' = 0
  /\ leftmost_proxy_ip' = {}
  /\ result' = [status |-> "none"]
  /\ UNCHANGED trusted_proxies

\* A proxy appends to the last line or adds a line; the first one may also replace
\* the client's header.
extended(h, e) ==
  {Append(h, <<e>>)}
    \cup (IF Len(route) = 1 THEN {<<<<e>>>>} ELSE {})
    \cup (IF h # <<>> THEN {[h EXCEPT ![Len(h)] = Append(@, e)]} ELSE {})

forward ==
  /\ pc = "travelling"
  /\ Len(route) <= MaxHops
  /\ \E seen \in AddressesOf(peer.host) : header' \in extended(header, Named(seen))
  /\ \E p \in Proxies : \E ip \in AddressesOf(p) : route' = Append(route, ip)
  /\ UNCHANGED <<trusted_proxies, pc, walk_vars, result>>

(***************************************************************************)
(* The middleware.                                                         *)
(***************************************************************************)
Answer(res) ==
  /\ pc' = "answered"
  /\ result' = res
  /\ UNCHANGED <<trusted_proxies, route, header, walk_vars>>

Bug_identify_client_FirstLineOnly ==
  /\ pc = "travelling"
  /\ \/ ~contains(peer) /\ Answer(Identified(peer))
     \/ /\ contains(peer)
        /\ pc' = "walking"
        /\ line' = IF header = <<>> THEN 1 ELSE 2
        /\ UNCHANGED <<trusted_proxies, route, header, entry, leftmost_proxy_ip, result>>

\* The request arrives: the peer is the client unless it is a trusted proxy.
identify_client ==
  /\ pc = "travelling"
  /\ \/ ~contains(peer) /\ Answer(Identified(peer))
     \/ /\ contains(peer)
        /\ pc' = "walking"
        /\ line' = Len(header) + 1
        /\ UNCHANGED <<trusted_proxies, route, header, entry, leftmost_proxy_ip, result>>

\* The outer loop takes the next line to the left.
next_line ==
  /\ pc = "walking" /\ entry = 0 /\ line > 1
  /\ \/ ~readable(header[line - 1]) /\ Answer(BadRequest)
     \/ /\ readable(header[line - 1])
        /\ line' = line - 1
        /\ entry' = Len(header[line - 1])
        /\ UNCHANGED <<trusted_proxies, route, header, pc, leftmost_proxy_ip, result>>

\* The inner loop goes on with the entry to the left.
step_left(found) ==
  /\ entry' = entry - 1
  /\ leftmost_proxy_ip' = found
  /\ UNCHANGED <<trusted_proxies, route, header, pc, line, result>>

Bug_next_entry_RightmostProxy ==
  /\ pc = "walking" /\ entry > 0
  /\ LET e == header[line][entry]
     IN \/ e.kind = "empty" /\ step_left(leftmost_proxy_ip)
        \/ e.kind = "junk" /\ Answer(BadRequest)
        \/ e.kind = "address" /\ ~contains(e.ip) /\ Answer(Identified(e.ip))
        \/ /\ e.kind = "address" /\ contains(e.ip)
           /\ step_left(IF leftmost_proxy_ip = {} THEN {to_canonical(e.ip)}
                        ELSE leftmost_proxy_ip)

next_entry ==
  /\ pc = "walking" /\ entry > 0
  /\ LET e == header[line][entry]
     IN \/ e.kind = "empty" /\ step_left(leftmost_proxy_ip)
        \/ e.kind = "junk" /\ Answer(BadRequest)
        \/ e.kind = "address" /\ ~contains(e.ip) /\ Answer(Identified(e.ip))
        \/ e.kind = "address" /\ contains(e.ip) /\ step_left({to_canonical(e.ip)})

\* No line is left: every address was a trusted proxy's, or there was none.
end_of_header ==
  /\ pc = "walking" /\ entry = 0 /\ line = 1
  /\ \/ \E ip \in leftmost_proxy_ip : Answer(Identified(ip))
     \/ leftmost_proxy_ip = {} /\ Answer(BadRequest)

IpNext == send \/ forward \/ identify_client \/ next_line \/ next_entry \/ end_of_header

IpSpec == IpInit /\ [][IpNext]_ip_vars

(***************************************************************************)
(* Properties.                                                             *)
(***************************************************************************)

\* Type invariant; the walk stays inside the header, and whatever it finds is in
\* canonical form, so that a client has one address however it was found.
IpTypeOK ==
  /\ trusted_proxies \subseteq SUBSET Addresses
  /\ route \in Seq(Addresses)
  /\ header \in Headers
  /\ pc \in {"waiting", "travelling", "walking", "answered"}
  /\ pc # "waiting" => route # <<>>
  /\ line \in 0..(Len(header) + 1)
  /\ entry \in Nat
  /\ pc = "walking" => line > 0
  /\ entry > 0 => line \in DOMAIN header /\ entry <= Len(header[line])
  /\ leftmost_proxy_ip \subseteq {a \in Addresses : ~a.mapped}
  /\ result \in [status : {"none", "bad_request"}]
                  \cup [status : {"identified"}, ip : {a \in Addresses : ~a.mapped}]

\* Where the entries of the header are, and which are right of which.
Places == UNION {{i} \X DOMAIN header[i] : i \in DOMAIN header}

RightOf(q, r) == q[1] > r[1] \/ (q[1] = r[1] /\ q[2] > r[2])

At(q) == header[q[1]][q[2]]

\* An entry at which the search ends: the client, or nothing one could skip.
Stops(q) ==
  \/ ~readable(header[q[1]])
  \/ At(q).kind = "junk"
  \/ At(q).kind = "address" /\ ~contains(At(q).ip)

Verdict(q) ==
  IF readable(header[q[1]]) /\ At(q).kind = "address" THEN Identified(At(q).ip) ELSE BadRequest

AddressPlaces == {q \in Places : At(q).kind = "address"}

\* For a trusted peer the answer is "the rightmost entry in X-Forwarded-For that
\* isn't itself a trusted proxy.  If every entry is a trusted proxy, the leftmost
\* entry is the client", and an error if what stops the search is no address, or
\* if there are no entries: never the proxy's own address.
WalkFindsClient ==
  pc = "answered" /\ contains(peer) =>
    \/ \E q \in Places :
         /\ Stops(q)
         /\ \A r \in Places : RightOf(r, q) => ~Stops(r)
         /\ result = Verdict(q)
    \/ /\ \A q \in Places : ~Stops(q)
       /\ \/ \E q \in AddressPlaces :
               /\ \A r \in AddressPlaces : r = q \/ RightOf(r, q)
               /\ result = Identified(At(q).ip)
          \/ AddressPlaces = {} /\ result = BadRequest

\* The hosts on the way that are in none of the networks, in whatever form.
Untrusted ==
  {i \in DOMAIN route :
     \A network \in trusted_proxies : \A ip \in network : ip.host # route[i].host}

\* The request is attributed to the host closest to the relay that is not a trusted
\* proxy, in the same form whether the proxies wrote it as IPv4 or IPv4-mapped,
\* whatever header the client sent; only a line that cannot be read is refused.
NearestUntrustedIdentified ==
  pc = "answered" =>
    \A i \in Untrusted :
      (\A j \in Untrusted : j <= i) =>
        \/ result = Identified(route[i])
        \/ result = BadRequest /\ \E l \in DOMAIN header : ~readable(header[l])
==============================================================================
