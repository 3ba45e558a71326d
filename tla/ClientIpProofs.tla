---------------------------- MODULE ClientIpProofs ----------------------------
(***************************************************************************)
(* Proofs about the identification of the client: its types, that the walk *)
(* through the header finds what the search is meant to find, and that     *)
(* this is the nearest host on the way that is not a trusted proxy.        *)
(***************************************************************************)
EXTENDS ClientIp, SequenceTheorems, TLAPS

\* The walk has read the entry at q.
Passed(q) == q[1] > line \/ (q[1] = line /\ q[2] > entry)

\* Nothing the walk has passed ends the search, and leftmost_proxy_ip is the leftmost
\* address among it.
Searched ==
  /\ line \in DOMAIN header => readable(header[line])
  /\ \A q \in Places : Passed(q) => ~Stops(q)
  /\ \/ leftmost_proxy_ip = {} /\ \A q \in AddressPlaces : ~Passed(q)
     \/ \E q \in AddressPlaces :
          /\ Passed(q)
          /\ leftmost_proxy_ip = {to_canonical(At(q).ip)}
          /\ \A r \in AddressPlaces : Passed(r) => r = q \/ RightOf(r, q)

\* The rightmost places of the header name the hosts the request came through, but for
\* the peer, and in this order: place[k] is where the k-th of them is named.
Traced ==
  \E place \in [1..(Len(route) - 1) -> Places] : \A k \in 1..(Len(route) - 1) :
    /\ At(place[k]).kind = "address"
    /\ At(place[k]).ip.host = route[k].host
    /\ \A q \in Places :
         RightOf(q, place[k]) => \E j \in (k + 1)..(Len(route) - 1) : q = place[j]

Walk ==
  /\ pc \in {"waiting", "travelling"} => line = 0 /\ entry = 0 /\ leftmost_proxy_ip = {}
  /\ pc = "walking" => contains(peer) /\ Searched
  /\ pc = "answered" /\ ~contains(peer) => result = Identified(peer)

IpInv ==
  /\ IpTypeOK
  /\ trusted_proxies \subseteq {parse_network(v) : v \in Arguments}
  /\ Walk
  /\ WalkFindsClient
  /\ pc # "waiting" => Traced

(***************************************************************************)
(* Headers, places and addresses.                                          *)
(***************************************************************************)

\* A header is a sequence of lines, a line a sequence of entries.
LEMMA HeaderShape ==
  ASSUME NEW h \in Headers
  PROVE  /\ Len(h) \in Nat /\ DOMAIN h = 1..Len(h)
         /\ \A l \in 1..Len(h) :
              /\ h[l] \in Seq(Entries)
              /\ Len(h[l]) \in Nat /\ DOMAIN h[l] = 1..Len(h[l])
              /\ \A j \in 1..Len(h[l]) : h[l][j] \in Entries
  BY DEF Headers

\* A place is a pair of a line and an entry of it.
LEMMA PlaceShapeOf ==
  ASSUME NEW h \in Headers, NEW places, places = UNION {{i} \X DOMAIN h[i] : i \in DOMAIN h}
  PROVE  /\ \A q \in places : /\ q = <<q[1], q[2]>>
                             /\ q[1] \in 1..Len(h) /\ q[2] \in 1..Len(h[q[1]])
                             /\ q[1] \in Int /\ q[2] \in Int
                             /\ h[q[1]][q[2]] \in Entries
         /\ \A l \in 1..Len(h) : \A j \in 1..Len(h[l]) : <<l, j>> \in places
<1>1. /\ Len(h) \in Nat /\ DOMAIN h = 1..Len(h)
      /\ \A l \in 1..Len(h) : /\ Len(h[l]) \in Nat /\ DOMAIN h[l] = 1..Len(h[l])
                             /\ \A j \in 1..Len(h[l]) : h[l][j] \in Entries
  BY HeaderShape
<1>2. ASSUME NEW q \in places
      PROVE  /\ q = <<q[1], q[2]>>
             /\ q[1] \in 1..Len(h) /\ q[2] \in 1..Len(h[q[1]])
             /\ q[1] \in Int /\ q[2] \in Int
             /\ h[q[1]][q[2]] \in Entries
  <2>1. PICK l \in 1..Len(h) : q \in {l} \X (1..Len(h[l]))
    BY <1>1
  <2>2. q = <<q[1], q[2]>> /\ q[1] = l /\ q[2] \in 1..Len(h[l])
    BY <2>1
  <2> QED
    BY <1>1, <2>2
<1>3. ASSUME NEW l \in 1..Len(h), NEW j \in 1..Len(h[l])
      PROVE  <<l, j>> \in places
  BY <1>1
<1> QED
  BY <1>2, <1>3

\* The same of the header as it is.
LEMMA PlaceShape ==
  ASSUME header \in Headers
  PROVE  /\ \A q \in Places : /\ q = <<q[1], q[2]>>
                             /\ q[1] \in 1..Len(header) /\ q[2] \in 1..Len(header[q[1]])
                             /\ q[1] \in Int /\ q[2] \in Int
                             /\ At(q) \in Entries
         /\ \A l \in 1..Len(header) : \A j \in 1..Len(header[l]) : <<l, j>> \in Places
  BY PlaceShapeOf DEF Places, At

\* Of two places one is right of the other, and never both.
LEMMA PlacesInOrder ==
  ASSUME header \in Headers, NEW q \in Places, NEW r \in Places
  PROVE  /\ q = r \/ RightOf(q, r) \/ RightOf(r, q)
         /\ ~(RightOf(q, r) /\ RightOf(r, q)) /\ ~RightOf(q, q)
  BY PlaceShape DEF RightOf

\* An entry that is an address has one; its canonical form is an address too, and says
\* no more than its host.
LEMMA AddressTypes ==
  /\ \A e \in Entries : /\ e.kind = "address" => e.ip \in Addresses
                        /\ e.kind \in {"address", "empty", "junk", "bytes"}
  /\ \A a \in Addresses : /\ to_canonical(a) \in {b \in Addresses : ~b.mapped}
                          /\ to_canonical(a).host = a.host
  /\ \A a, b \in Addresses : a.host = b.host => to_canonical(a) = to_canonical(b)
<1>1. \A e \in Entries : /\ e.kind = "address" => e.ip \in Addresses
                         /\ e.kind \in {"address", "empty", "junk", "bytes"}
  BY DEF Entries, Named
<1>2. ASSUME NEW a \in Addresses
      PROVE  /\ to_canonical(a) \in {b \in Addresses : ~b.mapped}
             /\ to_canonical(a).host = a.host
  BY DEF Addresses, to_canonical
<1>3. ASSUME NEW a \in Addresses, NEW b \in Addresses, a.host = b.host
      PROVE  to_canonical(a) = to_canonical(b)
  BY <1>2, <1>3 DEF Addresses
<1> QED
  BY <1>1, <1>2, <1>3

\* What a request is answered with.
LEMMA AnswerTypes ==
  /\ BadRequest \in [status : {"none", "bad_request"}]
  /\ \A a \in Addresses :
       Identified(a) \in [status : {"identified"}, ip : {b \in Addresses : ~b.mapped}]
  BY AddressTypes DEF BadRequest, Identified

(***************************************************************************)
(* The invariant is inductive: the request on its way.                     *)
(***************************************************************************)

\* No request has been sent when the relay starts.
LEMMA IpInitInv ==
  IpInit => IpInv
<1> SUFFICES ASSUME IpInit
             PROVE  IpInv
  OBVIOUS
<1>1. trusted_proxies \subseteq {parse_network(v) : v \in Arguments}
  BY DEF IpInit
<1>2. trusted_proxies \subseteq SUBSET Addresses
  BY <1>1, ClientIpAssumption DEF parse_network
<1>3. header = <<>> /\ header \in Headers /\ Len(header) = 0
  BY DEF IpInit, Headers
<1>4. IpTypeOK
  BY <1>2, <1>3 DEF IpInit, IpTypeOK
<1> QED
  BY <1>1, <1>4 DEF IpInit, IpInv, Walk, WalkFindsClient

\* A client sends a request: the header names no proxy yet, and no proxy has to be named.
LEMMA SendInv ==
  ASSUME IpInv, send
  PROVE  IpInv'
<1>1. /\ trusted_proxies' = trusted_proxies
      /\ header' \in Headers /\ Len(header') \in Nat
      /\ pc' = "travelling" /\ line' = 0 /\ entry' = 0
      /\ leftmost_proxy_ip' = {} /\ result' = [status |-> "none"]
  BY ClientIpAssumption, HeaderShape DEF send
<1>2. PICK ip \in Addresses : route' = <<ip>>
  BY DEF send
<1>3. route' \in Seq(Addresses) /\ route' # <<>> /\ Len(route') = 1
  BY <1>2
<1>4. IpTypeOK'
  BY <1>1, <1>3 DEF IpInv, IpTypeOK
<1>5. Traced'
  <2>1. \A k \in 1..(Len(route') - 1) : FALSE
    BY <1>3
  <2>2. [x \in {} |-> x] \in [1..(Len(route') - 1) -> Places']
    BY <2>1
  <2> QED
    BY <2>1, <2>2 DEF Traced
<1> QED
  BY <1>1, <1>4, <1>5 DEF IpInv, Walk, WalkFindsClient

\* What a proxy does to the header adds one place, right of all others; the others stay,
\* unless the proxy is the first one and replaces the header.
LEMMA ExtendedLines ==
  ASSUME header \in Headers, NEW e \in Entries, header' \in extended(header, e)
  PROVE  /\ header' \in Headers
         /\ \E L, M \in Nat \ {0} :
              /\ Len(header') = L /\ Len(header'[L]) = M /\ header'[L][M] = e
              /\ Len(route) # 1 =>
                   /\ \A l \in 1..L : \A j \in 1..Len(header'[l]) :
                        \/ l = L /\ j = M
                        \/ /\ l \in 1..Len(header) /\ j \in 1..Len(header[l])
                           /\ header'[l][j] = header[l][j]
                   /\ \A l \in 1..Len(header) : \A j \in 1..Len(header[l]) :
                        /\ l \in 1..L /\ j \in 1..Len(header'[l])
                        /\ ~(l = L /\ j = M)
<1>1. /\ Len(header) \in Nat
      /\ \A l \in 1..Len(header) : header[l] \in Seq(Entries) /\ Len(header[l]) \in Nat
  BY HeaderShape
<1>2. CASE header' = Append(header, <<e>>)
  <2>1. <<e>> \in Seq(Entries) /\ Len(<<e>>) = 1 /\ <<e>>[1] = e
    OBVIOUS
  <2>2. /\ header' \in Headers /\ Len(header') = Len(header) + 1
        /\ header'[Len(header) + 1] = <<e>>
        /\ \A l \in 1..Len(header) : header'[l] = header[l]
    BY <1>2, <2>1, AppendProperties DEF Headers
  <2>3. /\ Len(header'[Len(header) + 1]) = 1 /\ header'[Len(header) + 1][1] = e
    BY <2>1, <2>2
  <2>4. ASSUME NEW l \in 1..(Len(header) + 1), NEW j \in 1..Len(header'[l])
        PROVE  \/ l = Len(header) + 1 /\ j = 1
               \/ /\ l \in 1..Len(header) /\ j \in 1..Len(header[l])
                  /\ header'[l][j] = header[l][j]
    BY <1>1, <2>2, <2>3
  <2>5. ASSUME NEW l \in 1..Len(header), NEW j \in 1..Len(header[l])
        PROVE  /\ l \in 1..(Len(header) + 1) /\ j \in 1..Len(header'[l])
               /\ ~(l = Len(header) + 1 /\ j = 1)
    BY <1>1, <2>2
  <2>6. Len(header) + 1 \in Nat \ {0} /\ 1 \in Nat \ {0}
    BY <1>1
  <2> QED
    BY <2>2, <2>3, <2>4, <2>5, <2>6
<1>3. CASE Len(route) = 1 /\ header' = <<<<e>>>>
  <2>1. <<e>> \in Seq(Entries) /\ Len(<<e>>) = 1 /\ <<e>>[1] = e
    OBVIOUS
  <2>2. header' \in Headers /\ Len(header') = 1 /\ header'[1] = <<e>>
    BY <1>3, <2>1 DEF Headers
  <2>3. Len(header'[1]) = 1 /\ header'[1][1] = e /\ 1 \in Nat \ {0}
    BY <2>1, <2>2
  <2> QED
    BY <1>3, <2>2, <2>3
<1>4. CASE header # <<>> /\ header' = [header EXCEPT ![Len(header)] = Append(@, e)]
  <2>1. Len(header) \in 1..Len(header)
    BY <1>1, <1>4 DEF Headers
  <2> DEFINE L == Len(header)
             M == Len(header[L]) + 1
  <2>2. header'  = [header EXCEPT ![L] = Append(header[L], e)]
    BY <1>4
  <2>3. /\ Append(header[L], e) \in Seq(Entries)
        /\ Len(Append(header[L], e)) = M /\ Append(header[L], e)[M] = e
        /\ \A j \in 1..Len(header[L]) : Append(header[L], e)[j] = header[L][j]
    BY <1>1, <2>1, AppendProperties
  <2>4. /\ header' \in Headers /\ Len(header') = L
        /\ header'[L] = Append(header[L], e)
        /\ \A l \in 1..L : l # L => header'[l] = header[l]
    BY <2>1, <2>2, <2>3, ExceptSeq DEF Headers
  <2>5. Len(header'[L]) = M /\ header'[L][M] = e
    BY <2>3, <2>4
  <2>6. ASSUME NEW l \in 1..L, NEW j \in 1..Len(header'[l])
        PROVE  \/ l = L /\ j = M
               \/ /\ l \in 1..Len(header) /\ j \in 1..Len(header[l])
                  /\ header'[l][j] = header[l][j]
    <3>1. CASE l = L
      <4>1. j \in 1..M
        BY <2>5, <3>1
      <4>2. j = M \/ j \in 1..Len(header[L])
        BY <1>1, <2>1, <4>1
      <4>3. CASE j \in 1..Len(header[L])
        BY <2>1, <2>3, <2>4, <3>1, <4>3
      <4> QED
        BY <3>1, <4>2, <4>3
    <3>2. CASE l # L
      BY <2>4, <2>6, <3>2
    <3> QED
      BY <3>1, <3>2
  <2>7. ASSUME NEW l \in 1..L, NEW j \in 1..Len(header[l])
        PROVE  j \in 1..Len(header'[l]) /\ ~(l = L /\ j = M)
    BY <1>1, <2>3, <2>4, <2>5
  <2>8. L \in Nat \ {0} /\ M \in Nat \ {0}
    BY <1>1, <2>1
  <2> HIDE DEF M
  <2> QED
    BY <2>4, <2>5, <2>6, <2>7, <2>8
<1> QED
  BY <1>2, <1>3, <1>4 DEF extended

\* The same in terms of places.
LEMMA ExtendedPlaces ==
  ASSUME header \in Headers, NEW e \in Entries, header' \in extended(header, e)
  PROVE  \E p \in Places' :
           /\ header'[p[1]][p[2]] = e
           /\ \A q \in Places' : q = p \/ RightOf(p, q)
           /\ Len(route) # 1 =>
                /\ Places \subseteq Places' \ {p}
                /\ \A q \in Places' \ {p} :
                     q \in Places /\ header'[q[1]][q[2]] = header[q[1]][q[2]]
<1>1. PICK L, M \in Nat \ {0} :
        /\ Len(header') = L /\ Len(header'[L]) = M /\ header'[L][M] = e
        /\ Len(route) # 1 =>
             /\ \A l \in 1..L : \A j \in 1..Len(header'[l]) :
                  \/ l = L /\ j = M
                  \/ /\ l \in 1..Len(header) /\ j \in 1..Len(header[l])
                     /\ header'[l][j] = header[l][j]
             /\ \A l \in 1..Len(header) : \A j \in 1..Len(header[l]) :
                  /\ l \in 1..L /\ j \in 1..Len(header'[l])
                  /\ ~(l = L /\ j = M)
  BY ExtendedLines
<1>2. /\ \A q \in Places' : /\ q = <<q[1], q[2]>>
                            /\ q[1] \in 1..L /\ q[2] \in 1..Len(header'[q[1]])
                            /\ q[1] \in Int /\ q[2] \in Int
      /\ \A l \in 1..L : \A j \in 1..Len(header'[l]) : <<l, j>> \in Places'
  <2>1. header' \in Headers
    BY ExtendedLines
  <2>2. /\ \A q \in Places' : /\ q = <<q[1], q[2]>>
                              /\ q[1] \in 1..Len(header') /\ q[2] \in 1..Len(header'[q[1]])
                              /\ q[1] \in Int /\ q[2] \in Int
        /\ \A l \in 1..Len(header') : \A j \in 1..Len(header'[l]) : <<l, j>> \in Places'
    BY <2>1, PlaceShapeOf DEF Places
  <2> QED
    BY <1>1, <2>2
<1>3. <<L, M>> \in Places'
  BY <1>1, <1>2
<1>4. header'[<<L, M>>[1]][<<L, M>>[2]] = e
  BY <1>1
<1>5. ASSUME NEW q \in Places'
      PROVE  q = <<L, M>> \/ RightOf(<<L, M>>, q)
  BY <1>1, <1>2 DEF RightOf
<1>6. ASSUME Len(route) # 1, NEW q \in Places
      PROVE  q \in Places' \ {<<L, M>>}
  <2>1. q = <<q[1], q[2]>> /\ q[1] \in 1..Len(header) /\ q[2] \in 1..Len(header[q[1]])
    BY PlaceShape
  <2>2. q[1] \in 1..L /\ q[2] \in 1..Len(header'[q[1]]) /\ ~(q[1] = L /\ q[2] = M)
    BY <1>1, <1>6, <2>1
  <2>3. <<q[1], q[2]>> \in Places' /\ <<q[1], q[2]>> # <<L, M>>
    BY <1>2, <2>2
  <2> QED
    BY <2>1, <2>3
<1>7. ASSUME Len(route) # 1, NEW q \in Places' \ {<<L, M>>}
      PROVE  q \in Places /\ header'[q[1]][q[2]] = header[q[1]][q[2]]
  <2>1. q = <<q[1], q[2]>> /\ q[1] \in 1..L /\ q[2] \in 1..Len(header'[q[1]])
    BY <1>2
  <2>2. ~(q[1] = L /\ q[2] = M)
    BY <2>1, <1>7
  <2>3. /\ q[1] \in 1..Len(header) /\ q[2] \in 1..Len(header[q[1]])
        /\ header'[q[1]][q[2]] = header[q[1]][q[2]]
    BY <1>1, <1>7, <2>1, <2>2
  <2>4. <<q[1], q[2]>> \in Places
    BY PlaceShape, <2>3
  <2> QED
    BY <2>1, <2>3, <2>4
<1> QED
  BY <1>3, <1>4, <1>5, <1>6, <1>7

\* A proxy passes the request on: its peer is the next host the header names.
LEMMA ForwardTraced ==
  ASSUME IpInv, forward
  PROVE  Traced'
<1> DEFINE n == Len(route)
<1>1. /\ header \in Headers /\ route \in Seq(Addresses) /\ route # <<>> /\ n \in Nat \ {0}
      /\ Traced
  BY DEF IpInv, IpTypeOK, forward
<1>2. PICK seen \in AddressesOf(peer.host) : header' \in extended(header, Named(seen))
  BY DEF forward
<1>3. Named(seen) \in Entries /\ Named(seen).kind = "address" /\ Named(seen).ip = seen
  BY <1>2 DEF AddressesOf, Entries, Named
<1>4. seen.host = route[n].host
  BY <1>2 DEF AddressesOf, peer
<1>5. PICK ip \in Addresses : route' = Append(route, ip)
  BY DEF forward, AddressesOf
<1>6. Len(route') - 1 = n /\ \A k \in 1..n : route'[k] = route[k]
  BY <1>1, <1>5
<1>7. PICK p \in Places' :
        /\ header'[p[1]][p[2]] = Named(seen)
        /\ \A q \in Places' : q = p \/ RightOf(p, q)
        /\ n # 1 =>
             /\ Places \subseteq Places' \ {p}
             /\ \A q \in Places' \ {p} :
                  q \in Places /\ header'[q[1]][q[2]] = header[q[1]][q[2]]
  BY <1>1, <1>2, <1>3, ExtendedPlaces
<1>8. PICK place \in [1..(n - 1) -> Places] :
        \A k \in 1..(n - 1) :
          /\ At(place[k]).kind = "address"
          /\ At(place[k]).ip.host = route[k].host
          /\ \A q \in Places :
               RightOf(q, place[k]) => \E j \in (k + 1)..(n - 1) : q = place[j]
  BY <1>1 DEF Traced
<1> DEFINE next == [k \in 1..n |-> IF k = n THEN p ELSE place[k]]
<1>9. next \in [1..n -> Places']
  BY <1>1, <1>7, <1>8
<1>10. ASSUME NEW k \in 1..n
       PROVE  /\ header'[next[k][1]][next[k][2]].kind = "address"
              /\ header'[next[k][1]][next[k][2]].ip.host = route[k].host
              /\ \A q \in Places' : RightOf(q, next[k]) => \E j \in (k + 1)..n : q = next[j]
  <2>1. CASE k = n
    <3>1. next[k] = p
      BY <2>1
    <3>2. ASSUME NEW q \in Places', RightOf(q, p)
          PROVE  FALSE
      <4>1. header' \in Headers
        BY <1>1, <1>2, <1>3, ExtendedLines
      <4>2. q[1] \in Int /\ q[2] \in Int /\ p[1] \in Int /\ p[2] \in Int
        BY <4>1, PlaceShapeOf DEF Places
      <4> QED
        BY <1>7, <3>2, <4>2 DEF RightOf
    <3> QED
      BY <1>3, <1>4, <1>7, <2>1, <3>1, <3>2
  <2>2. CASE k # n
    <3>1. k \in 1..(n - 1) /\ n # 1 /\ next[k] = place[k] /\ place[k] \in Places
      BY <1>1, <1>8, <2>2
    <3>2. header'[place[k][1]][place[k][2]] = At(place[k])
      BY <1>7, <3>1 DEF At
    <3>3. ASSUME NEW q \in Places', RightOf(q, place[k])
          PROVE  \E j \in (k + 1)..n : q = next[j]
      <4>1. CASE q = p
        BY <1>1, <3>1, <4>1
      <4>2. CASE q # p
        <5>1. PICK j \in (k + 1)..(n - 1) : q = place[j]
          BY <1>7, <1>8, <3>1, <3>3, <4>2
        <5>2. j \in (k + 1)..n /\ j \in 1..n /\ j # n
          BY <1>1, <3>1
        <5> QED
          BY <5>1, <5>2
      <4> QED
        BY <4>1, <4>2
    <3> QED
      BY <1>8, <3>1, <3>2, <3>3
  <2> QED
    BY <2>1, <2>2
<1> HIDE DEF next
<1>11. next \in [1..(Len(route') - 1) -> Places']
  BY <1>6, <1>9
<1>12. \A k \in 1..(Len(route') - 1) :
         /\ header'[next[k][1]][next[k][2]].kind = "address"
         /\ header'[next[k][1]][next[k][2]].ip.host = route'[k].host
         /\ \A q \in Places' :
              RightOf(q, next[k]) => \E j \in (k + 1)..(Len(route') - 1) : q = next[j]
  <2> TAKE k \in 1..(Len(route') - 1)
  <2>1. Len(route') - 1 = n
    BY <1>6
  <2>2. k \in 1..n
    BY <2>1, Zenon
  <2>3. route'[k] = route[k]
    BY <1>6, <2>2
  <2> HIDE DEF n
  <2>4. /\ header'[next[k][1]][next[k][2]].kind = "address"
        /\ header'[next[k][1]][next[k][2]].ip.host = route[k].host
        /\ \A q \in Places' : RightOf(q, next[k]) => \E j \in (k + 1)..n : q = next[j]
    BY <1>10, <2>2, Zenon
  <2> QED
    BY <2>1, <2>3, <2>4, Zenon
<1> QED
  BY <1>11, <1>12, Zenon DEF Traced, At

LEMMA ForwardInv ==
  ASSUME IpInv, forward
  PROVE  IpInv'
<1>1. /\ trusted_proxies' = trusted_proxies /\ pc' = "travelling"
      /\ line' = 0 /\ entry' = 0 /\ leftmost_proxy_ip' = {} /\ result' = result
  BY DEF IpInv, Walk, forward, walk_vars
<1>2. PICK seen \in AddressesOf(peer.host) : header' \in extended(header, Named(seen))
  BY DEF forward
<1>3. Named(seen) \in Entries
  BY DEF AddressesOf, Entries, Named
<1>4. header' \in Headers /\ Len(header') \in Nat
  BY <1>2, <1>3, ExtendedLines, HeaderShape DEF IpInv, IpTypeOK
<1>5. PICK ip \in Addresses : route' = Append(route, ip)
  BY DEF forward, AddressesOf
<1>6. route' \in Seq(Addresses) /\ route' # <<>>
  BY <1>5, AppendProperties DEF IpInv, IpTypeOK
<1>7. IpTypeOK'
  BY <1>1, <1>4, <1>6 DEF IpInv, IpTypeOK
<1> QED
  BY <1>1, <1>7, ForwardTraced DEF IpInv, Walk, WalkFindsClient

(***************************************************************************)
(* The walk.                                                               *)
(***************************************************************************)

\* What WalkFindsClient says of an answer.
Finds(res) ==
  \/ \E q \in Places :
       /\ Stops(q)
       /\ \A r \in Places : RightOf(r, q) => ~Stops(r)
       /\ res = Verdict(q)
  \/ /\ \A q \in Places : ~Stops(q)
     /\ \/ \E q \in AddressPlaces :
             /\ \A r \in AddressPlaces : r = q \/ RightOf(r, q)
             /\ res = Identified(At(q).ip)
        \/ AddressPlaces = {} /\ res = BadRequest

\* The middleware changes neither the request nor the networks.
LEMMA RequestStays ==
  ASSUME header' = header, route' = route, trusted_proxies' = trusted_proxies
  PROVE  /\ Places' = Places /\ AddressPlaces' = AddressPlaces
         /\ peer' = peer
         /\ \A ip : contains(ip)' <=> contains(ip)
         /\ \A q : /\ At(q)' = At(q) /\ Verdict(q)' = Verdict(q)
                   /\ Stops(q)' <=> Stops(q)
         /\ Traced' <=> Traced
<1>1. Places' = Places /\ peer' = peer
  BY DEF Places, peer
<1>2. \A ip : contains(ip)' <=> contains(ip)
  BY DEF contains
<1>3. \A q : At(q)' = At(q)
  BY DEF At
<1>4. AddressPlaces' = AddressPlaces
  BY <1>1, <1>3 DEF AddressPlaces
<1>5. ASSUME NEW q
      PROVE  Verdict(q)' = Verdict(q) /\ (Stops(q)' <=> Stops(q))
  BY <1>2, <1>3 DEF Verdict, Stops
<1>6. Traced' <=> Traced
  BY <1>1, <1>3 DEF Traced
<1> QED
  BY <1>1, <1>2, <1>3, <1>4, <1>5, <1>6

\* An answer is right if it is the peer of a request no proxy sent, and else finds the
\* client in the header.
LEMMA AnswerInv ==
  ASSUME IpInv, pc # "waiting", NEW res, Answer(res),
         \/ res = BadRequest
         \/ \E ip \in Addresses : res = Identified(ip),
         ~contains(peer) => res = Identified(peer),
         contains(peer) => Finds(res)
  PROVE  IpInv'
<1>1. /\ header' = header /\ route' = route /\ trusted_proxies' = trusted_proxies
      /\ pc' = "answered" /\ result' = res
      /\ line' = line /\ entry' = entry /\ leftmost_proxy_ip' = leftmost_proxy_ip
  BY DEF Answer, walk_vars
<1>2. res \in [status : {"none", "bad_request"}]
                \cup [status : {"identified"}, ip : {b \in Addresses : ~b.mapped}]
  BY AnswerTypes
<1>3. IpTypeOK'
  BY <1>1, <1>2 DEF IpInv, IpTypeOK
<1>4. Traced' /\ trusted_proxies' \subseteq {parse_network(v) : v \in Arguments}
  BY <1>1, RequestStays DEF IpInv
<1>5. Walk'
  BY <1>1, RequestStays DEF Walk, Identified, to_canonical
<1>6. WalkFindsClient'
  <2>1. contains(peer)' => contains(peer)
    BY <1>1, RequestStays
  <2>2. CASE ~contains(peer)
    BY <2>1, <2>2 DEF WalkFindsClient
  <2>3. CASE Finds(res)
    BY <1>1, <2>3, RequestStays DEF Finds, WalkFindsClient, Identified, to_canonical, BadRequest
  <2> QED
    BY <2>2, <2>3
<1> QED
  BY <1>3, <1>4, <1>5, <1>6 DEF IpInv

\* The peer of a request has an address.
LEMMA PeerType ==
  ASSUME IpInv, pc # "waiting"
  PROVE  peer \in Addresses
<1>1. route \in Seq(Addresses) /\ route # <<>>
  BY DEF IpInv, IpTypeOK
<1>2. Len(route) \in 1..Len(route)
  BY <1>1
<1> QED
  BY <1>1, <1>2, ElementOfSeq DEF peer

LEMMA IdentifyInv ==
  ASSUME IpInv, identify_client
  PROVE  IpInv'
<1>1. pc = "travelling"
  BY DEF identify_client
<1>2. CASE ~contains(peer) /\ Answer(Identified(peer))
  BY <1>1, <1>2, PeerType, AnswerInv
<1>3. CASE /\ contains(peer)
           /\ pc' = "walking"
           /\ line' = Len(header) + 1
           /\ UNCHANGED <<trusted_proxies, route, header, entry, leftmost_proxy_ip, result>>
  <2>1. /\ header' = header /\ route' = route /\ trusted_proxies' = trusted_proxies
        /\ result' = result /\ header \in Headers /\ Len(header) \in Nat
        /\ line' = Len(header) + 1 /\ entry' = 0 /\ leftmost_proxy_ip' = {}
    BY <1>1, <1>3, HeaderShape DEF IpInv, IpTypeOK, Walk
  <2>2. IpTypeOK'
    BY <1>1, <1>3, <2>1 DEF IpInv, IpTypeOK
  <2>3. \A q \in Places : ~(Passed(q)')
    BY <2>1, PlaceShape DEF Passed
  <2>4. ~(line' \in DOMAIN header')
    BY <2>1, HeaderShape
  <2>5. Searched'
    BY <2>1, <2>3, <2>4, RequestStays DEF Searched, AddressPlaces
  <2>6. Traced' /\ contains(peer)'
    BY <1>1, <1>3, <2>1, RequestStays DEF IpInv
  <2> QED
    BY <1>3, <2>1, <2>2, <2>5, <2>6 DEF IpInv, Walk, WalkFindsClient
<1> QED
  BY <1>2, <1>3 DEF identify_client

\* A step of the walk that goes on keeps the invariant if it keeps what was searched.
LEMMA WalkOnInv ==
  ASSUME IpInv, pc = "walking", pc' = "walking", IpTypeOK', Searched',
         UNCHANGED <<trusted_proxies, route, header, result>>
  PROVE  IpInv'
<1>1. header' = header /\ route' = route /\ trusted_proxies' = trusted_proxies
  OBVIOUS
<1>2. Traced' /\ contains(peer)'
  BY <1>1, RequestStays DEF IpInv, Walk
<1> QED
  BY <1>1, <1>2 DEF IpInv, Walk, WalkFindsClient

\* The walk takes the next line: an unreadable one ends the search at its last entry,
\* since the places right of that have all been passed.
LEMMA NextLineInv ==
  ASSUME IpInv, next_line
  PROVE  IpInv'
<1> DEFINE l == line - 1
<1>1. /\ pc = "walking" /\ entry = 0 /\ contains(peer) /\ Searched
      /\ header \in Headers /\ Len(header) \in Nat
      /\ line \in Int /\ l \in 1..Len(header)
  BY HeaderShape DEF next_line, IpInv, IpTypeOK, Walk
<1>2. Len(header[l]) \in Nat /\ DOMAIN header[l] = 1..Len(header[l])
  BY <1>1, HeaderShape
<1>3. CASE ~readable(header[l]) /\ Answer(BadRequest)
  <2> DEFINE q == <<l, Len(header[l])>>
  <2>1. Len(header[l]) \in 1..Len(header[l])
    BY <1>2, <1>3 DEF readable
  <2>2. q \in Places
    BY <1>1, <2>1, PlaceShape
  <2>3. Stops(q) /\ Verdict(q) = BadRequest
    BY <1>3 DEF Stops, Verdict
  <2>4. ASSUME NEW r \in Places, RightOf(r, q)
        PROVE  ~Stops(r)
    <3>1. /\ r[1] \in 1..Len(header) /\ r[2] \in 1..Len(header[r[1]])
          /\ r[1] \in Int /\ r[2] \in Int
      BY <1>1, PlaceShape
    <3>2. r[1] > l
      BY <1>1, <1>2, <2>4, <3>1 DEF RightOf
    <3>3. Passed(r)
      BY <1>1, <3>1, <3>2, HeaderShape DEF Passed
    <3> QED
      BY <1>1, <3>3 DEF Searched
  <2>5. Finds(BadRequest)
    BY <2>2, <2>3, <2>4 DEF Finds
  <2> QED
    BY <1>1, <1>3, <2>5, AnswerInv
<1>4. CASE /\ readable(header[l])
           /\ line' = l
           /\ entry' = Len(header[l])
           /\ UNCHANGED <<trusted_proxies, route, header, pc, leftmost_proxy_ip, result>>
  <2>1. IpTypeOK'
    BY <1>1, <1>2, <1>4, HeaderShape DEF IpInv, IpTypeOK
  <2>2. ASSUME NEW q \in Places
        PROVE  Passed(q)' <=> Passed(q)
    BY <1>1, <1>2, <1>4, PlaceShape DEF Passed
  <2>3. /\ header' = header /\ route' = route /\ trusted_proxies' = trusted_proxies
        /\ leftmost_proxy_ip' = leftmost_proxy_ip
    BY <1>4
  <2>4. line' \in DOMAIN header' => readable(header'[line'])
    BY <1>4
  <2>5. Searched'
    BY <1>1, <2>2, <2>3, <2>4, RequestStays DEF Searched, to_canonical, AddressPlaces
  <2> QED
    BY <1>1, <1>4, <2>1, <2>5, WalkOnInv
<1> QED
  BY <1>3, <1>4 DEF next_line

\* The entry the inner loop looks at is the next one: what is right of it was passed.
LEMMA NextPlace ==
  ASSUME IpInv, pc = "walking", entry > 0, NEW q, q = <<line, entry>>
  PROVE  /\ q \in Places /\ At(q) = header[line][entry] /\ readable(header[q[1]])
         /\ ~Passed(q)
         /\ \A r \in Places : RightOf(r, q) <=> Passed(r)
<1>1. /\ Searched /\ header \in Headers
      /\ line \in DOMAIN header /\ line \in Int
      /\ entry \in Nat /\ entry <= Len(header[line])
  BY HeaderShape DEF IpInv, IpTypeOK, Walk
<1>2. line \in 1..Len(header) /\ entry \in 1..Len(header[line])
  BY <1>1, HeaderShape
<1>3. q \in Places /\ q[1] = line /\ q[2] = entry
  BY <1>1, <1>2, PlaceShape
<1>4. readable(header[line])
  BY <1>1 DEF Searched
<1> QED
  BY <1>1, <1>3, <1>4, PlaceShape DEF At, Passed, RightOf

\* The inner loop: what the search passes over does not end it, and what ends it is the
\* first entry from the right that does.
LEMMA NextEntryInv ==
  ASSUME IpInv, next_entry
  PROVE  IpInv'
<1> DEFINE e == header[line][entry]
<1> PICK q : q = <<line, entry>>
  OBVIOUS
<1>1. /\ pc = "walking" /\ entry > 0 /\ contains(peer) /\ Searched
      /\ header \in Headers /\ line \in Int /\ entry \in Nat
  BY HeaderShape DEF next_entry, IpInv, IpTypeOK, Walk
<1>2. /\ q \in Places /\ At(q) = e /\ readable(header[q[1]])
      /\ \A r \in Places : RightOf(r, q) <=> Passed(r)
  BY <1>1, NextPlace
<1>3. e \in Entries
  BY <1>1, <1>2, PlaceShape
<1>4. \A r \in Places : Passed(r) => ~Stops(r)
  BY <1>1 DEF Searched
<1> HIDE DEF e
<1>5. ASSUME e.kind = "junk", Answer(BadRequest)
      PROVE  IpInv'
  <2>1. Stops(q) /\ Verdict(q) = BadRequest
    BY <1>2, <1>5 DEF Stops, Verdict
  <2>2. Finds(BadRequest)
    BY <1>2, <1>4, <2>1 DEF Finds
  <2> QED
    BY <1>1, <1>5, <2>2, AnswerInv
<1>6. ASSUME e.kind = "address", ~contains(e.ip), Answer(Identified(e.ip))
      PROVE  IpInv'
  <2>1. Stops(q) /\ Verdict(q) = Identified(e.ip)
    BY <1>2, <1>6 DEF Stops, Verdict
  <2>2. Finds(Identified(e.ip))
    BY <1>2, <1>4, <2>1 DEF Finds
  <2>3. e.ip \in Addresses
    BY <1>3, <1>6, AddressTypes
  <2> QED
    BY <1>1, <1>6, <2>2, <2>3, AnswerInv
<1>7. ASSUME NEW found, step_left(found),
             \/ e.kind = "empty" /\ found = leftmost_proxy_ip
             \/ e.kind = "address" /\ contains(e.ip) /\ found = {to_canonical(e.ip)}
      PROVE  IpInv'
  <2>1. /\ header' = header /\ route' = route /\ trusted_proxies' = trusted_proxies
        /\ pc' = "walking" /\ line' = line /\ entry' = entry - 1 /\ result' = result
        /\ leftmost_proxy_ip' = found
    BY <1>1, <1>7 DEF step_left
  <2>2. found \subseteq {a \in Addresses : ~a.mapped}
    <3>1. CASE found = leftmost_proxy_ip
      BY <3>1 DEF IpInv, IpTypeOK
    <3>2. CASE e.kind = "address" /\ found = {to_canonical(e.ip)}
      BY <1>3, <3>2, AddressTypes
    <3> QED
      BY <1>7, <3>1, <3>2
  <2>3. IpTypeOK'
    BY <1>1, <2>1, <2>2, HeaderShape DEF IpInv, IpTypeOK
  <2>4. ASSUME NEW r \in Places
        PROVE  Passed(r)' <=> (Passed(r) \/ r = q)
    BY <1>1, <2>1, PlaceShape DEF Passed
  <2>5. ~Stops(q)
    BY <1>2, <1>7 DEF Stops
  <2>6. line' \in DOMAIN header' => readable(header'[line'])
    BY <1>1, <2>1 DEF Searched
  <2>7. \A r \in Places' : Passed(r)' => ~(Stops(r)')
    BY <1>4, <2>1, <2>4, <2>5, RequestStays
  <2>8. CASE e.kind = "empty" /\ found = leftmost_proxy_ip
    <3>1. q \notin AddressPlaces
      BY <1>2, <2>8 DEF AddressPlaces
    <3>2. \A r \in AddressPlaces : r \in Places /\ (Passed(r)' <=> Passed(r))
      BY <2>4, <3>1 DEF AddressPlaces
    <3> QED
      BY <1>1, <1>7, <2>1, <2>3, <2>6, <2>7, <2>8, <3>2, RequestStays, WalkOnInv
      DEF Searched, to_canonical
  <2>9. CASE e.kind = "address" /\ contains(e.ip) /\ found = {to_canonical(e.ip)}
    <3>1. q \in AddressPlaces
      BY <1>2, <2>9 DEF AddressPlaces
    <3>2. \A r \in AddressPlaces : Passed(r)' => r = q \/ RightOf(r, q)
      BY <1>2, <2>4 DEF AddressPlaces
    <3>3. Passed(q)'
      BY <1>2, <2>4
    <3>4. Searched'
      BY <1>2, <2>1, <2>6, <2>7, <2>9, <3>1, <3>2, <3>3, RequestStays
      DEF Searched, to_canonical
    <3> QED
      BY <1>1, <2>1, <2>3, <3>4, WalkOnInv
  <2> QED
    BY <1>7, <2>8, <2>9
<1> QED
  BY <1>5, <1>6, <1>7 DEF next_entry, e

\* At the left end every place was passed.
LEMMA EndOfHeaderInv ==
  ASSUME IpInv, end_of_header
  PROVE  IpInv'
<1>1. /\ pc = "walking" /\ entry = 0 /\ line = 1 /\ contains(peer) /\ Searched
      /\ header \in Headers
  BY DEF end_of_header, IpInv, IpTypeOK, Walk
<1>2. \A q \in Places : Passed(q)
  <2>1. ASSUME NEW q \in Places
        PROVE  q[1] \in 1..Len(header) /\ q[2] \in 1..Len(header[q[1]])
    BY <1>1, PlaceShape
  <2> QED
    BY <1>1, <2>1, HeaderShape DEF Passed
<1>3. /\ \A q \in Places : ~Stops(q)
      /\ \A q \in AddressPlaces : q \in Places /\ Passed(q)
  BY <1>1, <1>2 DEF Searched, AddressPlaces
<1>4. ASSUME NEW ip \in leftmost_proxy_ip, Answer(Identified(ip))
      PROVE  IpInv'
  <2>1. PICK q \in AddressPlaces :
          /\ leftmost_proxy_ip = {to_canonical(At(q).ip)}
          /\ \A r \in AddressPlaces : Passed(r) => r = q \/ RightOf(r, q)
    BY <1>1, <1>4 DEF Searched
  <2>2. At(q).ip \in Addresses
    BY <1>1, PlaceShape, AddressTypes DEF AddressPlaces
  <2>3. ip = to_canonical(At(q).ip) /\ ip \in Addresses
    BY <2>1, <2>2, AddressTypes
  <2>4. Identified(ip) = Identified(At(q).ip)
    <3>1. ip.host = At(q).ip.host
      BY <2>2, <2>3, AddressTypes
    <3> QED
      BY <2>2, <2>3, <3>1, AddressTypes DEF Identified
  <2>5. Finds(Identified(ip))
    BY <1>3, <2>1, <2>4 DEF Finds
  <2> QED
    BY <1>1, <1>4, <2>3, <2>5, AnswerInv
<1>5. ASSUME leftmost_proxy_ip = {}, Answer(BadRequest)
      PROVE  IpInv'
  <2>1. AddressPlaces = {}
    BY <1>1, <1>3, <1>5 DEF Searched
  <2>2. Finds(BadRequest)
    BY <1>3, <2>1 DEF Finds
  <2> QED
    BY <1>1, <1>5, <2>2, AnswerInv
<1> QED
  BY <1>4, <1>5 DEF end_of_header

\* A step that changes nothing.
LEMMA IpIdle ==
  ASSUME IpInv, UNCHANGED ip_vars
  PROVE  IpInv'
<1>1. /\ header' = header /\ route' = route /\ trusted_proxies' = trusted_proxies
      /\ pc' = pc /\ line' = line /\ entry' = entry /\ leftmost_proxy_ip' = leftmost_proxy_ip
      /\ result' = result
  BY DEF ip_vars
<1>2. IpTypeOK' /\ Traced' = Traced
  BY <1>1, RequestStays DEF IpInv, IpTypeOK, Traced, Places, At
<1>3. Searched' = Searched
  BY <1>1 DEF Searched, Passed, Places, AddressPlaces, At, Stops, readable, contains
<1>4. Walk'
  BY <1>1, <1>3, RequestStays DEF IpInv, Walk, Identified, to_canonical
<1>5. WalkFindsClient'
  BY <1>1, RequestStays DEF IpInv, WalkFindsClient, Identified, to_canonical, BadRequest
<1> QED
  BY <1>1, <1>2, <1>4, <1>5 DEF IpInv

LEMMA IpInvStep ==
  IpInv /\ [IpNext]_ip_vars => IpInv'
<1> SUFFICES ASSUME IpInv, [IpNext]_ip_vars
             PROVE  IpInv'
  OBVIOUS
<1>1. CASE send
  BY <1>1, SendInv
<1>2. CASE forward
  BY <1>2, ForwardInv
<1>3. CASE identify_client
  BY <1>3, IdentifyInv
<1>4. CASE next_line
  BY <1>4, NextLineInv
<1>5. CASE next_entry
  BY <1>5, NextEntryInv
<1>6. CASE end_of_header
  BY <1>6, EndOfHeaderInv
<1>7. CASE UNCHANGED ip_vars
  BY <1>7, IpIdle
<1> QED
  BY <1>1, <1>2, <1>3, <1>4, <1>5, <1>6, <1>7 DEF IpNext

\* The walk keeps the loop invariant, and the header names the way of the request.
THEOREM IpInvariant ==
  IpSpec => []IpInv
  BY IpInitInv, IpInvStep, PTL DEF IpSpec

\* In every behaviour, for every set of hosts, networks and headers, the walk stays
\* inside the header, and a client is identified by an address in canonical form.
THEOREM IpTypeCorrect ==
  IpSpec => []IpTypeOK
<1>1. IpInv => IpTypeOK
  BY DEF IpInv
<1> QED
  BY <1>1, IpInvariant, PTL

\* For a trusted peer, whatever the header, the answer is the rightmost entry that is
\* not a trusted proxy, the leftmost one if all are, or an error if an entry that is
\* no address comes first.
THEOREM WalkFindsTheClient ==
  IpSpec => []WalkFindsClient
<1>1. IpInv => WalkFindsClient
  BY DEF IpInv
<1> QED
  BY <1>1, IpInvariant, PTL

(***************************************************************************)
(* The nearest untrusted host.                                             *)
(***************************************************************************)

\* No network is written in the IPv4-mapped form: such a network contains nobody, since
\* addresses are compared in canonical form.
NetworksInOwnForm == \A v \in Arguments : \A ip \in parse_network(v) : ~ip.mapped

\* contains, for any form of an address, is whether a network names its host.
LEMMA ContainsByHost ==
  ASSUME IpInv, NetworksInOwnForm, NEW ip \in Addresses
  PROVE  contains(ip) <=> \E network \in trusted_proxies : \E a \in network : a.host = ip.host
<1>1. ASSUME NEW network \in trusted_proxies
      PROVE  \A a \in network : a \in Addresses /\ ~a.mapped
  BY NetworksInOwnForm DEF IpInv, IpTypeOK, NetworksInOwnForm
<1>2. ASSUME NEW network \in trusted_proxies, NEW a \in network, a.host = ip.host
      PROVE  to_canonical(ip) = a
  <2>1. /\ to_canonical(ip) \in {b \in Addresses : ~b.mapped}
        /\ to_canonical(ip).host = a.host
    BY <1>2, AddressTypes
  <2> QED
    BY <1>1, <2>1 DEF Addresses
<1>3. to_canonical(ip).host = ip.host
  BY AddressTypes
<1> QED
  BY <1>2, <1>3 DEF contains

\* What WalkFindsClient and the trace in the header give for the nearest untrusted host i:
\* if it is the peer, the peer is the answer; otherwise all places right of the one that
\* names it name trusted proxies.
LEMMA NearestFound ==
  ASSUME IpInv, NetworksInOwnForm, pc = "answered",
         NEW i \in Untrusted, \A j \in Untrusted : j <= i
  PROVE  \/ result = Identified(route[i])
         \/ result = BadRequest /\ \E l \in DOMAIN header : ~readable(header[l])
<1> DEFINE n == Len(route)
<1>1. /\ route \in Seq(Addresses) /\ n \in Nat \ {0} /\ header \in Headers
      /\ i \in 1..n /\ Traced /\ WalkFindsClient
  BY DEF IpInv, IpTypeOK, Untrusted
<1>2. \A k \in 1..n : route[k] \in Addresses
  BY <1>1
<1>3. ASSUME NEW k \in 1..n, k > i
      PROVE  contains(route[k])
  <2>1. k \notin Untrusted
    BY <1>1, <1>3
  <2>2. \E network \in trusted_proxies : \E a \in network : a.host = route[k].host
    BY <1>1, <2>1 DEF Untrusted
  <2> QED
    BY <1>2, <2>2, ContainsByHost
<1>4. ASSUME NEW ip \in Addresses, ip.host = route[i].host
      PROVE  ~contains(ip) /\ Identified(ip) = Identified(route[i])
  <2>1. ~contains(ip)
    BY <1>4, ContainsByHost DEF Untrusted
  <2>2. to_canonical(ip) = to_canonical(route[i])
    BY <1>1, <1>2, <1>4, AddressTypes
  <2> QED
    BY <2>1, <2>2 DEF Identified
<1>5. CASE i = n
  BY <1>1, <1>2, <1>4, <1>5 DEF IpInv, Walk, peer
<1>6. CASE i # n
  <2>1. i \in 1..(n - 1) /\ contains(peer)
    BY <1>1, <1>3, <1>6 DEF peer
  <2>2. PICK place \in [1..(n - 1) -> Places] :
          \A k \in 1..(n - 1) :
            /\ At(place[k]).kind = "address"
            /\ At(place[k]).ip.host = route[k].host
            /\ \A q \in Places :
                 RightOf(q, place[k]) => \E j \in (k + 1)..(n - 1) : q = place[j]
    BY <1>1 DEF Traced
  <2>3. ASSUME NEW k \in 1..(n - 1)
        PROVE  /\ place[k] \in Places /\ place[k][1] \in DOMAIN header
               /\ At(place[k]).ip \in Addresses
    BY <1>1, <2>2, PlaceShape, HeaderShape, AddressTypes
  <2>4. Stops(place[i])
    BY <1>4, <2>1, <2>2, <2>3 DEF Stops
  <2>5. PICK q \in Places : /\ Stops(q)
                            /\ \A r \in Places : RightOf(r, q) => ~Stops(r)
                            /\ result = Verdict(q)
    BY <1>1, <2>1, <2>3, <2>4 DEF WalkFindsClient
  <2>6. q = place[i] \/ RightOf(q, place[i])
    BY <1>1, <2>1, <2>3, <2>4, <2>5, PlacesInOrder
  <2>7. CASE q = place[i]
    BY <1>4, <2>1, <2>2, <2>3, <2>5, <2>7 DEF Verdict
  <2>8. CASE RightOf(q, place[i])
    <3>1. PICK j \in (i + 1)..(n - 1) : q = place[j]
      BY <2>1, <2>2, <2>8
    <3>2. j \in 1..(n - 1) /\ j \in 1..n /\ j > i
      BY <1>1, <3>1
    <3>3. contains(At(q).ip)
      BY <1>2, <1>3, <2>2, <2>3, <3>1, <3>2, ContainsByHost
    <3>4. ~readable(header[q[1]])
      BY <2>2, <2>5, <3>1, <3>2, <3>3 DEF Stops
    <3> QED
      BY <2>3, <2>5, <3>1, <3>2, <3>4 DEF Verdict
  <2> QED
    BY <2>6, <2>7, <2>8
<1> QED
  BY <1>5, <1>6

\* However many proxies a request passed and whatever header its client sent, the relay
\* attributes it to the host nearest to the relay that is not a trusted proxy, or refuses
\* it because a line of the header cannot be read.
THEOREM NearestIsIdentified ==
  ASSUME NetworksInOwnForm
  PROVE  IpSpec => []NearestUntrustedIdentified
<1>1. IpInv => NearestUntrustedIdentified
  BY NearestFound DEF NearestUntrustedIdentified
<1> QED
  BY <1>1, IpInvariant, PTL

===============================================================================
