CONSTANTS
  Hosts = {"c", "d", "p", "q"}
  IPv4Hosts = {"c", "p"}
  Proxies = {"p", "q"}
  Arguments <- AddressAndNetwork
  OwnHeaders <- ShortHeaders
  MaxHops = 2
SPECIFICATION IpSpec
INVARIANTS IpTypeOK WalkFindsClient NearestUntrustedIdentified
