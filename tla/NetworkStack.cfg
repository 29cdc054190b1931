\* Two clients on a forwarder with one place, under every configuration of
\* MCConfigs.
SPECIFICATION FairSpec
CONSTANTS
  pub = pub
  lan = lan
  peer = peer
  x6 = x6
  lan6 = lan6
  tun6 = tun6
  spub = spub
  slan = slan
  speer = speer
  Embed <- MCEmbed
  V4 <- MCV4
  V6 <- MCV6
  TunV4 <- MCTunV4
  TunV6 <- MCTunV6
  Text <- MCText
  Literals <- MCLiterals
  Ports = {"80", "81"}
  Words <- MCWords
  Hosts <- MCHosts
  NotMapped = NotMapped
  Clients = {c1, c2}
  MaxInFlight = 1
  Configs <- MCConfigs
INVARIANTS TypeOK CompletedOnce UpstreamHeld OnlyEcho SameRouteEitherForm  MappedAsWritten
PROPERTIES FallsBack
