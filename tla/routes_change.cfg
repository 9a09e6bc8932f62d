\* Two devices, two routes, addresses of two bits in subnets of one bit.
CONSTANTS
  Devices = {lan, tunnel}
  Width = 2
  Private = {1, 2, 3}
  PrefixLengths = {1}
  Metrics = {0, 1}
  Gateways = {2}
  Sources = {1}
  NoAddress = NoAddress
  Loopback = Loopback
  MaxRoutes = 2
  MaxAddresses = 2
SPECIFICATION RouteSpec
INVARIANTS
  ChoiceIsDocumented
PROPERTIES
  OnlyBestRouteMatters
