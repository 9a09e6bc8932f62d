---------------------------- MODULE RouteSelect ----------------------------
(***************************************************************************)
(* Which address the daemon advertises: select_default_route_address of    *)
(* src/portal/service.py, over the default routes and the interfaces of a  *)
(* kernel that changes them.                                               *)
(*                                                                         *)
(* An address is a number of Width bits.  A route or an address of another *)
(* family or scope, or one the kernel does not trust yet, is left out of   *)
(* the listings, as the code leaves it out.                                *)
(***************************************************************************)
EXTENDS Integers, FiniteSets, Sequences, SequencesExt

CONSTANTS
  Devices,
  Width,          \* bits of an address
  Private,        \* addresses that may be advertised
  PrefixLengths,       \* prefix lengths of interface addresses
  Metrics,
  Gateways,       \* addresses routes go through
  Sources,        \* preferred sources of routes
  NoAddress,      \* a route without gateway or source
  Loopback,
  MaxRoutes,      \* bound on the number of routes
  MaxAddresses    \* bound on the number of addresses of a device

AddressSpace == 0..(2^Width - 1)

ASSUME RouteAssumption ==
  /\ Width \in Nat
  /\ Private \subseteq AddressSpace
  /\ PrefixLengths \subseteq Nat /\ Metrics \subseteq Nat
  /\ Gateways \subseteq AddressSpace /\ Sources \subseteq AddressSpace
  /\ NoAddress \notin AddressSpace /\ Loopback \notin AddressSpace
  /\ MaxRoutes \in Nat /\ MaxAddresses \in Nat

VARIABLES
  routes,       \* what `ip route show default` lists
  interfaces    \* what `ip address show up` lists, for each device

listings == <<routes, interfaces>>

-----------------------------------------------------------------------------
Route == [dev : Devices, gateway : Gateways \cup {NoAddress}, metric : Metrics,
          source : Sources \cup {NoAddress}, up : BOOLEAN]

Info == [local : AddressSpace, prefix : PrefixLengths]

RouteTypeOK ==
  /\ routes \in Seq(Route)
  /\ interfaces \in [Devices -> Seq(Info)]

RouteInit ==
  /\ routes = <<>>
  /\ interfaces = [d \in Devices |-> <<>>]

-----------------------------------------------------------------------------
(***************************************************************************)
(* select_default_route_address.                                           *)
(***************************************************************************)
\* Positions of the addresses of a device that may be advertised.
Candidates(d) == {k \in DOMAIN interfaces[d] : interfaces[d][k].local \in Private}

\* A prefix that is longer than an address makes ip_network raise.
Covers(info, address) ==
  /\ address # NoAddress
  /\ info.prefix <= Width
  /\ LET size == 2^(Width - info.prefix) IN info.local \div size = address \div size

\* route_priority; the index decides between routes that are otherwise equal.
Precedes(i, j) ==
  LET direct(k) == routes[k].gateway = NoAddress
      metric(k) == routes[k].metric
  IN  IF direct(i) # direct(j) THEN direct(j)
      ELSE metric(i) < metric(j) \/ (metric(i) = metric(j) /\ i < j)

EvenDown(route) == Candidates(route.dev) # {}
Usable(route) == route.up /\ Candidates(route.dev) # {}

First(K) == CHOOSE k \in K : \A j \in K : k <= j

AnyDevice(route) ==
  IF \E d \in Devices : \E i \in DOMAIN interfaces[d] :
       interfaces[d][i].local = route.source
    THEN route.source ELSE interfaces[route.dev][First(Candidates(route.dev))].local

SourceOf(route) ==
  LET infos == interfaces[route.dev]
      candidates == Candidates(route.dev)
      near == {k \in candidates : Covers(infos[k], route.gateway)}
  IN  IF \E k \in candidates : infos[k].local = route.source
        THEN route.source
        ELSE infos[First(IF near # {} THEN near ELSE candidates)].local

\* The first route of the sorted list that is not skipped.
Chosen(usable) == CHOOSE i \in usable : \A j \in usable \ {i} : Precedes(i, j)

Choice ==
  LET usable == {i \in DOMAIN routes : Usable(routes[i])}
  IN  IF usable = {} THEN Loopback ELSE SourceOf(routes[Chosen(usable)])

-----------------------------------------------------------------------------
(***************************************************************************)
(* The kernel.                                                             *)
(***************************************************************************)
AddRoute(route, i) ==
  /\ Len(routes) < MaxRoutes
  /\ routes' = InsertAt(routes, i, route)
  /\ UNCHANGED interfaces

DeleteRoute(i) ==
  /\ routes' = RemoveAt(routes, i)
  /\ UNCHANGED interfaces

Link(i) ==
  /\ routes' = [routes EXCEPT ![i].up = ~@]
  /\ UNCHANGED interfaces

AddAddress(d, info) ==
  /\ Len(interfaces[d]) < MaxAddresses
  /\ interfaces' = [interfaces EXCEPT ![d] = Append(@, info)]
  /\ UNCHANGED routes

DeleteAddress(d, i) ==
  /\ interfaces' = [interfaces EXCEPT ![d] = RemoveAt(@, i)]
  /\ UNCHANGED routes

RouteNext ==
  \/ \E route \in Route, i \in 1..(Len(routes) + 1) : AddRoute(route, i)
  \/ \E i \in DOMAIN routes : DeleteRoute(i) \/ Link(i)
  \/ \E d \in Devices, info \in Info : AddAddress(d, info)
  \/ \E d \in Devices : \E i \in DOMAIN interfaces[d] : DeleteAddress(d, i)

RouteSpec == RouteInit /\ [][RouteNext]_listings

-----------------------------------------------------------------------------
(***************************************************************************)
(* What docs/ARCHITECTURE.md, line 18, says of the choice.                 *)
(***************************************************************************)
Own(d) == {interfaces[d][i].local : i \in DOMAIN interfaces[d]} \cap Private

Live == {i \in DOMAIN routes : routes[i].up /\ Own(routes[i].dev) # {}}

\* "prefers gateway-backed routes and then their metrics": no usable route is
\* better than a best one.
Best ==
  LET backed == {i \in Live : routes[i].gateway # NoAddress}
      class == IF backed = {} THEN Live ELSE backed
  IN  {i \in class : \A j \in class : routes[i].metric <= routes[j].metric}

\* "Unrelated tunnel and container addresses are never used as arbitrary
\* fallbacks. With no usable route, Portal listens on and advertises loopback":
\* the choice is an own private address of the device of a best route.
ChoiceIsOnBestRoute ==
  IF Live = {} THEN Choice = Loopback
  ELSE \E i \in Best : Choice \in Own(routes[i].dev)

\* "accepts the route's preferred source only when it is still assigned [...]
\* otherwise [...] preferring one sharing the gateway subnet": where one best
\* route stands alone, and its source is stale, the choice shares the subnet of the
\* gateway as soon as any address of the device does.
StaleSourceFallsBack ==
  \A i \in Best :
    LET r == routes[i]
        near == {info \in ToSet(interfaces[r.dev]) :
                   info.local \in Private /\ Covers(info, r.gateway)}
    IN  (Best = {i} /\ r.source \notin Own(r.dev) /\ near # {})
          => Choice \in {info.local : info \in near}

\* watch_network stops the daemon when the choice changes: an address that comes
\* up, or goes, on a device without a best route is no reason to.
UnrelatedDevicesAreIgnored ==
  [][\A d \in Devices :
       (/\ interfaces'[d] # interfaces[d]
        /\ \A i \in Best \cup Best' : routes[i].dev # d)
       => Choice' = Choice]_listings

\* Neither is a route that comes or goes while the best one stays the best: the
\* order in which the kernel lists the others does not matter.
WorseRoutesAreIgnored ==
  [][({routes[i] : i \in Best} = {routes'[i] : i \in Best'}
        /\ Cardinality({routes[i] : i \in Best}) = 1
        /\ UNCHANGED interfaces)
       => Choice' = Choice]_listings

\* The choice is what docs/ARCHITECTURE.md, line 18, describes.
ChoiceIsDocumented == ChoiceIsOnBestRoute /\ StaleSourceFallsBack

\* The daemon restarts for a change of the best route only (service.py 793-799).
OnlyBestRouteMatters == UnrelatedDevicesAreIgnored /\ WorseRoutesAreIgnored
=============================================================================
