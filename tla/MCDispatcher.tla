---------------------------- MODULE MCDispatcher ----------------------------
(***************************************************************************)
(* Dispatcher with one user, two devices and three kinds of connections.   *)
(***************************************************************************)
EXTENDS Dispatcher, TLC

MCSetting == {[speed |-> 1, devices |-> 1], [speed |-> 0, devices |-> 2]}

Quiet == [enabled |-> FALSE, metadataOnly |-> FALSE, routeOnly |-> FALSE, exclude |-> {}, override |-> {}]

Sniffing == [Quiet EXCEPT !.enabled = TRUE, !.override = {"tls", "fakedns"}]

Plain == [user |-> "e", ip |-> "i1", destination |-> "domain", request |-> Quiet,
          content |-> Sniffed("domain", "tls"), forced |-> FALSE, mux |-> FALSE]

MCSession ==
  { Plain,
    [Plain EXCEPT !.ip = "i2", !.destination = "named", !.request = [Sniffing EXCEPT !.routeOnly = TRUE]],
    [Plain EXCEPT !.user = None, !.destination = "fake", !.request = Sniffing, !.forced = TRUE] }

MCOutbounds == {{"inbound"}, {"detour", "route"}}

MCHosts == [d \in {"named"} |-> "address"]

MCFakeDNS == [a \in {"fake"} |-> "named"]

MCRuleLists == { << [id |-> 1, matches |-> {"domain"}], [id |-> 2, matches |-> {"address", "domain"}] >>,
                 << [id |-> -1, matches |-> {"domain"}] >> }

Interchangeable == Permutations(Conn)

=============================================================================
