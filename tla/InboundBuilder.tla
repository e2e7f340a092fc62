--------------------------- MODULE InboundBuilder ---------------------------
(***************************************************************************)
(* What the controller makes of a NodeInfo: the inbound of xray-core       *)
(* (inboundbuilder.go) and the accounts of its users (userbuilder.go).     *)
(* Pure functions of the controller's configuration cfg and of             *)
(*   info = [type, port, net, tls, reality, vless, kept]                   *)
(* where net is the TransportProtocol and kept names the settings of the   *)
(* panel's node that have reached the NodeInfo; a cipher is among them if  *)
(* xray-core knows it.                                                     *)
(***************************************************************************)
EXTENDS Integers

V2rayTypes == {"V2ray", "Vmess", "Vless"}
SSTypes    == {"Shadowsocks", "Shadowsocks-Plugin"}

\* The transports of xray-core, each by one of its names; conf refuses others.
KnownNetworks ==
  {"tcp", "kcp", "ws", "http", "domainsocket", "quic", "grpc", "httpupgrade", "splithttp"}

\* Those over which it has REALITY.
NetworksOfREALITY == {"tcp", "http", "domainsocket", "grpc"}

Vless(info) == info.vless \/ info.type = "Vless"

Protocol(info) ==
  CASE info.type \in V2rayTypes      -> IF Vless(info) THEN "vless" ELSE "vmess"
    [] info.type = "Trojan"          -> "trojan"
    [] info.type \in SSTypes         -> "shadowsocks"
    [] OTHER                         -> "dokodemo-door"

\* The protocol of the accounts: buildVlessUser, buildVmessUser,
\* buildTrojanUser, buildSSUser or buildSSPluginUser.
addNewUser(info) ==
  CASE info.type \in V2rayTypes -> IF info.vless \/ info.type = "Vless" THEN "vless" ELSE "vmess"
    [] info.type = "Trojan"     -> "trojan"
    [] info.type \in SSTypes    -> "shadowsocks"

\* With EnableFallback there must be fallbacks, each with a destination.
buildVlessFallbacks(cfg)  == cfg.fallback \notin {"missing", "without dest"}
buildTrojanFallbacks(cfg) == cfg.fallback \notin {"missing", "without dest"}

FallbacksBuilt(cfg, info) ==
  /\ Protocol(info) = "vless" => buildVlessFallbacks(cfg)
  /\ Protocol(info) = "trojan" => buildTrojanFallbacks(cfg)

\* What the settings of a transport are made of.
StreamSettings(info) ==
  info.kept \cap
    CASE info.net \in {"tcp", "quic"} -> {"header"}
      [] info.net \in {"ws", "http", "httpupgrade", "splithttp"} -> {"host", "path"}
      [] info.net = "grpc" -> {"service"}
      [] OTHER -> {}

\* The panel's REALITY settings, or else those of the configuration.
IsREALITY(cfg, info) ==
  IF cfg.panelREALITY THEN info.reality ELSE cfg.localREALITY

WantsTLS(cfg, info) == ~IsREALITY(cfg, info) /\ info.tls /\ cfg.cert # "none"

\* A certificate in files that can be read, or one that lego has obtained.
getCertFile(cfg, issued) ==
  \/ cfg.cert = "file"
  \/ cfg.cert \in {"dns", "http", "tls"} /\ issued

\* The TLS node of a configuration without CertConfig is a nil pointer, and so
\* is the panel's REALITY without REALITYConfigs.
Panics(cfg, info) ==
  /\ FallbacksBuilt(cfg, info) /\ info.net \in KnownNetworks
  /\ \/ ~IsREALITY(cfg, info) /\ info.tls /\ cfg.cert = "nil"
     \/ cfg.panelREALITY /\ info.reality /\ ~cfg.realityConfigs

Security(cfg, info) ==
  CASE IsREALITY(cfg, info) -> "reality"
    [] WantsTLS(cfg, info)  -> "tls"
    [] OTHER                -> "none"

\* Whether InboundBuilder returns an inbound and no error; the last two are
\* refused by conf, whose Build is the end of it.
Builds(cfg, info, issued) ==
  /\ FallbacksBuilt(cfg, info)
  /\ info.net \in KnownNetworks
  /\ WantsTLS(cfg, info) => getCertFile(cfg, issued)
  /\ IsREALITY(cfg, info) => info.net \in NetworksOfREALITY
  /\ Protocol(info) = "shadowsocks" => "cipher" \in info.kept

Inbound(cfg, info) ==
  [protocol |-> Protocol(info), network |-> info.net,
   security |-> Security(cfg, info), settings |-> StreamSettings(info)]

\* Shadowsocks-Plugin: a plain inbound for the users, and one before it, on
\* the next port, with the node's transport.
PluginInner(info) == [info EXCEPT !.net = "tcp", !.tls = FALSE]
PluginOuter(info) == [info EXCEPT !.type = "dokodemo-door", !.port = @ + 1]

addNewTagBuilds(cfg, info, issued) ==
  IF info.type = "Shadowsocks-Plugin"
  THEN Builds(cfg, PluginInner(info), issued) /\ Builds(cfg, PluginOuter(info), issued)
  ELSE Builds(cfg, info, issued)

addNewTagPanics(cfg, info) ==
  IF info.type = "Shadowsocks-Plugin"
  THEN \/ Panics(cfg, PluginInner(info))
       \/ Builds(cfg, PluginInner(info), TRUE) /\ Panics(cfg, PluginOuter(info))
  ELSE Panics(cfg, info)

\* The inbound that faces the clients.
FacingInbound(cfg, info) ==
  Inbound(cfg, IF info.type = "Shadowsocks-Plugin" THEN PluginOuter(info) ELSE info)

=============================================================================
