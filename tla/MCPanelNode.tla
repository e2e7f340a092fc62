---------------------------- MODULE MCPanelNode -----------------------------
EXTENDS PanelNode

Raw(net, sec) ==
  [ok |-> TRUE, short |-> FALSE, port |-> 443, net |-> net, sec |-> sec, vless |-> FALSE,
   cipher |-> TRUE, keys |-> {"networkSettings"}, rules |-> {}, limit |-> 0]

\* An answer without what the client needs, one with port 0, one with what
\* xray-core does not know, and one in which the older parsers miss a part.
Unreadable == [Raw("tcp", "none") EXCEPT !.ok = FALSE]
Portless   == [Raw("tcp", "none") EXCEPT !.port = 0]
Unknown    == [Raw("udp", "none") EXCEPT !.cipher = FALSE]
Short      == [Raw("ws", "tls") EXCEPT !.short = TRUE]

Plain == [cert |-> "file", fallback |-> "off", panelREALITY |-> FALSE, localREALITY |-> FALSE,
          realityConfigs |-> FALSE]

Cfgs ==
  {Plain,
   [Plain EXCEPT !.cert = "nil"],
   [Plain EXCEPT !.cert = "dns", !.panelREALITY = TRUE, !.realityConfigs = TRUE],
   [Plain EXCEPT !.cert = "none", !.panelREALITY = TRUE],
   [Plain EXCEPT !.fallback = "missing", !.localREALITY = TRUE, !.realityConfigs = TRUE]}

All(n) == [u \in User |-> n]

Setup(kind, type) ==
  [kind |-> kind, type |-> type, old |-> FALSE, vless |-> FALSE, deviceLimit |-> 0, reject |-> TRUE,
   devices |-> 0, cfg |-> Plain, nodes |-> {Raw("ws", "tls")}, lists |-> {All(1)}, rules |-> {{}},
   away |-> {All(0)}]

HaveREALITY == {"SSpanel", "NewV2board", "V2RaySocks", "BunPanel"}

\* What differs is the node: every transport and every kind of security, and
\* a change from one node to another.
Nodes(kind) ==
  LET secs == IF kind \in HaveREALITY THEN {"none", "reality"} ELSE {"none"}
  IN  {{Raw("ws", "tls"), n} :
         n \in {Raw(net, s) : net \in {"ws", "tcp"}, s \in secs} \cup
              {Raw("grpc", "tls"), Raw("httpupgrade", "tls"), Unknown, Unreadable, Portless}}

NodeSetups ==
  UNION {{[Setup(k, t) EXCEPT !.cfg = c, !.nodes = n] : n \in Nodes(k)} :
     k \in Kinds, t \in {"V2ray", "Trojan", "Shadowsocks"}, c \in Cfgs}
  \cup
  UNION {{[Setup(k, "V2ray") EXCEPT !.nodes = n, !.vless = TRUE] : n \in Nodes(k)} : k \in Kinds}
  \cup
  {[Setup("NewV2board", "V2ray") EXCEPT !.vless = b, !.cfg = c,
      !.nodes = {[n EXCEPT !.keys = keys] : n \in {Raw("ws", "tls"), Raw("grpc", "reality")}}] :
     b \in BOOLEAN, c \in Cfgs, keys \in SUBSET {"networkSettings", "network_settings"} \ {{}}}
  \cup
  UNION {{[Setup(k, "Vless") EXCEPT !.nodes = n] : n \in Nodes(k)} :
     k \in {"NewV2board", "ProxyPanel", "V2RaySocks", "GoV2Panel"}}
  \cup
  {[Setup("SSpanel", t) EXCEPT !.old = TRUE, !.cfg = c, !.lists = {All(1), All(Out)},
      !.nodes = {Raw("ws", "tls"), n}] :
     t \in {"V2ray", "Trojan", "Shadowsocks", "Shadowsocks-Plugin"}, c \in Cfgs,
     n \in {Raw("grpc", "tls"), Portless, Short, [Raw("ws", "tls") EXCEPT !.port = 1]}}

\* What differs are the users, the rules and the port, which comes with other
\* rules where the node has them.
Rules80 == [Raw("ws", "tls") EXCEPT !.port = 80]
Rules443 == [Raw("ws", "tls") EXCEPT !.rules = {"r"}, !.limit = 2]
BadRule  == [Rules443 EXCEPT !.rules = {"r", "("}]

DataSetups ==
  {[Setup(k, "V2ray") EXCEPT !.lists = {All(1), All(Out)}, !.deviceLimit = d, !.devices = 1,
      !.nodes = {Rules443}] : k \in Kinds, d \in {0, 2}}
  \cup
  {[Setup(k, "V2ray") EXCEPT !.lists = {All(1), All(Out)}, !.nodes = {Rules443, Rules80}] : k \in Kinds}
  \cup
  {[Setup(k, "V2ray") EXCEPT !.rules = {{}, {"r"}}, !.reject = b, !.nodes = {Rules443, Rules80}] :
     k \in Kinds, b \in BOOLEAN}
  \cup
  {[Setup(k, "V2ray") EXCEPT !.rules = {{"r"}, {"r", "("}}, !.reject = b, !.nodes = {Rules80, BadRule}] :
     k \in Kinds, b \in BOOLEAN}

\* What differs are the devices of the users, here and elsewhere.
DeviceSetups ==
  {[Setup(k, "V2ray") EXCEPT !.lists = {All(2), All(0)}, !.devices = 2, !.away = [User -> 0 .. 2]] :
     k \in {"SSpanel", "BunPanel"}}

MCSetups == NodeSetups \cup DataSetups \cup DeviceSetups
=============================================================================
