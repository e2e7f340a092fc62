----------------------------- MODULE GoV2Panel ------------------------------
(***************************************************************************)
(* The client of gov2panel (api/gov2panel).                                *)
(***************************************************************************)
EXTENDS PanelApi

New ==
  [last |-> None, deviceLimit |-> setup.deviceLimit, resp |-> NoNode]

parseTrojanNodeResponse(raw) ==
  [type |-> setup.type, port |-> raw.port, net |-> "tcp", tls |-> TRUE, reality |-> FALSE,
   vless |-> FALSE, kept |-> {"host", "service"}]

parseSSNodeResponse(raw) ==
  [type |-> setup.type, port |-> raw.port, net |-> "tcp", tls |-> FALSE, reality |-> FALSE,
   vless |-> FALSE, kept |-> {"header"} \cup Cipher(raw)]

parseV2rayNodeResponse(raw) ==
  [type |-> setup.type, port |-> raw.port, net |-> raw.net, tls |-> raw.sec = "tls",
   reality |-> FALSE, vless |-> setup.vless,
   kept |-> {"path", "host", "service"} \cup (IF raw.net = "tcp" THEN {"header"} ELSE {})]

ParseNode(raw) ==
  CASE setup.type \in {"V2ray", "Vmess", "Vless"} -> parseV2rayNodeResponse(raw)
    [] setup.type = "Trojan"                      -> parseTrojanNodeResponse(raw)
    [] setup.type = "Shadowsocks"                 -> parseSSNodeResponse(raw)

GetNodeInfo ==
  /\ Polls("GoV2Panel")
  /\ \E a \in Answers("node") :
       LET used == a = "good" /\ panel.node.ok /\ panel.node.port # 0
       IN  /\ Remember("node", a, used)
           /\ client' = [client EXCEPT !.resp = IF used THEN panel.node ELSE @]
           /\ NodeOutcome(a, used, ParseNode(panel.node))
  /\ listUnchanged
  /\ UNCHANGED << setup, panel, ctl >>

\* As in V2board: a list without users is an error.
GetUserList ==
  /\ Asks("GoV2Panel")
  /\ \E a \in Answers("users") :
       LET used == a = "good" /\ Users(panel.limits) # {}
       IN  /\ Remember("users", a, used)
           /\ ListOutcome(a, used, [u \in User |-> ConfiguredLimit(u)])
  /\ listUnchanged
  /\ UNCHANGED << setup, panel, client, ctl >>

GetNodeRule ==
  /\ AsksRules("GoV2Panel")
  /\ IF client.resp = NoNode
     THEN Crash /\ UNCHANGED ctl
     ELSE RulesOutcome("good", Local \cup client.resp.rules)
  /\ listUnchanged
  /\ UNCHANGED << setup, panel, client, etag, lost >>

=============================================================================
