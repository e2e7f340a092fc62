----------------------------- MODULE NewV2board -----------------------------
(***************************************************************************)
(* The client of V2board (api/newV2board).  The rules are part of the      *)
(* node's configuration, which is kept for GetNodeRule.                    *)
(***************************************************************************)
EXTENDS PanelApi

New ==
  [last |-> None, deviceLimit |-> setup.deviceLimit, resp |-> NoNode]

parseTrojanNodeResponse(raw) ==
  [type |-> setup.type, port |-> raw.port, net |-> "tcp", tls |-> TRUE, reality |-> FALSE,
   vless |-> FALSE, kept |-> {"host", "service"}]

parseSSNodeResponse(raw) ==
  [type |-> setup.type, port |-> raw.port, net |-> "tcp", tls |-> FALSE, reality |-> FALSE,
   vless |-> FALSE, kept |-> {"header"} \cup Cipher(raw)]

\* EnableVless has the settings of the transport read from network_settings.
SettingsKey == IF setup.vless THEN "network_settings" ELSE "networkSettings"

\* Faulty: REALITY is not TLS as well.
parseV2rayNodeResponse_realityOnly(raw) ==
  [type |-> setup.type, port |-> raw.port, net |-> raw.net, tls |-> raw.sec = "tls",
   reality |-> FALSE, vless |-> setup.vless,
   kept |-> IF SettingsKey \in raw.keys THEN {"path", "service", "host", "header"} ELSE {}]

parseV2rayNodeResponse(raw) ==
  [type |-> setup.type, port |-> raw.port, net |-> raw.net, tls |-> raw.sec # "none",
   reality |-> raw.sec = "reality", vless |-> setup.vless,
   kept |-> IF SettingsKey \notin raw.keys THEN {}
            ELSE CASE raw.net = "tcp" -> {"path", "service", "header"}
                   [] raw.net \in {"ws", "httpupgrade", "splithttp"} -> {"path", "service", "host"}
                   [] OTHER -> {"path", "service"}]

ParseNode(raw) ==
  CASE setup.type \in {"V2ray", "Vmess", "Vless"} -> parseV2rayNodeResponse(raw)
    [] setup.type = "Trojan"                      -> parseTrojanNodeResponse(raw)
    [] setup.type = "Shadowsocks"                 -> parseSSNodeResponse(raw)

\* Faulty: an answer that is refused is kept.
GetNodeInfo_keeps ==
  /\ Polls("NewV2board")
  /\ \E a \in Answers("node") :
       LET used == a = "good" /\ panel.node.ok /\ panel.node.port # 0
       IN  /\ Remember("node", a, used)
           /\ client' = [client EXCEPT !.resp = IF used THEN panel.node ELSE IF a = "304" THEN @ ELSE NoNode]
           /\ NodeOutcome(a, used, ParseNode(panel.node))
  /\ listUnchanged
  /\ UNCHANGED << setup, panel, ctl >>

\* The client itself refuses port 0.
GetNodeInfo ==
  /\ Polls("NewV2board")
  /\ \E a \in Answers("node") :
       LET used == a = "good" /\ panel.node.ok /\ panel.node.port # 0
       IN  /\ Remember("node", a, used)
           /\ client' = [client EXCEPT !.resp = IF used THEN panel.node ELSE @]
           /\ NodeOutcome(a, used, ParseNode(panel.node))
  /\ listUnchanged
  /\ UNCHANGED << setup, panel, ctl >>

\* A list without users is an error, and its ETag is remembered: the last
\* user whom the panel removes goes on being served.
GetUserList ==
  /\ Asks("NewV2board")
  /\ \E a \in Answers("users") :
       LET used == a = "good" /\ Users(panel.limits) # {}
       IN  /\ Remember("users", a, used)
           /\ ListOutcome(a, used, [u \in User |-> ConfiguredLimit(u)])
  /\ listUnchanged
  /\ UNCHANGED << setup, panel, client, ctl >>

\* The routes of the stored configuration whose action is block.
GetNodeRule ==
  /\ AsksRules("NewV2board")
  /\ IF client.resp = NoNode
     THEN Crash /\ UNCHANGED ctl
     ELSE RulesOutcome("good", Local \cup client.resp.rules)
  /\ listUnchanged
  /\ UNCHANGED << setup, panel, client, etag, lost >>

=============================================================================
