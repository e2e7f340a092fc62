----------------------------- MODULE V2RaySocks -----------------------------
(***************************************************************************)
(* The client of V2RaySocks (api/v2raysocks).  The answer that holds the   *)
(* node is kept for GetNodeRule, whatever it was.                          *)
(***************************************************************************)
EXTENDS PanelApi

New ==
  [last |-> None, deviceLimit |-> setup.deviceLimit, resp |-> NoNode]

ParseTrojanNodeResponse(raw) ==
  [type |-> setup.type, port |-> raw.port, net |-> "tcp", tls |-> TRUE, reality |-> FALSE,
   vless |-> FALSE, kept |-> {"host"}]

ParseSSNodeResponse(raw) ==
  [type |-> setup.type, port |-> raw.port, net |-> "tcp", tls |-> FALSE, reality |-> FALSE,
   vless |-> FALSE, kept |-> Cipher(raw)]

\* EnableVless is not looked at: a node is VLESS if it is REALITY.
ParseV2rayNodeResponse(raw) ==
  [type |-> setup.type, port |-> raw.port, net |-> raw.net, tls |-> raw.sec = "tls",
   reality |-> raw.sec = "reality", vless |-> raw.sec = "reality",
   kept |-> CASE raw.net = "ws"   -> {"path", "host"}
              [] raw.net = "grpc" -> {"service"}
              [] raw.net = "tcp"  -> {"header"}
              [] OTHER            -> {}]

ParseNode(raw) ==
  CASE setup.type \in {"V2ray", "Vmess", "Vless"} -> ParseV2rayNodeResponse(raw)
    [] setup.type = "Trojan"                      -> ParseTrojanNodeResponse(raw)
    [] setup.type = "Shadowsocks"                 -> ParseSSNodeResponse(raw)

\* ConfigResp is nil after any error.  An answer without inbounds is an index
\* out of range.
GetNodeInfo ==
  /\ Polls("V2RaySocks")
  /\ \E a \in Answers("node") :
       LET used == a = "good" /\ panel.node.ok
       IN  /\ Remember("node", a, used)
           /\ client' = [client EXCEPT !.resp =
                CASE a = "304"  -> @
                  [] a = "good" -> panel.node
                  [] OTHER      -> NoNode]
           /\ IF a = "good" /\ ~panel.node.ok
              THEN Crash
              ELSE NodeOutcome(a, used, ParseNode(panel.node))
  /\ listUnchanged
  /\ UNCHANGED << setup, panel, ctl >>

GetUserList ==
  /\ Asks("V2RaySocks")
  /\ \E a \in Answers("users") :
       /\ Remember("users", a, a = "good")
       /\ ListOutcome(a, a = "good", [u \in User |-> OwnLimit(u)])
  /\ listUnchanged
  /\ UNCHANGED << setup, panel, client, ctl >>

ReportNodeOnlineUsers ==
  /\ Reports("V2RaySocks")
  /\ \E n \in Devices : Post(n)
  /\ UNCHANGED << setup, client, mon, ctl, lost, list >>

\* Faulty: without a configuration there are only the local rules.
GetNodeRule_local ==
  /\ AsksRules("V2RaySocks")
  /\ RulesOutcome("good", Local \cup IF client.resp.ok THEN client.resp.rules ELSE {})
  /\ listUnchanged
  /\ UNCHANGED << setup, panel, client, etag, lost >>

\* A request that failed and then a 304: ConfigResp is nil, and XrayR ends.
GetNodeRule ==
  /\ AsksRules("V2RaySocks")
  /\ IF client.resp = NoNode
     THEN Crash /\ UNCHANGED ctl
     ELSE RulesOutcome("good", Local \cup client.resp.rules)
  /\ listUnchanged
  /\ UNCHANGED << setup, panel, client, etag, lost >>

=============================================================================
