------------------------------ MODULE PMPanel -------------------------------
(***************************************************************************)
(* The client of PMPanel (api/pmpanel).  It uses no ETags.                 *)
(***************************************************************************)
EXTENDS PanelApi

New ==
  [last |-> None, deviceLimit |-> setup.deviceLimit, resp |-> NoNode]

ParseV2rayNodeResponse(raw) ==
  [type |-> setup.type, port |-> raw.port, net |-> raw.net, tls |-> raw.sec = "tls",
   reality |-> FALSE, vless |-> setup.vless,
   kept |-> CASE raw.net = "ws"   -> {"host", "path"}
              [] raw.net = "grpc" -> {"service"}
              [] OTHER            -> {}]

ParseSSNodeResponse(raw) ==
  [type |-> setup.type, port |-> raw.port, net |-> "tcp", tls |-> FALSE, reality |-> FALSE,
   vless |-> FALSE, kept |-> Cipher(raw)]

ParseTrojanNodeResponse(raw) ==
  [type |-> setup.type, port |-> raw.port, net |-> IF raw.net = "grpc" THEN "grpc" ELSE "tcp",
   tls |-> TRUE, reality |-> FALSE, vless |-> FALSE, kept |-> {"host", "service"}]

ParseNode(raw) ==
  CASE setup.type = "V2ray"       -> ParseV2rayNodeResponse(raw)
    [] setup.type = "Trojan"      -> ParseTrojanNodeResponse(raw)
    [] setup.type = "Shadowsocks" -> ParseSSNodeResponse(raw)

GetNodeInfo ==
  /\ Polls("PMPanel")
  /\ \E a \in PlainAnswers :
       NodeOutcome(a, a = "good" /\ panel.node.ok, ParseNode(panel.node))
  /\ Forget("node") /\ listUnchanged
  /\ UNCHANGED << setup, panel, client, ctl >>

ParseUserListResponse == [u \in User |-> OwnLimit(u)]

GetUserList ==
  /\ Asks("PMPanel")
  /\ \E a \in PlainAnswers : ListOutcome(a, a = "good", ParseUserListResponse)
  /\ Forget("users") /\ listUnchanged
  /\ UNCHANGED << setup, panel, client, ctl >>

ReportNodeOnlineUsers ==
  /\ Reports("PMPanel")
  /\ \E n \in Devices : Post(n)
  /\ UNCHANGED << setup, client, mon, ctl, lost, list >>

GetNodeRule ==
  /\ AsksRules("PMPanel")
  /\ \E a \in PlainAnswers : RulesOutcome(a, Local \cup panel.rules)
  /\ Forget("rules") /\ listUnchanged
  /\ UNCHANGED << setup, panel, client >>

=============================================================================
