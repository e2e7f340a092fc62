----------------------------- MODULE ProxyPanel -----------------------------
(***************************************************************************)
(* The client of ProxyPanel (api/proxypanel).  It uses no ETags.           *)
(***************************************************************************)
EXTENDS PanelApi

New ==
  [last |-> None, deviceLimit |-> setup.deviceLimit, resp |-> NoNode]

ParseV2rayNodeResponse(raw) ==
  [type |-> setup.type, port |-> raw.port, net |-> raw.net, tls |-> raw.sec = "tls",
   reality |-> FALSE, vless |-> setup.vless, kept |-> {"path", "host"}]

ParseSSNodeResponse(raw) ==
  [type |-> setup.type, port |-> raw.port, net |-> "tcp", tls |-> FALSE, reality |-> FALSE,
   vless |-> FALSE, kept |-> Cipher(raw)]

ParseTrojanNodeResponse(raw) ==
  [type |-> setup.type, port |-> raw.port, net |-> "tcp", tls |-> TRUE, reality |-> FALSE,
   vless |-> FALSE, kept |-> {}]

ParseNode(raw) ==
  CASE setup.type \in {"V2ray", "Vmess", "Vless"} -> ParseV2rayNodeResponse(raw)
    [] setup.type = "Trojan"                      -> ParseTrojanNodeResponse(raw)
    [] setup.type = "Shadowsocks"                 -> ParseSSNodeResponse(raw)

\* The node's limit of devices becomes the client's when that is 0, and stays.
ClientLimit(raw) ==
  IF client.deviceLimit = 0 /\ raw.limit > 0 THEN raw.limit ELSE client.deviceLimit

GetNodeInfo ==
  /\ Polls("ProxyPanel")
  /\ \E a \in PlainAnswers :
       LET used == a = "good" /\ panel.node.ok
       IN  /\ client' = IF used THEN [client EXCEPT !.deviceLimit = ClientLimit(panel.node)] ELSE client
           /\ NodeOutcome(a, used, ParseNode(panel.node))
  /\ Forget("node") /\ listUnchanged
  /\ UNCHANGED << setup, panel, ctl >>

\* ParseV2rayUserListResponse; the lists of the other types differ in the
\* secret of a user.
ParseUserListResponse == [u \in User |-> ConfiguredLimit(u)]

GetUserList ==
  /\ Asks("ProxyPanel")
  /\ \E a \in PlainAnswers : ListOutcome(a, a = "good", ParseUserListResponse)
  /\ Forget("users") /\ listUnchanged
  /\ UNCHANGED << setup, panel, client, ctl >>

ReportNodeOnlineUsers ==
  /\ Reports("ProxyPanel")
  /\ \E n \in Devices : Post(n)
  /\ UNCHANGED << setup, client, mon, ctl, lost, list >>

\* Only rules of the mode reject.
GetNodeRule ==
  /\ AsksRules("ProxyPanel")
  /\ \E a \in PlainAnswers :
       RulesOutcome(a, Local \cup IF setup.reject THEN panel.rules ELSE {})
  /\ Forget("rules") /\ listUnchanged
  /\ UNCHANGED << setup, panel, client >>

=============================================================================
