--------------------------- MODULE PanelNodeProofs ---------------------------
(***************************************************************************)
(* Proofs about PanelNode, for any users, limits, devices and nodes: the   *)
(* types, that a device limit is shared between nodes, that a run in which *)
(* nothing failed brings the node up to date with its panel, that the      *)
(* inbound is the one the panel describes, and what can end XrayR.  The    *)
(* calls of the seven clients are first reduced to the four that the       *)
(* controller makes (NodeAsked, ListAsked, RulesAsked, Reported), so that  *)
(* an invariant is proved once for all.                                    *)
(***************************************************************************)
EXTENDS PanelNode, TLAPS

Flags == [Resource -> BOOLEAN]

Limits == [User -> Int]

PanelTypes ==
  panel \in [node : setup.nodes, limits : setup.lists, rules : setup.rules, elsewhere : setup.away,
             ours : [User -> 0 .. setup.devices]]

ClientTypes ==
  client \in [last : [User -> 0 .. setup.devices], deviceLimit : Nat,
              resp : setup.nodes \cup {NoNode}]

MonTypes ==
  /\ mon \in [at : {"node", "tag", "users", "parse", "rules", "fill", "idle", "dead", "crashed"},
              starting : BOOLEAN, info : {mon.info}, limits : Limits, answer : Limits,
              current : BOOLEAN]
  /\ mon.info.port \in 0 .. MaxUint32

CtlTypes ==
  /\ ctl \in [node : {ctl.node}, limits : Limits, rules : {ctl.rules}, inbound : {ctl.inbound},
              accounts : {ctl.accounts}]
  /\ ctl.node.port \in 0 .. MaxUint32
  /\ ctl.inbound = Down \/ ctl.inbound.security \in {"none", "tls", "reality"}

ListTypes ==
  list \in [of : Limits, given : Limits, elsewhere : [User -> Nat], ours : [User -> Nat],
            counted : BOOLEAN]

Types ==
  /\ setup \in Setups
  /\ PanelTypes /\ ClientTypes /\ MonTypes /\ CtlTypes /\ ListTypes
  /\ etag \in Flags /\ lost \in Flags /\ counted \in BOOLEAN

\* Between a list and its use, the number of the panel is made of the devices
\* elsewhere and those that the client knows it has reported.
ShareInv ==
  /\ CountsDevices /\ counted => panel.ours = client.last
  /\ CountsDevices /\ counted /\ mon.at = "parse" =>
       \A u \in User : mon.answer[u] = list.elsewhere[u] + client.last[u]
  /\ ~CountsDevices => ~list.counted
  /\ LimitIsShared

KeepsResp == setup.kind \in {"NewV2board", "GoV2Panel"}

\* A client that has started has the configuration that GetNodeRule reads.
RespInv ==
  /\ mon.at = "node" => mon.starting /\ ~etag["node"]
  /\ KeepsResp /\ mon.at \notin {"node", "crashed"} => client.resp # NoNode

Inv == Types /\ ShareInv /\ RespInv

(***************************************************************************)
(* Each call of each client is one of a few calls that all clients have in *)
(* common, of which the parameters are the answer, and whether it is used. *)
(***************************************************************************)

NoEtags == Is("ProxyPanel") \/ Is("PMPanel")

\* What a client remembers of an answer with the node.
NodeClient(a, used) ==
  CASE KeepsResp        -> [client EXCEPT !.resp = IF used THEN panel.node ELSE @]
    [] Is("V2RaySocks") -> [client EXCEPT !.resp =
                              CASE a = "304" -> @ [] a = "good" -> panel.node [] OTHER -> NoNode]
    [] Is("ProxyPanel") -> IF used THEN [client EXCEPT !.deviceLimit = PRX!ClientLimit(panel.node)]
                           ELSE client
    [] OTHER            -> client

\* An answer in which a parser goes by what is not there.
NodePanics ==
  \/ Is("SSpanel") /\ SSP!ParsePanics(panel.node)
  \/ Is("V2RaySocks") /\ ~panel.node.ok

NodeAsked(a, used) ==
  /\ mon.at \in {"node", "idle"}
  /\ used \in BOOLEAN /\ (used => a = "good" /\ panel.node.ok)
  /\ IF NoEtags THEN a # "304" /\ UNCHANGED << etag, lost >>
     ELSE (a = "304" => etag["node"]) /\ Remember("node", a, used)
  /\ \/ NodeOutcome(a, used, NodeOf(panel.node))
     \/ NodePanics /\ Crash /\ a = "good" /\ ~used
  /\ client' = NodeClient(a, used)
  /\ UNCHANGED << setup, panel, ctl, counted, list >>

LEMMA SSPAsksNode == ASSUME SSP!GetNodeInfo PROVE \E a, used : NodeAsked(a, used)
<1>1. /\ Is("SSpanel") /\ mon.at \in {"node", "idle"}
      /\ UNCHANGED << setup, panel, client, ctl, counted, list >>
  BY DEF SSP!GetNodeInfo, SSP!Polls, SSP!Is, SSP!listUnchanged, Is
<1>2. PICK a \in SSP!Answers("node"), used \in BOOLEAN :
        /\ SSP!Remember("node", a, used)
        /\ used => a = "good" /\ panel.node.ok
        /\ \/ SSP!NodeOutcome(a, used, SSP!ParseNode(panel.node))
           \/ SSP!Crash /\ a = "good" /\ SSP!ParsePanics(panel.node) /\ ~used
  BY DEF SSP!GetNodeInfo, SSP!Accepts
<1>3. \/ NodeOutcome(a, used, NodeOf(panel.node))
      \/ NodePanics /\ Crash /\ a = "good" /\ ~used
  <2>1. NodeOf(panel.node) = SSP!ParseNode(panel.node)
    BY <1>1 DEF NodeOf, Is
  <2>2. CASE SSP!NodeOutcome(a, used, SSP!ParseNode(panel.node))
    BY <2>1, <2>2 DEF SSP!NodeOutcome, SSP!TakeNode, SSP!GiveUp, SSP!Crash, SSP!AtRest,
       SSP!NoInfo, SSP!None, NodeOutcome, TakeNode, GiveUp, Crash, AtRest, NoInfo, None
  <2>3. CASE SSP!Crash /\ a = "good" /\ SSP!ParsePanics(panel.node) /\ ~used
    BY <1>1, <2>3 DEF NodePanics, SSP!Crash, SSP!AtRest, SSP!NoInfo, SSP!None, Crash, AtRest,
       NoInfo, None
  <2> QED BY <1>2, <2>2, <2>3
<1>4. Remember("node", a, used) /\ ~NoEtags /\ (a = "304" => etag["node"])
  BY <1>1, <1>2 DEF SSP!Remember, SSP!Resource, Remember, Resource, SSP!Answers, SSP!Failing,
     NoEtags, Is
<1>5. client' = NodeClient(a, used)
  BY <1>1, <1>2 DEF NodeClient, KeepsResp, Is
<1> QED BY <1>1, <1>2, <1>3, <1>4, <1>5 DEF NodeAsked

LEMMA V2BAsksNode == ASSUME V2B!GetNodeInfo PROVE \E a, used : NodeAsked(a, used)
<1>1. /\ Is("NewV2board") /\ mon.at \in {"node", "idle"}
      /\ UNCHANGED << setup, panel, ctl, counted, list >>
  BY DEF V2B!GetNodeInfo, V2B!Polls, V2B!Is, V2B!listUnchanged, Is
<1>2. PICK a \in V2B!Answers("node"), used \in BOOLEAN :
        /\ V2B!Remember("node", a, used)
        /\ used => a = "good" /\ panel.node.ok
        /\ V2B!NodeOutcome(a, used, V2B!ParseNode(panel.node))
        /\ client' = [client EXCEPT !.resp = IF used THEN panel.node ELSE @]
  BY DEF V2B!GetNodeInfo
<1>3. NodeOutcome(a, used, NodeOf(panel.node))
  <2>1. NodeOf(panel.node) = V2B!ParseNode(panel.node)
    BY <1>1 DEF NodeOf, Is
  <2> QED
    BY <1>2, <2>1 DEF V2B!NodeOutcome, V2B!TakeNode, V2B!GiveUp, V2B!Crash, V2B!AtRest,
       V2B!NoInfo, V2B!None, NodeOutcome, TakeNode, GiveUp, Crash, AtRest, NoInfo, None
<1>4. Remember("node", a, used) /\ ~NoEtags /\ (a = "304" => etag["node"])
  BY <1>1, <1>2 DEF V2B!Remember, V2B!Resource, Remember, Resource, V2B!Answers, V2B!Failing,
     NoEtags, Is
<1>5. client' = NodeClient(a, used)
  BY <1>1, <1>2 DEF NodeClient, KeepsResp, Is
<1> QED BY <1>1, <1>2, <1>3, <1>4, <1>5 DEF NodeAsked

LEMMA PRXAsksNode == ASSUME PRX!GetNodeInfo PROVE \E a, used : NodeAsked(a, used)
<1>1. /\ Is("ProxyPanel") /\ mon.at \in {"node", "idle"}
      /\ UNCHANGED << setup, panel, ctl, counted, list >>
  BY DEF PRX!GetNodeInfo, PRX!Polls, PRX!Is, PRX!listUnchanged, Is
<1>2. PICK a \in PRX!PlainAnswers, used \in BOOLEAN :
        /\ UNCHANGED << etag, lost >>
        /\ used => a = "good" /\ panel.node.ok
        /\ PRX!NodeOutcome(a, used, PRX!ParseNode(panel.node))
        /\ client' = IF used THEN [client EXCEPT !.deviceLimit = PRX!ClientLimit(panel.node)]
                     ELSE client
  BY DEF PRX!GetNodeInfo, PRX!Forget
<1>3. NodeOutcome(a, used, NodeOf(panel.node))
  <2>1. NodeOf(panel.node) = PRX!ParseNode(panel.node)
    BY <1>1 DEF NodeOf, Is
  <2> QED
    BY <1>2, <2>1 DEF PRX!NodeOutcome, PRX!TakeNode, PRX!GiveUp, PRX!Crash, PRX!AtRest,
       PRX!NoInfo, PRX!None, NodeOutcome, TakeNode, GiveUp, Crash, AtRest, NoInfo, None
<1>4. a # "304" /\ NoEtags
  BY <1>1, <1>2 DEF PRX!PlainAnswers, NoEtags, Is
<1>5. client' = NodeClient(a, used)
  BY <1>1, <1>2 DEF NodeClient, KeepsResp, Is
<1> QED BY <1>1, <1>2, <1>3, <1>4, <1>5 DEF NodeAsked

LEMMA V2SAsksNode == ASSUME V2S!GetNodeInfo PROVE \E a, used : NodeAsked(a, used)
<1>1. /\ Is("V2RaySocks") /\ mon.at \in {"node", "idle"}
      /\ UNCHANGED << setup, panel, ctl, counted, list >>
  BY DEF V2S!GetNodeInfo, V2S!Polls, V2S!Is, V2S!listUnchanged, Is
<1>2. PICK a \in V2S!Answers("node"), used \in BOOLEAN :
        /\ V2S!Remember("node", a, used)
        /\ used => a = "good" /\ panel.node.ok
        /\ \/ V2S!NodeOutcome(a, used, V2S!ParseNode(panel.node))
           \/ V2S!Crash /\ a = "good" /\ ~panel.node.ok /\ ~used
        /\ client' = [client EXCEPT !.resp =
             CASE a = "304" -> @ [] a = "good" -> panel.node [] OTHER -> NoNode]
  BY DEF V2S!GetNodeInfo, V2S!NoNode, NoNode
<1>3. \/ NodeOutcome(a, used, NodeOf(panel.node))
      \/ NodePanics /\ Crash /\ a = "good" /\ ~used
  <2>1. NodeOf(panel.node) = V2S!ParseNode(panel.node)
    BY <1>1 DEF NodeOf, Is
  <2>2. CASE V2S!NodeOutcome(a, used, V2S!ParseNode(panel.node))
    BY <2>1, <2>2 DEF V2S!NodeOutcome, V2S!TakeNode, V2S!GiveUp, V2S!Crash, V2S!AtRest,
       V2S!NoInfo, V2S!None, NodeOutcome, TakeNode, GiveUp, Crash, AtRest, NoInfo, None
  <2>3. CASE V2S!Crash /\ a = "good" /\ ~panel.node.ok /\ ~used
    BY <1>1, <2>3 DEF NodePanics, V2S!Crash, V2S!AtRest, V2S!NoInfo, V2S!None, Crash, AtRest,
       NoInfo, None
  <2> QED BY <1>2, <2>2, <2>3
<1>4. Remember("node", a, used) /\ ~NoEtags /\ (a = "304" => etag["node"])
  BY <1>1, <1>2 DEF V2S!Remember, V2S!Resource, Remember, Resource, V2S!Answers, V2S!Failing,
     NoEtags, Is
<1>5. client' = NodeClient(a, used)
  BY <1>1, <1>2 DEF NodeClient, KeepsResp, Is
<1> QED BY <1>1, <1>2, <1>3, <1>4, <1>5 DEF NodeAsked, Is

LEMMA PMPAsksNode == ASSUME PMP!GetNodeInfo PROVE \E a, used : NodeAsked(a, used)
<1>1. /\ Is("PMPanel") /\ mon.at \in {"node", "idle"}
      /\ UNCHANGED << setup, panel, client, ctl, counted, list >>
  BY DEF PMP!GetNodeInfo, PMP!Polls, PMP!Is, PMP!listUnchanged, Is
<1>2. PICK a \in PMP!PlainAnswers, used \in BOOLEAN :
        /\ UNCHANGED << etag, lost >>
        /\ used => a = "good" /\ panel.node.ok
        /\ PMP!NodeOutcome(a, used, PMP!ParseNode(panel.node))
  BY DEF PMP!GetNodeInfo, PMP!Forget
<1>3. NodeOutcome(a, used, NodeOf(panel.node))
  <2>1. NodeOf(panel.node) = PMP!ParseNode(panel.node)
    BY <1>1 DEF NodeOf, Is
  <2> QED
    BY <1>2, <2>1 DEF PMP!NodeOutcome, PMP!TakeNode, PMP!GiveUp, PMP!Crash, PMP!AtRest,
       PMP!NoInfo, PMP!None, NodeOutcome, TakeNode, GiveUp, Crash, AtRest, NoInfo, None
<1>4. a # "304" /\ NoEtags
  BY <1>1, <1>2 DEF PMP!PlainAnswers, NoEtags, Is
<1>5. client' = NodeClient(a, used)
  BY <1>1, <1>2 DEF NodeClient, KeepsResp, Is
<1> QED BY <1>1, <1>2, <1>3, <1>4, <1>5 DEF NodeAsked

LEMMA BUNAsksNode == ASSUME BUN!GetNodeInfo PROVE \E a, used : NodeAsked(a, used)
<1>1. /\ Is("BunPanel") /\ mon.at \in {"node", "idle"}
      /\ UNCHANGED << setup, panel, client, ctl, counted, list >>
  BY DEF BUN!GetNodeInfo, BUN!Polls, BUN!Is, BUN!listUnchanged, Is
<1>2. PICK a \in BUN!Answers("node"), used \in BOOLEAN :
        /\ BUN!Remember("node", a, used)
        /\ used => a = "good" /\ panel.node.ok
        /\ BUN!NodeOutcome(a, used, BUN!ParseNodeInfo(panel.node))
  BY DEF BUN!GetNodeInfo
<1>3. NodeOutcome(a, used, NodeOf(panel.node))
  <2>1. NodeOf(panel.node) = BUN!ParseNodeInfo(panel.node)
    BY <1>1 DEF NodeOf, Is
  <2> QED
    BY <1>2, <2>1 DEF BUN!NodeOutcome, BUN!TakeNode, BUN!GiveUp, BUN!Crash, BUN!AtRest,
       BUN!NoInfo, BUN!None, NodeOutcome, TakeNode, GiveUp, Crash, AtRest, NoInfo, None
<1>4. Remember("node", a, used) /\ ~NoEtags /\ (a = "304" => etag["node"])
  BY <1>1, <1>2 DEF BUN!Remember, BUN!Resource, Remember, Resource, BUN!Answers, BUN!Failing,
     NoEtags, Is
<1>5. client' = NodeClient(a, used)
  BY <1>1, <1>2 DEF NodeClient, KeepsResp, Is
<1> QED BY <1>1, <1>2, <1>3, <1>4, <1>5 DEF NodeAsked

LEMMA GOVAsksNode == ASSUME GOV!GetNodeInfo PROVE \E a, used : NodeAsked(a, used)
<1>1. /\ Is("GoV2Panel") /\ mon.at \in {"node", "idle"}
      /\ UNCHANGED << setup, panel, ctl, counted, list >>
  BY DEF GOV!GetNodeInfo, GOV!Polls, GOV!Is, GOV!listUnchanged, Is
<1>2. PICK a \in GOV!Answers("node"), used \in BOOLEAN :
        /\ GOV!Remember("node", a, used)
        /\ used => a = "good" /\ panel.node.ok
        /\ GOV!NodeOutcome(a, used, GOV!ParseNode(panel.node))
        /\ client' = [client EXCEPT !.resp = IF used THEN panel.node ELSE @]
  BY DEF GOV!GetNodeInfo
<1>3. NodeOutcome(a, used, NodeOf(panel.node))
  <2>1. NodeOf(panel.node) = GOV!ParseNode(panel.node)
    BY <1>1 DEF NodeOf, Is
  <2> QED
    BY <1>2, <2>1 DEF GOV!NodeOutcome, GOV!TakeNode, GOV!GiveUp, GOV!Crash, GOV!AtRest,
       GOV!NoInfo, GOV!None, NodeOutcome, TakeNode, GiveUp, Crash, AtRest, NoInfo, None
<1>4. Remember("node", a, used) /\ ~NoEtags /\ (a = "304" => etag["node"])
  BY <1>1, <1>2 DEF GOV!Remember, GOV!Resource, Remember, Resource, GOV!Answers, GOV!Failing,
     NoEtags, Is
<1>5. client' = NodeClient(a, used)
  BY <1>1, <1>2 DEF NodeClient, KeepsResp, Is
<1> QED BY <1>1, <1>2, <1>3, <1>4, <1>5 DEF NodeAsked

\* The limits of a list for which the client counts no devices.
NewLimits ==
  [u \in User |-> IF setup.kind \in {"V2RaySocks", "PMPanel"} THEN OwnLimit(u) ELSE ConfiguredLimit(u)]

ListAsked(a, used) ==
  /\ mon.at = "users"
  /\ used \in BOOLEAN /\ (used => a = "good" /\ ~CountsDevices)
  /\ IF NoEtags THEN a # "304" /\ UNCHANGED << etag, lost >>
     ELSE (a = "304" => etag["users"]) /\ Remember("users", a, used)
  /\ ListOutcome(a, used, NewLimits)
  /\ UNCHANGED << setup, panel, client, ctl, counted, list >>

\* The clients of the panels that count devices keep the answer for parsing.
ListFetched ==
  /\ CountsDevices /\ mon.at = "users"
  /\ Remember("users", "good", TRUE)
  /\ mon' = [mon EXCEPT !.at = "parse", !.limits = panel.limits,
                        !.answer = [u \in User |-> Alive(u)]]
  /\ list' = [list EXCEPT !.elsewhere = panel.elsewhere, !.counted = FALSE]
  /\ UNCHANGED << setup, panel, client, ctl, counted >>

LEMMA SSPAsksList ==
  ASSUME SSP!GetUserList PROVE ListFetched \/ \E a, used : ListAsked(a, used)
<1>1. /\ Is("SSpanel") /\ mon.at = "users"
      /\ UNCHANGED << setup, panel, client, ctl, counted >>
  BY DEF SSP!GetUserList, SSP!Asks, SSP!Is, Is
<1>2. PICK a \in SSP!Answers("users") :
        /\ SSP!Remember("users", a, a = "good")
        /\ IF a = "good"
           THEN /\ mon' = [mon EXCEPT !.at = "parse", !.limits = panel.limits,
                                      !.answer = [u \in User |-> SSP!Alive(u)]]
                /\ list' = [list EXCEPT !.elsewhere = panel.elsewhere, !.counted = FALSE]
           ELSE SSP!ListOutcome(a, FALSE, SSP!None) /\ UNCHANGED list
  BY DEF SSP!GetUserList
<1>3. Remember("users", a, a = "good") /\ (a = "304" => etag["users"])
  BY <1>2 DEF SSP!Remember, SSP!Resource, Remember, Resource, SSP!Answers, SSP!Failing
<1>4. CASE a = "good"
  BY <1>1, <1>2, <1>3, <1>4 DEF ListFetched, SSP!Alive, Alive, CountsDevices, Is
<1>5. CASE a # "good"
  <2>1. ListOutcome(a, FALSE, NewLimits)
    BY <1>2, <1>5 DEF SSP!ListOutcome, SSP!TakeList, SSP!GiveUp, SSP!Crash, SSP!AtRest,
       SSP!NoInfo, SSP!None, ListOutcome, TakeList, GiveUp, Crash, AtRest, NoInfo, None
  <2>2. Remember("users", a, FALSE)
    BY <1>3, <1>5
  <2>3. ~NoEtags
    BY <1>1 DEF NoEtags, Is
  <2> QED BY <1>1, <1>2, <1>3, <1>5, <2>1, <2>2, <2>3 DEF ListAsked
<1> QED BY <1>4, <1>5

LEMMA V2BAsksList == ASSUME V2B!GetUserList PROVE \E a, used : ListAsked(a, used)
<1>1. /\ Is("NewV2board") /\ mon.at = "users"
      /\ UNCHANGED << setup, panel, client, ctl, counted, list >>
  BY DEF V2B!GetUserList, V2B!Asks, V2B!Is, V2B!listUnchanged, Is
<1>2. PICK a \in V2B!Answers("users"), used \in BOOLEAN :
        /\ used => a = "good"
        /\ V2B!Remember("users", a, used)
        /\ V2B!ListOutcome(a, used, [u \in User |-> V2B!ConfiguredLimit(u)])
  BY DEF V2B!GetUserList
<1>3. [u \in User |-> V2B!ConfiguredLimit(u)] = NewLimits
  BY <1>1 DEF NewLimits, V2B!ConfiguredLimit, ConfiguredLimit, V2B!Out, Out, Is
<1>4. ListOutcome(a, used, NewLimits)
  BY <1>2, <1>3 DEF V2B!ListOutcome, V2B!TakeList, V2B!GiveUp, V2B!Crash, V2B!AtRest,
     V2B!NoInfo, V2B!None, ListOutcome, TakeList, GiveUp, Crash, AtRest, NoInfo, None
<1>5. Remember("users", a, used) /\ ~NoEtags /\ (a = "304" => etag["users"])
  BY <1>1, <1>2 DEF V2B!Remember, V2B!Resource, Remember, Resource, V2B!Answers, V2B!Failing,
     NoEtags, Is
<1> QED BY <1>1, <1>2, <1>4, <1>5 DEF ListAsked, CountsDevices, Is

LEMMA PRXAsksList == ASSUME PRX!GetUserList PROVE \E a, used : ListAsked(a, used)
<1>1. /\ Is("ProxyPanel") /\ mon.at = "users"
      /\ UNCHANGED << setup, panel, client, ctl, counted, list >>
  BY DEF PRX!GetUserList, PRX!Asks, PRX!Is, PRX!listUnchanged, Is
<1>2. PICK a \in PRX!PlainAnswers, used \in BOOLEAN :
        /\ used => a = "good"
        /\ UNCHANGED << etag, lost >>
        /\ PRX!ListOutcome(a, used, PRX!ParseUserListResponse)
  BY DEF PRX!GetUserList, PRX!Forget
<1>3. PRX!ParseUserListResponse = NewLimits
  BY <1>1 DEF NewLimits, PRX!ConfiguredLimit, ConfiguredLimit, PRX!Out, Out, Is, PRX!ParseUserListResponse
<1>4. ListOutcome(a, used, NewLimits)
  BY <1>2, <1>3 DEF PRX!ListOutcome, PRX!TakeList, PRX!GiveUp, PRX!Crash, PRX!AtRest,
     PRX!NoInfo, PRX!None, ListOutcome, TakeList, GiveUp, Crash, AtRest, NoInfo, None
<1>5. a # "304" /\ NoEtags
  BY <1>1, <1>2 DEF PRX!PlainAnswers, NoEtags, Is
<1> QED BY <1>1, <1>2, <1>4, <1>5 DEF ListAsked, CountsDevices, Is

LEMMA V2SAsksList == ASSUME V2S!GetUserList PROVE \E a, used : ListAsked(a, used)
<1>1. /\ Is("V2RaySocks") /\ mon.at = "users"
      /\ UNCHANGED << setup, panel, client, ctl, counted, list >>
  BY DEF V2S!GetUserList, V2S!Asks, V2S!Is, V2S!listUnchanged, Is
<1>2. PICK a \in V2S!Answers("users"), used \in BOOLEAN :
        /\ used => a = "good"
        /\ V2S!Remember("users", a, used)
        /\ V2S!ListOutcome(a, used, [u \in User |-> V2S!OwnLimit(u)])
  BY DEF V2S!GetUserList
<1>3. [u \in User |-> V2S!OwnLimit(u)] = NewLimits
  BY <1>1 DEF NewLimits, V2S!OwnLimit, OwnLimit, V2S!Out, Out, Is
<1>4. ListOutcome(a, used, NewLimits)
  BY <1>2, <1>3 DEF V2S!ListOutcome, V2S!TakeList, V2S!GiveUp, V2S!Crash, V2S!AtRest,
     V2S!NoInfo, V2S!None, ListOutcome, TakeList, GiveUp, Crash, AtRest, NoInfo, None
<1>5. Remember("users", a, used) /\ ~NoEtags /\ (a = "304" => etag["users"])
  BY <1>1, <1>2 DEF V2S!Remember, V2S!Resource, Remember, Resource, V2S!Answers, V2S!Failing,
     NoEtags, Is
<1> QED BY <1>1, <1>2, <1>4, <1>5 DEF ListAsked, CountsDevices, Is

LEMMA PMPAsksList == ASSUME PMP!GetUserList PROVE \E a, used : ListAsked(a, used)
<1>1. /\ Is("PMPanel") /\ mon.at = "users"
      /\ UNCHANGED << setup, panel, client, ctl, counted, list >>
  BY DEF PMP!GetUserList, PMP!Asks, PMP!Is, PMP!listUnchanged, Is
<1>2. PICK a \in PMP!PlainAnswers, used \in BOOLEAN :
        /\ used => a = "good"
        /\ UNCHANGED << etag, lost >>
        /\ PMP!ListOutcome(a, used, PMP!ParseUserListResponse)
  BY DEF PMP!GetUserList, PMP!Forget
<1>3. PMP!ParseUserListResponse = NewLimits
  BY <1>1 DEF NewLimits, PMP!OwnLimit, OwnLimit, PMP!Out, Out, Is, PMP!ParseUserListResponse
<1>4. ListOutcome(a, used, NewLimits)
  BY <1>2, <1>3 DEF PMP!ListOutcome, PMP!TakeList, PMP!GiveUp, PMP!Crash, PMP!AtRest,
     PMP!NoInfo, PMP!None, ListOutcome, TakeList, GiveUp, Crash, AtRest, NoInfo, None
<1>5. a # "304" /\ NoEtags
  BY <1>1, <1>2 DEF PMP!PlainAnswers, NoEtags, Is
<1> QED BY <1>1, <1>2, <1>4, <1>5 DEF ListAsked, CountsDevices, Is

LEMMA BUNAsksList ==
  ASSUME BUN!GetUserList PROVE ListFetched \/ \E a, used : ListAsked(a, used)
<1>1. /\ Is("BunPanel") /\ mon.at = "users"
      /\ UNCHANGED << setup, panel, client, ctl, counted >>
  BY DEF BUN!GetUserList, BUN!Asks, BUN!Is, Is
<1>2. PICK a \in BUN!Answers("users") :
        /\ BUN!Remember("users", a, a = "good")
        /\ IF a = "good"
           THEN /\ mon' = [mon EXCEPT !.at = "parse", !.limits = panel.limits,
                                      !.answer = [u \in User |-> BUN!Alive(u)]]
                /\ list' = [list EXCEPT !.elsewhere = panel.elsewhere, !.counted = FALSE]
           ELSE BUN!ListOutcome(a, FALSE, BUN!None) /\ UNCHANGED list
  BY DEF BUN!GetUserList
<1>3. Remember("users", a, a = "good") /\ (a = "304" => etag["users"])
  BY <1>2 DEF BUN!Remember, BUN!Resource, Remember, Resource, BUN!Answers, BUN!Failing
<1>4. CASE a = "good"
  BY <1>1, <1>2, <1>3, <1>4 DEF ListFetched, BUN!Alive, Alive, CountsDevices, Is
<1>5. CASE a # "good"
  <2>1. ListOutcome(a, FALSE, NewLimits)
    BY <1>2, <1>5 DEF BUN!ListOutcome, BUN!TakeList, BUN!GiveUp, BUN!Crash, BUN!AtRest,
       BUN!NoInfo, BUN!None, ListOutcome, TakeList, GiveUp, Crash, AtRest, NoInfo, None
  <2>2. Remember("users", a, FALSE)
    BY <1>3, <1>5
  <2>3. ~NoEtags
    BY <1>1 DEF NoEtags, Is
  <2> QED BY <1>1, <1>2, <1>3, <1>5, <2>1, <2>2, <2>3 DEF ListAsked
<1> QED BY <1>4, <1>5

LEMMA GOVAsksList == ASSUME GOV!GetUserList PROVE \E a, used : ListAsked(a, used)
<1>1. /\ Is("GoV2Panel") /\ mon.at = "users"
      /\ UNCHANGED << setup, panel, client, ctl, counted, list >>
  BY DEF GOV!GetUserList, GOV!Asks, GOV!Is, GOV!listUnchanged, Is
<1>2. PICK a \in GOV!Answers("users"), used \in BOOLEAN :
        /\ used => a = "good"
        /\ GOV!Remember("users", a, used)
        /\ GOV!ListOutcome(a, used, [u \in User |-> GOV!ConfiguredLimit(u)])
  BY DEF GOV!GetUserList
<1>3. [u \in User |-> GOV!ConfiguredLimit(u)] = NewLimits
  BY <1>1 DEF NewLimits, GOV!ConfiguredLimit, ConfiguredLimit, GOV!Out, Out, Is
<1>4. ListOutcome(a, used, NewLimits)
  BY <1>2, <1>3 DEF GOV!ListOutcome, GOV!TakeList, GOV!GiveUp, GOV!Crash, GOV!AtRest,
     GOV!NoInfo, GOV!None, ListOutcome, TakeList, GiveUp, Crash, AtRest, NoInfo, None
<1>5. Remember("users", a, used) /\ ~NoEtags /\ (a = "304" => etag["users"])
  BY <1>1, <1>2 DEF GOV!Remember, GOV!Resource, Remember, Resource, GOV!Answers, GOV!Failing,
     NoEtags, Is
<1> QED BY <1>1, <1>2, <1>4, <1>5 DEF ListAsked, CountsDevices, Is

\* The rules that a client gives its controller.
GivenRules == IF RulesInNode THEN client.resp.rules ELSE PanelRules

RulesAsked(a) ==
  /\ mon.at = "rules"
  /\ IF Is("SSpanel") THEN (a = "304" => etag["rules"]) /\ Remember("rules", a, a = "good")
     ELSE a # "304" /\ UNCHANGED << etag, lost >>
  /\ IF RulesInNode /\ client.resp = NoNode THEN Crash /\ UNCHANGED ctl
     ELSE RulesOutcome(a, Local \cup GivenRules)
  /\ UNCHANGED << setup, panel, client, counted, list >>

LEMMA SSPAsksRules == ASSUME SSP!GetNodeRule PROVE \E a : RulesAsked(a)
<1>1. /\ Is("SSpanel") /\ mon.at = "rules"
      /\ UNCHANGED << setup, panel, client, counted, list >>
  BY DEF SSP!GetNodeRule, SSP!AsksRules, SSP!Is, SSP!listUnchanged, Is
<1>2. PICK a \in SSP!Answers("rules") :
        /\ SSP!Remember("rules", a, a = "good")
        /\ SSP!RulesOutcome(a, Local \cup panel.rules)
  BY DEF SSP!GetNodeRule
<1>3. RulesOutcome(a, Local \cup panel.rules)
  BY <1>2 DEF SSP!RulesOutcome, SSP!MustCompilePanics, SSP!Crash, MustCompilePanics, Crash, SSP!UpdateRule, SSP!AfterRules, SSP!AtRest, SSP!NoInfo, SSP!None,
     SSP!Tag, RulesOutcome, UpdateRule, AfterRules, AtRest, NoInfo, None, Tag
<1>4. ~RulesInNode /\ GivenRules = panel.rules
  BY <1>1 DEF RulesInNode, GivenRules, PanelRules, Is
<1>5. Remember("rules", a, a = "good") /\ (a = "304" => etag["rules"])
  BY <1>2 DEF SSP!Remember, SSP!Resource, Remember, Resource, SSP!Answers, SSP!Failing
<1> QED BY <1>1, <1>3, <1>4, <1>5 DEF RulesAsked

LEMMA V2BAsksRules == ASSUME V2B!GetNodeRule PROVE \E a : RulesAsked(a)
<1>1. /\ Is("NewV2board") /\ mon.at = "rules"
      /\ UNCHANGED << setup, panel, client, counted, list >>
  BY DEF V2B!GetNodeRule, V2B!AsksRules, V2B!Is, V2B!listUnchanged, Is
<1>2. RulesInNode /\ ~Is("SSpanel") /\ GivenRules = client.resp.rules
  BY <1>1 DEF RulesInNode, GivenRules, Is
<1>3. UNCHANGED << etag, lost >>
  BY DEF V2B!GetNodeRule
<1>4. CASE client.resp = NoNode
  <2>1. Crash /\ UNCHANGED ctl
    BY <1>4 DEF V2B!GetNodeRule, V2B!NoNode, NoNode, V2B!Crash, V2B!AtRest, V2B!NoInfo, V2B!None,
       Crash, AtRest, NoInfo, None
  <2> QED BY <1>1, <1>2, <1>3, <1>4, <2>1 DEF RulesAsked
<1>5. CASE client.resp # NoNode
  <2>1. V2B!RulesOutcome("good", Local \cup client.resp.rules)
    BY <1>5 DEF V2B!GetNodeRule, V2B!NoNode, NoNode
  <2>2. RulesOutcome("good", Local \cup client.resp.rules)
    BY <2>1 DEF V2B!RulesOutcome, V2B!MustCompilePanics, V2B!Crash, MustCompilePanics, Crash, V2B!UpdateRule, V2B!AfterRules, V2B!AtRest, V2B!NoInfo,
       V2B!None, V2B!Tag, RulesOutcome, UpdateRule, AfterRules, AtRest, NoInfo, None, Tag
  <2> QED BY <1>1, <1>2, <1>3, <1>5, <2>2 DEF RulesAsked
<1> QED BY <1>4, <1>5

LEMMA PRXAsksRules == ASSUME PRX!GetNodeRule PROVE \E a : RulesAsked(a)
<1>1. /\ Is("ProxyPanel") /\ mon.at = "rules"
      /\ UNCHANGED << setup, panel, client, counted, list >>
  BY DEF PRX!GetNodeRule, PRX!AsksRules, PRX!Is, PRX!listUnchanged, Is
<1>2. PICK a \in PRX!PlainAnswers :
        /\ UNCHANGED << etag, lost >>
        /\ PRX!RulesOutcome(a, Local \cup IF setup.reject THEN panel.rules ELSE {})
  BY DEF PRX!GetNodeRule, PRX!Forget
<1>3. RulesOutcome(a, Local \cup IF setup.reject THEN panel.rules ELSE {})
  BY <1>2 DEF PRX!RulesOutcome, PRX!MustCompilePanics, PRX!Crash, MustCompilePanics, Crash, PRX!UpdateRule, PRX!AfterRules, PRX!AtRest, PRX!NoInfo, PRX!None,
     PRX!Tag, RulesOutcome, UpdateRule, AfterRules, AtRest, NoInfo, None, Tag
<1>4. ~RulesInNode /\ ~Is("SSpanel") /\ GivenRules = IF setup.reject THEN panel.rules ELSE {}
  BY <1>1 DEF RulesInNode, GivenRules, PanelRules, Is
<1>5. a # "304"
  BY <1>2 DEF PRX!PlainAnswers
<1> QED BY <1>1, <1>2, <1>3, <1>4, <1>5 DEF RulesAsked

LEMMA V2SAsksRules == ASSUME V2S!GetNodeRule PROVE \E a : RulesAsked(a)
<1>1. /\ Is("V2RaySocks") /\ mon.at = "rules"
      /\ UNCHANGED << setup, panel, client, counted, list >>
  BY DEF V2S!GetNodeRule, V2S!AsksRules, V2S!Is, V2S!listUnchanged, Is
<1>2. RulesInNode /\ ~Is("SSpanel") /\ GivenRules = client.resp.rules
  BY <1>1 DEF RulesInNode, GivenRules, Is
<1>3. UNCHANGED << etag, lost >>
  BY DEF V2S!GetNodeRule
<1>4. CASE client.resp = NoNode
  <2>1. Crash /\ UNCHANGED ctl
    BY <1>4 DEF V2S!GetNodeRule, V2S!NoNode, NoNode, V2S!Crash, V2S!AtRest, V2S!NoInfo, V2S!None,
       Crash, AtRest, NoInfo, None
  <2> QED BY <1>1, <1>2, <1>3, <1>4, <2>1 DEF RulesAsked
<1>5. CASE client.resp # NoNode
  <2>1. V2S!RulesOutcome("good", Local \cup client.resp.rules)
    BY <1>5 DEF V2S!GetNodeRule, V2S!NoNode, NoNode
  <2>2. RulesOutcome("good", Local \cup client.resp.rules)
    BY <2>1 DEF V2S!RulesOutcome, V2S!MustCompilePanics, V2S!Crash, MustCompilePanics, Crash, V2S!UpdateRule, V2S!AfterRules, V2S!AtRest, V2S!NoInfo,
       V2S!None, V2S!Tag, RulesOutcome, UpdateRule, AfterRules, AtRest, NoInfo, None, Tag
  <2> QED BY <1>1, <1>2, <1>3, <1>5, <2>2 DEF RulesAsked
<1> QED BY <1>4, <1>5

LEMMA PMPAsksRules == ASSUME PMP!GetNodeRule PROVE \E a : RulesAsked(a)
<1>1. /\ Is("PMPanel") /\ mon.at = "rules"
      /\ UNCHANGED << setup, panel, client, counted, list >>
  BY DEF PMP!GetNodeRule, PMP!AsksRules, PMP!Is, PMP!listUnchanged, Is
<1>2. PICK a \in PMP!PlainAnswers :
        /\ UNCHANGED << etag, lost >>
        /\ PMP!RulesOutcome(a, Local \cup panel.rules)
  BY DEF PMP!GetNodeRule, PMP!Forget
<1>3. RulesOutcome(a, Local \cup panel.rules)
  BY <1>2 DEF PMP!RulesOutcome, PMP!MustCompilePanics, PMP!Crash, MustCompilePanics, Crash, PMP!UpdateRule, PMP!AfterRules, PMP!AtRest, PMP!NoInfo, PMP!None,
     PMP!Tag, RulesOutcome, UpdateRule, AfterRules, AtRest, NoInfo, None, Tag
<1>4. ~RulesInNode /\ ~Is("SSpanel") /\ GivenRules = panel.rules
  BY <1>1 DEF RulesInNode, GivenRules, PanelRules, Is
<1>5. a # "304"
  BY <1>2 DEF PMP!PlainAnswers
<1> QED BY <1>1, <1>2, <1>3, <1>4, <1>5 DEF RulesAsked

LEMMA BUNAsksRules == ASSUME BUN!GetNodeRule PROVE \E a : RulesAsked(a)
<1>1. /\ Is("BunPanel") /\ mon.at = "rules"
      /\ UNCHANGED << setup, panel, client, counted, list >>
  BY DEF BUN!GetNodeRule, BUN!AsksRules, BUN!Is, BUN!listUnchanged, Is
<1>2. BUN!RulesOutcome("good", Local) /\ UNCHANGED << etag, lost >>
  BY DEF BUN!GetNodeRule, BUN!Forget
<1>3. RulesOutcome("good", Local)
  BY <1>2 DEF BUN!RulesOutcome, BUN!MustCompilePanics, BUN!Crash, MustCompilePanics, Crash, BUN!UpdateRule, BUN!AfterRules, BUN!AtRest, BUN!NoInfo, BUN!None,
     BUN!Tag, RulesOutcome, UpdateRule, AfterRules, AtRest, NoInfo, None, Tag
<1>4. ~RulesInNode /\ ~Is("SSpanel") /\ Local \cup GivenRules = Local
  BY <1>1 DEF RulesInNode, GivenRules, PanelRules, Is
<1> QED BY <1>1, <1>2, <1>3, <1>4 DEF RulesAsked

LEMMA GOVAsksRules == ASSUME GOV!GetNodeRule PROVE \E a : RulesAsked(a)
<1>1. /\ Is("GoV2Panel") /\ mon.at = "rules"
      /\ UNCHANGED << setup, panel, client, counted, list >>
  BY DEF GOV!GetNodeRule, GOV!AsksRules, GOV!Is, GOV!listUnchanged, Is
<1>2. RulesInNode /\ ~Is("SSpanel") /\ GivenRules = client.resp.rules
  BY <1>1 DEF RulesInNode, GivenRules, Is
<1>3. UNCHANGED << etag, lost >>
  BY DEF GOV!GetNodeRule
<1>4. CASE client.resp = NoNode
  <2>1. Crash /\ UNCHANGED ctl
    BY <1>4 DEF GOV!GetNodeRule, GOV!NoNode, NoNode, GOV!Crash, GOV!AtRest, GOV!NoInfo, GOV!None,
       Crash, AtRest, NoInfo, None
  <2> QED BY <1>1, <1>2, <1>3, <1>4, <2>1 DEF RulesAsked
<1>5. CASE client.resp # NoNode
  <2>1. GOV!RulesOutcome("good", Local \cup client.resp.rules)
    BY <1>5 DEF GOV!GetNodeRule, GOV!NoNode, NoNode
  <2>2. RulesOutcome("good", Local \cup client.resp.rules)
    BY <2>1 DEF GOV!RulesOutcome, GOV!MustCompilePanics, GOV!Crash, MustCompilePanics, Crash, GOV!UpdateRule, GOV!AfterRules, GOV!AtRest, GOV!NoInfo,
       GOV!None, GOV!Tag, RulesOutcome, UpdateRule, AfterRules, AtRest, NoInfo, None, Tag
  <2> QED BY <1>1, <1>2, <1>3, <1>5, <2>2 DEF RulesAsked
<1> QED BY <1>4, <1>5

\* A client of a panel that counts devices remembers what it reports, before
\* the panel has it.
Reported(n) ==
  /\ mon.at # "crashed" /\ ~mon.starting
  /\ n \in [User -> 0 .. setup.devices]
  /\ client' = IF CountsDevices THEN [client EXCEPT !.last = n] ELSE client
  /\ Post(n)
  /\ UNCHANGED << setup, mon, ctl, lost, list >>

LEMMA SSPReports == ASSUME SSP!ReportNodeOnlineUsers PROVE \E n : Reported(n)
<1>1. /\ Is("SSpanel") /\ mon.at # "crashed" /\ ~mon.starting
      /\ UNCHANGED << setup, mon, ctl, lost, list >>
  BY DEF SSP!ReportNodeOnlineUsers, SSP!Reports, SSP!Is, Is
<1>2. PICK n \in [User -> 0 .. setup.devices] :
        SSP!Post(n) /\ client' = [client EXCEPT !.last = n]
  BY DEF SSP!ReportNodeOnlineUsers, SSP!Devices
<1>3. Post(n)
  BY <1>2 DEF SSP!Post, SSP!May, Post, May
<1> QED BY <1>1, <1>2, <1>3 DEF Reported, CountsDevices, Is

LEMMA PRXReports == ASSUME PRX!ReportNodeOnlineUsers PROVE \E n : Reported(n)
<1>1. /\ Is("ProxyPanel") /\ mon.at # "crashed" /\ ~mon.starting
      /\ UNCHANGED << setup, client, mon, ctl, lost, list >>
  BY DEF PRX!ReportNodeOnlineUsers, PRX!Reports, PRX!Is, Is
<1>2. PICK n \in [User -> 0 .. setup.devices] :
        PRX!Post(n)
  BY DEF PRX!ReportNodeOnlineUsers, PRX!Devices
<1>3. Post(n)
  BY <1>2 DEF PRX!Post, PRX!May, Post, May
<1> QED BY <1>1, <1>2, <1>3 DEF Reported, CountsDevices, Is

LEMMA V2SReports == ASSUME V2S!ReportNodeOnlineUsers PROVE \E n : Reported(n)
<1>1. /\ Is("V2RaySocks") /\ mon.at # "crashed" /\ ~mon.starting
      /\ UNCHANGED << setup, client, mon, ctl, lost, list >>
  BY DEF V2S!ReportNodeOnlineUsers, V2S!Reports, V2S!Is, Is
<1>2. PICK n \in [User -> 0 .. setup.devices] :
        V2S!Post(n)
  BY DEF V2S!ReportNodeOnlineUsers, V2S!Devices
<1>3. Post(n)
  BY <1>2 DEF V2S!Post, V2S!May, Post, May
<1> QED BY <1>1, <1>2, <1>3 DEF Reported, CountsDevices, Is

LEMMA PMPReports == ASSUME PMP!ReportNodeOnlineUsers PROVE \E n : Reported(n)
<1>1. /\ Is("PMPanel") /\ mon.at # "crashed" /\ ~mon.starting
      /\ UNCHANGED << setup, client, mon, ctl, lost, list >>
  BY DEF PMP!ReportNodeOnlineUsers, PMP!Reports, PMP!Is, Is
<1>2. PICK n \in [User -> 0 .. setup.devices] :
        PMP!Post(n)
  BY DEF PMP!ReportNodeOnlineUsers, PMP!Devices
<1>3. Post(n)
  BY <1>2 DEF PMP!Post, PMP!May, Post, May
<1> QED BY <1>1, <1>2, <1>3 DEF Reported, CountsDevices, Is

LEMMA BUNReports == ASSUME BUN!ReportNodeOnlineUsers PROVE \E n : Reported(n)
<1>1. /\ Is("BunPanel") /\ mon.at # "crashed" /\ ~mon.starting
      /\ UNCHANGED << setup, mon, ctl, lost, list >>
  BY DEF BUN!ReportNodeOnlineUsers, BUN!Reports, BUN!Is, Is
<1>2. PICK n \in [User -> 0 .. setup.devices] :
        BUN!Post(n) /\ client' = [client EXCEPT !.last = n]
  BY DEF BUN!ReportNodeOnlineUsers, BUN!Devices
<1>3. Post(n)
  BY <1>2 DEF BUN!Post, BUN!May, Post, May
<1> QED BY <1>1, <1>2, <1>3 DEF Reported, CountsDevices, Is

(***************************************************************************)
(* What these calls do to the types, the numbers of devices and the        *)
(* configuration that a client keeps.                                      *)
(***************************************************************************)

NodeEffect ==
  /\ mon.at \in {"node", "idle"}
  /\ UNCHANGED << setup, panel, ctl, counted, list >>
  /\ etag' \in Flags /\ lost' \in Flags /\ ClientTypes' /\ MonTypes'
  /\ client'.last = client.last
  /\ mon'.at \in {"idle", "dead", "crashed", "tag", "users"}
  /\ KeepsResp /\ mon'.at # "crashed" => client'.resp # NoNode

ListEffect ==
  /\ mon.at = "users"
  /\ UNCHANGED << setup, panel, client, ctl, counted, list >>
  /\ etag' \in Flags /\ lost' \in Flags /\ MonTypes'
  /\ mon'.at \in {"idle", "crashed", "fill", "tag", "rules"}
  /\ mon'.at = "crashed" => mon'.starting

RulesEffect ==
  /\ mon.at = "rules"
  /\ UNCHANGED << setup, panel, client, counted, list >>
  /\ etag' \in Flags /\ lost' \in Flags /\ MonTypes' /\ CtlTypes'
  /\ mon'.at \in {"idle", "crashed", "fill"}

LEMMA NodeEffectInv == ASSUME Inv, NodeEffect PROVE Inv'
<1> USE DEF Inv, NodeEffect
<1>1. Types'
  BY DEF Types, PanelTypes, ClientTypes, MonTypes, CtlTypes, ListTypes
<1>2. ShareInv'
  BY DEF ShareInv, CountsDevices, LimitIsShared
<1>3. RespInv'
  BY DEF RespInv, KeepsResp, Is
<1> QED BY <1>1, <1>2, <1>3

LEMMA ListEffectInv == ASSUME Inv, ListEffect PROVE Inv'
<1> USE DEF Inv, ListEffect
<1>1. Types'
  BY DEF Types, PanelTypes, ClientTypes, MonTypes, CtlTypes, ListTypes
<1>2. ShareInv'
  BY DEF ShareInv, CountsDevices, LimitIsShared
<1>3. RespInv'
  BY DEF RespInv, KeepsResp, Is
<1> QED BY <1>1, <1>2, <1>3

LEMMA RulesEffectInv == ASSUME Inv, RulesEffect PROVE Inv'
<1> USE DEF Inv, RulesEffect
<1>1. Types'
  BY DEF Types, PanelTypes, ClientTypes, MonTypes, CtlTypes, ListTypes
<1>2. ShareInv'
  BY DEF ShareInv, CountsDevices, LimitIsShared
<1>3. RespInv'
  BY DEF RespInv, KeepsResp, Is
<1> QED BY <1>1, <1>2, <1>3

(***************************************************************************)
(* GetNodeInfo.                                                            *)
(***************************************************************************)

LEMMA RememberTypes ==
  ASSUME Inv, NEW r, NEW a, NEW used \in BOOLEAN, Remember(r, a, used)
  PROVE  etag' \in Flags /\ lost' \in Flags
BY DEF Inv, Types, Remember, Flags, Resource

Ended(at, starting) ==
  [at |-> at, starting |-> starting, info |-> NoInfo, limits |-> None, answer |-> None,
   current |-> FALSE]

LEMMA EndedTypes ==
  ASSUME NEW at \in {"idle", "dead", "crashed"}, NEW starting \in BOOLEAN,
         mon' = Ended(at, starting)
  PROVE  MonTypes' /\ mon'.at = at /\ mon'.starting = starting
<1>1. None \in Limits
  BY DEF None, Limits
<1>2. NoInfo.port \in 0 .. MaxUint32
  BY SetupsAssumption DEF NoInfo
<1> QED
  BY <1>1, <1>2 DEF MonTypes, Ended

LEMMA CrashEnds ==
  ASSUME Inv, Crash
  PROVE  mon' = Ended("crashed", mon.starting) /\ mon.starting \in BOOLEAN
BY DEF Crash, AtRest, Ended, Inv, Types, MonTypes

LEMMA GiveUpTypes ==
  ASSUME Inv, GiveUp
  PROVE  MonTypes' /\ mon'.at \in {"idle", "crashed"} /\ (mon'.at = "crashed" => mon'.starting)
<1>1. CASE mon.starting
  BY <1>1, CrashEnds, EndedTypes DEF GiveUp
<1>2. CASE ~mon.starting
  BY <1>2, EndedTypes DEF GiveUp, AtRest, Ended
<1> QED BY <1>1, <1>2

LEMMA TakeNodeTypes ==
  ASSUME Inv, NEW info, info.port \in 0 .. MaxUint32, TakeNode(info)
  PROVE  /\ MonTypes' /\ mon'.at \in {"tag", "users", "dead", "crashed"}
         /\ mon'.at = "crashed" => mon'.starting
<1>1. CASE info.port # 0
  BY <1>1 DEF TakeNode, Inv, Types, MonTypes
<1>2. CASE info.port = 0 /\ mon.starting
  BY <1>2, CrashEnds, EndedTypes DEF TakeNode
<1>3. CASE info.port = 0 /\ ~mon.starting
  BY <1>3, EndedTypes DEF TakeNode, AtRest, Ended
<1> QED BY <1>1, <1>2, <1>3

\* The outcomes of a request for the node.
NodeMon ==
  /\ MonTypes'
  /\ mon'.at \in {"idle", "dead", "crashed", "tag", "users"}
  /\ mon'.at = "crashed" => mon'.starting

LEMMA NodeOutcomeTypes ==
  ASSUME Inv, NEW a, NEW used, NEW info, info.port \in 0 .. MaxUint32, NodeOutcome(a, used, info)
  PROVE  NodeMon
<1>1. ctl.node.port \in 0 .. MaxUint32
  BY DEF Inv, Types, CtlTypes
<1>2. CASE GiveUp
  BY <1>2, GiveUpTypes DEF NodeMon
<1>3. CASE TakeNode(info) \/ TakeNode(ctl.node)
  BY <1>1, <1>3, TakeNodeTypes DEF NodeMon
<1> QED BY <1>2, <1>3 DEF NodeOutcome

LEMMA SSPPort ==
  ASSUME Inv, Is("SSpanel")
  PROVE  SSP!ParseNode(panel.node).port \in 0 .. MaxUint32
<1>1. /\ panel.node.port \in 0 .. MaxUint32 /\ MaxUint32 \in Nat
      /\ setup.type \in {"V2ray", "Trojan", "Shadowsocks", "Shadowsocks-Plugin"}
  BY SetupsAssumption DEF Inv, Types, PanelTypes, Is
<1> QED
  BY <1>1 DEF SSP!ParseNode, SSP!ParseV2rayNodeResponse, SSP!ParseSSNodeResponse, SSP!PortBefore,
     SSP!ParseSSPluginNodeResponse, SSP!ParseTrojanNodeResponse, SSP!ParseSSPanelNodeInfo

LEMMA V2BPort ==
  ASSUME Inv, Is("NewV2board")
  PROVE  V2B!ParseNode(panel.node).port \in 0 .. MaxUint32
<1>1. /\ panel.node.port \in 0 .. MaxUint32
      /\ setup.type \in {"V2ray", "Trojan", "Shadowsocks", "Vmess", "Vless"}
  BY SetupsAssumption DEF Inv, Types, PanelTypes, Is
<1> QED
  BY <1>1 DEF V2B!ParseNode, V2B!parseTrojanNodeResponse, V2B!parseSSNodeResponse,
     V2B!parseV2rayNodeResponse, V2B!SettingsKey, V2B!Cipher

LEMMA PRXPort ==
  ASSUME Inv, Is("ProxyPanel")
  PROVE  PRX!ParseNode(panel.node).port \in 0 .. MaxUint32
<1>1. /\ panel.node.port \in 0 .. MaxUint32
      /\ setup.type \in {"V2ray", "Trojan", "Shadowsocks", "Vmess", "Vless"}
  BY SetupsAssumption DEF Inv, Types, PanelTypes, Is
<1> QED
  BY <1>1 DEF PRX!ParseNode, PRX!ParseTrojanNodeResponse, PRX!ParseSSNodeResponse,
     PRX!ParseV2rayNodeResponse, PRX!Cipher

LEMMA V2SPort ==
  ASSUME Inv, Is("V2RaySocks")
  PROVE  V2S!ParseNode(panel.node).port \in 0 .. MaxUint32
<1>1. /\ panel.node.port \in 0 .. MaxUint32
      /\ setup.type \in {"V2ray", "Trojan", "Shadowsocks", "Vmess", "Vless"}
  BY SetupsAssumption DEF Inv, Types, PanelTypes, Is
<1> QED
  BY <1>1 DEF V2S!ParseNode, V2S!ParseTrojanNodeResponse, V2S!ParseSSNodeResponse,
     V2S!ParseV2rayNodeResponse, V2S!Cipher

LEMMA PMPPort ==
  ASSUME Inv, Is("PMPanel")
  PROVE  PMP!ParseNode(panel.node).port \in 0 .. MaxUint32
<1>1. /\ panel.node.port \in 0 .. MaxUint32
      /\ setup.type \in {"V2ray", "Trojan", "Shadowsocks"}
  BY SetupsAssumption DEF Inv, Types, PanelTypes, Is
<1> QED
  BY <1>1 DEF PMP!ParseNode, PMP!ParseTrojanNodeResponse, PMP!ParseSSNodeResponse,
     PMP!ParseV2rayNodeResponse, PMP!Cipher

LEMMA BUNPort ==
  ASSUME Inv, Is("BunPanel")
  PROVE  BUN!ParseNodeInfo(panel.node).port \in 0 .. MaxUint32
<1>1. panel.node.port \in 0 .. MaxUint32
  BY SetupsAssumption DEF Inv, Types, PanelTypes, Is
<1> QED
  BY <1>1 DEF BUN!ParseNodeInfo, BUN!Cipher

LEMMA GOVPort ==
  ASSUME Inv, Is("GoV2Panel")
  PROVE  GOV!ParseNode(panel.node).port \in 0 .. MaxUint32
<1>1. /\ panel.node.port \in 0 .. MaxUint32
      /\ setup.type \in {"V2ray", "Trojan", "Shadowsocks", "Vmess", "Vless"}
  BY SetupsAssumption DEF Inv, Types, PanelTypes, Is
<1> QED
  BY <1>1 DEF GOV!ParseNode, GOV!parseTrojanNodeResponse, GOV!parseSSNodeResponse,
     GOV!parseV2rayNodeResponse, GOV!Cipher

LEMMA NodePort == ASSUME Inv PROVE NodeOf(panel.node).port \in 0 .. MaxUint32
<1>1. setup.kind \in Kinds
  BY SetupsAssumption DEF Inv, Types
<1> QED
  BY <1>1, SSPPort, V2BPort, PRXPort, V2SPort, PMPPort, BUNPort, GOVPort DEF Kinds, NodeOf, Is

LEMMA NodeAskedEffect == ASSUME Inv, NEW a, NEW used, NodeAsked(a, used) PROVE NodeEffect
<1>1. /\ mon.at \in {"node", "idle"} /\ used \in BOOLEAN
      /\ used => a = "good" /\ panel.node.ok
      /\ client' = NodeClient(a, used)
      /\ UNCHANGED << setup, panel, ctl, counted, list >>
  BY DEF NodeAsked
<1>2. /\ MonTypes' /\ mon'.at \in {"idle", "dead", "crashed", "tag", "users"}
      <2>1. CASE NodeOutcome(a, used, NodeOf(panel.node))
    BY <2>1, NodePort, NodeOutcomeTypes DEF NodeMon
  <2>2. CASE Crash
    BY <2>2, CrashEnds, EndedTypes
  <2> QED BY <2>1, <2>2 DEF NodeAsked
<1>3. etag' \in Flags /\ lost' \in Flags
  <2>1. CASE NoEtags
    BY <2>1 DEF NodeAsked, Inv, Types
  <2>2. CASE Remember("node", a, used)
    BY <1>1, <2>2, RememberTypes
  <2> QED BY <2>1, <2>2 DEF NodeAsked
<1>4. ClientTypes' /\ client'.last = client.last
  BY <1>1, SetupsAssumption DEF NodeClient, Inv, Types, PanelTypes, ClientTypes, PRX!ClientLimit
<1>5. ASSUME KeepsResp, mon'.at # "crashed" PROVE client'.resp # NoNode
  <2>1. panel.node.ok => panel.node # NoNode
    BY DEF NoNode
  <2>2. client'.resp = IF used THEN panel.node ELSE client.resp
    <3>1. client' = [client EXCEPT !.resp = IF used THEN panel.node ELSE @]
      BY <1>1, <1>5 DEF NodeClient, KeepsResp, Is
    <3> QED BY <3>1 DEF Inv, Types, ClientTypes
  <2>3. CASE mon.at = "idle"
    BY <1>1, <1>5, <2>1, <2>2, <2>3 DEF Inv, RespInv
  <2>4. CASE mon.at = "node"
    <3>1. a # "304" /\ mon.starting
      BY <2>4 DEF Inv, RespInv, NodeAsked
    <3>2. used
      BY <1>5, <3>1, CrashEnds DEF NodeAsked, NodeOutcome, GiveUp, Ended
    <3> QED BY <1>1, <2>1, <2>2, <3>2
  <2> QED BY <1>1, <2>3, <2>4
<1> QED BY <1>1, <1>2, <1>3, <1>4, <1>5 DEF NodeEffect, Is, KeepsResp

(***************************************************************************)
(* GetUserList.                                                            *)
(***************************************************************************)

\* The outcomes of a request for the users.
ListMon ==
  /\ MonTypes'
  /\ mon'.at \in {"idle", "crashed", "fill", "tag", "rules"}
  /\ mon'.at = "crashed" => mon'.starting

LEMMA TakeListTypes ==
  ASSUME Inv, NEW limits \in Limits, TakeList(limits)
  PROVE  ListMon
<1>1. None \in Limits
  BY DEF None, Limits
<1> QED
  BY <1>1 DEF TakeList, ListMon, Inv, Types, MonTypes

LEMMA ListOutcomeTypes ==
  ASSUME Inv, NEW a, NEW used \in BOOLEAN, NEW limits \in Limits, ListOutcome(a, used, limits)
  PROVE  ListMon
<1>1. ctl.limits \in Limits
  BY DEF Inv, Types, CtlTypes
<1>2. CASE TakeList(ctl.limits) \/ TakeList(limits)
  BY <1>1, <1>2, TakeListTypes
<1>3. CASE GiveUp
  BY <1>3, GiveUpTypes DEF ListMon
<1> QED BY <1>2, <1>3 DEF ListOutcome

LEMMA LimitTypes ==
  ASSUME Inv
  PROVE  /\ [u \in User |-> OwnLimit(u)] \in Limits
         /\ [u \in User |-> ConfiguredLimit(u)] \in Limits
<1>1. panel.limits \in Limits /\ client.deviceLimit \in Nat
  BY SetupsAssumption DEF Inv, Types, PanelTypes, ClientTypes, Limits
<1> QED
  BY <1>1 DEF OwnLimit, ConfiguredLimit, Limits, Out

LEMMA ListAskedEffect == ASSUME Inv, NEW a, NEW used, ListAsked(a, used) PROVE ListEffect
<1>1. NewLimits \in Limits
  BY LimitTypes DEF NewLimits, Limits
<1>2. /\ mon.at = "users" /\ used \in BOOLEAN
      /\ UNCHANGED << setup, panel, client, ctl, counted, list >>
  BY DEF ListAsked
<1>3. ListMon
  BY <1>1, <1>2, ListOutcomeTypes DEF ListAsked
<1>4. etag' \in Flags /\ lost' \in Flags
  <2>1. CASE NoEtags
    BY <2>1 DEF ListAsked, Inv, Types
  <2>2. CASE Remember("users", a, used)
    BY <1>2, <2>2, RememberTypes
  <2> QED BY <2>1, <2>2 DEF ListAsked
<1> QED BY <1>2, <1>3, <1>4 DEF ListMon, ListEffect

LEMMA DeviceNumbers ==
  ASSUME Inv
  PROVE  /\ panel.limits \in Limits /\ panel.elsewhere \in [User -> Nat]
         /\ panel.ours \in [User -> Nat] /\ client.last \in [User -> Nat]
         /\ setup.devices \in Nat
BY SetupsAssumption DEF Inv, Types, PanelTypes, ClientTypes, Limits

LEMMA ListFetchedInv == ASSUME Inv, ListFetched PROVE Inv'
<1>1. [u \in User |-> Alive(u)] \in Limits
  BY DeviceNumbers DEF Alive, Limits
<1>2. /\ panel' = panel /\ client' = client /\ counted' = counted /\ setup' = setup /\ ctl' = ctl
      /\ etag' \in Flags /\ lost' \in Flags
  BY RememberTypes DEF ListFetched
<1>3. MonTypes' /\ mon'.at = "parse" /\ mon'.starting = mon.starting
      /\ mon'.answer = [u \in User |-> Alive(u)]
  BY <1>1, DeviceNumbers DEF ListFetched, Inv, Types, MonTypes
<1>4. ListTypes' /\ list'.elsewhere = panel.elsewhere /\ ~list'.counted
  BY DeviceNumbers DEF ListFetched, Inv, Types, ListTypes
<1>5. Types'
  BY <1>2, <1>3, <1>4 DEF Inv, Types, PanelTypes, ClientTypes, CtlTypes
<1>6. ShareInv'
  BY <1>2, <1>3, <1>4 DEF Inv, ShareInv, CountsDevices, LimitIsShared, Alive
<1>7. RespInv'
  BY <1>2, <1>3 DEF Inv, RespInv, KeepsResp, ListFetched
<1> QED BY <1>5, <1>6, <1>7 DEF Inv

(***************************************************************************)
(* ParseUserListResponse: what a device limit leaves for this node.        *)
(***************************************************************************)

OwnOf(u) ==
  IF mon.limits[u] = Out THEN Out
  ELSE IF client.deviceLimit > 0 THEN client.deviceLimit ELSE mon.limits[u]

\* The part of a limit that is left beside e devices elsewhere and n here.
Shared(limit, e, n) ==
  IF limit - e > 0 THEN limit - e ELSE IF n > 0 THEN n ELSE Out

ParseEffect ==
  /\ CountsDevices /\ mon.at = "parse"
  /\ UNCHANGED << setup, panel, etag, ctl, lost >>
  /\ client' = [client EXCEPT !.last = None]
  /\ counted' = FALSE
  /\ \E given \in Limits :
       /\ TakeList(given)
       /\ list' = [list EXCEPT !.of = [u \in User |-> OwnOf(u)],
                               !.given = given, !.ours = client.last, !.counted = counted]
       /\ \A u \in User : mon.limits[u] = Out => given[u] = Out
       /\ \A u \in User : \A e \in Nat :
            mon.answer[u] = e + client.last[u] /\ OwnOf(u) > 0 =>
              given[u] = Shared(OwnOf(u), e, client.last[u])

LEMMA OwnTypes == ASSUME Inv PROVE [u \in User |-> OwnOf(u)] \in Limits
BY DEF Inv, Types, MonTypes, ClientTypes, Limits, OwnOf, Out

LEMMA ParseEffectInv == ASSUME Inv, ParseEffect PROVE Inv'
<1> DEFINE of == [u \in User |-> OwnOf(u)]
<1>1. PICK given \in Limits :
        /\ TakeList(given)
        /\ list' = [list EXCEPT !.of = of, !.given = given, !.ours = client.last, !.counted = counted]
        /\ \A u \in User : \A e \in Nat :
             mon.answer[u] = e + client.last[u] /\ OwnOf(u) > 0 =>
               given[u] = Shared(OwnOf(u), e, client.last[u])
  BY DEF ParseEffect
<1>2. /\ setup' = setup /\ panel' = panel /\ etag' = etag /\ ctl' = ctl /\ lost' = lost
      /\ client' = [client EXCEPT !.last = None] /\ counted' = FALSE
      /\ CountsDevices /\ mon.at = "parse"
  BY DEF ParseEffect
<1>3. ListMon
  BY <1>1, TakeListTypes
<1>4. /\ ListTypes' /\ list'.of = of /\ list'.given = given /\ list'.ours = client.last
      /\ list'.counted = counted /\ list'.elsewhere = list.elsewhere
  BY <1>1, OwnTypes, DeviceNumbers DEF Inv, Types, ListTypes
<1>5. ClientTypes' /\ client'.resp = client.resp
  BY <1>2, DeviceNumbers DEF Inv, Types, ClientTypes, None
<1>6. Types'
  BY <1>2, <1>3, <1>4, <1>5 DEF Inv, Types, PanelTypes, CtlTypes, ListMon
<1>7. LimitIsShared'
  <2> SUFFICES ASSUME counted, NEW u \in User, of[u] > 0
               PROVE  given[u] = Shared(of[u], list.elsewhere[u], client.last[u])
    BY <1>4 DEF LimitIsShared, Shared
  <2>1. list.elsewhere[u] \in Nat
    BY DEF Inv, Types, ListTypes
  <2>2. mon.answer[u] = list.elsewhere[u] + client.last[u]
    BY <1>2 DEF Inv, ShareInv
  <2> QED BY <1>1, <2>1, <2>2
<1>8. ShareInv'
  BY <1>2, <1>3, <1>7 DEF ShareInv, CountsDevices
<1>9. RespInv'
  BY <1>2, <1>3, <1>5 DEF Inv, RespInv, KeepsResp, ListMon
<1> QED BY <1>6, <1>8, <1>9 DEF Inv

\* Of a limit, SSpanel's client leaves what is Shared, if the panel's number is
\* made of e devices elsewhere and n here.
LEMMA SSPLeft ==
  ASSUME NEW limit \in Int, NEW e \in Nat, NEW n \in Nat, limit > 0
  PROVE  SSP!Left(limit, e + n, n) = Shared(limit, e, n)
BY DEF SSP!Left, SSP!Out, Out, Shared

LEMMA SSPParse == ASSUME Inv, SSP!ParseUserListResponse PROVE ParseEffect
<1> DEFINE given == [u \in User |-> IF mon.limits[u] = Out THEN Out
                                   ELSE SSP!Left(OwnOf(u), mon.answer[u], client.last[u])]
<1>1. /\ mon.limits \in Limits /\ mon.answer \in Limits /\ client.last \in [User -> Nat]
      /\ client.deviceLimit \in Nat
  BY DeviceNumbers DEF Inv, Types, MonTypes, ClientTypes
<1>2. given \in Limits
  BY <1>1 DEF Limits, SSP!Left, SSP!Out, Out, OwnOf
<1>3. /\ Is("SSpanel") /\ mon.at = "parse"
      /\ UNCHANGED << setup, panel, etag, ctl, lost >>
      /\ client' = [client EXCEPT !.last = None] /\ counted' = FALSE
  BY DEF SSP!ParseUserListResponse, SSP!Is, SSP!None, Is, None
<1>4. /\ TakeList(given)
      /\ list' = [list EXCEPT !.of = [u \in User |-> OwnOf(u)],
                              !.given = given, !.ours = client.last, !.counted = counted]
  BY DEF SSP!ParseUserListResponse, SSP!TakeList, SSP!None, SSP!Out, TakeList, None, Out, OwnOf
<1>5. ASSUME NEW u \in User, NEW e \in Nat,
             mon.answer[u] = e + client.last[u], OwnOf(u) > 0
      PROVE  given[u] = Shared(OwnOf(u), e, client.last[u])
  <2>1. mon.limits[u] # Out /\ OwnOf(u) \in Int /\ client.last[u] \in Nat
    BY <1>1, <1>5 DEF OwnOf, Out, Limits
  <2>2. given[u] = SSP!Left(OwnOf(u), e + client.last[u], client.last[u])
    BY <1>5, <2>1
  <2>3. SSP!Left(OwnOf(u), e + client.last[u], client.last[u]) = Shared(OwnOf(u), e, client.last[u])
    BY <1>5, <2>1, SSPLeft
  <2> QED BY <2>2, <2>3
<1>6. \A u \in User : mon.limits[u] = Out => given[u] = Out
  OBVIOUS
<1> HIDE DEF given
<1> QED BY <1>2, <1>3, <1>4, <1>5, <1>6 DEF ParseEffect, CountsDevices, Is

\* Of a limit, BunPanel's client leaves what is Shared, if the panel's number is
\* made of e devices elsewhere and n here.
LEMMA BUNLeft ==
  ASSUME NEW limit \in Int, NEW e \in Nat, NEW n \in Nat, limit > 0
  PROVE  BUN!Left(limit, e + n, n) = Shared(limit, e, n)
BY DEF BUN!Left, BUN!Out, Out, Shared

LEMMA BUNParse == ASSUME Inv, BUN!ParseUserListResponse PROVE ParseEffect
<1> DEFINE given == [u \in User |-> IF mon.limits[u] = Out THEN Out
                                   ELSE BUN!Left(OwnOf(u), mon.answer[u], client.last[u])]
<1>1. /\ mon.limits \in Limits /\ mon.answer \in Limits /\ client.last \in [User -> Nat]
      /\ client.deviceLimit \in Nat
  BY DeviceNumbers DEF Inv, Types, MonTypes, ClientTypes
<1>2. given \in Limits
  BY <1>1 DEF Limits, BUN!Left, BUN!Out, Out, OwnOf
<1>3. /\ Is("BunPanel") /\ mon.at = "parse"
      /\ UNCHANGED << setup, panel, etag, ctl, lost >>
      /\ client' = [client EXCEPT !.last = None] /\ counted' = FALSE
  BY DEF BUN!ParseUserListResponse, BUN!Is, BUN!None, Is, None
<1>4. /\ TakeList(given)
      /\ list' = [list EXCEPT !.of = [u \in User |-> OwnOf(u)],
                              !.given = given, !.ours = client.last, !.counted = counted]
  BY DEF BUN!ParseUserListResponse, BUN!TakeList, BUN!None, BUN!Out, TakeList, None, Out, OwnOf
<1>5. ASSUME NEW u \in User, NEW e \in Nat,
             mon.answer[u] = e + client.last[u], OwnOf(u) > 0
      PROVE  given[u] = Shared(OwnOf(u), e, client.last[u])
  <2>1. mon.limits[u] # Out /\ OwnOf(u) \in Int /\ client.last[u] \in Nat
    BY <1>1, <1>5 DEF OwnOf, Out, Limits
  <2>2. given[u] = BUN!Left(OwnOf(u), e + client.last[u], client.last[u])
    BY <1>5, <2>1
  <2>3. BUN!Left(OwnOf(u), e + client.last[u], client.last[u]) = Shared(OwnOf(u), e, client.last[u])
    BY <1>5, <2>1, BUNLeft
  <2> QED BY <2>2, <2>3
<1>6. \A u \in User : mon.limits[u] = Out => given[u] = Out
  OBVIOUS
<1> HIDE DEF given
<1> QED BY <1>2, <1>3, <1>4, <1>5, <1>6 DEF ParseEffect, CountsDevices, Is

(***************************************************************************)
(* GetNodeRule.                                                            *)
(***************************************************************************)

LEMMA AtRestTypes ==
  ASSUME NEW current \in BOOLEAN, mon' = AtRest(current)
  PROVE  MonTypes' /\ mon'.at = "idle" /\ mon'.starting = FALSE
<1>1. None \in Limits
  BY DEF None, Limits
<1>2. NoInfo.port \in 0 .. MaxUint32
  BY SetupsAssumption DEF NoInfo
<1> QED
  BY <1>1, <1>2 DEF MonTypes, AtRest

\* The outcomes of a request for the rules.
RulesMon ==
  /\ MonTypes' /\ CtlTypes'
  /\ mon'.at \in {"idle", "fill", "crashed"}

LEMMA RulesOutcomeTypes ==
  ASSUME Inv, NEW a, NEW rules, RulesOutcome(a, rules)
  PROVE  RulesMon
<1>0. CASE Crash /\ UNCHANGED ctl
  BY <1>0, CrashEnds, EndedTypes DEF RulesMon, Inv, Types, CtlTypes
<1> SUFFICES ASSUME ~(a = "good" /\ MustCompilePanics(rules)) PROVE RulesMon
  BY <1>0 DEF RulesOutcome
<1>1. CtlTypes'
  <2>1. CASE ctl' = ctl
    BY <2>1 DEF Inv, Types, CtlTypes
  <2>2. CASE UpdateRule(rules) /\ ctl' # ctl
    BY <2>2 DEF UpdateRule, Inv, Types, CtlTypes
  <2> QED BY <2>1, <2>2 DEF RulesOutcome
<1>2. AfterRules(a \in {"good", "304"})
  BY DEF RulesOutcome
<1>3. PICK c \in BOOLEAN : c = (mon.current /\ a \in {"good", "304"})
  OBVIOUS
<1>4. CASE mon.starting
  BY <1>1, <1>2, <1>3, <1>4, AtRestTypes DEF AfterRules, RulesMon
<1>5. CASE ~mon.starting
  <2>1. mon' = [mon EXCEPT !.at = "fill", !.current = c]
    BY <1>2, <1>3, <1>5 DEF AfterRules
  <2> QED BY <1>1, <2>1 DEF RulesMon, Inv, Types, MonTypes
<1> QED BY <1>4, <1>5

LEMMA RulesAskedEffect == ASSUME Inv, NEW a, RulesAsked(a) PROVE RulesEffect
<1>1. mon.at = "rules" /\ UNCHANGED << setup, panel, client, counted, list >>
  BY DEF RulesAsked
<1>2. etag' \in Flags /\ lost' \in Flags
  <2>1. CASE UNCHANGED << etag, lost >>
    BY <2>1 DEF Inv, Types
  <2>2. CASE Remember("rules", a, a = "good")
    BY <2>2, RememberTypes
  <2> QED BY <2>1, <2>2 DEF RulesAsked
<1>3. CASE RulesInNode /\ client.resp = NoNode
  <2>1. MonTypes' /\ mon'.at = "crashed"
    BY <1>3, CrashEnds, EndedTypes DEF RulesAsked
  <2>2. CtlTypes'
    BY <1>3 DEF RulesAsked, Inv, Types, CtlTypes
  <2> QED BY <1>1, <1>2, <2>1, <2>2 DEF RulesEffect
<1>4. CASE ~(RulesInNode /\ client.resp = NoNode)
  <2>1. RulesMon
    BY <1>4, RulesOutcomeTypes DEF RulesAsked
  <2> QED BY <1>1, <1>2, <2>1 DEF RulesEffect, RulesMon
<1> QED BY <1>3, <1>4

(***************************************************************************)
(* ReportNodeOnlineUsers.                                                  *)
(***************************************************************************)

LEMMA ReportedInv == ASSUME Inv, NEW n, Reported(n) PROVE Inv'
<1>1. /\ n \in [User -> 0 .. setup.devices]
      /\ client' = IF CountsDevices THEN [client EXCEPT !.last = n] ELSE client
      /\ setup' = setup /\ mon' = mon /\ ctl' = ctl /\ lost' = lost /\ list' = list
  BY DEF Reported
<1>2. \/ /\ panel' = [panel EXCEPT !.ours = n]
         /\ etag' = [etag EXCEPT !["users"] = @ /\ n = panel.ours]
         /\ counted' = (mon.at # "parse")
      \/ counted' = FALSE /\ UNCHANGED << panel, etag >>
  BY DEF Reported, Post
<1>3. /\ ClientTypes' /\ client'.resp = client.resp
      /\ CountsDevices => client'.last = n
  BY <1>1 DEF Inv, Types, ClientTypes
<1>4. PanelTypes' /\ (counted' => panel'.ours = n)
  BY <1>1, <1>2 DEF Inv, Types, PanelTypes
<1>5. counted' \in BOOLEAN /\ (mon.at = "parse" => ~counted')
  BY <1>2
<1>6. etag' \in Flags /\ etag'["node"] = etag["node"]
  BY <1>2 DEF Inv, Types, Flags, Resource
<1>7. Types'
  BY <1>1, <1>3, <1>4, <1>5, <1>6 DEF Inv, Types, MonTypes, CtlTypes, ListTypes
<1>8. ShareInv'
  BY <1>1, <1>3, <1>4, <1>5 DEF Inv, ShareInv, CountsDevices, LimitIsShared
<1>9. RespInv'
  BY <1>1, <1>3, <1>6 DEF Inv, RespInv, KeepsResp, Is
<1> QED BY <1>7, <1>8, <1>9 DEF Inv

(***************************************************************************)
(* The steps of the controller, of the panel, and a restart.               *)
(***************************************************************************)

LEMMA RemoveOldTagInv == ASSUME Inv, removeOldTag PROVE Inv'
<1>1. /\ UNCHANGED << setup, panel, client, etag, ctl, counted, list >>
      /\ mon.at = "tag" /\ GiveUp
  BY DEF removeOldTag
<1>2. lost' \in Flags
  BY DEF removeOldTag, Inv, Types, Flags, Resource
<1>3. MonTypes' /\ mon'.at \in {"idle", "crashed"} /\ (mon'.at = "crashed" => mon'.starting)
  BY <1>1, GiveUpTypes
<1>4. Types'
  BY <1>1, <1>2, <1>3 DEF Inv, Types, PanelTypes, ClientTypes, CtlTypes, ListTypes
<1>5. ShareInv'
  BY <1>1, <1>3 DEF Inv, ShareInv, CountsDevices, LimitIsShared
<1>6. RespInv'
  BY <1>1, <1>3 DEF Inv, RespInv, KeepsResp
<1> QED BY <1>4, <1>5, <1>6 DEF Inv

LEMMA SecurityTypes ==
  ASSUME NEW cfg, NEW info
  PROVE  FacingInbound(cfg, info).security \in {"none", "tls", "reality"}
<1>1. ASSUME NEW i PROVE Inbound(cfg, i).security \in {"none", "tls", "reality"}
  BY DEF Inbound, Security
<1> QED BY <1>1 DEF FacingInbound

LEMMA AddNewTagInv == ASSUME Inv, addNewTag PROVE Inv'
<1>1. PICK issued : LET built == addNewTagBuilds(setup.cfg, mon.info, issued) IN
        /\ ctl' = [ctl EXCEPT
             !.node     = mon.info,
             !.inbound  = IF built THEN FacingInbound(setup.cfg, mon.info) ELSE Down,
             !.accounts = "none"]
        /\ IF addNewTagPanics(setup.cfg, mon.info) THEN Crash
           ELSE IF ~built THEN GiveUp
           ELSE mon' = [mon EXCEPT !.at = IF mon.starting THEN "users" ELSE "rules"]
        /\ lost' = [lost EXCEPT
             !["users"] = @ \/ (etag["users"] /\ ~built /\ mon.limits # ctl.limits),
             !["rules"] = @ \/ (etag["rules"] /\ mon.info.port # Tag)]
  BY DEF addNewTag
<1>2. /\ UNCHANGED << setup, panel, client, etag, counted, list >> /\ mon.at = "tag"
  BY DEF addNewTag
<1>3. lost' \in Flags
  BY <1>1 DEF Inv, Types, Flags, Resource
<1>4. CtlTypes' /\ ctl'.node = mon.info
  BY <1>1, SecurityTypes DEF Inv, Types, CtlTypes, MonTypes
<1>5. /\ MonTypes' /\ mon'.at \in {"idle", "crashed", "users", "rules"}
      /\ mon'.at = "crashed" => mon'.starting \/ addNewTagPanics(setup.cfg, mon.info)
  <2>1. CASE addNewTagPanics(setup.cfg, mon.info)
    BY <1>1, <2>1, CrashEnds, EndedTypes
  <2>2. CASE GiveUp
    BY <2>2, GiveUpTypes
  <2>3. CASE mon' = [mon EXCEPT !.at = IF mon.starting THEN "users" ELSE "rules"]
    BY <2>3 DEF Inv, Types, MonTypes
  <2> QED BY <1>1, <2>1, <2>2, <2>3
<1>6. Types'
  BY <1>2, <1>3, <1>4, <1>5 DEF Inv, Types, PanelTypes, ClientTypes, ListTypes
<1>7. ShareInv'
  BY <1>2, <1>5 DEF Inv, ShareInv, CountsDevices, LimitIsShared
<1>8. RespInv'
  BY <1>2, <1>4, <1>5 DEF Inv, RespInv, KeepsResp
<1> QED BY <1>6, <1>7, <1>8 DEF Inv

LEMMA SyncUsersInv == ASSUME Inv, SyncUsers PROVE Inv'
<1>1. UNCHANGED << setup, panel, client, etag, lost, counted, list >> /\ mon.at = "fill"
  BY DEF SyncUsers
<1>2. CtlTypes' /\ ctl'.node = ctl.node
  BY DEF SyncUsers, Inv, Types, CtlTypes, MonTypes
<1>3. MonTypes' /\ mon'.at \in {"idle", "rules"}
  <2>1. CASE mon.starting
    BY <2>1 DEF SyncUsers, Inv, Types, MonTypes
  <2>2. CASE ~mon.starting
    BY <2>2, AtRestTypes DEF SyncUsers, Inv, Types, MonTypes
  <2> QED BY <2>1, <2>2
<1>4. Types'
  BY <1>1, <1>2, <1>3 DEF Inv, Types, PanelTypes, ClientTypes, ListTypes
<1>5. ShareInv'
  BY <1>1, <1>3 DEF Inv, ShareInv, CountsDevices, LimitIsShared
<1>6. RespInv'
  BY <1>1, <1>2, <1>3 DEF Inv, RespInv, KeepsResp
<1> QED BY <1>4, <1>5, <1>6 DEF Inv

LEMMA PanelStepInv == ASSUME Inv, PanelStep PROVE Inv'
<1>1. UNCHANGED << setup, client, ctl, lost, list >>
  BY DEF PanelStep, PanelChanges
<1>2. PICK r : etag' = [etag EXCEPT ![r] = FALSE]
  BY DEF PanelStep, PanelChanges
<1>3. etag' \in Flags /\ (~etag["node"] => ~etag'["node"])
  BY <1>2 DEF Inv, Types, Flags, Resource
<1>4. mon' = [mon EXCEPT !.current = FALSE]
  BY DEF PanelStep, PanelChanges
<1>5. /\ MonTypes' /\ mon'.at = mon.at /\ mon'.starting = mon.starting
      /\ mon'.answer = mon.answer
  BY <1>4 DEF Inv, Types, MonTypes
<1>6. /\ PanelTypes' /\ counted' \in BOOLEAN
      /\ counted' => counted /\ panel'.ours = panel.ours
  <2>1. None \in [User -> 0 .. setup.devices]
    BY DeviceNumbers DEF None
  <2>2. CASE PanelChanges([panel EXCEPT !.ours = None], "users") /\ counted' = FALSE
    BY <1>1, <2>1, <2>2 DEF PanelChanges, Inv, Types, PanelTypes
  <2>3. CASE counted' = counted
    BY <1>1, <2>1, <2>3 DEF PanelStep, PanelChanges, Inv, Types, PanelTypes
  <2> QED BY <2>2, <2>3 DEF PanelStep
<1>7. Types'
  BY <1>1, <1>3, <1>5, <1>6 DEF Inv, Types, ClientTypes, CtlTypes, ListTypes
<1>8. ShareInv'
  BY <1>1, <1>5, <1>6 DEF Inv, ShareInv, CountsDevices, LimitIsShared
<1>9. RespInv'
  BY <1>1, <1>3, <1>5 DEF Inv, RespInv, KeepsResp, Is
<1> QED BY <1>7, <1>8, <1>9 DEF Inv

\* A process, or a client and controller, that has just been made.
Fresh ==
  /\ client = NewClient /\ etag = NoEtag /\ mon = Starting /\ ctl = NoTag
  /\ lost = NoEtag /\ counted = FALSE /\ list = NoList

LEMMA FreshClient ==
  ASSUME setup \in Setups
  PROVE  NewClient = [last |-> None, deviceLimit |-> setup.deviceLimit, resp |-> NoNode]
<1>1. setup.kind \in Kinds
  BY SetupsAssumption
<1> QED
  BY <1>1 DEF NewClient, Kinds, Is, SSP!New, V2B!New, PRX!New, V2S!New, PMP!New, BUN!New, GOV!New,
     SSP!None, V2B!None, PRX!None, V2S!None, PMP!None, BUN!None, GOV!None, None,
     SSP!NoNode, V2B!NoNode, PRX!NoNode, V2S!NoNode, PMP!NoNode, BUN!NoNode, GOV!NoNode, NoNode

LEMMA FreshTypes == setup \in Setups /\ PanelTypes /\ Fresh => Inv
<1> SUFFICES ASSUME setup \in Setups, PanelTypes, Fresh
             PROVE  Inv
  OBVIOUS
<1>1. /\ setup.devices \in Nat /\ setup.deviceLimit \in Nat /\ setup.kind \in Kinds
      /\ MaxUint32 \in Nat
  BY SetupsAssumption
<1>2. NewClient = [last |-> None, deviceLimit |-> setup.deviceLimit, resp |-> NoNode]
  BY FreshClient
<1>3. None \in Limits /\ None \in [User -> Nat] /\ None \in [User -> 0 .. setup.devices]
  BY <1>1 DEF None, Limits
<1>4. NoInfo.port \in 0 .. MaxUint32
  BY <1>1 DEF NoInfo
<1>5. ClientTypes
  BY <1>1, <1>2, <1>3 DEF Fresh, ClientTypes
<1>6. MonTypes /\ mon.at = "node" /\ mon.starting = TRUE
  BY <1>3, <1>4 DEF Fresh, MonTypes, Starting, AtRest
<1>7. CtlTypes
  BY <1>3, <1>4 DEF Fresh, CtlTypes, NoTag
<1>8. ListTypes /\ ~list.counted
  BY <1>3 DEF Fresh, ListTypes, NoList
<1>9. NoEtag \in Flags /\ ~NoEtag["node"]
  BY DEF NoEtag, Flags, Resource
<1> QED
  BY <1>5, <1>6, <1>7, <1>8, <1>9
  DEF Fresh, Inv, Types, ShareInv, LimitIsShared, RespInv

LEMMA RestartInv == ASSUME Inv, Restart PROVE Inv'
<1>1. (setup \in Setups)' /\ PanelTypes'
  BY DEF Restart, Inv, Types, PanelTypes
<1>2. Fresh'
  <2>1. NewClient' = NewClient
    BY DEF Restart, NewClient, Is, SSP!New, V2B!New, PRX!New, V2S!New, PMP!New, BUN!New, GOV!New
  <2> QED BY <2>1 DEF Restart, Fresh
<1>3. (setup \in Setups /\ PanelTypes /\ Fresh => Inv)'
  BY FreshTypes, PTL
<1> QED BY <1>1, <1>2, <1>3

(***************************************************************************)
(* The induction.                                                          *)
(***************************************************************************)

LEMMA InitInv == Init => Inv
<1> SUFFICES ASSUME Init PROVE Inv
  OBVIOUS
<1>1. setup \in Setups
  BY DEF Init
<1>2. setup.devices \in Nat
  BY <1>1, SetupsAssumption
<1>3. PanelTypes
  BY <1>2 DEF Init, PanelTypes, None
<1>4. Fresh
  BY DEF Init, Fresh
<1> QED BY <1>1, <1>3, <1>4, FreshTypes

\* Every step is one of the clients' calls, of the controller's, of the panel's,
\* or a restart.
LEMMA CallsAreAsked ==
  ASSUME Inv, [Next]_vars
  PROVE  \/ \E a, used : NodeAsked(a, used)
         \/ ListFetched \/ ParseEffect \/ \E a, used : ListAsked(a, used)
         \/ \E a : RulesAsked(a)
         \/ \E n : Reported(n)
         \/ removeOldTag \/ addNewTag \/ SyncUsers
         \/ PanelStep \/ Restart
         \/ UNCHANGED vars
<1>1. GetNodeInfo => \E a, used : NodeAsked(a, used)
  BY SSPAsksNode, V2BAsksNode, PRXAsksNode, V2SAsksNode, PMPAsksNode, BUNAsksNode, GOVAsksNode
  DEF GetNodeInfo
<1>2. GetUserList => ListFetched \/ ParseEffect \/ \E a, used : ListAsked(a, used)
  BY SSPAsksList, V2BAsksList, PRXAsksList, V2SAsksList, PMPAsksList, BUNAsksList, GOVAsksList,
     SSPParse, BUNParse
  DEF GetUserList
<1>3. GetNodeRule => \E a : RulesAsked(a)
  BY SSPAsksRules, V2BAsksRules, PRXAsksRules, V2SAsksRules, PMPAsksRules, BUNAsksRules,
     GOVAsksRules
  DEF GetNodeRule
<1>4. ReportNodeOnlineUsers => \E n : Reported(n)
  BY SSPReports, PRXReports, V2SReports, PMPReports, BUNReports DEF ReportNodeOnlineUsers
<1> QED BY <1>1, <1>2, <1>3, <1>4 DEF Next

LEMMA NextInv == Inv /\ [Next]_vars => Inv'
<1> SUFFICES ASSUME Inv, [Next]_vars PROVE Inv'
  OBVIOUS
<1>1. CASE \E a, used : NodeAsked(a, used)
  BY <1>1, NodeAskedEffect, NodeEffectInv
<1>2. CASE ListFetched \/ ParseEffect \/ \E a, used : ListAsked(a, used)
  BY <1>2, ListAskedEffect, ListEffectInv, ListFetchedInv, ParseEffectInv
<1>3. CASE \E a : RulesAsked(a)
  BY <1>3, RulesAskedEffect, RulesEffectInv
<1>4. CASE \E n : Reported(n)
  BY <1>4, ReportedInv
<1>5. CASE removeOldTag \/ addNewTag \/ SyncUsers
  BY <1>5, RemoveOldTagInv, AddNewTagInv, SyncUsersInv
<1>6. CASE PanelStep \/ Restart
  BY <1>6, PanelStepInv, RestartInv
<1>7. CASE UNCHANGED vars
  BY <1>7 DEF vars, Inv, Types, PanelTypes, ClientTypes, MonTypes, CtlTypes, ListTypes, ShareInv,
     CountsDevices, LimitIsShared, RespInv, KeepsResp, Is
<1> QED BY <1>1, <1>2, <1>3, <1>4, <1>5, <1>6, <1>7, CallsAreAsked

LEMMA InvHolds == Spec => []Inv
BY InitInv, NextInv, PTL DEF Spec

\* The variables of a node with any panel have their types (New and the
\* GetNodeInfo, GetUserList and GetNodeRule of each client).
THEOREM PanelTypeCorrect == Spec => []PanelTypeOK
<1>1. Inv => PanelTypeOK
  <2> SUFFICES ASSUME Inv PROVE PanelTypeOK
    OBVIOUS
  <2>1. /\ panel.node \in setup.nodes /\ panel.limits \in setup.lists /\ panel.rules \in setup.rules
        /\ panel.elsewhere \in setup.away /\ panel.ours \in [User -> 0 .. setup.devices]
    BY DEF Inv, Types, PanelTypes
  <2>2. /\ client.last \in [User -> 0 .. setup.devices] /\ client.deviceLimit \in Nat
        /\ client.resp \in setup.nodes \cup {NoNode}
    BY DEF Inv, Types, ClientTypes
  <2>3. /\ mon.at \in {"node", "tag", "users", "parse", "rules", "fill", "idle", "dead", "crashed"}
        /\ mon.info.port \in 0 .. MaxUint32 /\ mon.limits \in Limits /\ mon.answer \in Limits
    BY DEF Inv, Types, MonTypes
  <2>4. /\ ctl.limits \in Limits /\ ctl.node.port \in 0 .. MaxUint32
        /\ ctl.inbound = Down \/ ctl.inbound.security \in {"none", "tls", "reality"}
    BY DEF Inv, Types, CtlTypes
  <2> QED BY <2>1, <2>2, <2>3, <2>4 DEF Inv, Types, Flags, Limits, PanelTypeOK
<1> QED BY <1>1, InvHolds, PTL

\* When the panel has counted what this node last reported, the client of
\* SSPanel or BunPanel gives a user exactly what the limit leaves beside the
\* devices elsewhere (ParseUserListResponse), whatever the limits and the
\* numbers of devices, and whoever reports between the list and its parsing.
THEOREM LimitsAreShared == Spec => []LimitIsShared
<1>1. Inv => LimitIsShared
  BY DEF Inv, ShareInv
<1> QED BY <1>1, InvHolds, PTL

(***************************************************************************)
(* The node, the users, the rules and the inbound are those of the panel.  *)
(***************************************************************************)

\* The controller has taken a node from its client and not yet come to rest.
Working == mon.at \in {"tag", "users", "parse", "rules", "fill"}

\* The node the panel describes; an older SSPanel's Shadowsocks has its port
\* only from a list with users.
Described(raw) ==
  IF Is("SSpanel") /\ setup.old /\ setup.type = "Shadowsocks"
  THEN [NodeOf(raw) EXCEPT !.port = raw.port]
  ELSE NodeOf(raw)

\* The node that the controller goes by.
HeldNode == IF Working THEN mon.info ELSE ctl.node

\* A node is of the type of the configuration.
TypeInv ==
  /\ Working => mon.info.type = setup.type
  /\ ~mon.starting => ctl.node.type = setup.type

\* Clients that know no ETags, or none of the rules.
ETagInv ==
  /\ Is("ProxyPanel") \/ Is("PMPanel") => ~etag["node"] /\ ~etag["users"]
  /\ ~Is("SSpanel") => ~etag["rules"]
  /\ mon.starting /\ mon.at \in {"tag", "users"} => ~etag["users"]
  /\ mon.at = "node" => etag = NoEtag
  /\ ~Is("ProxyPanel") => client.deviceLimit = setup.deviceLimit
  /\ mon.starting => mon.at # "idle"

\* With the panel's ETag, or in a run the panel did not change under, what was
\* received is what the panel has, unless it has been lost.
NodeInv ==
  /\ mon.at \notin {"node", "dead", "crashed"} /\ (etag["node"] \/ mon.current) /\ ~lost["node"] =>
       HeldNode = Described(panel.node)
  /\ mon.at \in {"rules", "fill"} \/ (mon.starting /\ mon.at \in {"users", "parse"}) =>
       mon.info = ctl.node
  /\ RulesInNode /\ (etag["node"] \/ mon.current) /\ ~lost["node"] =>
       client.resp \in {panel.node, NoNode}

\* The users of a list, as PanelIsFollowed has them.
SameUsers(limits) ==
  /\ CountsDevices => Users(limits) \subseteq Users(panel.limits)
  /\ Is("ProxyPanel") => Users(limits) = Users(panel.limits)
  /\ setup.kind \in {"NewV2board", "GoV2Panel"} =>
       \A u \in User : limits[u] = IF panel.limits[u] = Out THEN Out ELSE setup.deviceLimit
  /\ setup.kind \in {"V2RaySocks", "PMPanel"} =>
       \A u \in User : limits[u] = IF panel.limits[u] # Out /\ setup.deviceLimit > 0
                                   THEN setup.deviceLimit ELSE panel.limits[u]

ListTaken == mon.at \in {"rules", "fill"} \/ (mon.at = "tag" /\ ~mon.starting)

UsersInv ==
  /\ ListTaken /\ (etag["users"] \/ mon.current) /\ ~lost["users"] => SameUsers(mon.limits)
  /\ mon.at \in {"idle", "users"} /\ etag["users"] /\ ~lost["users"] => SameUsers(ctl.limits)
  /\ mon.at = "idle" /\ mon.current /\ ~lost["users"] => SameUsers(ctl.limits)
  /\ mon.at = "parse" /\ (etag["users"] \/ mon.current) => mon.limits = panel.limits
  /\ mon.at = "rules" /\ mon.starting => ctl.limits = mon.limits

RulesNow ==
  PanelRules \cup Local # {} =>
    Tag \in DOMAIN ctl.rules /\ ctl.rules[Tag] = Local \cup PanelRules

RulesInv ==
  /\ etag["rules"] /\ ~lost["rules"] /\ mon.at # "crashed" => RulesNow
  /\ (mon.at = "idle" \/ (mon.at = "fill" /\ ~mon.starting))
         /\ mon.current /\ ~lost["rules"] /\ ~lost["node"] => RulesNow

Refused(info) ==
  \/ info.net \notin KnownNetworks
  \/ ~FallbacksBuilt(setup.cfg, info)
  \/ WantsTLS(setup.cfg, info) /\ setup.cfg.cert # "file"
  \/ IsREALITY(setup.cfg, info) /\ info.net \notin NetworksOfREALITY
  \/ setup.type = "Shadowsocks" /\ "cipher" \notin info.kept

ServedInv ==
  /\ setup.type # "Shadowsocks-Plugin" =>
       \/ mon.starting /\ mon.at \in {"node", "tag", "crashed"}
       \/ ctl.inbound = Inbound(setup.cfg, ctl.node)
       \/ ctl.inbound = Down /\ Refused(ctl.node)
  /\ ((mon.at = "idle" /\ mon.current) \/ (mon.at = "rules" /\ mon.starting))
         /\ ctl.inbound # Down => ctl.accounts = addNewUser(ctl.node)

FollowInv == TypeInv /\ ETagInv /\ NodeInv /\ UsersInv /\ RulesInv /\ ServedInv

LEMMA NodeType == ASSUME Inv PROVE NodeOf(panel.node).type = setup.type
<1>1. setup.kind \in Kinds
  BY SetupsAssumption DEF Inv, Types
<1>2. /\ Is("SSpanel") => setup.type \in {"V2ray", "Trojan", "Shadowsocks", "Shadowsocks-Plugin"}
      /\ setup.kind \in {"PMPanel", "BunPanel"} => setup.type \in {"V2ray", "Trojan", "Shadowsocks"}
      /\ ~Is("SSpanel") => setup.type \in {"V2ray", "Trojan", "Shadowsocks", "Vmess", "Vless"}
  BY SetupsAssumption DEF Inv, Types, Is
<1>3. CASE Is("SSpanel")
  BY <1>2, <1>3 DEF NodeOf, Is, SSP!ParseNode, SSP!ParseV2rayNodeResponse, SSP!ParseSSNodeResponse,
     SSP!ParseSSPluginNodeResponse, SSP!ParseTrojanNodeResponse, SSP!ParseSSPanelNodeInfo
<1>4. CASE Is("NewV2board")
  BY <1>2, <1>4 DEF NodeOf, Is, V2B!ParseNode, V2B!parseTrojanNodeResponse, V2B!parseSSNodeResponse,
     V2B!parseV2rayNodeResponse, V2B!SettingsKey, V2B!Cipher
<1>5. CASE Is("ProxyPanel")
  BY <1>2, <1>5 DEF NodeOf, Is, PRX!ParseNode, PRX!ParseTrojanNodeResponse, PRX!ParseSSNodeResponse,
     PRX!ParseV2rayNodeResponse, PRX!Cipher
<1>6. CASE Is("V2RaySocks")
  BY <1>2, <1>6 DEF NodeOf, Is, V2S!ParseNode, V2S!ParseTrojanNodeResponse, V2S!ParseSSNodeResponse,
     V2S!ParseV2rayNodeResponse, V2S!Cipher
<1>7. CASE Is("PMPanel")
  BY <1>2, <1>7 DEF NodeOf, Is, PMP!ParseNode, PMP!ParseTrojanNodeResponse, PMP!ParseSSNodeResponse,
     PMP!ParseV2rayNodeResponse, PMP!Cipher
<1>8. CASE Is("BunPanel")
  BY <1>8 DEF NodeOf, Is, BUN!ParseNodeInfo, BUN!Cipher
<1>9. CASE Is("GoV2Panel")
  BY <1>2, <1>9 DEF NodeOf, Is, GOV!ParseNode, GOV!parseTrojanNodeResponse, GOV!parseSSNodeResponse,
     GOV!parseV2rayNodeResponse, GOV!Cipher
<1> QED BY <1>1, <1>3, <1>4, <1>5, <1>6, <1>7, <1>8, <1>9 DEF Kinds, Is

OldPort == Is("SSpanel") /\ setup.old /\ setup.type = "Shadowsocks"

\* A node with a port is the one the panel describes.
LEMMA DescribedNode ==
  ASSUME NodeOf(panel.node).port # 0
  PROVE  NodeOf(panel.node) = Described(panel.node)
<1>1. CASE OldPort
  <2>1. NodeOf(panel.node) = SSP!ParseSSNodeResponse(panel.node)
    BY <1>1 DEF NodeOf, Is, SSP!ParseNode, OldPort
  <2>2. NodeOf(panel.node) = [NodeOf(panel.node) EXCEPT !.port = panel.node.port]
    BY <2>1 DEF SSP!ParseSSNodeResponse
  <2> QED BY <1>1, <2>2 DEF Described, OldPort
<1>2. CASE ~OldPort
  BY <1>2 DEF Described, OldPort
<1> QED BY <1>1, <1>2

\* What the panel describes has nothing to do with its users.
LEMMA DescribedSame ==
  ASSUME Inv, setup' = setup, panel'.node = panel.node
  PROVE  Described(panel.node)' = Described(panel.node)
<1>1. CASE OldPort
  <2>1. /\ NodeOf(panel.node) = SSP!ParseSSNodeResponse(panel.node)
        /\ NodeOf(panel.node)' = SSP!ParseSSNodeResponse(panel.node)'
    BY <1>1 DEF NodeOf, Is, SSP!ParseNode, OldPort
  <2>2. /\ Described(panel.node) = [NodeOf(panel.node) EXCEPT !.port = panel.node.port]
        /\ Described(panel.node)' = [NodeOf(panel.node)' EXCEPT !.port = panel'.node.port]
    BY <1>1 DEF Described, OldPort, Is
  <2> QED BY <2>1, <2>2 DEF SSP!ParseSSNodeResponse
<1>2. CASE ~OldPort
  <2>1. Described(panel.node) = NodeOf(panel.node) /\ Described(panel.node)' = NodeOf(panel.node)'
    BY <1>2 DEF Described, OldPort, Is
  <2>2. setup.kind \in Kinds
    BY SetupsAssumption DEF Inv, Types
  <2>3. /\ Is("SSpanel") => setup.type \in {"V2ray", "Trojan", "Shadowsocks", "Shadowsocks-Plugin"}
        /\ setup.kind \in {"PMPanel", "BunPanel"} => setup.type \in {"V2ray", "Trojan", "Shadowsocks"}
        /\ ~Is("SSpanel") => setup.type \in {"V2ray", "Trojan", "Shadowsocks", "Vmess", "Vless"}
    BY SetupsAssumption DEF Inv, Types, Is
  <2>4. CASE Is("SSpanel")
    <3>1. NodeOf(panel.node) = SSP!ParseNode(panel.node) /\ NodeOf(panel.node)' = SSP!ParseNode(panel.node)'
      BY <2>4 DEF NodeOf, Is
    <3>2. CASE ~setup.old
      <4>1. /\ NodeOf(panel.node) = SSP!ParseSSPanelNodeInfo(panel.node)
            /\ NodeOf(panel.node)' = SSP!ParseSSPanelNodeInfo(panel.node)'
        BY <3>1, <3>2 DEF SSP!ParseNode
      <4>2. SSP!Cipher(panel.node)' = SSP!Cipher(panel.node)
        BY DEF SSP!Cipher
      <4>3. CASE setup.type = "Shadowsocks"
        BY <2>1, <4>1, <4>2, <4>3 DEF SSP!ParseSSPanelNodeInfo
      <4>4. CASE setup.type = "Shadowsocks-Plugin"
        BY <2>1, <4>1, <4>2, <4>4 DEF SSP!ParseSSPanelNodeInfo
      <4>5. CASE setup.type \in {"V2ray", "Trojan"}
        BY <2>1, <4>1, <4>2, <4>5 DEF SSP!ParseSSPanelNodeInfo
      <4> QED BY <2>3, <2>4, <4>3, <4>4, <4>5
    <3>3. CASE setup.old /\ setup.type = "V2ray"
      BY <2>1, <3>1, <3>3 DEF SSP!ParseNode, SSP!ParseV2rayNodeResponse
    <3>4. CASE setup.old /\ setup.type = "Trojan"
      BY <2>1, <3>1, <3>4 DEF SSP!ParseNode, SSP!ParseTrojanNodeResponse
    <3>5. CASE setup.old /\ setup.type = "Shadowsocks-Plugin"
      <4>1. /\ NodeOf(panel.node) = SSP!ParseSSPluginNodeResponse(panel.node)
            /\ NodeOf(panel.node)' = SSP!ParseSSPluginNodeResponse(panel.node)'
        BY <3>1, <3>5 DEF SSP!ParseNode
      <4> QED BY <2>1, <4>1 DEF SSP!ParseSSPluginNodeResponse, SSP!PortBefore
    <3> QED BY <1>2, <2>3, <2>4, <3>2, <3>3, <3>4, <3>5 DEF OldPort
  <2>5. CASE Is("NewV2board")
    BY <2>1, <2>3, <2>5 DEF NodeOf, Is, V2B!ParseNode, V2B!parseTrojanNodeResponse,
       V2B!parseSSNodeResponse, V2B!parseV2rayNodeResponse, V2B!SettingsKey, V2B!Cipher
  <2>6. CASE Is("ProxyPanel")
    BY <2>1, <2>3, <2>6 DEF NodeOf, Is, PRX!ParseNode, PRX!ParseTrojanNodeResponse,
       PRX!ParseSSNodeResponse, PRX!ParseV2rayNodeResponse, PRX!Cipher
  <2>7. CASE Is("V2RaySocks")
    BY <2>1, <2>3, <2>7 DEF NodeOf, Is, V2S!ParseNode, V2S!ParseTrojanNodeResponse,
       V2S!ParseSSNodeResponse, V2S!ParseV2rayNodeResponse, V2S!Cipher
  <2>8. CASE Is("PMPanel")
    BY <2>1, <2>3, <2>8 DEF NodeOf, Is, PMP!ParseNode, PMP!ParseTrojanNodeResponse,
       PMP!ParseSSNodeResponse, PMP!ParseV2rayNodeResponse, PMP!Cipher
  <2>9. CASE Is("BunPanel")
    BY <2>1, <2>3, <2>9 DEF NodeOf, Is, BUN!ParseNodeInfo, BUN!Cipher
  <2>10. CASE Is("GoV2Panel")
    BY <2>1, <2>3, <2>10 DEF NodeOf, Is, GOV!ParseNode, GOV!parseTrojanNodeResponse,
       GOV!parseSSNodeResponse, GOV!parseV2rayNodeResponse, GOV!Cipher
  <2> QED BY <2>2, <2>4, <2>5, <2>6, <2>7, <2>8, <2>9, <2>10 DEF Kinds, Is
<1> QED BY <1>1, <1>2

(***************************************************************************)
(* The outcomes of the calls.                                              *)
(***************************************************************************)

\* The run ends with an error, or a starting XrayR.
Ends ==
  /\ ~mon'.current
  /\ \/ mon.starting /\ mon'.at = "crashed" /\ mon'.starting
     \/ ~mon.starting /\ mon'.at = "idle" /\ ~mon'.starting

Stops ==
  /\ ~mon'.current
  /\ \/ mon'.at = "crashed" /\ mon'.starting = mon.starting
     \/ mon'.at = "dead" /\ ~mon'.starting /\ ~mon.starting

NodeTaken(info) ==
  /\ info.port # 0
  /\ mon'.at = IF mon.starting THEN "tag" ELSE "users"
  /\ mon'.info = info /\ mon'.starting = mon.starting /\ mon'.limits = mon.limits

LEMMA CrashStops == ASSUME Inv, Crash PROVE Stops
BY DEF Crash, AtRest, Stops, Inv, Types, MonTypes

LEMMA GiveUpEnds == ASSUME Inv, GiveUp PROVE Ends
<1>1. CASE mon.starting
  BY <1>1, CrashStops DEF GiveUp, Stops, Ends
<1>2. CASE ~mon.starting
  BY <1>2 DEF GiveUp, AtRest, Ends, Inv, Types, MonTypes
<1> QED BY <1>1, <1>2

LEMMA TakeNodeTakes == ASSUME Inv, NEW info, TakeNode(info) PROVE NodeTaken(info) \/ Stops
<1>1. CASE info.port # 0
  BY <1>1 DEF TakeNode, NodeTaken, Inv, Types, MonTypes
<1>2. CASE info.port = 0 /\ mon.starting
  BY <1>2, CrashStops DEF TakeNode
<1>3. CASE info.port = 0 /\ ~mon.starting
  BY <1>3 DEF TakeNode, AtRest, Stops
<1> QED BY <1>1, <1>2, <1>3

\* A request for r changes the flags of r only; what has its ETag from now on
\* without having been used is lost.
LEMMA RememberFlags ==
  ASSUME Inv, NEW r \in Resource, NEW a, NEW used \in BOOLEAN, Remember(r, a, used)
  PROVE  /\ \A x \in Resource \ {r} : etag'[x] = etag[x] /\ (x # "node" => lost'[x] = lost[x])
         /\ used /\ a = "good" => ~lost'[r]
         /\ a \notin {"good", "bad"} => etag'[r] = etag[r] /\ lost'[r] = lost[r]
         /\ a \in {"good", "bad"} /\ ~used => lost'[r]
         /\ r = "rules" => lost'["node"] = lost["node"]
BY DEF Remember, Inv, Types, Flags, Resource

(***************************************************************************)
(* GetNodeInfo.                                                            *)
(***************************************************************************)

LEMMA NodeFlags ==
  ASSUME Inv, NEW a, NEW used, NodeAsked(a, used)
  PROVE  /\ etag'["users"] = etag["users"] /\ etag'["rules"] = etag["rules"]
         /\ lost'["users"] = lost["users"] /\ lost'["rules"] = lost["rules"]
         /\ NoEtags => etag' = etag
         /\ a = "304" => etag["node"] /\ lost'["node"] = lost["node"]
         /\ a # "304" /\ ~used /\ etag'["node"] /\ ~lost'["node"] => etag["node"] /\ ~lost["node"]
<1>1. CASE NoEtags
  BY <1>1 DEF NodeAsked
<1>2. CASE ~NoEtags
  BY <1>2, RememberFlags DEF NodeAsked, Resource, Inv, Types, Flags
<1> QED BY <1>1, <1>2

LEMMA NodeCases ==
  ASSUME Inv, NEW a, NEW used, NodeAsked(a, used)
  PROVE  \/ NodeTaken(ctl.node) /\ a = "304"
         \/ NodeTaken(NodeOf(panel.node)) /\ used
         \/ Ends /\ a # "304" /\ ~used
         \/ Stops
BY TakeNodeTakes, GiveUpEnds, CrashStops DEF NodeAsked, NodeOutcome

LEMMA NodeAskedFollows ==
  ASSUME Inv, FollowInv, NEW a, NEW used, NodeAsked(a, used)
  PROVE  FollowInv'
<1>1. /\ mon.at \in {"node", "idle"} /\ used \in BOOLEAN /\ (mon.at = "node" => mon.starting)
      /\ mon.starting => mon.at = "node"
      /\ setup' = setup /\ panel' = panel /\ ctl' = ctl
  BY DEF NodeAsked, Inv, RespInv, FollowInv, ETagInv
<1>2. TypeInv'
  <2>1. NodeOf(panel.node).type = setup.type
    BY NodeType
  <2>2. ~mon.starting => ctl.node.type = setup.type
    BY DEF FollowInv, TypeInv
  <2>3. a = "304" => ~mon.starting
    BY <1>1 DEF NodeAsked, NodeFlags, FollowInv, ETagInv, NoEtag, Resource, NoEtags
  <2> QED
    BY <1>1, <2>1, <2>2, <2>3, NodeCases DEF TypeInv, Working, NodeTaken, Ends, Stops
<1>3. ETagInv'
  <2>1. ~Is("ProxyPanel") => client'.deviceLimit = client.deviceLimit
    BY DEF NodeAsked, NodeClient, KeepsResp, Is, Inv, Types, ClientTypes
  <2>2. mon'.at \notin {"node"} /\ (mon'.starting => mon.starting /\ mon'.at # "idle")
    BY <1>1, NodeCases DEF NodeTaken, Ends, Stops
  <2>3. mon.starting => ~etag["users"]
    BY <1>1 DEF FollowInv, ETagInv, NoEtag, Resource
  <2> QED BY <1>1, <2>1, <2>2, <2>3, NodeFlags DEF FollowInv, ETagInv, NoEtags, Is
<1>4. NodeInv'
  <2>1. Described(panel.node)' = Described(panel.node)
    BY <1>1, DescribedSame
  <2>2. ASSUME mon'.at \notin {"node", "dead", "crashed"}, etag'["node"] \/ mon'.current, ~lost'["node"]
        PROVE  HeldNode' = Described(panel.node)
    <3>1. etag["node"] /\ ~lost["node"] => ctl.node = Described(panel.node)
      BY <1>1 DEF FollowInv, NodeInv, HeldNode, Working, ETagInv, NoEtag, Resource
    <3>2. CASE NodeTaken(ctl.node) /\ a = "304"
      BY <2>2, <3>1, <3>2, NodeFlags DEF NodeTaken, HeldNode, Working
    <3>3. CASE NodeTaken(NodeOf(panel.node)) /\ used
      BY <3>3, DescribedNode DEF NodeTaken, HeldNode, Working
    <3>4. CASE Ends /\ a # "304" /\ ~used
      BY <1>1, <2>2, <3>1, <3>4, NodeFlags DEF Ends, HeldNode, Working
    <3> QED BY <2>2, <3>2, <3>3, <3>4, NodeCases DEF Stops
  <2>3. mon'.at \notin {"rules", "fill"} /\ ~(mon'.starting /\ mon'.at \in {"users", "parse"})
    BY <1>1, NodeCases DEF NodeTaken, Ends, Stops
  <2>4. ASSUME RulesInNode, etag'["node"] \/ mon'.current, ~lost'["node"]
        PROVE  client'.resp \in {panel.node, NoNode}
    <3>1. (etag["node"] /\ ~lost["node"]) => client.resp \in {panel.node, NoNode}
      BY <2>4 DEF FollowInv, NodeInv
    <3>2. CASE KeepsResp
      <4>1. client'.resp = IF used THEN panel.node ELSE client.resp
        <5>1. client' = [client EXCEPT !.resp = IF used THEN panel.node ELSE @]
          BY <3>2 DEF NodeAsked, NodeClient, KeepsResp, Is
        <5> QED BY <5>1 DEF Inv, Types, ClientTypes
      <4>2. ~used /\ mon'.current => a = "304"
        BY NodeCases DEF Ends, Stops, NodeTaken
      <4> QED BY <2>4, <3>1, <4>1, <4>2, NodeFlags
    <3>3. CASE Is("V2RaySocks")
      <4>1. client'.resp = CASE a = "304" -> client.resp [] a = "good" -> panel.node [] OTHER -> NoNode
        BY <3>3 DEF NodeAsked, NodeClient, KeepsResp, Is, Inv, Types, ClientTypes
      <4> QED BY <2>4, <3>1, <4>1, NodeFlags
    <3> QED BY <2>4, <3>2, <3>3 DEF RulesInNode, KeepsResp, Is
  <2> QED BY <1>1, <2>1, <2>2, <2>3, <2>4 DEF NodeInv, RulesInNode
<1>5. UsersInv'
  <2>1. \A l : SameUsers(l)' = SameUsers(l)
    BY <1>1 DEF SameUsers, CountsDevices, RulesInNode, Is
  <2>2. /\ ~ListTaken' /\ mon'.at \notin {"parse", "rules"}
        /\ mon'.at = "idle" => ~mon'.current
        /\ mon'.at \in {"idle", "users"} => mon.at = "idle"
    BY <1>1, NodeCases DEF NodeTaken, Ends, Stops, ListTaken
  <2> QED BY <1>1, <2>1, <2>2, NodeFlags DEF FollowInv, UsersInv
<1>6. RulesInv'
  <2>1. RulesNow' = RulesNow
    BY <1>1 DEF RulesNow, PanelRules, RulesInNode, Tag, Is
  <2>2. mon'.at # "fill" /\ (mon'.at = "idle" => ~mon'.current)
    BY <1>1, NodeCases DEF NodeTaken, Ends, Stops
  <2> QED BY <1>1, <2>1, <2>2, NodeFlags DEF FollowInv, RulesInv
<1>7. ServedInv'
  <2>1. /\ mon'.at # "rules" /\ (mon'.at = "idle" => ~mon'.current)
        /\ mon.starting => mon'.starting /\ mon'.at \in {"tag", "crashed"}
    BY <1>1, NodeCases DEF NodeTaken, Ends, Stops
  <2> QED BY <1>1, <2>1 DEF FollowInv, ServedInv, Refused
<1> QED BY <1>2, <1>3, <1>4, <1>5, <1>6, <1>7 DEF FollowInv

(***************************************************************************)
(* GetUserList.                                                            *)
(***************************************************************************)

ListGoes(limits) ==
  /\ mon'.at = IF mon.starting THEN "fill" ELSE IF mon.info # ctl.node THEN "tag" ELSE "rules"
  /\ mon'.limits = limits /\ mon'.info = mon.info /\ mon'.starting = mon.starting
  /\ mon'.current = mon.current

LEMMA TakeListGoes == ASSUME Inv, NEW limits, TakeList(limits) PROVE ListGoes(limits)
BY DEF TakeList, ListGoes, Inv, Types, MonTypes

LEMMA ListCases ==
  ASSUME Inv, NEW a, NEW used, ListAsked(a, used)
  PROVE  \/ ListGoes(ctl.limits) /\ a = "304"
         \/ ListGoes(NewLimits) /\ used /\ ~CountsDevices
         \/ Ends /\ a # "304" /\ ~used
BY TakeListGoes, GiveUpEnds DEF ListAsked, ListOutcome

LEMMA ListFlags ==
  ASSUME Inv, FollowInv, NEW a, NEW used, ListAsked(a, used)
  PROVE  /\ etag'["node"] = etag["node"] /\ etag'["rules"] = etag["rules"]
         /\ lost'["rules"] = lost["rules"] /\ (lost["node"] => lost'["node"])
         /\ NoEtags => etag' = etag
         /\ a # "304" /\ ~used /\ etag["node"] /\ ~lost'["node"] => mon.info = ctl.node
         /\ a = "304" => etag["users"] /\ lost'["users"] = lost["users"]
         /\ a # "304" /\ ~used /\ etag'["users"] /\ ~lost'["users"] => etag["users"] /\ ~lost["users"]
<1>1. CASE NoEtags
  BY <1>1 DEF ListAsked, FollowInv, ETagInv, NoEtags
<1>2. CASE ~NoEtags
  <2>1. Remember("users", a, used) /\ used \in BOOLEAN /\ (a = "304" => etag["users"])
    BY <1>2 DEF ListAsked
  <2>2. /\ lost["node"] => lost'["node"]
        /\ a # "304" /\ ~used /\ etag["node"] /\ ~lost'["node"] => mon.info = ctl.node
    BY <2>1 DEF Remember, Resource
  <2> QED BY <1>2, <2>1, <2>2, RememberFlags DEF Resource
<1> QED BY <1>1, <1>2

\* The limits of a client that does not count devices are those of the panel.
LEMMA NewSame == ASSUME Inv, FollowInv, ~CountsDevices PROVE SameUsers(NewLimits)
<1>1. /\ panel.limits \in Limits /\ client.deviceLimit \in Nat /\ setup.deviceLimit \in Nat
      /\ ~Is("ProxyPanel") => client.deviceLimit = setup.deviceLimit
      /\ setup.kind \in Kinds
  BY SetupsAssumption, DeviceNumbers DEF Inv, Types, ClientTypes, FollowInv, ETagInv
<1>2. CASE Is("ProxyPanel")
  <2>1. \A u \in User : NewLimits[u] = Out <=> panel.limits[u] = Out
    BY <1>1, <1>2 DEF NewLimits, ConfiguredLimit, Out, Is
  <2>2. Users(NewLimits) = Users(panel.limits)
    BY <2>1 DEF Users
  <2> QED BY <1>2, <2>2 DEF SameUsers, CountsDevices, Is
<1>3. CASE setup.kind \in {"V2RaySocks", "PMPanel"}
  BY <1>1, <1>3 DEF SameUsers, CountsDevices, NewLimits, OwnLimit, Is
<1>4. CASE setup.kind \in {"NewV2board", "GoV2Panel"}
  BY <1>1, <1>4 DEF SameUsers, CountsDevices, NewLimits, ConfiguredLimit, Is
<1> QED BY <1>1, <1>2, <1>3, <1>4 DEF Kinds, CountsDevices, Is

LEMMA ListAskedFollows ==
  ASSUME Inv, FollowInv, NEW a, NEW used, ListAsked(a, used)
  PROVE  FollowInv'
<1>1. /\ mon.at = "users" /\ used \in BOOLEAN
      /\ setup' = setup /\ panel' = panel /\ ctl' = ctl /\ client' = client
  BY DEF ListAsked
<1>2. \/ mon'.at \in {"fill", "tag", "rules"} /\ mon'.starting = mon.starting
            /\ mon'.info = mon.info /\ mon'.current = mon.current
            /\ (mon.starting => mon'.at = "fill")
            /\ (~mon.starting => mon'.at \in {"tag", "rules"})
            /\ (mon'.at = "rules" => mon.info = ctl.node)
      \/ Ends /\ a # "304" /\ ~used
  BY ListCases DEF ListGoes
<1>3. TypeInv'
  BY <1>1, <1>2 DEF FollowInv, TypeInv, Working, Ends
<1>4. ETagInv'
  BY <1>1, <1>2, ListFlags DEF FollowInv, ETagInv, NoEtags, Ends, Is
<1>5. NodeInv'
  <2>1. Described(panel.node)' = Described(panel.node)
    BY <1>1, DescribedSame
  <2>2. ASSUME mon'.at \notin {"node", "dead", "crashed"}, etag'["node"] \/ mon'.current, ~lost'["node"]
        PROVE  HeldNode' = Described(panel.node)
    <3>1. ~lost["node"] /\ (etag["node"] \/ mon'.current)
      BY <2>2, ListFlags
    <3>2. (etag["node"] \/ mon.current) => mon.info = Described(panel.node)
      BY <1>1, <3>1 DEF FollowInv, NodeInv, HeldNode, Working
    <3>3. CASE Ends /\ a # "304" /\ ~used
      BY <1>1, <2>2, <3>1, <3>2, <3>3, ListFlags DEF Ends, HeldNode, Working
    <3>4. CASE mon'.at \in {"fill", "tag", "rules"} /\ mon'.info = mon.info /\ mon'.current = mon.current
      BY <3>1, <3>2, <3>4 DEF HeldNode, Working
    <3> QED BY <1>2, <3>3, <3>4
  <2>3. ASSUME mon'.at \in {"rules", "fill"} \/ (mon'.starting /\ mon'.at \in {"users", "parse"})
        PROVE  mon'.info = ctl.node
    BY <1>1, <1>2, <2>3 DEF FollowInv, NodeInv, Ends
  <2>4. ASSUME RulesInNode, etag'["node"] \/ mon'.current, ~lost'["node"]
        PROVE  client.resp \in {panel.node, NoNode}
    BY <1>2, <2>4, ListFlags DEF FollowInv, NodeInv, Ends
  <2> QED BY <1>1, <2>1, <2>2, <2>3, <2>4 DEF NodeInv, RulesInNode
<1>6. UsersInv'
  <2>1. \A l : SameUsers(l)' = SameUsers(l)
    BY <1>1 DEF SameUsers, CountsDevices, RulesInNode, Is
  <2>2. etag["users"] /\ ~lost["users"] => SameUsers(ctl.limits)
    BY <1>1 DEF FollowInv, UsersInv
  <2>3. ASSUME ListTaken', ~lost'["users"]
        PROVE  SameUsers(mon'.limits)
    <3>1. CASE ListGoes(ctl.limits) /\ a = "304"
      BY <2>2, <2>3, <3>1, ListFlags DEF ListGoes
    <3>2. CASE ListGoes(NewLimits) /\ used /\ ~CountsDevices
      BY <3>2, NewSame DEF ListGoes
    <3> QED BY <2>3, <3>1, <3>2, ListCases DEF Ends, ListTaken
  <2>4. ASSUME mon'.at \in {"idle", "users"}, etag'["users"], ~lost'["users"]
        PROVE  SameUsers(ctl.limits)
    BY <1>2, <2>2, <2>4, ListFlags
  <2>5. /\ mon'.at = "idle" => ~mon'.current
        /\ mon'.at # "parse" /\ ~(mon'.at = "rules" /\ mon'.starting)
    BY <1>2 DEF Ends
  <2> QED BY <1>1, <2>1, <2>3, <2>4, <2>5 DEF UsersInv
<1>7. RulesInv'
  <2>1. RulesNow' = RulesNow
    BY <1>1 DEF RulesNow, PanelRules, RulesInNode, Tag, Is
  <2>2. ~(mon'.at = "fill" /\ ~mon'.starting) /\ (mon'.at = "idle" => ~mon'.current)
    BY <1>2 DEF Ends
  <2> QED BY <1>1, <2>1, <2>2, ListFlags DEF FollowInv, RulesInv
<1>8. ServedInv'
  <2>1. ~(mon'.at = "rules" /\ mon'.starting) /\ (mon'.at = "idle" => ~mon'.current)
    BY <1>2 DEF Ends
  <2> QED BY <1>1, <2>1 DEF FollowInv, ServedInv, Refused
<1> QED BY <1>3, <1>4, <1>5, <1>6, <1>7, <1>8 DEF FollowInv

LEMMA ListFetchedFollows == ASSUME Inv, FollowInv, ListFetched PROVE FollowInv'
<1>1. /\ mon.at = "users" /\ CountsDevices
      /\ setup' = setup /\ panel' = panel /\ ctl' = ctl /\ client' = client
  BY DEF ListFetched
<1>2. /\ mon'.at = "parse" /\ mon'.starting = mon.starting /\ mon'.info = mon.info
      /\ mon'.current = mon.current /\ mon'.limits = panel.limits
  BY DEF ListFetched, Inv, Types, MonTypes
<1>3. /\ etag'["node"] = etag["node"] /\ etag'["rules"] = etag["rules"]
      /\ lost'["rules"] = lost["rules"] /\ lost'["node"] = lost["node"]
  BY DEF ListFetched, Remember, Inv, Types, Flags, Resource
<1>4. TypeInv'
  BY <1>1, <1>2 DEF FollowInv, TypeInv, Working
<1>5. ETagInv'
  BY <1>1, <1>2, <1>3 DEF FollowInv, ETagInv, CountsDevices, Is
<1>6. NodeInv'
  <2>1. Described(panel.node)' = Described(panel.node)
    BY <1>1, DescribedSame
  <2> QED BY <1>1, <1>2, <1>3, <2>1 DEF FollowInv, NodeInv, HeldNode, Working, RulesInNode
<1>7. UsersInv'
  BY <1>1, <1>2 DEF UsersInv, ListTaken
<1>8. RulesInv'
  <2>1. RulesNow' = RulesNow
    BY <1>1 DEF RulesNow, PanelRules, RulesInNode, Tag, Is
  <2> QED BY <1>1, <1>2, <1>3, <2>1 DEF FollowInv, RulesInv
<1>9. ServedInv'
  BY <1>1, <1>2 DEF FollowInv, ServedInv, Refused
<1> QED BY <1>4, <1>5, <1>6, <1>7, <1>8, <1>9 DEF FollowInv

LEMMA ParseFollows == ASSUME Inv, FollowInv, ParseEffect PROVE FollowInv'
<1>1. /\ mon.at = "parse" /\ CountsDevices
      /\ setup' = setup /\ panel' = panel /\ ctl' = ctl /\ etag' = etag /\ lost' = lost
      /\ client' = [client EXCEPT !.last = None]
  BY DEF ParseEffect
<1>2. PICK given \in Limits :
        TakeList(given) /\ \A u \in User : mon.limits[u] = Out => given[u] = Out
  BY DEF ParseEffect
<1>3. ListGoes(given) /\ client'.deviceLimit = client.deviceLimit
  BY <1>1, <1>2, TakeListGoes DEF Inv, Types, ClientTypes
<1>4. TypeInv'
  BY <1>1, <1>3 DEF FollowInv, TypeInv, Working, ListGoes
<1>5. ETagInv'
  BY <1>1, <1>3 DEF FollowInv, ETagInv, ListGoes, Is, CountsDevices
<1>6. NodeInv'
  <2>1. Described(panel.node)' = Described(panel.node)
    BY <1>1, DescribedSame
  <2>2. ~RulesInNode
    BY <1>1 DEF RulesInNode, CountsDevices
  <2> QED BY <1>1, <1>3, <2>1, <2>2 DEF FollowInv, NodeInv, HeldNode, Working, RulesInNode, ListGoes
<1>7. UsersInv'
  <2>1. ASSUME etag["users"] \/ mon.current
        PROVE  Users(given) \subseteq Users(panel.limits)
    BY <1>1, <1>2, <2>1 DEF FollowInv, UsersInv, Users
  <2>2. SameUsers(given)' = SameUsers(given)
    BY <1>1 DEF SameUsers, CountsDevices, RulesInNode, Is
  <2>3. etag["users"] \/ mon.current => SameUsers(given)
    BY <1>1, <2>1 DEF SameUsers, CountsDevices, Is
  <2> QED BY <1>1, <1>3, <2>2, <2>3 DEF UsersInv, ListTaken, ListGoes
<1>8. RulesInv'
  <2>1. RulesNow' = RulesNow
    BY <1>1 DEF RulesNow, PanelRules, RulesInNode, Tag, Is
  <2> QED BY <1>1, <1>3, <2>1 DEF FollowInv, RulesInv, ListGoes
<1>9. ServedInv'
  BY <1>1, <1>3 DEF FollowInv, ServedInv, Refused, ListGoes
<1> QED BY <1>4, <1>5, <1>6, <1>7, <1>8, <1>9 DEF FollowInv

(***************************************************************************)
(* GetNodeRule.                                                            *)
(***************************************************************************)

RulesTaken(a) ==
  /\ ctl'.node = ctl.node /\ ctl'.limits = ctl.limits /\ ctl'.inbound = ctl.inbound
  /\ ctl'.accounts = ctl.accounts
  /\ IF a = "good" /\ Local \cup GivenRules # {}
     THEN Tag \in DOMAIN ctl'.rules /\ ctl'.rules[Tag] = Local \cup GivenRules
     ELSE ctl'.rules = ctl.rules
  /\ mon'.current => mon.current /\ a \in {"good", "304"}
  /\ \/ mon.starting /\ mon'.at = "idle" /\ ~mon'.starting
     \/ /\ ~mon.starting /\ mon'.at = "fill" /\ ~mon'.starting
        /\ mon'.info = mon.info /\ mon'.limits = mon.limits

LEMMA RulesCases ==
  ASSUME Inv, NEW a, RulesAsked(a)
  PROVE  (Stops /\ mon'.at = "crashed" /\ ctl' = ctl) \/ RulesTaken(a)
<1>1. CASE Crash /\ UNCHANGED ctl
  BY <1>1, CrashStops DEF Crash, AtRest
<1>2. CASE /\ RulesOutcome(a, Local \cup GivenRules)
           /\ ~(a = "good" /\ MustCompilePanics(Local \cup GivenRules))
  <2> DEFINE rules == Local \cup GivenRules
  <2>1. /\ ctl'.node = ctl.node /\ ctl'.limits = ctl.limits /\ ctl'.inbound = ctl.inbound
        /\ ctl'.accounts = ctl.accounts
        /\ IF a = "good" /\ rules # {} THEN Tag \in DOMAIN ctl'.rules /\ ctl'.rules[Tag] = rules
           ELSE ctl'.rules = ctl.rules
    <3> HIDE DEF rules
    <3>1. CASE a = "good" /\ rules # {}
      BY <1>2, <3>1 DEF RulesOutcome, UpdateRule, Inv, Types, CtlTypes, rules
    <3>2. CASE ~(a = "good" /\ rules # {})
      BY <1>2, <3>2 DEF RulesOutcome, UpdateRule, rules
    <3> QED BY <3>1, <3>2
  <2>2. AfterRules(a \in {"good", "304"})
    BY <1>2 DEF RulesOutcome
  <2>3. /\ mon'.current => mon.current /\ a \in {"good", "304"}
        /\ \/ mon.starting /\ mon'.at = "idle" /\ ~mon'.starting
           \/ /\ ~mon.starting /\ mon'.at = "fill" /\ ~mon'.starting
              /\ mon'.info = mon.info /\ mon'.limits = mon.limits
    <3>1. CASE mon.starting
      BY <2>2, <3>1 DEF AfterRules, AtRest
    <3>2. CASE ~mon.starting
      BY <2>2, <3>2 DEF AfterRules, Inv, Types, MonTypes
    <3> QED BY <3>1, <3>2
  <2> QED BY <2>1, <2>3 DEF RulesTaken
<1> QED BY <1>1, <1>2 DEF RulesAsked, RulesOutcome

LEMMA RulesFlags ==
  ASSUME Inv, NEW a, RulesAsked(a)
  PROVE  /\ etag'["node"] = etag["node"] /\ etag'["users"] = etag["users"]
         /\ lost'["node"] = lost["node"] /\ lost'["users"] = lost["users"]
         /\ ~Is("SSpanel") => a # "304" /\ etag' = etag /\ lost' = lost
         /\ a = "304" => etag["rules"]
         /\ a # "good" /\ etag'["rules"] /\ ~lost'["rules"] => etag["rules"] /\ ~lost["rules"]
         /\ a = "304" => lost'["rules"] = lost["rules"]
<1>1. CASE ~Is("SSpanel")
  BY <1>1 DEF RulesAsked
<1>2. CASE Is("SSpanel")
  <2>1. /\ Remember("rules", a, a = "good") /\ (a = "304" => etag["rules"])
        /\ "rules" \in Resource /\ (a = "good") \in BOOLEAN
    BY <1>2 DEF RulesAsked, Resource
  <2> QED BY <1>2, <2>1, RememberFlags DEF Resource
<1> QED BY <1>1, <1>2

LEMMA RulesAskedFollows == ASSUME Inv, FollowInv, NEW a, RulesAsked(a) PROVE FollowInv'
<1>1. /\ mon.at = "rules"
      /\ setup' = setup /\ panel' = panel /\ client' = client
      /\ mon.info = ctl.node
  BY DEF RulesAsked, FollowInv, NodeInv
<1>2. TypeInv'
  BY <1>1, RulesCases DEF FollowInv, TypeInv, Working, Stops, RulesTaken
<1>3. ETagInv'
  BY <1>1, RulesCases, RulesFlags DEF FollowInv, ETagInv, Stops, RulesTaken, Is
<1>4. NodeInv'
  <2>1. Described(panel.node)' = Described(panel.node)
    BY <1>1, DescribedSame
  <2> QED
    BY <1>1, <2>1, RulesCases, RulesFlags DEF FollowInv, NodeInv, HeldNode, Working, RulesInNode,
       Stops, RulesTaken
<1>5. UsersInv'
  <2>1. \A l : SameUsers(l)' = SameUsers(l)
    BY <1>1 DEF SameUsers, CountsDevices, Is
  <2>2. mon.starting => ctl.limits = mon.limits
    BY <1>1 DEF FollowInv, UsersInv
  <2>3. (etag["users"] \/ mon.current) /\ ~lost["users"] => SameUsers(mon.limits)
    BY <1>1 DEF FollowInv, UsersInv, ListTaken
  <2> QED
    BY <1>1, <2>1, <2>2, <2>3, RulesCases, RulesFlags DEF UsersInv, ListTaken, Stops, RulesTaken
<1>6. RulesInv'
  <2>1. PanelRules' = PanelRules
    BY <1>1 DEF PanelRules, RulesInNode, Is
  <2>2. a # "good" /\ etag["rules"] /\ ~lost["rules"] => RulesNow'
    <3>1. a # "good" => ctl'.node = ctl.node /\ ctl'.rules = ctl.rules
      BY RulesCases DEF RulesTaken
    <3> QED BY <1>1, <2>1, <3>1 DEF FollowInv, RulesInv, RulesNow, Tag
  <2>3. ASSUME mon'.at # "crashed", a = "good", Is("SSpanel") \/ (mon.current /\ ~lost["node"])
        PROVE  RulesNow'
    <3>1. RulesTaken(a)
      BY <2>3, RulesCases
    <3>2. GivenRules = PanelRules
      <4>1. CASE ~RulesInNode
        BY <4>1 DEF GivenRules
      <4>2. CASE RulesInNode
        <5>1. client.resp = panel.node
          <6>1. client.resp \in {panel.node, NoNode}
            BY <2>3, <4>2 DEF FollowInv, NodeInv, RulesInNode, Is
          <6>2. CASE client.resp = NoNode
            BY <2>3, <4>2, <6>2, CrashStops DEF RulesAsked, Crash, AtRest
          <6> QED BY <6>1, <6>2
        <5> QED BY <4>2, <5>1 DEF GivenRules, PanelRules, RulesInNode, Is
      <4> QED BY <4>1, <4>2
    <3> QED BY <2>1, <2>3, <3>1, <3>2 DEF RulesNow, RulesTaken, Tag
  <2>4. ASSUME etag'["rules"], ~lost'["rules"], mon'.at # "crashed" PROVE RulesNow'
    <3>1. Is("SSpanel")
      BY <2>4, RulesFlags DEF FollowInv, ETagInv
    <3>2. CASE a = "good"
      BY <2>3, <2>4, <3>1, <3>2
    <3> QED BY <2>2, <2>4, <3>2, RulesFlags
  <2>5. ASSUME mon'.at \in {"idle", "fill"}, mon'.current, ~lost'["rules"], ~lost'["node"]
        PROVE  RulesNow'
    <3>1. mon.current /\ a \in {"good", "304"}
      BY <2>5, RulesCases DEF RulesTaken, Stops
    <3> QED BY <2>2, <2>3, <2>5, <3>1, RulesFlags
  <2> QED BY <2>4, <2>5 DEF RulesInv
<1>7. ServedInv'
  BY <1>1, RulesCases DEF FollowInv, ServedInv, Refused, Stops, RulesTaken
<1> QED BY <1>2, <1>3, <1>4, <1>5, <1>6, <1>7 DEF FollowInv

(***************************************************************************)
(* Reports, the controller, the panel, and a restart.                      *)
(***************************************************************************)

LEMMA ReportedFollows == ASSUME Inv, FollowInv, NEW n, Reported(n) PROVE FollowInv'
<1>1. /\ setup' = setup /\ mon' = mon /\ ctl' = ctl /\ lost' = lost
      /\ client'.resp = client.resp /\ client'.deviceLimit = client.deviceLimit
  BY DEF Reported, Inv, Types, ClientTypes
<1>2. /\ panel'.node = panel.node /\ panel'.limits = panel.limits /\ panel'.rules = panel.rules
      /\ etag'["node"] = etag["node"] /\ etag'["rules"] = etag["rules"]
      /\ etag'["users"] => etag["users"]
      /\ mon.at # "node"
  BY DEF Reported, Post, Inv, Types, PanelTypes, Flags, Resource, RespInv
<1>3. TypeInv'
  BY <1>1 DEF FollowInv, TypeInv, Working
<1>4. ETagInv'
  BY <1>1, <1>2 DEF FollowInv, ETagInv, Is
<1>5. NodeInv'
  <2>1. Described(panel.node)' = Described(panel.node)
    BY <1>1, <1>2, DescribedSame
  <2> QED BY <1>1, <1>2, <2>1 DEF FollowInv, NodeInv, HeldNode, Working, RulesInNode
<1>6. UsersInv'
  <2>1. \A l : SameUsers(l)' = SameUsers(l)
    BY <1>1, <1>2 DEF SameUsers, CountsDevices, Is
  <2> QED BY <1>1, <1>2, <2>1 DEF FollowInv, UsersInv, ListTaken
<1>7. RulesInv'
  <2>1. RulesNow' = RulesNow
    BY <1>1, <1>2 DEF RulesNow, PanelRules, RulesInNode, Tag, Is
  <2> QED BY <1>1, <1>2, <2>1 DEF FollowInv, RulesInv
<1>8. ServedInv'
  BY <1>1 DEF FollowInv, ServedInv, Refused
<1> QED BY <1>3, <1>4, <1>5, <1>6, <1>7, <1>8 DEF FollowInv

LEMMA PanelStepFollows == ASSUME Inv, FollowInv, PanelStep PROVE FollowInv'
<1>1. setup' = setup /\ client' = client /\ ctl' = ctl /\ lost' = lost
  BY DEF PanelStep, PanelChanges
<1>2. mon' = [mon EXCEPT !.current = FALSE]
  BY DEF PanelStep, PanelChanges
<1>3. /\ mon'.at = mon.at /\ mon'.starting = mon.starting /\ mon'.info = mon.info
      /\ mon'.limits = mon.limits /\ ~mon'.current
  BY <1>2 DEF Inv, Types, MonTypes
<1>4. /\ etag'["node"] => etag["node"] /\ panel'.node = panel.node
      /\ etag'["users"] => etag["users"] /\ panel'.limits = panel.limits
      /\ etag'["rules"] => etag["rules"] /\ panel'.rules = panel.rules
      /\ etag = NoEtag => etag' = NoEtag
  <2>1. ASSUME NEW r \in Resource, etag' = [etag EXCEPT ![r] = FALSE]
        PROVE  /\ ~etag'[r] /\ \A q \in Resource : etag'[q] => etag[q]
               /\ etag = NoEtag => etag' = NoEtag
    BY <2>1 DEF Inv, Types, Flags, NoEtag
  <2>2. CASE \E n \in setup.nodes : PanelChanges([panel EXCEPT !.node = n], "node")
    <3>1. panel'.limits = panel.limits /\ panel'.rules = panel.rules
      BY <2>2 DEF PanelChanges, Inv, Types, PanelTypes
    <3>2. etag' = [etag EXCEPT !["node"] = FALSE]
      BY <2>2 DEF PanelChanges
    <3> QED BY <2>1, <3>1, <3>2 DEF Resource
  <2>3. CASE \E l \in setup.lists : PanelChanges([panel EXCEPT !.limits = l], "users")
    <3>1. panel'.node = panel.node /\ panel'.rules = panel.rules
      BY <2>3 DEF PanelChanges, Inv, Types, PanelTypes
    <3>2. etag' = [etag EXCEPT !["users"] = FALSE]
      BY <2>3 DEF PanelChanges
    <3> QED BY <2>1, <3>1, <3>2 DEF Resource
  <2>4. CASE \E s \in setup.rules : PanelChanges([panel EXCEPT !.rules = s], "rules")
    <3>1. panel'.node = panel.node /\ panel'.limits = panel.limits
      BY <2>4 DEF PanelChanges, Inv, Types, PanelTypes
    <3>2. etag' = [etag EXCEPT !["rules"] = FALSE]
      BY <2>4 DEF PanelChanges
    <3> QED BY <2>1, <3>1, <3>2 DEF Resource
  <2>5. CASE \/ \E d \in setup.away : PanelChanges([panel EXCEPT !.elsewhere = d], "users")
             \/ PanelChanges([panel EXCEPT !.ours = None], "users")
    <3>1. panel'.node = panel.node /\ panel'.limits = panel.limits /\ panel'.rules = panel.rules
      BY <2>5 DEF PanelChanges, Inv, Types, PanelTypes
    <3>2. etag' = [etag EXCEPT !["users"] = FALSE]
      BY <2>5 DEF PanelChanges
    <3> QED BY <2>1, <3>1, <3>2 DEF Resource
  <2> QED
    BY <2>2, <2>3, <2>4, <2>5 DEF PanelStep
<1>5. TypeInv'
  BY <1>1, <1>3 DEF FollowInv, TypeInv, Working
<1>6. ETagInv'
  BY <1>1, <1>3, <1>4 DEF FollowInv, ETagInv, Is
<1>7. NodeInv'
  <2>1. etag'["node"] => Described(panel.node)' = Described(panel.node)
    BY <1>1, <1>4, DescribedSame
  <2> QED BY <1>1, <1>3, <1>4, <2>1 DEF FollowInv, NodeInv, HeldNode, Working, RulesInNode
<1>8. UsersInv'
  <2>1. etag'["users"] => \A l : SameUsers(l)' = SameUsers(l)
    BY <1>1, <1>4 DEF SameUsers, CountsDevices, Is
  <2> QED BY <1>1, <1>3, <1>4, <2>1 DEF FollowInv, UsersInv, ListTaken
<1>9. RulesInv'
  <2>1. ASSUME etag'["rules"] PROVE RulesNow' = RulesNow
    <3>1. Is("SSpanel")
      BY <1>4, <2>1 DEF FollowInv, ETagInv
    <3>2. PanelRules = panel.rules /\ PanelRules' = panel'.rules
      BY <1>1, <3>1 DEF PanelRules, RulesInNode, Is
    <3> QED BY <1>1, <1>4, <2>1, <3>2 DEF RulesNow, Tag
  <2> QED BY <1>1, <1>3, <1>4, <2>1 DEF FollowInv, RulesInv
<1>10. ServedInv'
  BY <1>1, <1>3 DEF FollowInv, ServedInv, Refused
<1> QED BY <1>5, <1>6, <1>7, <1>8, <1>9, <1>10 DEF FollowInv

LEMMA RemoveOldTagFollows == ASSUME Inv, FollowInv, removeOldTag PROVE FollowInv'
<1>1. /\ mon.at = "tag" /\ ~mon.starting /\ Ends
      /\ setup' = setup /\ panel' = panel /\ client' = client /\ etag' = etag /\ ctl' = ctl
  BY GiveUpEnds DEF removeOldTag, HasInbound
<1>2. /\ lost'["rules"] = lost["rules"]
      /\ ~lost'["node"] => ~lost["node"] /\ ~etag["node"]
      /\ ~lost'["users"] => ~lost["users"] /\ (etag["users"] => mon.limits = ctl.limits)
  BY DEF removeOldTag, Inv, Types, Flags, Resource
<1>3. TypeInv'
  BY <1>1 DEF FollowInv, TypeInv, Working, Ends
<1>4. ETagInv'
  BY <1>1 DEF FollowInv, ETagInv, Is, Ends
<1>5. NodeInv'
  BY <1>1, <1>2 DEF NodeInv, Ends
<1>6. UsersInv'
  <2>1. SameUsers(ctl.limits)' = SameUsers(ctl.limits)
    BY <1>1 DEF SameUsers, CountsDevices, Is
  <2> QED BY <1>1, <1>2, <2>1 DEF FollowInv, UsersInv, ListTaken, Ends
<1>7. RulesInv'
  <2>1. RulesNow' = RulesNow
    BY <1>1 DEF RulesNow, PanelRules, RulesInNode, Tag, Is
  <2> QED BY <1>1, <1>2, <2>1 DEF FollowInv, RulesInv, Ends
<1>8. ServedInv'
  BY <1>1 DEF FollowInv, ServedInv, Refused, Ends
<1> QED BY <1>3, <1>4, <1>5, <1>6, <1>7, <1>8 DEF FollowInv

LEMMA AddNewTagFollows == ASSUME Inv, FollowInv, addNewTag PROVE FollowInv'
<1>1. PICK issued : LET built == addNewTagBuilds(setup.cfg, mon.info, issued) IN
        /\ ctl' = [ctl EXCEPT
             !.node     = mon.info,
             !.inbound  = IF built THEN FacingInbound(setup.cfg, mon.info) ELSE Down,
             !.accounts = "none"]
        /\ IF addNewTagPanics(setup.cfg, mon.info) THEN Crash
           ELSE IF ~built THEN GiveUp
           ELSE mon' = [mon EXCEPT !.at = IF mon.starting THEN "users" ELSE "rules"]
        /\ lost' = [lost EXCEPT
             !["users"] = @ \/ (etag["users"] /\ ~built /\ mon.limits # ctl.limits),
             !["rules"] = @ \/ (etag["rules"] /\ mon.info.port # Tag)]
  BY DEF addNewTag
<1> DEFINE built == addNewTagBuilds(setup.cfg, mon.info, issued)
<1>2. /\ mon.at = "tag" /\ mon.info.type = setup.type
      /\ setup' = setup /\ panel' = panel /\ client' = client /\ etag' = etag
  BY DEF addNewTag, FollowInv, TypeInv, Working
<1>3. /\ ctl'.node = mon.info /\ ctl'.limits = ctl.limits /\ ctl'.rules = ctl.rules
      /\ ctl'.inbound = IF built THEN FacingInbound(setup.cfg, mon.info) ELSE Down
  <2> HIDE DEF built
  <2> QED BY <1>1 DEF Inv, Types, CtlTypes, built
<1>4. \/ Stops /\ mon'.at = "crashed"
      \/ Ends /\ ~built
      \/ /\ built /\ mon'.at = IF mon.starting THEN "users" ELSE "rules"
         /\ mon'.starting = mon.starting /\ mon'.info = mon.info /\ mon'.limits = mon.limits
         /\ mon'.current = mon.current
  <2> HIDE DEF built
  <2>1. CASE Crash
    BY <2>1, CrashStops DEF Crash, AtRest
  <2>2. CASE GiveUp /\ ~built
    BY <2>2, GiveUpEnds
  <2>3. CASE built /\ mon' = [mon EXCEPT !.at = IF mon.starting THEN "users" ELSE "rules"]
    BY <2>3 DEF Inv, Types, MonTypes
  <2> QED BY <1>1, <2>1, <2>2, <2>3 DEF built
<1>5. /\ lost'["node"] = lost["node"]
      /\ ~lost'["users"] => ~lost["users"] /\ (etag["users"] /\ ~built => mon.limits = ctl.limits)
      /\ ~lost'["rules"] => ~lost["rules"] /\ (etag["rules"] => mon.info.port = Tag)
  <2> HIDE DEF built
  <2> QED BY <1>1 DEF Inv, Types, Flags, Resource, built
<1>6. setup.type # "Shadowsocks-Plugin" =>
        \/ ctl'.inbound = Inbound(setup.cfg, mon.info)
        \/ ctl'.inbound = Down /\ Refused(mon.info)
  <2>1. ASSUME setup.type # "Shadowsocks-Plugin", ~built PROVE Refused(mon.info)
    <3>1. Protocol(mon.info) = "shadowsocks" => setup.type = "Shadowsocks"
      BY <1>2, <2>1 DEF Protocol, V2rayTypes, SSTypes
    <3> QED BY <1>2, <2>1, <3>1 DEF addNewTagBuilds, Builds, getCertFile, Refused
  <2>2. ASSUME setup.type # "Shadowsocks-Plugin"
        PROVE  FacingInbound(setup.cfg, mon.info) = Inbound(setup.cfg, mon.info)
    BY <1>2, <2>2 DEF FacingInbound
  <2> HIDE DEF built
  <2> QED BY <1>3, <2>1, <2>2
<1> HIDE DEF built
<1>7. TypeInv'
  BY <1>2, <1>3, <1>4 DEF FollowInv, TypeInv, Working, Stops, Ends
<1>8. ETagInv'
  BY <1>2, <1>4 DEF FollowInv, ETagInv, Stops, Ends, Is
<1>9. NodeInv'
  <2>1. Described(panel.node)' = Described(panel.node)
    BY <1>2, DescribedSame
  <2>2. mon'.current => mon.current
    BY <1>4 DEF Stops, Ends
  <2>3. (etag["node"] \/ mon.current) /\ ~lost["node"] => mon.info = Described(panel.node)
    BY <1>2 DEF FollowInv, NodeInv, HeldNode, Working
  <2>4. mon'.at # "crashed" => HeldNode' = mon.info
    BY <1>3, <1>4 DEF HeldNode, Working, Ends
  <2>5. mon'.at \in {"users", "rules"} => mon'.info = ctl'.node
    BY <1>3, <1>4 DEF Stops, Ends
  <2>6. mon'.at \in {"crashed", "idle", "users", "rules"}
    BY <1>4 DEF Stops, Ends
  <2> QED
    BY <1>2, <1>5, <2>1, <2>2, <2>3, <2>4, <2>5, <2>6 DEF FollowInv, NodeInv, RulesInNode
<1>10. UsersInv'
  <2>1. \A l : SameUsers(l)' = SameUsers(l)
    BY <1>2 DEF SameUsers, CountsDevices, Is
  <2>2. /\ mon.starting => ~etag["users"]
        /\ ~mon.starting /\ (etag["users"] \/ mon.current) /\ ~lost["users"] => SameUsers(mon.limits)
    BY <1>2 DEF FollowInv, UsersInv, ListTaken, ETagInv
  <2> QED
    BY <1>2, <1>3, <1>4, <1>5, <2>1, <2>2 DEF UsersInv, ListTaken, Stops, Ends
<1>11. RulesInv'
  <2>1. ASSUME etag["rules"], ~lost'["rules"] PROVE RulesNow' = RulesNow
    BY <1>2, <1>3, <1>5, <2>1 DEF RulesNow, PanelRules, RulesInNode, Tag, Is
  <2> QED BY <1>2, <1>4, <1>5, <2>1 DEF FollowInv, RulesInv, Stops, Ends
<1>12. ServedInv'
  BY <1>2, <1>3, <1>4, <1>6 DEF ServedInv, Refused, Stops, Ends
<1> QED BY <1>7, <1>8, <1>9, <1>10, <1>11, <1>12 DEF FollowInv

LEMMA SyncUsersFollows == ASSUME Inv, FollowInv, SyncUsers PROVE FollowInv'
<1>1. /\ mon.at = "fill" /\ mon.info = ctl.node
      /\ setup' = setup /\ panel' = panel /\ client' = client /\ etag' = etag /\ lost' = lost
  BY DEF SyncUsers, FollowInv, NodeInv
<1>2. /\ ctl'.node = ctl.node /\ ctl'.limits = mon.limits /\ ctl'.rules = ctl.rules
      /\ ctl'.inbound = ctl.inbound
      /\ ctl.inbound # Down => ctl'.accounts = addNewUser(ctl.node)
  BY DEF SyncUsers, Inv, Types, CtlTypes
<1>3. \/ /\ mon.starting /\ mon'.at = "rules" /\ mon'.starting /\ mon'.info = mon.info
         /\ mon'.limits = mon.limits /\ mon'.current = mon.current
      \/ ~mon.starting /\ mon'.at = "idle" /\ ~mon'.starting /\ mon'.current = mon.current
  BY DEF SyncUsers, AtRest, Inv, Types, MonTypes
<1>4. TypeInv'
  BY <1>1, <1>2, <1>3 DEF FollowInv, TypeInv, Working
<1>5. ETagInv'
  BY <1>1, <1>3 DEF FollowInv, ETagInv, Is
<1>6. NodeInv'
  <2>1. Described(panel.node)' = Described(panel.node)
    BY <1>1, DescribedSame
  <2> QED BY <1>1, <1>2, <1>3, <2>1 DEF FollowInv, NodeInv, HeldNode, Working, RulesInNode
<1>7. UsersInv'
  <2>1. \A l : SameUsers(l)' = SameUsers(l)
    BY <1>1 DEF SameUsers, CountsDevices, Is
  <2> QED BY <1>1, <1>2, <1>3, <2>1 DEF FollowInv, UsersInv, ListTaken
<1>8. RulesInv'
  <2>1. RulesNow' = RulesNow
    BY <1>1, <1>2 DEF RulesNow, PanelRules, RulesInNode, Tag, Is
  <2> QED BY <1>1, <1>3, <2>1 DEF FollowInv, RulesInv
<1>9. ServedInv'
  BY <1>1, <1>2, <1>3 DEF FollowInv, ServedInv, Refused
<1> QED BY <1>4, <1>5, <1>6, <1>7, <1>8, <1>9 DEF FollowInv

LEMMA FreshFollows == setup \in Setups /\ Fresh => FollowInv
<1> SUFFICES ASSUME setup \in Setups, Fresh PROVE FollowInv
  OBVIOUS
<1>1. client.deviceLimit = setup.deviceLimit /\ client.resp = NoNode
  BY FreshClient DEF Fresh
<1>2. mon.at = "node" /\ mon.starting = TRUE /\ etag = NoEtag
  BY DEF Fresh, Starting, AtRest
<1>3. TypeInv /\ ETagInv
  BY <1>1, <1>2 DEF TypeInv, Working, ETagInv, NoEtag, Resource
<1>4. NodeInv /\ UsersInv
  BY <1>1, <1>2 DEF NodeInv, UsersInv, ListTaken, NoEtag, Resource
<1>5. RulesInv /\ ServedInv
  BY <1>2 DEF RulesInv, ServedInv, NoEtag, Resource
<1> QED BY <1>3, <1>4, <1>5 DEF FollowInv

\* A restarted XrayR has a new client and a new controller.
LEMMA RestartFollows == ASSUME Inv, Restart PROVE FollowInv'
<1>1. (setup \in Setups /\ Fresh)'
  <2>1. NewClient' = NewClient
    BY DEF Restart, NewClient, Is, SSP!New, V2B!New, PRX!New, V2S!New, PMP!New, BUN!New, GOV!New
  <2> QED BY <2>1 DEF Restart, Fresh, Inv, Types
<1>2. (setup \in Setups /\ Fresh => FollowInv)'
  BY FreshFollows, PTL
<1> QED BY <1>1, <1>2

LEMMA StutterFollows == ASSUME Inv, FollowInv, UNCHANGED vars PROVE FollowInv'
<1>1. /\ setup' = setup /\ panel' = panel /\ client' = client /\ etag' = etag
      /\ mon' = mon /\ ctl' = ctl /\ lost' = lost
  BY DEF vars
<1>2. Described(panel.node)' = Described(panel.node)
  BY <1>1, DescribedSame
<1>3. \A l : SameUsers(l)' = SameUsers(l)
  BY <1>1 DEF SameUsers, CountsDevices, Is
<1>4. RulesNow' = RulesNow
  BY <1>1 DEF RulesNow, PanelRules, RulesInNode, Tag, Is
<1>5. TypeInv' /\ ETagInv'
  BY <1>1 DEF FollowInv, TypeInv, ETagInv, Working, Is
<1>6. NodeInv'
  BY <1>1, <1>2 DEF FollowInv, NodeInv, HeldNode, Working, RulesInNode
<1>7. UsersInv' /\ RulesInv'
  BY <1>1, <1>3, <1>4 DEF FollowInv, UsersInv, RulesInv, ListTaken
<1>8. ServedInv'
  BY <1>1 DEF FollowInv, ServedInv, Refused
<1> QED BY <1>5, <1>6, <1>7, <1>8 DEF FollowInv

LEMMA NextFollows == Inv /\ FollowInv /\ [Next]_vars => FollowInv'
<1> SUFFICES ASSUME Inv, FollowInv, [Next]_vars PROVE FollowInv'
  OBVIOUS
<1>1. CASE \E a, used : NodeAsked(a, used)
  BY <1>1, NodeAskedFollows
<1>2. CASE ListFetched \/ ParseEffect \/ \E a, used : ListAsked(a, used)
  BY <1>2, ListAskedFollows, ListFetchedFollows, ParseFollows
<1>3. CASE \E a : RulesAsked(a)
  BY <1>3, RulesAskedFollows
<1>4. CASE \E n : Reported(n)
  BY <1>4, ReportedFollows
<1>5. CASE removeOldTag \/ addNewTag \/ SyncUsers
  BY <1>5, RemoveOldTagFollows, AddNewTagFollows, SyncUsersFollows
<1>6. CASE PanelStep \/ Restart
  BY <1>6, PanelStepFollows, RestartFollows
<1>7. CASE UNCHANGED vars
  BY <1>7, StutterFollows
<1> QED BY <1>1, <1>2, <1>3, <1>4, <1>5, <1>6, <1>7, CallsAreAsked

LEMMA FollowHolds == Spec => []FollowInv
<1>1. Init => FollowInv
  BY FreshFollows DEF Init, Fresh
<1> QED BY <1>1, NextFollows, InvHolds, PTL DEF Spec

(***************************************************************************)
(* The Shadowsocks nodes of SSPanel that have no cipher or no transport    *)
(* never get an inbound: XrayR does not start with them.                   *)
(***************************************************************************)

NeverServed == setup.type = "Shadowsocks-Plugin" \/ OldPort

NeverInv ==
  NeverServed =>
    /\ mon.starting /\ mon.at \in {"node", "tag", "crashed"}
    /\ mon.at = "tag" =>
         \A issued \in BOOLEAN : ~addNewTagBuilds(setup.cfg, mon.info, issued)

LEMMA PluginKeeps ==
  ASSUME NEW raw
  PROVE  /\ SSP!ParseSSPluginNodeResponse(raw).type = setup.type
         /\ SSP!ParseSSPluginNodeResponse(raw).kept = {"path", "host"}
<1>1. CASE raw.net \in {"tcp", "ws"}
  BY <1>1 DEF SSP!ParseSSPluginNodeResponse
<1>2. CASE raw.net \notin {"tcp", "ws"}
  BY <1>2 DEF SSP!ParseSSPluginNodeResponse
<1> QED BY <1>1, <1>2

\* The network that the custom_config of each type gives.
LEMMA CustomNet ==
  ASSUME NEW raw
  PROVE  /\ setup.type = "Shadowsocks-Plugin" => SSP!ParseSSPanelNodeInfo(raw).net = ""
         /\ setup.type = "V2ray" => SSP!ParseSSPanelNodeInfo(raw).net = raw.net
<1>1. CASE setup.type = "Shadowsocks-Plugin"
  <2>1. (CASE setup.type = "Shadowsocks"        -> "tcp"
           [] setup.type = "Shadowsocks-Plugin" -> ""
           [] OTHER                             -> raw.net) = ""
    BY <1>1
  <2> QED BY <1>1, <2>1 DEF SSP!ParseSSPanelNodeInfo
<1>2. CASE setup.type = "V2ray"
  <2>1. (CASE setup.type = "Shadowsocks"        -> "tcp"
           [] setup.type = "Shadowsocks-Plugin" -> ""
           [] OTHER                             -> raw.net) = raw.net
    BY <1>2
  <2> QED BY <1>2, <2>1 DEF SSP!ParseSSPanelNodeInfo
<1>3. CASE setup.type \notin {"Shadowsocks-Plugin", "V2ray"}
  BY <1>3
<1> QED BY <1>1, <1>2, <1>3

LEMMA NeverBuilt ==
  ASSUME Inv, NeverServed, NEW issued
  PROVE  ~addNewTagBuilds(setup.cfg, NodeOf(panel.node), issued)
<1>1. Is("SSpanel")
  BY SetupsAssumption DEF Inv, Types, NeverServed, OldPort, Is
<1>2. NodeOf(panel.node) = SSP!ParseNode(panel.node)
  BY <1>1 DEF NodeOf, Is
<1>3. CASE OldPort
  <2>1. NodeOf(panel.node) = SSP!ParseSSNodeResponse(panel.node)
    BY <1>2, <1>3 DEF OldPort, SSP!ParseNode
  <2>2. NodeOf(panel.node).type = "Shadowsocks" /\ NodeOf(panel.node).kept = {}
    BY <1>3, <2>1 DEF OldPort, SSP!ParseSSNodeResponse
  <2> QED BY <2>2 DEF addNewTagBuilds, Builds, Protocol, V2rayTypes, SSTypes
<1>4. CASE setup.type = "Shadowsocks-Plugin" /\ setup.old
  <2>1. NodeOf(panel.node) = SSP!ParseSSPluginNodeResponse(panel.node)
    BY <1>2, <1>4 DEF SSP!ParseNode
  <2>2. NodeOf(panel.node).type = "Shadowsocks-Plugin" /\ NodeOf(panel.node).kept = {"path", "host"}
    BY <1>4, <2>1, PluginKeeps
  <2>3. /\ PluginInner(NodeOf(panel.node)).type = "Shadowsocks-Plugin"
        /\ PluginInner(NodeOf(panel.node)).kept = {"path", "host"}
    BY <2>1, <2>2 DEF PluginInner, SSP!ParseSSPluginNodeResponse
  <2> QED BY <2>2, <2>3 DEF addNewTagBuilds, Builds, Protocol, V2rayTypes, SSTypes
<1>5. CASE setup.type = "Shadowsocks-Plugin" /\ ~setup.old
  <2>1. NodeOf(panel.node) = SSP!ParseSSPanelNodeInfo(panel.node)
    BY <1>2, <1>5 DEF SSP!ParseNode
  <2>2. NodeOf(panel.node).type = "Shadowsocks-Plugin" /\ NodeOf(panel.node).net = ""
    BY <1>5, <2>1, CustomNet, NodeType
  <2>3. PluginOuter(NodeOf(panel.node)).net = ""
    BY <2>1, <2>2 DEF PluginOuter, SSP!ParseSSPanelNodeInfo
  <2> QED BY <2>2, <2>3 DEF addNewTagBuilds, Builds, KnownNetworks
<1> QED BY <1>3, <1>4, <1>5 DEF NeverServed

LEMMA NextNever == Inv /\ FollowInv /\ NeverInv /\ [Next]_vars => NeverInv'
<1> SUFFICES ASSUME Inv, FollowInv, NeverInv, [Next]_vars, NeverServed' PROVE NeverInv'
  BY DEF NeverInv
<1>1. CASE \E a, used : NodeAsked(a, used)
  <2>1. PICK a, used : NodeAsked(a, used)
    BY <1>1
  <2>2. setup' = setup /\ panel' = panel /\ mon.at \in {"node", "idle"}
    BY <2>1 DEF NodeAsked
  <2>3. NeverServed /\ mon.at = "node" /\ mon.starting
    BY <2>2 DEF NeverInv, NeverServed, OldPort, Is
  <2>4. a # "304"
    BY <2>1, <2>3 DEF NodeAsked, FollowInv, ETagInv, NoEtag, Resource
  <2>5. CASE NodeTaken(NodeOf(panel.node))
    BY <2>2, <2>3, <2>5, NeverBuilt DEF NodeTaken, NeverInv
  <2>6. CASE Ends \/ Stops
    BY <2>3, <2>6 DEF Ends, Stops, NeverInv
  <2> QED BY <2>1, <2>4, <2>5, <2>6, NodeCases
<1>2. CASE addNewTag
  <2>1. setup' = setup /\ mon.at = "tag"
    BY <1>2 DEF addNewTag
  <2>2. /\ NeverServed /\ mon.starting
        /\ \A issued \in BOOLEAN : ~addNewTagBuilds(setup.cfg, mon.info, issued)
    BY <2>1 DEF NeverInv, NeverServed, OldPort, Is
  <2>3. Crash
    BY <1>2, <2>2 DEF addNewTag, GiveUp
  <2>4. mon'.at = "crashed" /\ mon'.starting
    BY <2>2, <2>3, CrashStops DEF Crash, AtRest, Stops
  <2> QED BY <2>4 DEF NeverInv
<1>3. CASE PanelStep \/ UNCHANGED vars
  <2>1. /\ setup' = setup /\ mon'.at = mon.at /\ mon'.starting = mon.starting
        /\ mon'.info = mon.info
    BY <1>3 DEF PanelStep, PanelChanges, vars, Inv, Types, MonTypes
  <2> QED BY <2>1 DEF NeverInv, NeverServed, OldPort, Is
<1>4. CASE Restart
  BY <1>4 DEF Restart, Starting, AtRest, NeverInv
<1>5. CASE \/ ListFetched \/ ParseEffect \/ removeOldTag \/ SyncUsers
           \/ (\E a, used : ListAsked(a, used)) \/ (\E a : RulesAsked(a)) \/ (\E n : Reported(n))
  <2>1. setup' = setup
    BY <1>5 DEF ListFetched, ParseEffect, removeOldTag, SyncUsers, ListAsked, RulesAsked, Reported
  <2>2. mon.at \notin {"node", "tag", "crashed"} \/ ~mon.starting
    BY <1>5 DEF ListFetched, ParseEffect, removeOldTag, HasInbound, SyncUsers, ListAsked,
       RulesAsked, Reported
  <2> QED BY <2>1, <2>2 DEF NeverInv, NeverServed, OldPort, Is
<1> QED BY <1>1, <1>2, <1>3, <1>4, <1>5, CallsAreAsked

LEMMA NeverHolds == Spec => []NeverInv
<1>1. Init => NeverInv
  BY DEF Init, Starting, AtRest, NeverInv
<1> QED BY <1>1, NextNever, InvHolds, FollowHolds, PTL DEF Spec

(***************************************************************************)
(* What a run of nodeInfoMonitor in which nothing failed leaves behind.    *)
(***************************************************************************)

\* A run in which nothing failed brings the node, the users and the rules up
\* to date with every panel (nodeInfoMonitor over the GetNodeInfo, GetUserList
\* and GetNodeRule of the seven clients), whatever the panel has, unless the
\* last new answer was lost: the ETags of answers that were dropped or refused
\* are the only way to fall behind.
THEOREM NodeFollowsPanel == Spec => []PanelIsFollowed
<1>1. Inv /\ FollowInv /\ NeverInv => PanelIsFollowed
  <2> SUFFICES ASSUME Inv, FollowInv, NeverInv, Followed PROVE PanelIsFollowed
    BY DEF PanelIsFollowed
  <2>1. mon.at = "idle" /\ mon.current /\ ~OldPort
    BY DEF Followed, NeverInv, NeverServed
  <2>2. setup.kind \in Kinds
    BY SetupsAssumption DEF Inv, Types
  <2>3. ASSUME ~lost["node"] PROVE ctl.node = NodeOf(panel.node)
    <3>1. ctl.node = Described(panel.node)
      BY <2>1, <2>3 DEF FollowInv, NodeInv, HeldNode, Working
    <3> QED BY <2>1, <3>1 DEF Described, OldPort
  <2>4. ~lost["users"] => SameUsers(ctl.limits)
    BY <2>1 DEF FollowInv, UsersInv
  <2>5. ~lost["rules"] /\ ~lost["node"] => RulesNow
    BY <2>1 DEF FollowInv, RulesInv
  <2>6. CASE CountsDevices
    <3>1. ~Is("ProxyPanel") /\ ~(RulesInNode /\ ~Is("V2RaySocks"))
      BY <2>6 DEF CountsDevices, RulesInNode, Is
    <3>2. ~lost["users"] => Users(ctl.limits) \subseteq Users(panel.limits)
      BY <2>4, <2>6 DEF SameUsers
    <3> QED BY <2>3, <2>5, <2>6, <3>1, <3>2 DEF PanelIsFollowed, RulesNow
  <2>7. CASE Is("ProxyPanel")
    <3>1. ~CountsDevices /\ ~(RulesInNode /\ ~Is("V2RaySocks"))
      BY <2>7 DEF CountsDevices, RulesInNode, Is
    <3>2. ~lost["users"] => Users(ctl.limits) = Users(panel.limits)
      BY <2>4, <2>7 DEF SameUsers
    <3> QED BY <2>3, <2>5, <2>7, <3>1, <3>2 DEF PanelIsFollowed, RulesNow
  <2>8. CASE setup.kind \in {"NewV2board", "GoV2Panel"}
    <3>1. ~CountsDevices /\ ~Is("ProxyPanel") /\ RulesInNode /\ ~Is("V2RaySocks")
      BY <2>8 DEF CountsDevices, RulesInNode, Is
    <3> QED BY <2>3, <2>4, <2>5, <2>8, <3>1 DEF PanelIsFollowed, SameUsers, RulesNow
  <2>9. CASE setup.kind \in {"V2RaySocks", "PMPanel"}
    <3>1. ~CountsDevices /\ ~Is("ProxyPanel") /\ ~(RulesInNode /\ ~Is("V2RaySocks"))
      BY <2>9 DEF CountsDevices, RulesInNode, Is
    <3> QED BY <2>3, <2>4, <2>5, <2>9, <3>1 DEF PanelIsFollowed, SameUsers, RulesNow
  <2> QED BY <2>2, <2>6, <2>7, <2>8, <2>9 DEF Kinds, CountsDevices, Is
<1> QED BY <1>1, InvHolds, FollowHolds, NeverHolds, PTL

\* What the clients keep of a node they describe: its type and network, its
\* security, and the settings of its transport.
LEMMA DescribedKeeps ==
  ASSUME Inv, NEW info, info = NodeOf(panel.node)
  PROVE  /\ info.type = setup.type
         /\ setup.type = "V2ray" => info.net = panel.node.net
         /\ setup.type = "Trojan" => info.tls
         /\ setup.type = "V2ray" /\ panel.node.sec = "tls" => info.tls
         /\ Secure(panel.node) => info.reality
         /\ SettingsAreRead(panel.node) /\ setup.type # "Shadowsocks-Plugin" =>
              /\ info.net = "ws" => {"host", "path"} \subseteq info.kept
              /\ info.net = "grpc" /\ ~Is("ProxyPanel") => "service" \in info.kept
         /\ setup.type = "Shadowsocks" /\ ~OldPort /\ panel.node.cipher => "cipher" \in info.kept
<1>1. setup.kind \in Kinds /\ info.type = setup.type
  BY NodeType, SetupsAssumption DEF Inv, Types
<1>2. /\ Is("SSpanel") => setup.type \in {"V2ray", "Trojan", "Shadowsocks", "Shadowsocks-Plugin"}
      /\ setup.kind \in {"PMPanel", "BunPanel"} => setup.type \in {"V2ray", "Trojan", "Shadowsocks"}
      /\ ~Is("SSpanel") => setup.type \in {"V2ray", "Trojan", "Shadowsocks", "Vmess", "Vless"}
  BY SetupsAssumption DEF Inv, Types, Is
<1>3. Secure(panel.node) => \/ Is("SSpanel") /\ ~setup.old
                            \/ setup.kind \in {"NewV2board", "V2RaySocks", "BunPanel"}
  BY RealityAssumption DEF Inv, Types, PanelTypes, Secure, Is
<1>4. CASE Is("SSpanel")
  <2>1. info = SSP!ParseNode(panel.node)
    BY <1>4 DEF NodeOf, Is
  <2>2. CASE ~setup.old
    <3>1. info = SSP!ParseSSPanelNodeInfo(panel.node)
      BY <2>1, <2>2 DEF SSP!ParseNode
    <3>2. /\ info.tls = (setup.type = "Trojan" \/ (setup.type = "V2ray" /\ panel.node.sec = "tls"))
          /\ info.reality = (panel.node.sec = "reality")
          /\ {"host", "path", "service"} \subseteq info.kept
          /\ panel.node.cipher => "cipher" \in info.kept
      <4> DEFINE net == CASE setup.type = "Shadowsocks"        -> "tcp"
                          [] setup.type = "Shadowsocks-Plugin" -> ""
                          [] OTHER                             -> panel.node.net
      <4>1. info = [type |-> setup.type, port |-> panel.node.port, net |-> net,
                    tls |-> setup.type = "Trojan" \/ (setup.type = "V2ray" /\ panel.node.sec = "tls"),
                    reality |-> panel.node.sec = "reality",
                    vless |-> setup.type = "V2ray" /\ panel.node.vless,
                    kept |-> {"path", "host", "service", "header"} \cup SSP!Cipher(panel.node)]
        BY <3>1 DEF SSP!ParseSSPanelNodeInfo
      <4> HIDE DEF net
      <4> QED BY <4>1 DEF SSP!Cipher
    <3>3. setup.type = "V2ray" => info.net = panel.node.net
      BY <3>1, CustomNet
    <3> QED BY <1>1, <3>2, <3>3 DEF Secure
  <2>3. CASE setup.old /\ setup.type = "V2ray"
    <3>1. info = SSP!ParseV2rayNodeResponse(panel.node)
      BY <2>1, <2>3 DEF SSP!ParseNode
    <3>2. /\ info.tls = (panel.node.sec = "tls") /\ info.net = panel.node.net
          /\ {"host", "path", "service"} \subseteq info.kept
      BY <3>1 DEF SSP!ParseV2rayNodeResponse
    <3> QED BY <1>1, <1>3, <1>4, <2>3, <3>2 DEF Is
  <2>4. CASE setup.old /\ setup.type = "Trojan"
    <3>1. info = SSP!ParseTrojanNodeResponse(panel.node)
      BY <2>1, <2>4 DEF SSP!ParseNode
    <3>2. info.tls /\ info.net \in {"grpc", "tcp"} /\ "service" \in info.kept
      BY <3>1 DEF SSP!ParseTrojanNodeResponse
    <3> QED BY <1>1, <2>4, <3>2 DEF Secure
  <2>5. CASE setup.old /\ setup.type = "Shadowsocks"
    <3>1. info = SSP!ParseSSNodeResponse(panel.node)
      BY <2>1, <2>5 DEF SSP!ParseNode
    <3>2. info.net = "tcp"
      BY <3>1 DEF SSP!ParseSSNodeResponse
    <3> QED BY <1>1, <1>4, <2>5, <3>2 DEF Secure, OldPort
  <2>6. CASE setup.old /\ setup.type = "Shadowsocks-Plugin"
    <3>1. info = SSP!ParseSSPluginNodeResponse(panel.node)
      BY <2>1, <2>6 DEF SSP!ParseNode
    <3> QED BY <1>1, <2>6, <3>1 DEF Secure
  <2> QED BY <1>2, <1>4, <2>2, <2>3, <2>4, <2>5, <2>6
<1>5. CASE Is("NewV2board")
  BY <1>1, <1>2, <1>3, <1>5
  DEF NodeOf, Is, Secure, SettingsAreRead, V2B!ParseNode, V2B!parseTrojanNodeResponse,
      V2B!parseSSNodeResponse, V2B!parseV2rayNodeResponse, V2B!SettingsKey, V2B!Cipher
<1>6. CASE Is("ProxyPanel")
  BY <1>1, <1>2, <1>3, <1>6
  DEF NodeOf, Is, Secure, PRX!ParseNode, PRX!ParseTrojanNodeResponse, PRX!ParseSSNodeResponse,
      PRX!ParseV2rayNodeResponse, PRX!Cipher
<1>7. CASE Is("V2RaySocks")
  BY <1>1, <1>2, <1>3, <1>7
  DEF NodeOf, Is, Secure, V2S!ParseNode, V2S!ParseTrojanNodeResponse, V2S!ParseSSNodeResponse,
      V2S!ParseV2rayNodeResponse, V2S!Cipher
<1>8. CASE Is("PMPanel")
  BY <1>1, <1>2, <1>3, <1>8
  DEF NodeOf, Is, Secure, PMP!ParseNode, PMP!ParseTrojanNodeResponse, PMP!ParseSSNodeResponse,
      PMP!ParseV2rayNodeResponse, PMP!Cipher
<1>9. CASE Is("BunPanel")
  BY <1>1, <1>2, <1>3, <1>9 DEF NodeOf, Is, Secure, BUN!ParseNodeInfo, BUN!Cipher
<1>10. CASE Is("GoV2Panel")
  BY <1>1, <1>2, <1>3, <1>10
  DEF NodeOf, Is, Secure, GOV!ParseNode, GOV!parseTrojanNodeResponse, GOV!parseSSNodeResponse,
      GOV!parseV2rayNodeResponse, GOV!Cipher
<1> QED BY <1>1, <1>4, <1>5, <1>6, <1>7, <1>8, <1>9, <1>10 DEF Kinds, Is

\* An older SSPanel's port is all that a list without users leaves out.
LEMMA DescribedLikeNode ==
  ASSUME NEW info, info = Described(panel.node)
  PROVE  \E node : /\ node = NodeOf(panel.node)
                   /\ info.type = node.type /\ info.net = node.net /\ info.tls = node.tls
                   /\ info.reality = node.reality /\ info.kept = node.kept
<1>1. CASE OldPort
  <2>1. NodeOf(panel.node) = SSP!ParseSSNodeResponse(panel.node)
    BY <1>1 DEF NodeOf, Is, SSP!ParseNode, OldPort
  <2>2. info = [NodeOf(panel.node) EXCEPT !.port = panel.node.port]
    BY <1>1 DEF Described, OldPort
  <2> QED BY <2>1, <2>2 DEF SSP!ParseSSNodeResponse
<1>2. CASE ~OldPort
  BY <1>2 DEF Described, OldPort
<1> QED BY <1>1, <1>2

\* The inbound that the controller has built is the one the panel describes
\* (InboundBuilder, addNewUser and the clients' parsing): REALITY, TLS and the
\* settings of the transport are those of the panel's node, the accounts those
\* of its protocol, and an inbound is missing only for what the builder
\* refuses.
THEOREM NodeIsAsDescribed == Spec => []NodeIsServedAsDescribed
<1>1. Inv /\ FollowInv /\ NeverInv => NodeIsServedAsDescribed
  <2> SUFFICES ASSUME Inv, FollowInv, NeverInv, Followed, ~lost["node"]
               PROVE  NodeIsServedAsDescribed
    BY DEF NodeIsServedAsDescribed
  <2> DEFINE node == ctl.node
  <2>1. mon.at = "idle" /\ mon.current /\ ~OldPort /\ setup.type # "Shadowsocks-Plugin"
    BY DEF Followed, NeverInv, NeverServed
  <2>2. node = Described(panel.node)
    BY <2>1 DEF FollowInv, NodeInv, HeldNode, Working
  <2>3. \/ ctl.inbound = Inbound(setup.cfg, node)
        \/ ctl.inbound = Down /\ Refused(node)
    BY <2>1 DEF FollowInv, ServedInv
  <2>4. ctl.inbound # Down => ctl.accounts = addNewUser(node)
    BY <2>1 DEF FollowInv, ServedInv
  <2>5. /\ node.type = setup.type
        /\ setup.type = "V2ray" => node.net = panel.node.net
        /\ setup.type = "Trojan" => node.tls
        /\ setup.type = "V2ray" /\ panel.node.sec = "tls" => node.tls
        /\ Secure(panel.node) => node.reality
        /\ SettingsAreRead(panel.node) =>
             /\ node.net = "ws" => {"host", "path"} \subseteq node.kept
             /\ node.net = "grpc" /\ ~Is("ProxyPanel") => "service" \in node.kept
        /\ setup.type = "Shadowsocks" /\ panel.node.cipher => "cipher" \in node.kept
    BY <2>1, <2>2, DescribedLikeNode, DescribedKeeps
  <2>6. setup.type \in {"V2ray", "Trojan", "Shadowsocks", "Vmess", "Vless"}
    BY <2>1, SetupsAssumption DEF Inv, Types
  <2>7. ASSUME ctl.inbound = Down PROVE Refused(node)
    <3>1. Inbound(setup.cfg, node) # Down
      <4>1. Protocol(node) # "down"
        BY <2>5, <2>6 DEF Protocol, V2rayTypes, SSTypes
      <4> QED BY <4>1 DEF Inbound, Down
    <3> QED BY <2>3, <2>7, <3>1
  <2>8. CASE ctl.inbound = Down
    BY <2>5, <2>7, <2>8 DEF Refused, NodeIsServedAsDescribed
  <2>9. CASE ctl.inbound # Down
    <3>1. /\ ctl.inbound.protocol = Protocol(node) /\ ctl.inbound.network = node.net
          /\ ctl.inbound.security = Security(setup.cfg, node)
          /\ ctl.inbound.settings = StreamSettings(node)
      BY <2>3, <2>9 DEF Inbound
    <3>2. ctl.accounts = ctl.inbound.protocol
      BY <2>4, <2>5, <2>6, <2>9, <3>1 DEF addNewUser, Protocol, Vless, V2rayTypes, SSTypes
    <3>3. node.tls /\ setup.cfg.cert # "none" => ctl.inbound.security # "none"
      BY <3>1 DEF Security, WantsTLS
    <3>4. Secure(panel.node) /\ (setup.cfg.panelREALITY \/ setup.cfg.localREALITY)
            => ctl.inbound.security = "reality"
      BY <2>5, <3>1 DEF Security, IsREALITY, WantsTLS
    <3>5. SettingsAreRead(panel.node) =>
          /\ ctl.inbound.network = "ws" => ctl.inbound.settings = {"host", "path"}
          /\ ctl.inbound.network = "grpc" /\ ~Is("ProxyPanel") => ctl.inbound.settings = {"service"}
      BY <2>5, <3>1 DEF StreamSettings
    <3> QED
      BY <2>5, <2>9, <3>1, <3>2, <3>3, <3>4, <3>5 DEF NodeIsServedAsDescribed
  <2> QED BY <2>8, <2>9
<1> QED BY <1>1, InvHolds, FollowHolds, NeverHolds, PTL

(***************************************************************************)
(* What ends XrayR.                                                        *)
(***************************************************************************)

EndsForThese ==
  \/ mon.at = "idle" /\ Is("SSpanel") /\ SSP!ParsePanics(panel.node)
  \/ Is("V2RaySocks") /\ ~client'.resp.ok
  \/ mon.at = "rules" /\ MustCompilePanics(RulesRead)
  \/ mon.at = "tag" /\ addNewTagPanics(setup.cfg, mon.info)

LEMMA NodeAskedEnds ==
  ASSUME Inv, NEW a, NEW used, NodeAsked(a, used), mon'.at = "crashed", ~mon.starting
  PROVE  EndsForThese
<1>1. mon.at = "idle"
  BY DEF NodeAsked, Inv, RespInv
<1>2. ~NodeOutcome(a, used, NodeOf(panel.node))
  <2>1. ASSUME NEW info PROVE ~TakeNode(info)
    <3>1. CASE info.port = 0
      BY <3>1 DEF TakeNode, AtRest
    <3>2. CASE info.port # 0
      BY <3>2, TakeNodeTakes DEF TakeNode, NodeTaken, Inv, Types, MonTypes
    <3> QED BY <3>1, <3>2
  <2>2. ~GiveUp
    BY GiveUpEnds DEF Ends
  <2> QED BY <2>1, <2>2 DEF NodeOutcome
<1>3. NodePanics /\ a = "good"
  BY <1>2 DEF NodeAsked
<1>4. CASE Is("SSpanel") /\ SSP!ParsePanics(panel.node)
  BY <1>1, <1>4 DEF EndsForThese
<1>5. CASE Is("V2RaySocks") /\ ~panel.node.ok
  <2>1. client' = [client EXCEPT !.resp = panel.node]
    BY <1>3, <1>5 DEF NodeAsked, NodeClient, KeepsResp, Is
  <2> QED BY <1>5, <2>1 DEF EndsForThese, Inv, Types, ClientTypes
<1> QED BY <1>3, <1>4, <1>5 DEF NodePanics

\* The rules of the panel are those that GetNodeRule reads, and the local ones
\* have been compiled before.
LEMMA RulesAskedEnds ==
  ASSUME Inv, NEW a, RulesAsked(a), mon'.at = "crashed", ~mon.starting
  PROVE  EndsForThese
<1>1. mon.at = "rules" /\ client' = client
  BY DEF RulesAsked
<1>2. CASE Is("V2RaySocks") /\ client.resp = NoNode
  BY <1>1, <1>2 DEF EndsForThese, NoNode
<1>3. CASE ~(Is("V2RaySocks") /\ client.resp = NoNode)
  <2>0. ~(RulesInNode /\ client.resp = NoNode)
    BY <1>1, <1>3 DEF RulesInNode, Inv, RespInv, KeepsResp, Is
  <2>1. RulesOutcome(a, Local \cup GivenRules)
    BY <2>0 DEF RulesAsked
  <2>2. MustCompilePanics(Local \cup GivenRules)
    BY <2>1 DEF RulesOutcome, AfterRules, AtRest, Inv, Types, MonTypes
  <2>3. MustCompilePanics(GivenRules)
    BY <2>2, LocalAssumption DEF MustCompilePanics
  <2>4. GivenRules = RulesRead
    <3>1. CASE RulesInNode
      BY <2>0, <3>1 DEF GivenRules, RulesRead
    <3>2. CASE ~RulesInNode
      BY <3>2 DEF GivenRules, RulesRead
    <3> QED BY <3>1, <3>2
  <2> QED BY <1>1, <2>3, <2>4 DEF EndsForThese
<1> QED BY <1>2, <1>3

LEMMA AddNewTagEnds ==
  ASSUME Inv, addNewTag, mon'.at = "crashed", ~mon.starting
  PROVE  EndsForThese
<1>1. CASE addNewTagPanics(setup.cfg, mon.info)
  BY <1>1 DEF addNewTag, EndsForThese
<1>2. CASE ~addNewTagPanics(setup.cfg, mon.info)
  <2>1. \/ GiveUp
        \/ mon' = [mon EXCEPT !.at = IF mon.starting THEN "users" ELSE "rules"]
    BY <1>2 DEF addNewTag
  <2> QED BY <2>1 DEF GiveUp, AtRest, Inv, Types, MonTypes
<1> QED BY <1>1, <1>2

\* Once it has started, XrayR ends only for a node that an older SSPanel has
\* not described in full (strings.Split in sspanel.go), for a rule that is no
\* regular expression (regexp.MustCompile in GetNodeRule), for the nil pointers
\* of InboundBuilder, or with V2RaySocks for an answer without a node: in any
\* other step, with any answer that comes, fails or never comes, it goes on.
THEOREM XrayREndsOnlyForThese == Spec => EndsOnlyForThese
<1>1. Inv /\ [Next]_vars =>
        [mon'.at = "crashed" /\ mon.at # "crashed" /\ ~mon.starting => EndsForThese]_vars
  <2> SUFFICES ASSUME Inv, [Next]_vars, mon'.at = "crashed", mon.at # "crashed", ~mon.starting
               PROVE  EndsForThese
    OBVIOUS
  <2>1. CASE \E a, used : NodeAsked(a, used)
    BY <2>1, NodeAskedEnds
  <2>2. CASE \E a, used : ListAsked(a, used)
    BY <2>2, ListCases DEF ListGoes, Ends
  <2>3. CASE ListFetched
    BY <2>3 DEF ListFetched, Inv, Types, MonTypes
  <2>4. CASE ParseEffect
    BY <2>4, TakeListGoes DEF ParseEffect, ListGoes
  <2>5. CASE \E a : RulesAsked(a)
    BY <2>5, RulesAskedEnds
  <2>6. CASE \E n : Reported(n)
    BY <2>6 DEF Reported
  <2>7. CASE removeOldTag
    BY <2>7, GiveUpEnds DEF removeOldTag, Ends
  <2>8. CASE addNewTag
    BY <2>8, AddNewTagEnds
  <2>9. CASE SyncUsers
    BY <2>9 DEF SyncUsers, AtRest, Inv, Types, MonTypes
  <2>10. CASE Restart
    BY <2>10 DEF Restart, Starting, AtRest
  <2>11. CASE PanelStep \/ UNCHANGED vars
    BY <2>11 DEF PanelStep, PanelChanges, vars, Inv, Types, MonTypes
  <2> QED
    BY <2>1, <2>2, <2>3, <2>4, <2>5, <2>6, <2>7, <2>8, <2>9, <2>10, <2>11, CallsAreAsked
<1> QED BY <1>1, InvHolds, PTL DEF Spec, EndsOnlyForThese, EndsForThese

=============================================================================
