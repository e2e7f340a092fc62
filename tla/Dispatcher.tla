----------------------------- MODULE Dispatcher -----------------------------
(***************************************************************************)
(* The dispatcher of a tag (app/mydispatcher): it asks the limiter whether *)
(* a connection is admitted, sniffs its first bytes, asks the audit rules  *)
(* about its destination and hands its link to an outbound.  Every         *)
(* connection is a goroutine; the controller works at the same time.       *)
(***************************************************************************)
EXTENDS Limiter, RuleManager

CONSTANTS
  Session,    \* what a connection may be
  Domain,     \* the destinations that are names
  Outbounds,  \* the sets of outbound handlers there may be
  Hosts,      \* the hosts of the DNS, and the address of each
  FakeDNS,    \* the addresses of the FakeDNS pool, and the domain of each
  MaxChanges  \* bound: calls of the controller and changes of the cache

ASSUME DispatcherAssumption ==
  /\ \A s \in Session : s.user \in Email \cup {None} /\ s.ip \in Ip
  /\ None \notin Domain
  /\ \A o \in Outbounds : o \subseteq {"detour", "route", "inbound", "default"}
  /\ MaxChanges \in Nat

VARIABLES
  link,      \* the links that are dispatched
  handlers,  \* the outbound handlers there are
  changes    \* how many changes there have been

vars == << limiterVars, ruleVars, link, handlers, changes >>

(***************************************************************************)
(* Sniffing.  A result has a domain, the protocol it was found with, and   *)
(* the protocol of the connection.                                         *)
(***************************************************************************)

NoResult == [domain |-> None, by |-> None, protocol |-> None]

Sniffed(domain, protocol) == [domain |-> domain, by |-> protocol, protocol |-> protocol]

\* The metadata sniffer; the others wait for content.
SniffMetadata(s) ==
  IF s.destination \in DOMAIN FakeDNS THEN Sniffed(FakeDNS[s.destination], "fakedns") ELSE NoResult

\* The first of the sniffers of the network that knows the content, which may
\* come too late or be unknown.  The one called fakeDNSThenOthers has no
\* network and is never asked.
Sniff(s) == {s.content, NoResult}

CompositeResult(meta, content) ==
  [domain |-> meta.domain, by |-> meta.protocol, protocol |-> content.protocol]

\* What sniffer() returns, with the content result r.
SnifferResult(s, r) ==
  LET meta == SniffMetadata(s)
  IN  IF s.request.metadataOnly \/ r = NoResult
      THEN meta
      ELSE IF meta = NoResult THEN r ELSE CompositeResult(meta, r)

\* Whether the domain takes the place of the destination d.
shouldOverride(result, request, d) ==
  /\ result # NoResult
  /\ result.domain \notin request.exclude
  /\ \/ result.by \in request.override
     \/ "fakedns" \in request.override /\ result.by # "bittorrent" /\ d \in DOMAIN FakeDNS

(***************************************************************************)
(* Dispatch, DispatchLink and routedDispatch.                              *)
(***************************************************************************)

NoLink == [at |-> "new", session |-> None, checked |-> None, target |-> None, routed |-> None]

Fresh(s, step) ==
  [at |-> step, session |-> s, checked |-> s.destination, target |-> s.destination, routed |-> None]

AsksLimiter(s) == s.user # None /\ ~s.mux

\* A connection of a user asks the limiter.
Dispatch(c, s) ==
  /\ link[c].at = "new"
  /\ AsksLimiter(s)
  /\ link' = [link EXCEPT ![c] = Fresh(s, "limit")]
  /\ GetUserBucket(c, s.user, s.ip)
  /\ UNCHANGED << ruleVars, handlers, changes >>

\* A connection without a user, or a link of a connection that was admitted
\* before, does not.
DispatchLink(c, s) ==
  /\ link[c].at = "new"
  /\ ~AsksLimiter(s)
  /\ link' = [link EXCEPT ![c] = Fresh(s, "route")]
  /\ UNCHANGED << limiterVars, ruleVars, handlers, changes >>

Step(c, step) == link' = [link EXCEPT ![c].at = step]

\* Faulty: the limiter's answer is not awaited.
getLink_early(c) ==
  /\ link[c].at = "limit"
  /\ Step(c, IF call[c].at = "rejected" THEN "refused" ELSE "route")
  /\ UNCHANGED << limiterVars, ruleVars, handlers, changes >>

\* The limiter answers.  Of a link that is refused, all four ends are closed.
getLink(c) ==
  /\ link[c].at = "limit"
  /\ \/ call[c].at = "admitted" /\ Step(c, "route")
     \/ call[c].at = "rejected" /\ Step(c, "refused")
  /\ UNCHANGED << limiterVars, ruleVars, handlers, changes >>

\* The link l after the sniffers found a result.  With RouteOnly the domain is
\* for the routes only.
Override(l, result) ==
  LET s == l.session
      d == result.domain
  IN  IF ~s.request.enabled \/ ~shouldOverride(result, s.request, s.destination)
      THEN l
      ELSE IF s.request.routeOnly /\ result.protocol # "fakedns"
      THEN [l EXCEPT !.checked = d, !.routed = d]
      ELSE [l EXCEPT !.checked = d, !.target = d]

\* The address that the hosts have for a link to a name.  The target is looked
\* up, which under RouteOnly is not the name that was sniffed.
HostOf(l) ==
  IF l.checked \in Domain /\ l.target \in DOMAIN Hosts THEN Hosts[l.target] ELSE l.checked

\* Faulty: what the hosts say is never the target.
LookupHosts_route(l) == [l EXCEPT !.checked = HostOf(l), !.routed = HostOf(l)]

\* It takes the place of the route's destination, or of the target.
LookupHosts(l) ==
  IF HostOf(l) = l.checked THEN l
  ELSE IF l.routed = l.checked
  THEN [l EXCEPT !.checked = HostOf(l), !.routed = HostOf(l)]
  ELSE [l EXCEPT !.checked = HostOf(l), !.target = HostOf(l)]

\* The first bytes are sniffed, the hosts asked and the audit rules, which are
\* for connections of users.
routedDispatch(c) ==
  /\ link[c].at = "route"
  /\ \E r \in Sniff(link[c].session) :
       LET l == LookupHosts(Override(link[c], SnifferResult(link[c].session, r)))
       IN  IF l.session.user = None
           THEN link' = [link EXCEPT ![c] = [l EXCEPT !.at = "pick"]] /\ UNCHANGED ruleVars
           ELSE /\ link' = [link EXCEPT ![c] = [l EXCEPT !.at = "detect"]]
                /\ Detect(c, l.session.user, l.checked)
  /\ UNCHANGED << limiterVars, handlers, changes >>

CloseRejected(c) ==
  /\ link[c].at = "detect"
  /\ Rejects(c)
  /\ Step(c, "closed")
  /\ UNCHANGED << limiterVars, ruleVars, handlers, changes >>

Allowed(c) == link[c].at = "pick" \/ (link[c].at = "detect" /\ detect[c].at = "allowed")

\* Faulty: a link whose forced outbound does not exist is left open.
PickHandler_open(c) ==
  /\ Allowed(c)
  /\ IF link[c].session.forced
     THEN "detour" \in handlers /\ Step(c, "outbound")
     ELSE Step(c, IF {"route", "inbound", "default"} \cap handlers = {} THEN "closed" ELSE "outbound")
  /\ UNCHANGED << limiterVars, ruleVars, handlers, changes >>

\* A forced outbound that does not exist closes the link.  Otherwise the
\* router may know a route to an outbound that exists; if not, the outbound
\* has the inbound's tag, or is the default one.
PickHandler(c) ==
  /\ Allowed(c)
  /\ IF link[c].session.forced
     THEN Step(c, IF "detour" \in handlers THEN "outbound" ELSE "closed")
     ELSE \/ "route" \in handlers /\ Step(c, "outbound")
          \/ Step(c, IF {"inbound", "default"} \cap handlers = {} THEN "closed" ELSE "outbound")
  /\ UNCHANGED << limiterVars, ruleVars, handlers, changes >>

(***************************************************************************)
(* The controller, and the specification.                                  *)
(***************************************************************************)

Change == changes < MaxChanges /\ changes' = changes + 1

\* removeOldTag and addNewTag remove and add the outbound of the tag.
OutboundChange ==
  /\ \/ handlers' = handlers \ {"inbound"}
     \/ handlers' = handlers \cup {"inbound"}
  /\ handlers' # handlers
  /\ Change
  /\ UNCHANGED << limiterVars, ruleVars, link >>

ControllerStep ==
  \/ LimiterCall /\ Change /\ UNCHANGED << ruleVars, link, handlers >>
  \/ LimiterWork /\ UNCHANGED << ruleVars, link, handlers, changes >>
  \/ CacheStep /\ Change /\ UNCHANGED << ruleVars, link, handlers >>
  \/ /\ GetDetectResult \/ \E list \in RuleLists : UpdateRule(list)
     /\ Change
     /\ UNCHANGED << limiterVars, link, handlers >>
  \/ ReadResults /\ UNCHANGED << limiterVars, link, handlers, changes >>
  \/ OutboundChange

\* What the goroutine of a connection goes on with.
Work(c) ==
  \/ LimiterStep(c) /\ UNCHANGED << ruleVars, link, handlers, changes >>
  \/ getLink(c)
  \/ routedDispatch(c)
  \/ DetectStep(c) /\ UNCHANGED << limiterVars, link, handlers, changes >>
  \/ CloseRejected(c)
  \/ PickHandler(c)

Init ==
  /\ LimiterInit
  /\ RuleInit
  /\ link = [c \in Conn |-> NoLink]
  /\ handlers \in Outbounds
  /\ changes = 0

Next ==
  \/ ControllerStep
  \/ \E c \in Conn : Work(c) \/ \E s \in Session : Dispatch(c, s) \/ DispatchLink(c, s)

Spec == Init /\ [][Next]_vars

(***************************************************************************)
(* Properties.                                                             *)
(***************************************************************************)

\* Every connection is where its calls are; none is routed before the limiter
\* has admitted it.
DispatcherTypeOK ==
  /\ LimiterTypeOK
  /\ RuleTypeOK
  /\ \A c \in Conn :
       /\ link[c].at \in {"new", "limit", "refused", "route", "detect", "pick",
                          "outbound", "closed"}
       /\ link[c].at \in {"new", "limit", "refused"} \/
            (AsksLimiter(link[c].session) => call[c].at = "admitted")
       /\ link[c].at = "detect" => detect[c].at # "idle"
       /\ link[c].at = "route" => detect[c].at = "idle"
  /\ handlers \subseteq {"detour", "route", "inbound", "default"}
  /\ changes \in 0 .. MaxChanges

\* The destination that the audit rules are asked about is the one the
\* outbound connects to, except under RouteOnly, after sniffing and the hosts
\* have changed it.
AuditSeesTarget ==
  \A c \in Conn : link[c].at = "outbound" =>
    link[c].checked = link[c].target \/ link[c].session.request.routeOnly

\* A connection that was dispatched and has neither been handed to an outbound
\* nor closed can go on, so none of them hangs: each takes a few steps only.
NoDispatchHangs ==
  \A c \in Conn : link[c].at \in {"limit", "route", "detect", "pick"} => ENABLED Work(c)

=============================================================================
