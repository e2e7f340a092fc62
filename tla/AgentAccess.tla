---------------------------- MODULE AgentAccess ------------------------------
(***************************************************************************)
(* The agents' signed requests (capi, hsign) and requireAgentHMAC of the   *)
(* Center with its nonce cache, beside the registration which replaces     *)
(* the secret.  A request may arrive late, more than once, or never.       *)
(***************************************************************************)
EXTENDS Registration

CONSTANTS
  Request,  \* requests, by their nonce
  Worker,   \* handlers of the Center that check requests
  Skew,     \* how far a timestamp may be from the Center's clock
  TTL,      \* how long a nonce is remembered
  Pause,    \* longest pause between the check of a timestamp and the look at the nonce
  Drift,    \* how far the clock of an agent is from the Center's
  MaxTime   \* bound of the clock

\* server.go has 90 s and 10 min, which leaves 7 min for a pause.
ASSUME AccessAssumption ==
  /\ Skew \in Nat /\ TTL \in Nat /\ Pause \in Nat /\ Drift \in Nat /\ MaxTime \in Nat
  /\ TTL >= 2 * Skew + Pause
  /\ \A s \in Scenes : s.requests \subseteq Request

VARIABLES
  now,      \* the Center's clock
  sent,     \* the requests that were sent: secret and timestamp
  nonces,   \* the nonce cache: when each was seen
  auth,     \* the requests being checked
  handled   \* history: how often this process has handled each request

authVars == << now, sent, nonces, auth, handled >>
vars == << regVars, authVars >>

NoRequest == [secret |-> NoSecret, ts |-> 0]
NoAuth    == [at |-> "idle", q |-> "none", key |-> NoSecret, since |-> 0]
Never     == MaxTime + TTL + 1

(***************************************************************************)
(* The clock.  Nothing pauses for longer than Pause after its check.       *)
(***************************************************************************)

Tick ==
  /\ now < MaxTime
  /\ \A w \in Worker : auth[w].at = "verified" => now < auth[w].since + Pause
  /\ now' = now + 1
  /\ UNCHANGED << regVars, sent, nonces, auth, handled >>

(***************************************************************************)
(* The agent.                                                              *)
(***************************************************************************)

\* capi: a new nonce, the time of the agent's clock, and a signature with the
\* secret of its file.
SignedRequest(h, q) ==
  /\ host[h].at = "on" /\ sent[q] = NoRequest
  /\ \E ts \in 0 .. now + Drift :
       /\ ts + Drift >= now
       /\ sent' = [sent EXCEPT ![q] = [secret |-> host[h].secret, ts |-> ts]]
  /\ UNCHANGED << regVars, now, nonces, auth, handled >>

(***************************************************************************)
(* requireAgentHMAC                                                        *)
(***************************************************************************)

\* node_hmac_key is read when the headers are there; the body comes later.
ReadKey(w, q) ==
  /\ auth[w].at = "idle" /\ sent[q] # NoRequest /\ key # NoSecret
  /\ auth' = [auth EXCEPT ![w] = [at |-> "reads", q |-> q, key |-> key, since |-> 0]]
  /\ UNCHANGED << regVars, now, sent, nonces, handled >>

\* Verify: the timestamp is near and the signature that of the key.
Verify(w) ==
  /\ auth[w].at = "reads"
  /\ LET r == sent[auth[w].q]
     IN  auth' = [auth EXCEPT ![w] =
           IF r.ts <= now + Skew /\ now <= r.ts + Skew /\ r.secret = @.key
           THEN [at |-> "verified", q |-> @.q, key |-> @.key, since |-> now]
           ELSE NoAuth]
  /\ UNCHANGED << regVars, now, sent, nonces, handled >>

\* Faulty: nonces are forgotten when the skew is over.
Remembered_skew == [q \in Request |-> IF nonces[q] # Never /\ now - nonces[q] > Skew THEN Never ELSE nonces[q]]

\* The nonces that are not older than the TTL.
Remembered == [q \in Request |-> IF nonces[q] # Never /\ now - nonces[q] > TTL THEN Never ELSE nonces[q]]

\* Seen and the handler, under the cache's lock.
Seen(w) ==
  /\ auth[w].at = "verified"
  /\ LET q == auth[w].q
     IN  IF Remembered[q] # Never
         THEN nonces' = Remembered /\ UNCHANGED handled
         ELSE /\ nonces' = [Remembered EXCEPT ![q] = now]
              /\ handled' = [handled EXCEPT ![q] = @ + 1]
  /\ auth' = [auth EXCEPT ![w] = NoAuth]
  /\ UNCHANGED << regVars, now, sent >>

\* The Center's process ends: the cache is gone.
RestartCenter ==
  /\ RollbackAll
  /\ nonces' = [q \in Request |-> Never]
  /\ auth' = [w \in Worker |-> NoAuth]
  /\ handled' = [q \in Request |-> 0]
  /\ UNCHANGED << now, sent >>

Init ==
  /\ RegistrationInit
  /\ now = 0
  /\ sent = [q \in Request |-> NoRequest]
  /\ nonces = [q \in Request |-> Never]
  /\ auth = [w \in Worker |-> NoAuth]
  /\ handled = [q \in Request |-> 0]

Next ==
  \/ RegistrationStep /\ UNCHANGED authVars
  \/ Tick
  \/ \E h \in scene.hosts, q \in scene.requests : SignedRequest(h, q)
  \/ \E w \in Worker, q \in scene.requests : ReadKey(w, q)
  \/ \E w \in Worker : Verify(w) \/ Seen(w)
  \/ RestartCenter

Spec == Init /\ [][Next]_vars

(***************************************************************************)
(* Properties.                                                             *)
(***************************************************************************)

\* Every variable has the type the code gives it.
AccessTypeOK ==
  /\ scene \in Scenes
  /\ token \in [Token -> Row]
  /\ made \in Seq(Token)
  /\ given \subseteq Token
  /\ issue \in [Admin -> [at : {"idle", "waits", "inserts"}, sees : SUBSET Token, revokes : SUBSET Token]]
  /\ reg \in [Handler -> [at : {"idle", "asks", "commits"}, from : Host \cup {"nobody"},
                          token : Token \cup {NoToken}]]
  /\ host \in [Host -> [at : {"off", "registers", "saves", "on"}, token : Token \cup {NoToken},
                        secret : 0 .. key, got : 0 .. key]]
  /\ raced \in BOOLEAN
  /\ now \in 0 .. MaxTime
  /\ sent \in [Request -> [secret : 0 .. key, ts : Nat]]
  /\ nonces \in [Request -> 0 .. now \cup {Never}]
  /\ auth \in [Worker -> [at : {"idle", "reads", "verified"}, q : Request \cup {"none"},
                          key : 0 .. key, since : 0 .. now]]
  /\ handled \in [Request -> Nat]

\* A token registers one agent at most, and none when it has been revoked,
\* whatever hosts use it at once and however often they start again.
TokenIsOneTime ==
  /\ \A m, n \in DOMAIN made : made[m] = made[n] => m = n
  /\ \A n \in DOMAIN made : token[made[n]].used /\ ~token[made[n]].revoked

\* The node has one usable token at most, unless two were issued at once.
OneUsableToken ==
  ~raced => Cardinality({t \in Token : Usable(t)}) <= 1

\* A request is handled once by a process of the Center, however often it
\* arrives, in whatever order and with whatever delay.
HandledOnce == \A q \in Request : handled[q] <= 1

=============================================================================
