-------------------------- MODULE DispatcherProofs --------------------------
(***************************************************************************)
(* Proofs about Dispatcher, for any connections, users, devices, rules and *)
(* sniffed content, and everything that the controller does meanwhile.  To *)
(* the limiter the dispatcher is one of its callers, so what LimiterProofs *)
(* shows holds here too.                                                   *)
(***************************************************************************)
EXTENDS Dispatcher, LimiterProofs, WellFoundedInduction

(***************************************************************************)
(* The audit rules.                                                        *)
(***************************************************************************)

DetectRecord == [at : {"idle", "allowed", "unrecorded", "add", "store", "recorded"},
                 hit : (Email \X Int) \cup {<< >>}, set : Conn \cup {None}]

RuleTypes ==
  /\ rules \in RuleLists
  /\ results \in Conn \cup {None} /\ reader \in Conn \cup {None}
  /\ found \in [Conn -> SUBSET (Email \X Int)]
  /\ detect \in [Conn -> DetectRecord]
  /\ detections \subseteq Email \X Int /\ overwritten \subseteq Email \X Int

\* A set is one that a connection has made.
SetsMade ==
  /\ \A c \in Conn : detect[c].at = "idle" => found[c] = {}
  /\ \A c \in {results, reader} \cap Conn : detect[c].at # "idle"
  /\ \A c \in Conn : detect[c].at \in {"add", "store", "recorded"} =>
       /\ detect[c].set \in Conn /\ detect[c].hit \in Email \X Int
       /\ detect[detect[c].set].at # "idle"

\* v is in one of the sets.
IsKept(v) ==
  \/ v \in detections \cup overwritten
  \/ results \in Conn /\ v \in found[results]
  \/ reader \in Conn /\ v \in found[reader]
  \/ \E c \in Conn : detect[c].at = "store" /\ v \in found[detect[c].set]

\* What was found in a set, by whomever, is kept.
FoundKept ==
  /\ \A s \in Conn : \A v \in found[s] : IsKept(v)
  /\ \A c \in Conn : detect[c].at \in {"store", "recorded"} => IsKept(detect[c].hit)

RuleInv == RuleTypes /\ SetsMade /\ FoundKept

LEMMA InThree == \A v, A, B, C : v \in A \cup B \cup C <=> v \in A \/ v \in B \/ v \in C
  OBVIOUS

LEMMA InKept == \A v : v \in Kept <=> IsKept(v)
<1> TAKE v
<1> DEFINE S == {found[s] : s \in {results, reader} \cap Conn}
           T == {found[detect[c].set] : c \in {x \in Conn : detect[x].at = "store"}}
<1>1. v \in UNION S <=> (results \in Conn /\ v \in found[results]) \/ (reader \in Conn /\ v \in found[reader])
  OBVIOUS
<1>2. v \in UNION T <=> \E c \in Conn : detect[c].at = "store" /\ v \in found[detect[c].set]
  OBVIOUS
<1>3. Kept = detections \cup overwritten \cup (UNION S) \cup (UNION T)
  BY DEF Kept
<1>4. v \in Kept <=> v \in detections \cup overwritten \/ v \in UNION S \/ v \in UNION T
  <2> HIDE DEF S, T
  <2>1. v \in Kept <=> v \in detections \cup overwritten \cup (UNION S) \cup (UNION T)
    BY <1>3, Zenon
  <2> QED BY <2>1, InThree, Zenon
<1> HIDE DEF S, T
<1> QED BY <1>1, <1>2, <1>4 DEF IsKept

Less == {p \in Nat \X Nat : p[1] < p[2]}

\* The first of some rules exists.
LEMMA SmallestOf ==
  ASSUME NEW S \in SUBSET Nat, S # {}
  PROVE  \E m \in S : \A k \in S : m <= k
<1>1. IsWellFoundedOn(Less, Nat)
  <2>1. OpToRel(<, Nat) = Less
    BY DEF OpToRel, Less
  <2> QED BY <2>1, NatLessThanWellFounded
<1>2. PICK x \in S : \A y \in S : ~ (<< y, x >> \in Less)
  BY <1>1, WFMin
<1>3. \A a, b \in Nat : a < b => << a, b >> \in Less
  BY DEF Less
<1>4. \A k \in S : x <= k
  <2> TAKE k \in S
  <2>1. k \in Nat /\ x \in Nat
    OBVIOUS
  <2>2. ~(k < x)
    BY <1>2, <1>3, <2>1
  <2> QED BY <2>1, <2>2
<1> QED BY <1>4

LEMMA FirstHitType ==
  ASSUME rules \in RuleLists, NEW d, Hits(d) # {}
  PROVE  FirstHit(d) \in Int
<1>1. rules \in Seq(Rule)
  BY RuleAssumption
<1>2. Hits(d) \in SUBSET Nat /\ \A i \in Hits(d) : rules[i] \in Rule
  BY <1>1 DEF Hits
<1>3. \E i \in Hits(d) : \A j \in Hits(d) : i <= j
  BY <1>2, SmallestOf
<1> DEFINE k == CHOOSE i \in Hits(d) : \A j \in Hits(d) : i <= j
<1>4. k \in Hits(d)
  BY <1>3
<1>5. rules[k].id \in Int
  BY <1>2, <1>4 DEF Rule
<1> QED BY <1>5 DEF FirstHit

LEMMA InitRuleInv == RuleInit => RuleInv
<1> SUFFICES ASSUME RuleInit PROVE RuleInv
  OBVIOUS
<1>1. RuleTypes
  BY DEF RuleInit, RuleTypes, DetectRecord, Unchecked
<1>2. /\ \A c \in Conn : found[c] = {} /\ detect[c].at = "idle"
      /\ {results, reader} \cap Conn = {}
  BY ConnAssumption DEF RuleInit, Unchecked
<1> QED BY <1>1, <1>2 DEF RuleInv, SetsMade, FoundKept

\* What is kept stays, and so does what a step adds, if it is kept.
LEMMA KeptStep ==
  ASSUME RuleInv,
         \A v : IsKept(v) => IsKept(v)',
         \A s \in Conn : \A v \in found'[s] : v \in found[s] \/ IsKept(v)',
         \A c \in Conn : detect'[c].at \in {"store", "recorded"} =>
           \/ detect'[c].hit = detect[c].hit /\ detect[c].at \in {"store", "recorded"}
           \/ IsKept(detect[c].hit)'
  PROVE  FoundKept'
BY DEF RuleInv, FoundKept

LEMMA UpdateRuleKeepsInv ==
  ASSUME RuleInv, NEW list \in RuleLists, UpdateRule(list)
  PROVE  RuleInv'
<1>1. rules' = list /\ UNCHANGED << results, found, detect, reader, detections, overwritten >>
  BY DEF UpdateRule
<1>2. RuleTypes'
  BY <1>1 DEF RuleInv, RuleTypes
<1>3. SetsMade'
  BY <1>1 DEF RuleInv, SetsMade
<1>4. FoundKept'
  BY <1>1 DEF RuleInv, FoundKept, IsKept
<1> QED BY <1>2, <1>3, <1>4 DEF RuleInv

LEMMA GetDetectResultKeepsInv ==
  ASSUME RuleInv, GetDetectResult
  PROVE  RuleInv'
<1>1. /\ reader = None /\ reader' = results /\ results' = None
      /\ UNCHANGED << rules, found, detect, detections, overwritten >>
  BY DEF GetDetectResult
<1>2. RuleTypes'
  BY <1>1 DEF RuleInv, RuleTypes
<1>3. SetsMade'
  BY <1>1, ConnAssumption DEF RuleInv, SetsMade
<1>4. \A v : IsKept(v) => IsKept(v)'
  BY <1>1, ConnAssumption DEF IsKept
<1>5. FoundKept'
  BY <1>1, <1>4, KeptStep
<1> QED BY <1>2, <1>3, <1>5 DEF RuleInv

LEMMA ReadResultsKeepsInv ==
  ASSUME RuleInv, ReadResults
  PROVE  RuleInv'
<1>1. /\ reader \in Conn /\ reader' = None
      /\ detections' = detections \cup found[reader]
      /\ UNCHANGED << rules, results, found, detect, overwritten >>
  BY DEF ReadResults, RuleInv, RuleTypes
<1>2. RuleTypes'
  BY <1>1 DEF RuleInv, RuleTypes
<1>3. SetsMade'
  BY <1>1, ConnAssumption DEF RuleInv, SetsMade
<1>4. \A v : IsKept(v) => IsKept(v)'
  BY <1>1 DEF IsKept
<1>5. FoundKept'
  BY <1>1, <1>4, KeptStep
<1> QED BY <1>2, <1>3, <1>5 DEF RuleInv

\* What Detect, AddResult and StoreResults do to the others: nothing.
LEMMA DetectEntry ==
  ASSUME detect \in [Conn -> DetectRecord], NEW c \in Conn, NEW r \in DetectRecord,
         detect' = [detect EXCEPT ![c] = r]
  PROVE  /\ detect' \in [Conn -> DetectRecord] /\ detect'[c] = r
         /\ \A d \in Conn : d # c => detect'[d] = detect[d]
OBVIOUS

LEMMA DetectMoves ==
  ASSUME detect \in [Conn -> DetectRecord], NEW c \in Conn,
         NEW step \in {"idle", "allowed", "unrecorded", "add", "store", "recorded"},
         detect' = [detect EXCEPT ![c].at = step]
  PROVE  /\ detect' \in [Conn -> DetectRecord]
         /\ detect'[c].at = step /\ detect'[c].hit = detect[c].hit /\ detect'[c].set = detect[c].set
         /\ \A d \in Conn : d # c => detect'[d] = detect[d]
BY DEF DetectRecord

\* A connection that Detect knows already is not one of those whose call begins.
LEMMA SetsStay ==
  ASSUME RuleInv, RuleTypes', NEW c \in Conn,
         \A d \in Conn : d # c => detect'[d] = detect[d],
         detect'[c].at # "idle",
         \A d \in Conn : d # c => detect[d].at # "idle" \/ found'[d] = found[d],
         \A d \in {results', reader'} \cap Conn : d = c \/ d \in {results, reader},
         detect'[c].at \in {"add", "store", "recorded"} =>
           /\ detect'[c].set \in Conn /\ detect'[c].hit \in Email \X Int
           /\ detect'[c].set = c \/ detect[detect'[c].set].at # "idle"
  PROVE  SetsMade'
<1>1. \A d \in Conn : detect[d].at # "idle" => detect'[d].at # "idle"
  OBVIOUS
<1>2. \A d \in Conn : detect'[d].at = "idle" => found'[d] = {}
  BY DEF RuleInv, SetsMade
<1>3. \A d \in {results', reader'} \cap Conn : detect'[d].at # "idle"
  BY <1>1 DEF RuleInv, SetsMade
<1>4. \A d \in Conn : detect'[d].at \in {"add", "store", "recorded"} =>
        /\ detect'[d].set \in Conn /\ detect'[d].hit \in Email \X Int
        /\ detect'[detect'[d].set].at # "idle"
  <2> TAKE d \in Conn
  <2>1. CASE d = c
    BY <2>1, <1>1
  <2>2. CASE d # c
    BY <2>2, <1>1 DEF RuleInv, SetsMade
  <2> QED BY <2>1, <2>2
<1> QED BY <1>2, <1>3, <1>4 DEF SetsMade

LEMMA DetectKeepsInv ==
  ASSUME RuleInv, NEW c \in Conn, NEW e \in Email, NEW d, Detect(c, e, d)
  PROVE  /\ RuleInv' /\ detect'[c].at # "idle"
         /\ \A x \in Conn : x # c => detect'[x] = detect[x]
<1> DEFINE hit == << e, FirstHit(d) >>
<1>1. /\ detect[c].at = "idle" /\ UNCHANGED << rules, reader, detections, overwritten >>
      /\ RuleTypes /\ detect \in [Conn -> DetectRecord] /\ rules \in RuleLists
      /\ results \in Conn \cup {None}
  BY DEF Detect, RuleInv, RuleTypes
<1>2. CASE \E step \in {"allowed", "unrecorded"} :
             detect' = [detect EXCEPT ![c].at = step] /\ UNCHANGED << results, found >>
  <2>1. PICK step \in {"allowed", "unrecorded"} :
          detect' = [detect EXCEPT ![c].at = step] /\ UNCHANGED << results, found >>
    BY <1>2
  <2>2. /\ detect' \in [Conn -> DetectRecord] /\ detect'[c].at = step
        /\ \A x \in Conn : x # c => detect'[x] = detect[x]
    BY <1>1, <2>1, DetectMoves
  <2>3. RuleTypes'
    BY <1>1, <2>1, <2>2 DEF RuleTypes
  <2>4. SetsMade'
    BY <1>1, <2>1, <2>2, <2>3, SetsStay
  <2>5. \A v : IsKept(v) => IsKept(v)'
    BY <1>1, <2>1, <2>2 DEF IsKept, RuleInv, SetsMade
  <2>6. FoundKept'
    BY <2>1, <2>2, <2>5, KeptStep
  <2> QED BY <2>2, <2>3, <2>4, <2>6 DEF RuleInv
<1>3. ASSUME Hits(d) # {}
      PROVE  hit \in Email \X Int
  BY <1>1, <1>3, FirstHitType
<1>4. CASE /\ Hits(d) # {} /\ results = None
           /\ results' = c
           /\ found' = [found EXCEPT ![c] = {hit}]
           /\ detect' = [detect EXCEPT ![c] = [at |-> "recorded", hit |-> hit, set |-> c]]
  <2>1. PICK h \in Email \X Int : h = hit
    BY <1>3, <1>4
  <2>2. [at |-> "recorded", hit |-> h, set |-> c] \in DetectRecord
    BY <2>1 DEF DetectRecord
  <2>3. /\ detect' \in [Conn -> DetectRecord]
        /\ detect'[c] = [at |-> "recorded", hit |-> h, set |-> c]
        /\ \A x \in Conn : x # c => detect'[x] = detect[x]
    BY <1>1, <1>4, <2>1, <2>2, DetectEntry
  <2> HIDE DEF hit
  <2>4. /\ found' \in [Conn -> SUBSET (Email \X Int)] /\ found'[c] = {h}
        /\ \A x \in Conn : x # c => found'[x] = found[x]
    BY <1>1, <1>4, <2>1 DEF RuleTypes
  <2>5. RuleTypes'
    BY <1>1, <1>4, <2>3, <2>4 DEF RuleTypes
  <2>6. SetsMade'
    BY <1>1, <1>4, <2>1, <2>3, <2>4, <2>5, SetsStay
  <2>7. \A v : IsKept(v) => IsKept(v)'
    BY <1>1, <1>4, <2>3, <2>4, ConnAssumption DEF IsKept, RuleInv, SetsMade
  <2>8. IsKept(h)'
    BY <1>4, <2>4 DEF IsKept
  <2>9. FoundKept'
    BY <2>3, <2>4, <2>7, <2>8, KeptStep
  <2> QED BY <2>3, <2>5, <2>6, <2>9 DEF RuleInv
<1>5. CASE /\ Hits(d) # {} /\ results # None
           /\ detect' = [detect EXCEPT ![c] = [at |-> "add", hit |-> hit, set |-> results]]
           /\ UNCHANGED << results, found >>
  <2>1. hit \in Email \X Int
    BY <1>3, <1>5
  <2> HIDE DEF hit
  <2>2. [at |-> "add", hit |-> hit, set |-> results] \in DetectRecord
    BY <1>1, <2>1 DEF DetectRecord
  <2>3. /\ detect' \in [Conn -> DetectRecord]
        /\ detect'[c] = [at |-> "add", hit |-> hit, set |-> results]
        /\ \A x \in Conn : x # c => detect'[x] = detect[x]
    BY <1>1, <1>5, <2>2, DetectEntry
  <2>4. RuleTypes'
    BY <1>1, <1>5, <2>3 DEF RuleTypes
  <2>5. results \in Conn /\ detect[results].at # "idle"
    BY <1>1, <1>5 DEF RuleInv, SetsMade
  <2>6. SetsMade'
    BY <1>1, <1>5, <2>1, <2>3, <2>4, <2>5, SetsStay
  <2>7. \A v : IsKept(v) => IsKept(v)'
    BY <1>1, <1>5, <2>3 DEF IsKept, RuleInv, SetsMade
  <2>8. FoundKept'
    BY <1>5, <2>3, <2>7, KeptStep
  <2> QED BY <2>3, <2>4, <2>6, <2>8 DEF RuleInv
<1> QED BY <1>2, <1>4, <1>5 DEF Detect

LEMMA AddResultKeepsInv ==
  ASSUME RuleInv, NEW c \in Conn, AddResult(c)
  PROVE  /\ RuleInv' /\ detect[c].at # "idle" /\ detect'[c].at # "idle"
         /\ \A x \in Conn : x # c => detect'[x] = detect[x]
<1>1. PICK s \in Conn, h \in Email \X Int : s = detect[c].set /\ h = detect[c].hit
  BY DEF AddResult, RuleInv, SetsMade
<1>2. PICK step \in {"recorded", "store"} :
        /\ detect' = [detect EXCEPT ![c].at = step]
        /\ step = "recorded" => h \in found[s]
  BY <1>1 DEF AddResult
<1>3. /\ detect[c].at = "add" /\ UNCHANGED << rules, results, reader, detections, overwritten >>
      /\ found' = [found EXCEPT ![s] = @ \cup {h}]
      /\ RuleTypes /\ detect \in [Conn -> DetectRecord]
  BY <1>1 DEF AddResult, RuleInv, RuleTypes
<1>4. /\ detect' \in [Conn -> DetectRecord]
      /\ detect'[c].at = step /\ detect'[c].hit = h /\ detect'[c].set = s
      /\ \A x \in Conn : x # c => detect'[x] = detect[x]
  BY <1>1, <1>2, <1>3, DetectMoves
<1>5. /\ found' \in [Conn -> SUBSET (Email \X Int)] /\ found'[s] = found[s] \cup {h}
      /\ \A x \in Conn : x # s => found'[x] = found[x]
      /\ \A x \in Conn : found[x] \subseteq found'[x]
  BY <1>1, <1>3 DEF RuleTypes
<1>6. RuleTypes'
  BY <1>3, <1>4, <1>5 DEF RuleTypes
<1>7. detect[s].at # "idle"
  BY <1>1, <1>3 DEF RuleInv, SetsMade
<1>8. SetsMade'
  BY <1>3, <1>4, <1>5, <1>6, <1>7, SetsStay
<1>9. \A v : IsKept(v) => IsKept(v)'
  <2> TAKE v
  <2>1. \A x \in Conn : detect[x].at = "store" =>
          detect'[x].at = "store" /\ detect'[x].set = detect[x].set /\ detect[x].set \in Conn
    BY <1>3, <1>4 DEF RuleInv, SetsMade
  <2> QED BY <1>3, <1>5, <2>1 DEF IsKept
<1>10. IsKept(h)'
  <2>1. CASE step = "recorded"
    <3>1. IsKept(h)
      BY <2>1, <1>2 DEF RuleInv, FoundKept
    <3> QED BY <3>1, <1>9
  <2>2. CASE step = "store"
    BY <2>2, <1>4, <1>5 DEF IsKept
  <2> QED BY <2>1, <2>2
<1>11. FoundKept'
  BY <1>4, <1>5, <1>9, <1>10, KeptStep
<1> QED BY <1>3, <1>4, <1>6, <1>8, <1>11 DEF RuleInv

LEMMA StoreResultsKeepsInv ==
  ASSUME RuleInv, NEW c \in Conn, StoreResults(c)
  PROVE  /\ RuleInv' /\ detect[c].at # "idle" /\ detect'[c].at # "idle"
         /\ \A x \in Conn : x # c => detect'[x] = detect[x]
<1>1. PICK s \in Conn, h \in Email \X Int : s = detect[c].set /\ h = detect[c].hit
  BY DEF StoreResults, RuleInv, SetsMade
<1>2. /\ detect[c].at = "store" /\ results' = s /\ UNCHANGED << rules, found, reader, detections >>
      /\ overwritten' = IF results \in {None, s} THEN overwritten ELSE overwritten \cup found[results]
      /\ detect' = [detect EXCEPT ![c].at = "recorded"]
      /\ RuleTypes /\ detect \in [Conn -> DetectRecord] /\ results \in Conn \cup {None}
  BY <1>1 DEF StoreResults, RuleInv, RuleTypes
<1>3. /\ detect' \in [Conn -> DetectRecord]
      /\ detect'[c].at = "recorded" /\ detect'[c].hit = h /\ detect'[c].set = s
      /\ \A x \in Conn : x # c => detect'[x] = detect[x]
  BY <1>1, <1>2, DetectMoves
<1>4. /\ overwritten \subseteq overwritten'
      /\ overwritten' \subseteq Email \X Int
      /\ \A v : results \in Conn /\ v \in found[results] => v \in found[s] \/ v \in overwritten'
  <2>1. CASE results \in {None, s}
    BY <1>2, <2>1, ConnAssumption DEF RuleTypes
  <2>2. CASE results \notin {None, s}
    <3>1. results \in Conn /\ overwritten' = overwritten \cup found[results]
      BY <1>2, <2>2
    <3>2. found[results] \subseteq Email \X Int /\ overwritten \subseteq Email \X Int
      BY <1>2, <3>1 DEF RuleTypes
    <3> QED BY <3>1, <3>2
  <2> QED BY <2>1, <2>2
<1>5. RuleTypes'
  BY <1>1, <1>2, <1>3, <1>4 DEF RuleTypes
<1>6. detect[s].at # "idle"
  BY <1>1, <1>2 DEF RuleInv, SetsMade
<1>7. SetsMade'
  <2>1. \A d \in Conn : detect[d].at # "idle" => detect'[d].at # "idle"
    BY <1>3
  <2>2. \A d \in Conn : detect'[d].at = "idle" => found'[d] = {}
    BY <1>2, <1>3 DEF RuleInv, SetsMade
  <2>3. \A d \in {results', reader'} \cap Conn : detect'[d].at # "idle"
    BY <1>2, <1>6, <2>1 DEF RuleInv, SetsMade
  <2>4. \A d \in Conn : detect'[d].at \in {"add", "store", "recorded"} =>
          /\ detect'[d].set \in Conn /\ detect'[d].hit \in Email \X Int
          /\ detect'[detect'[d].set].at # "idle"
    BY <1>3, <1>6, <2>1 DEF RuleInv, SetsMade
  <2> QED BY <2>2, <2>3, <2>4 DEF SetsMade
<1>8. \A v : IsKept(v) => IsKept(v)'
  <2> TAKE v
  <2>1. \A x \in Conn : detect[x].at = "store" =>
          \/ detect'[x].at = "store" /\ detect'[x].set = detect[x].set
          \/ detect[x].set = s
    BY <1>1, <1>3
  <2> QED BY <1>2, <1>4, <2>1 DEF IsKept
<1>9. IsKept(h)'
  BY <1>1, <1>2, <1>8 DEF RuleInv, FoundKept
<1>10. FoundKept'
  BY <1>2, <1>3, <1>8, <1>9, KeptStep
<1> QED BY <1>2, <1>3, <1>5, <1>7, <1>10 DEF RuleInv

\* A step that leaves everything as it is, and one of the audit rules' own.
LEMMA RulesStay ==
  ASSUME RuleInv, UNCHANGED ruleVars
  PROVE  RuleInv' /\ \A c \in Conn : detect'[c] = detect[c]
BY DEF ruleVars, RuleInv, RuleTypes, SetsMade, FoundKept, IsKept

LEMMA DetectStepKeepsInv ==
  ASSUME RuleInv, NEW c \in Conn, DetectStep(c)
  PROVE  /\ RuleInv'
         /\ \A x \in Conn : detect'[x].at = "idle" <=> detect[x].at = "idle"
BY AddResultKeepsInv, StoreResultsKeepsInv DEF DetectStep

(***************************************************************************)
(* The links.                                                              *)
(***************************************************************************)

LinkSteps == {"new", "limit", "refused", "route", "detect", "pick", "outbound", "closed"}

IsLink(l) ==
  l = [at |-> l.at, session |-> l.session, checked |-> l.checked,
       target |-> l.target, routed |-> l.routed]

\* The limiter and the audit rules are asked before a link is handed over, and
\* only the sniffers and the hosts give it another destination.
LinkRight(c) ==
  /\ IsLink(link[c])
  /\ link[c].at \in LinkSteps
  /\ link[c].at # "new" => link[c].session \in Session
  /\ link[c].at \in {"new", "limit", "refused", "route"} =>
       detect[c].at = "idle" /\ link[c].routed = None
  /\ link[c].at = "detect" => detect[c].at # "idle"
  /\ link[c].at \in {"limit", "route"} => link[c].checked = link[c].target
  /\ link[c].at \notin {"new", "limit", "refused", "route"} =>
       link[c].checked = link[c].target \/ link[c].session.request.routeOnly
  /\ link[c].at \notin {"new", "limit", "refused"} =>
       (AsksLimiter(link[c].session) => call[c].at = "admitted")

LinkInv == link = [c \in Conn |-> link[c]] /\ \A c \in Conn : LinkRight(c)

BoundsInv ==
  /\ handlers \subseteq {"detour", "route", "inbound", "default"}
  /\ changes \in 0 .. MaxChanges

DispatcherInv == LimiterInv /\ RuleInv /\ LinkInv /\ BoundsInv

\* What a step of others does to what a connection is told.
Told(c) ==
  /\ detect'[c].at = "idle" <=> detect[c].at = "idle"
  /\ call[c].at = "admitted" => call'[c].at = "admitted"

LEMMA LinkStays ==
  ASSUME LinkInv, NEW c \in Conn, link'[c] = link[c], Told(c)
  PROVE  LinkRight(c)'
BY DEF LinkInv, LinkRight, Told

LEMMA LinksStay ==
  ASSUME LinkInv, UNCHANGED link, \A c \in Conn : Told(c)
  PROVE  LinkInv'
<1>1. \A c \in Conn : LinkRight(c)'
  BY LinkStays
<1> QED BY <1>1 DEF LinkInv

LEMMA LinkStep ==
  ASSUME LinkInv, NEW c \in Conn, NEW l, link' = [link EXCEPT ![c] = l],
         \A d \in Conn : d # c => Told(d), LinkRight(c)'
  PROVE  LinkInv'
<1>1. \A d \in Conn : d # c => link'[d] = link[d]
  BY DEF LinkInv
<1>2. \A d \in Conn : LinkRight(d)'
  BY <1>1, LinkStays
<1>3. link' = [d \in Conn |-> link'[d]]
  BY DEF LinkInv
<1> QED BY <1>2, <1>3 DEF LinkInv

\* Admitted once, a connection stays so.
LEMMA AdmittedStays ==
  ASSUME LimiterInv, [LimiterNext]_limiterVars
  PROVE  \A c \in Conn : call[c].at = "admitted" => call'[c].at = "admitted"
<1>1. LimiterTypeOK /\ ShapeInv
  BY DEF LimiterInv
<1>2. CASE UNCHANGED call
  BY <1>2
<1>3. CASE \E c \in Conn : LimiterStep(c) \/ \E e \in Email, i \in Ip : GetUserBucket(c, e, i)
  <2>1. PICK c \in Conn : LimiterStep(c) \/ \E e \in Email, i \in Ip : GetUserBucket(c, e, i)
    BY <1>3
  <2>2. /\ \A d \in Conn : d # c => call'[d] = call[d]
        /\ call[c].at = "admitted" => call'[c].at = "admitted"
    <3>1. CASE JoinOnline(c)
      BY <1>1, <3>1, JoinEffect DEF Moves
    <3>2. CASE AddIp(c)
      BY <1>1, <3>2, AddEffect DEF Moves
    <3>3. CASE CountIps(c)
      BY <1>1, <3>3, CountEffect DEF Moves
    <3>4. CASE globalLimit(c)
      BY <1>1, <3>4, GlobalEffect DEF Moves
    <3>5. CASE SpeedLimit(c)
      BY <1>1, <3>5, SpeedEffect DEF Moves
    <3>6. CASE pushIP(c)
      BY <1>1, <3>6, PushEffect DEF Moves
    <3>7. CASE \E e \in Email, i \in Ip : GetUserBucket(c, e, i)
      <4>1. PICK e \in Email, i \in Ip : GetUserBucket(c, e, i)
        BY <3>7
      <4> QED BY <1>1, <4>1, AskEffect
    <3> QED BY <2>1, <3>1, <3>2, <3>3, <3>4, <3>5, <3>6, <3>7 DEF LimiterStep
  <2> QED BY <2>2
<1>4. CASE LimiterCall \/ LimiterWork \/ CacheStep
  <2>1. UNCHANGED call
    BY <1>4 DEF LimiterCall, LimiterWork, CacheStep, AddInboundLimiter, DeleteInboundLimiter,
                UpdateUser, GetOnlineDevice, UpdateBucket, ClearBucket, ResetOnline, Expire, OtherNode
  <2> QED BY <2>1
<1> QED BY <1>2, <1>3, <1>4 DEF LimiterNext, limiterVars

\* The limiter is asked only for a user and his device.
LEMMA NextCallsLimiter == Next => [LimiterNext]_limiterVars
<1> SUFFICES ASSUME Next PROVE [LimiterNext]_limiterVars
  OBVIOUS
<1>1. CASE ControllerStep
  BY <1>1 DEF ControllerStep, OutboundChange, LimiterNext
<1>2. ASSUME NEW c \in Conn, Work(c)
      PROVE  [LimiterNext]_limiterVars
  BY <1>2 DEF Work, LimiterNext, getLink, routedDispatch, CloseRejected, PickHandler
<1>3. ASSUME NEW c \in Conn, NEW s \in Session, Dispatch(c, s)
      PROVE  [LimiterNext]_limiterVars
  <2>1. s.user \in Email /\ s.ip \in Ip
    BY <1>3, DispatcherAssumption DEF Dispatch, AsksLimiter
  <2> QED BY <1>3, <2>1 DEF Dispatch, LimiterNext
<1>4. ASSUME NEW c \in Conn, NEW s \in Session, DispatchLink(c, s)
      PROVE  [LimiterNext]_limiterVars
  BY <1>4 DEF DispatchLink
<1> QED BY <1>1, <1>2, <1>3, <1>4 DEF Next

\* A link that only goes on from the limiter, the rules or the handler.
LEMMA PlainStep ==
  ASSUME DispatcherInv, NEW c \in Conn, NEW step \in LinkSteps, Step(c, step),
         UNCHANGED << limiterVars, ruleVars, handlers, changes >>,
         \/ link[c].at = "limit" /\ step = "route" /\ call[c].at = "admitted"
         \/ link[c].at = "limit" /\ step = "refused"
         \/ link[c].at \in {"detect", "pick"} /\ step \in {"outbound", "closed"}
  PROVE  RuleInv' /\ LinkInv' /\ BoundsInv'
<1>1. LimiterInv /\ RuleInv /\ LinkInv /\ BoundsInv
  BY DEF DispatcherInv
<1>2. RuleInv' /\ \A d \in Conn : detect'[d] = detect[d]
  BY <1>1, RulesStay
<1>3. UNCHANGED call
  BY DEF limiterVars
<1>4. \A d \in Conn : Told(d)
  BY <1>2, <1>3 DEF Told
<1>5. link' = [link EXCEPT ![c] = [link[c] EXCEPT !.at = step]]
  BY DEF Step
<1>6. LinkRight(c) /\ link'[c] = [link[c] EXCEPT !.at = step]
  BY <1>1, <1>5 DEF LinkInv
<1>7. /\ link'[c].at = step /\ link'[c].session = link[c].session
      /\ link'[c].checked = link[c].checked /\ link'[c].target = link[c].target
      /\ link'[c].routed = link[c].routed /\ IsLink(link[c])'
  BY <1>6 DEF LinkRight, IsLink
<1>8. LinkRight(c)'
  BY <1>2, <1>3, <1>6, <1>7 DEF LinkRight, LinkSteps
<1>9. LinkInv'
  BY <1>1, <1>4, <1>5, <1>8, LinkStep
<1> QED BY <1>1, <1>2, <1>9 DEF BoundsInv

LEMMA FreshIsLink ==
  ASSUME NEW s, NEW step
  PROVE  /\ IsLink(Fresh(s, step))
         /\ Fresh(s, step).at = step /\ Fresh(s, step).session = s
         /\ Fresh(s, step).checked = s.destination /\ Fresh(s, step).target = s.destination
         /\ Fresh(s, step).routed = None
BY DEF Fresh, IsLink

LEMMA DispatchKeepsInv ==
  ASSUME DispatcherInv, NEW c \in Conn, NEW s \in Session, Dispatch(c, s)
  PROVE  RuleInv' /\ LinkInv' /\ BoundsInv'
<1>1. LimiterTypeOK /\ ShapeInv /\ RuleInv /\ LinkInv /\ BoundsInv
  BY DEF DispatcherInv, LimiterInv
<1>2. /\ link[c].at = "new" /\ AsksLimiter(s) /\ link' = [link EXCEPT ![c] = Fresh(s, "limit")]
      /\ GetUserBucket(c, s.user, s.ip) /\ UNCHANGED << ruleVars, handlers, changes >>
  BY DEF Dispatch
<1>3. s.user \in Email /\ s.ip \in Ip
  BY <1>2, DispatcherAssumption DEF AsksLimiter
<1>4. \A d \in Conn : d # c => call'[d] = call[d]
  BY <1>1, <1>2, <1>3, AskEffect
<1>5. RuleInv' /\ \A d \in Conn : detect'[d] = detect[d]
  BY <1>1, <1>2, RulesStay
<1>6. \A d \in Conn : d # c => Told(d)
  BY <1>4, <1>5 DEF Told
<1>7. link'[c] = Fresh(s, "limit") /\ detect[c].at = "idle"
  BY <1>1, <1>2 DEF LinkInv, LinkRight
<1>8. LinkRight(c)'
  BY <1>5, <1>7, FreshIsLink DEF LinkRight, LinkSteps
<1>9. LinkInv'
  BY <1>1, <1>2, <1>6, <1>8, LinkStep
<1> QED BY <1>1, <1>2, <1>5, <1>9 DEF BoundsInv

LEMMA DispatchLinkKeepsInv ==
  ASSUME DispatcherInv, NEW c \in Conn, NEW s \in Session, DispatchLink(c, s)
  PROVE  RuleInv' /\ LinkInv' /\ BoundsInv'
<1>1. RuleInv /\ LinkInv /\ BoundsInv
  BY DEF DispatcherInv
<1>2. /\ link[c].at = "new" /\ ~AsksLimiter(s) /\ link' = [link EXCEPT ![c] = Fresh(s, "route")]
      /\ UNCHANGED << limiterVars, ruleVars, handlers, changes >>
  BY DEF DispatchLink
<1>3. UNCHANGED call
  BY <1>2 DEF limiterVars
<1>4. RuleInv' /\ \A d \in Conn : detect'[d] = detect[d]
  BY <1>1, <1>2, RulesStay
<1>5. \A d \in Conn : d # c => Told(d)
  BY <1>3, <1>4 DEF Told
<1>6. link'[c] = Fresh(s, "route") /\ detect[c].at = "idle"
  BY <1>1, <1>2 DEF LinkInv, LinkRight
<1>7. LinkRight(c)'
  BY <1>2, <1>4, <1>6, FreshIsLink DEF LinkRight, LinkSteps
<1>8. LinkInv'
  BY <1>1, <1>2, <1>5, <1>7, LinkStep
<1> QED BY <1>1, <1>2, <1>4, <1>8 DEF BoundsInv

\* Without RouteOnly the destination that is checked is the target's.
LEMMA SameDestination ==
  ASSUME NEW l, NEW result, IsLink(l), l.checked = l.target, l.routed = None
  PROVE  LET m == LookupHosts(Override(l, result))
         IN  /\ IsLink(m) /\ m.session = l.session
             /\ m.checked = m.target \/ l.session.request.routeOnly
<1>1. PICK o : o = Override(l, result)
  OBVIOUS
<1>2. PICK m : m = LookupHosts(o)
  OBVIOUS
<1>3. SUFFICES /\ IsLink(m) /\ m.session = l.session
               /\ m.checked = m.target \/ l.session.request.routeOnly
  BY <1>1, <1>2
<1>4. /\ IsLink(o) /\ o.session = l.session
      /\ \/ o.checked = o.target /\ o.routed = None
         \/ l.session.request.routeOnly
  BY <1>1 DEF Override, IsLink
<1>5. IsLink(m) /\ m.session = o.session
  BY <1>2, <1>4 DEF LookupHosts, IsLink
<1>6. CASE o.checked = o.target /\ o.routed = None
  <2>1. HostOf(o) # o.checked => o.routed # o.checked
    BY <1>6, DispatcherAssumption DEF HostOf
  <2>2. m.checked = m.target
    BY <1>2, <1>4, <1>6, <2>1 DEF LookupHosts, IsLink
  <2> QED BY <1>4, <1>5, <2>2
<1> QED BY <1>4, <1>5, <1>6

LEMMA RoutedKeepsInv ==
  ASSUME DispatcherInv, NEW c \in Conn, routedDispatch(c)
  PROVE  RuleInv' /\ LinkInv' /\ BoundsInv'
<1>1. RuleInv /\ LinkInv /\ BoundsInv
  BY DEF DispatcherInv
<1>2. PICK r \in Sniff(link[c].session) :
        LET l == LookupHosts(Override(link[c], SnifferResult(link[c].session, r)))
        IN  IF l.session.user = None
            THEN link' = [link EXCEPT ![c] = [l EXCEPT !.at = "pick"]] /\ UNCHANGED ruleVars
            ELSE /\ link' = [link EXCEPT ![c] = [l EXCEPT !.at = "detect"]]
                 /\ Detect(c, l.session.user, l.checked)
  BY DEF routedDispatch
<1>3. link[c].at = "route" /\ UNCHANGED << limiterVars, handlers, changes >>
  BY DEF routedDispatch
<1>4. UNCHANGED call
  BY <1>3 DEF limiterVars
<1>5. LinkRight(c)
  BY <1>1 DEF LinkInv
<1>6. PICK l : l = LookupHosts(Override(link[c], SnifferResult(link[c].session, r)))
  OBVIOUS
<1>7. /\ IsLink(l) /\ l.session = link[c].session /\ l.session \in Session
      /\ l.checked = l.target \/ l.session.request.routeOnly
      /\ AsksLimiter(l.session) => call[c].at = "admitted"
  BY <1>3, <1>5, <1>6, SameDestination DEF LinkRight
<1>8. ASSUME NEW step \in {"pick", "detect"}, link' = [link EXCEPT ![c] = [l EXCEPT !.at = step]],
             \A d \in Conn : d # c => detect'[d] = detect[d],
             step = "detect" => detect'[c].at # "idle"
      PROVE  LinkInv'
  <2>1. link'[c] = [l EXCEPT !.at = step]
    BY <1>1, <1>8 DEF LinkInv
  <2>2. /\ link'[c].at = step /\ link'[c].session = l.session
        /\ link'[c].checked = l.checked /\ link'[c].target = l.target
        /\ IsLink(link[c])'
    BY <1>7, <2>1 DEF IsLink
  <2>3. LinkRight(c)'
    BY <1>4, <1>7, <1>8, <2>2 DEF LinkRight, LinkSteps
  <2>4. \A d \in Conn : d # c => Told(d)
    BY <1>4, <1>8 DEF Told
  <2> QED BY <1>1, <1>8, <2>3, <2>4, LinkStep
<1>9. CASE l.session.user = None
  <2>1. link' = [link EXCEPT ![c] = [l EXCEPT !.at = "pick"]] /\ UNCHANGED ruleVars
    BY <1>2, <1>6, <1>9
  <2>2. RuleInv' /\ \A d \in Conn : detect'[d] = detect[d]
    BY <1>1, <2>1, RulesStay
  <2> QED BY <1>1, <1>3, <1>8, <2>1, <2>2 DEF BoundsInv
<1>10. CASE l.session.user # None
  <2>1. /\ link' = [link EXCEPT ![c] = [l EXCEPT !.at = "detect"]]
        /\ Detect(c, l.session.user, l.checked)
    BY <1>2, <1>6, <1>10
  <2>2. l.session.user \in Email
    BY <1>7, <1>10, DispatcherAssumption
  <2>3. /\ RuleInv' /\ detect'[c].at # "idle"
        /\ \A d \in Conn : d # c => detect'[d] = detect[d]
    BY <1>1, <2>1, <2>2, DetectKeepsInv
  <2> QED BY <1>1, <1>3, <1>8, <2>1, <2>3 DEF BoundsInv
<1> QED BY <1>9, <1>10

(***************************************************************************)
(* The controller.                                                         *)
(***************************************************************************)

LEMMA ControllerKeepsInv ==
  ASSUME DispatcherInv, [LimiterNext]_limiterVars, ControllerStep
  PROVE  RuleInv' /\ LinkInv' /\ BoundsInv'
<1>1. LimiterInv /\ RuleInv /\ LinkInv /\ BoundsInv
  BY DEF DispatcherInv
<1>2. UNCHANGED link
  BY DEF ControllerStep, OutboundChange
<1>3. RuleInv' /\ \A c \in Conn : detect'[c] = detect[c]
  <2>1. CASE UNCHANGED ruleVars
    BY <1>1, <2>1, RulesStay
  <2>2. CASE GetDetectResult
    BY <1>1, <2>2, GetDetectResultKeepsInv DEF GetDetectResult
  <2>3. CASE ReadResults
    BY <1>1, <2>3, ReadResultsKeepsInv DEF ReadResults
  <2>4. ASSUME NEW list \in RuleLists, UpdateRule(list)
        PROVE  RuleInv' /\ \A c \in Conn : detect'[c] = detect[c]
    BY <1>1, <2>4, UpdateRuleKeepsInv DEF UpdateRule
  <2> QED BY <2>1, <2>2, <2>3, <2>4 DEF ControllerStep, OutboundChange
<1>4. \A c \in Conn : Told(c)
  BY <1>1, <1>3, AdmittedStays DEF Told
<1>5. LinkInv'
  BY <1>1, <1>2, <1>4, LinksStay
<1>6. BoundsInv'
  <2>1. UNCHANGED changes \/ (changes < MaxChanges /\ changes' = changes + 1)
    BY DEF ControllerStep, OutboundChange, Change
  <2>2. UNCHANGED handlers \/ handlers' = handlers \ {"inbound"} \/ handlers' = handlers \cup {"inbound"}
    BY DEF ControllerStep, OutboundChange
  <2>3. changes' \in 0 .. MaxChanges
    BY <1>1, <2>1, DispatcherAssumption DEF BoundsInv
  <2>4. handlers' \subseteq {"detour", "route", "inbound", "default"}
    BY <1>1, <2>2 DEF BoundsInv
  <2> QED BY <2>3, <2>4 DEF BoundsInv
<1> QED BY <1>3, <1>5, <1>6

\* What the goroutine of a connection does.
LEMMA WorkKeepsInv ==
  ASSUME DispatcherInv, [LimiterNext]_limiterVars, NEW c \in Conn, Work(c)
  PROVE  RuleInv' /\ LinkInv' /\ BoundsInv'
<1>1. LimiterInv /\ RuleInv /\ LinkInv /\ BoundsInv
  BY DEF DispatcherInv
<1>2. CASE LimiterStep(c) /\ UNCHANGED << ruleVars, link, handlers, changes >>
  <2>1. RuleInv' /\ \A d \in Conn : detect'[d] = detect[d]
    BY <1>1, <1>2, RulesStay
  <2>2. \A d \in Conn : Told(d)
    BY <1>1, <2>1, AdmittedStays DEF Told
  <2> QED BY <1>1, <1>2, <2>1, <2>2, LinksStay DEF BoundsInv
<1>3. CASE DetectStep(c) /\ UNCHANGED << limiterVars, link, handlers, changes >>
  <2>1. RuleInv' /\ \A d \in Conn : detect'[d].at = "idle" <=> detect[d].at = "idle"
    BY <1>1, <1>3, DetectStepKeepsInv
  <2>2. \A d \in Conn : Told(d)
    BY <1>3, <2>1 DEF Told, limiterVars
  <2> QED BY <1>1, <1>3, <2>1, <2>2, LinksStay DEF BoundsInv
<1>4. CASE getLink(c)
  <2>1. PICK step \in LinkSteps :
          /\ Step(c, step) /\ UNCHANGED << limiterVars, ruleVars, handlers, changes >>
          /\ link[c].at = "limit"
          /\ step = "refused" \/ (step = "route" /\ call[c].at = "admitted")
    BY <1>4 DEF getLink, LinkSteps
  <2> QED BY <2>1, PlainStep
<1>5. CASE CloseRejected(c)
  <2>1. /\ Step(c, "closed") /\ UNCHANGED << limiterVars, ruleVars, handlers, changes >>
        /\ link[c].at = "detect" /\ "closed" \in LinkSteps
    BY <1>5 DEF CloseRejected, LinkSteps
  <2> QED BY <2>1, PlainStep
<1>6. CASE PickHandler(c)
  <2>1. PICK step \in LinkSteps :
          /\ Step(c, step) /\ UNCHANGED << limiterVars, ruleVars, handlers, changes >>
          /\ link[c].at \in {"detect", "pick"} /\ step \in {"outbound", "closed"}
    BY <1>6 DEF PickHandler, Allowed, LinkSteps
  <2> QED BY <2>1, PlainStep
<1>7. CASE routedDispatch(c)
  BY <1>7, RoutedKeepsInv
<1> QED BY <1>2, <1>3, <1>4, <1>5, <1>6, <1>7 DEF Work

(***************************************************************************)
(* The theorems.                                                           *)
(***************************************************************************)

LEMMA InitDispatcherInv == Init => DispatcherInv
<1> SUFFICES ASSUME Init PROVE DispatcherInv
  OBVIOUS
<1>1. LimiterInv /\ RuleInv
  BY InitLimiterInv, InitRuleInv DEF Init
<1>2. BoundsInv
  BY DispatcherAssumption DEF Init, BoundsInv
<1>3. LinkInv
  <2>1. link = [c \in Conn |-> NoLink] /\ \A c \in Conn : detect[c].at = "idle"
    BY DEF Init, RuleInit, Unchecked
  <2> QED BY <2>1 DEF LinkInv, LinkRight, IsLink, NoLink, LinkSteps
<1> QED BY <1>1, <1>2, <1>3 DEF DispatcherInv

LEMMA NextKeepsInv == DispatcherInv /\ [Next]_vars => DispatcherInv'
<1> SUFFICES ASSUME DispatcherInv, [Next]_vars PROVE DispatcherInv'
  OBVIOUS
<1>1. [LimiterNext]_limiterVars
  BY NextCallsLimiter DEF vars
<1>2. LimiterInv'
  BY <1>1, LimiterStepKeepsInv DEF DispatcherInv
<1>3. CASE ControllerStep
  BY <1>1, <1>2, <1>3, ControllerKeepsInv DEF DispatcherInv
<1>4. ASSUME NEW c \in Conn, Work(c) PROVE DispatcherInv'
  BY <1>1, <1>2, <1>4, WorkKeepsInv DEF DispatcherInv
<1>5. ASSUME NEW c \in Conn, NEW s \in Session, Dispatch(c, s) PROVE DispatcherInv'
  BY <1>2, <1>5, DispatchKeepsInv DEF DispatcherInv
<1>6. ASSUME NEW c \in Conn, NEW s \in Session, DispatchLink(c, s) PROVE DispatcherInv'
  BY <1>2, <1>6, DispatchLinkKeepsInv DEF DispatcherInv
<1>7. CASE UNCHANGED vars
  <2>1. RuleInv' /\ \A c \in Conn : detect'[c] = detect[c]
    BY <1>7, RulesStay DEF DispatcherInv, vars
  <2>2. \A c \in Conn : Told(c)
    BY <1>7, <2>1 DEF Told, vars, limiterVars
  <2>3. LinkInv'
    BY <1>7, <2>2, LinksStay DEF DispatcherInv, vars
  <2> QED BY <1>2, <1>7, <2>1, <2>3 DEF DispatcherInv, BoundsInv, vars
<1> QED BY <1>3, <1>4, <1>5, <1>6, <1>7 DEF Next

LEMMA DispatcherInvHolds == Spec => []DispatcherInv
BY InitDispatcherInv, NextKeepsInv, PTL DEF Spec

\* The dispatcher is a user of the limiter as its specification allows it: it
\* asks GetUserBucket for users and devices only, and does nothing else to it.
THEOREM DispatcherUsesLimiter == Spec => LimiterSpec
<1>1. Init => LimiterInit
  BY DEF Init
<1>2. [Next]_vars => [LimiterNext]_limiterVars
  BY NextCallsLimiter DEF vars
<1> QED BY <1>1, <1>2, PTL DEF Spec, LimiterSpec

\* Every connection is where its calls are, and no connection of a user gets
\* past the limiter without having been admitted.
THEOREM DispatcherTypeCorrect == Spec => []DispatcherTypeOK
<1>1. DispatcherInv => DispatcherTypeOK
  <2> SUFFICES ASSUME DispatcherInv PROVE DispatcherTypeOK
    OBVIOUS
  <2>1. LimiterTypeOK /\ BoundsInv
    BY DEF DispatcherInv, LimiterInv
  <2>2. RuleTypeOK
    BY DEF DispatcherInv, RuleInv, RuleTypes, SetsMade, DetectRecord, RuleTypeOK
  <2>3. \A c \in Conn :
          /\ link[c].at \in {"new", "limit", "refused", "route", "detect", "pick",
                             "outbound", "closed"}
          /\ link[c].at \in {"new", "limit", "refused"} \/
               (AsksLimiter(link[c].session) => call[c].at = "admitted")
          /\ link[c].at = "detect" => detect[c].at # "idle"
          /\ link[c].at = "route" => detect[c].at = "idle"
    BY DEF DispatcherInv, LinkInv, LinkRight, LinkSteps
  <2> QED BY <2>1, <2>2, <2>3 DEF DispatcherTypeOK, BoundsInv
<1> QED BY <1>1, DispatcherInvHolds, PTL

\* However many connections of a user are dispatched at once, the devices that
\* have been let in on this node are no more than the limit.
THEOREM DeviceLimitHolds == Spec => []DevicesWithinLimit
<1>1. LimiterInv => DevicesWithinLimit
  BY DEF LimiterInv
<1> QED BY <1>1, DispatcherUsesLimiter, LimiterInvHolds, PTL

\* However pushes to the global cache and other nodes overtake each other, it
\* holds one device above the limit at most.
THEOREM GlobalLimitHolds == Spec => []GlobalWithinOneMore
<1>1. LimiterInv => GlobalWithinOneMore
  BY DEF LimiterInv
<1> QED BY <1>1, DispatcherUsesLimiter, LimiterInvHolds, PTL

\* The bucket that new connections share has the user's rate of today, unless
\* it was set from settings that had been replaced meanwhile.
THEOREM RatesFollowPanel == Spec => []BucketFollowsPanel
<1>1. LimiterInv => BucketFollowsPanel
  BY DEF LimiterInv
<1> QED BY <1>1, DispatcherUsesLimiter, LimiterInvHolds, PTL

\* What a Detect has recorded is reported, or will be, or was overwritten by a
\* Detect that stored an older set again.
THEOREM DetectionsAreKept == Spec => []DetectionKept
<1>1. DispatcherInv => DetectionKept
  <2> SUFFICES ASSUME DispatcherInv, NEW c \in Conn, detect[c].at = "recorded"
               PROVE  detect[c].hit \in Kept
    BY DEF DetectionKept
  <2>1. IsKept(detect[c].hit)
    BY DEF DispatcherInv, RuleInv, FoundKept
  <2> QED BY <2>1, InKept
<1> QED BY <1>1, DispatcherInvHolds, PTL

\* Whatever is sniffed and whatever the hosts say, without RouteOnly the audit
\* rules are asked about the destination that the outbound connects to.
THEOREM AuditsSeeTarget == Spec => []AuditSeesTarget
<1>1. DispatcherInv => AuditSeesTarget
  BY DEF DispatcherInv, LinkInv, LinkRight, AuditSeesTarget
<1> QED BY <1>1, DispatcherInvHolds, PTL

(***************************************************************************)
(* What a dispatch has left to do.                                         *)
(***************************************************************************)

CallStage(at) ==
  IF at = "idle" THEN 12 ELSE IF at = "join" THEN 10 ELSE IF at = "add" THEN 8
  ELSE IF at = "count" THEN 6 ELSE IF at = "global" THEN 4 ELSE IF at = "speed" THEN 2 ELSE 0

LinkStage(at) ==
  IF at = "new" THEN 4 ELSE IF at = "limit" THEN 3 ELSE IF at = "route" THEN 2
  ELSE IF at \in {"detect", "pick"} THEN 1 ELSE 0

DetectStage(at) ==
  IF at = "idle" THEN 3 ELSE IF at = "add" THEN 2 ELSE IF at = "store" THEN 1 ELSE 0

\* The steps that the call of the limiter has left at most, the push included,
\* and those of the whole dispatch.
CallLeft(c) == CallStage(call[c].at) + (IF call[c].push = {} THEN 0 ELSE 1)

StepsLeft(c) == LinkStage(link[c].at) + CallLeft(c) + DetectStage(detect[c].at)

\* What a connection does itself.
OwnStep(c) == Work(c) \/ \E s \in Session : Dispatch(c, s) \/ DispatchLink(c, s)

\* The others stay as they are.
Alone(c) ==
  \A d \in Conn : d # c => link'[d] = link[d] /\ call'[d] = call[d] /\ detect'[d] = detect[d]

\* What has been asked before a link is where it is.
AskedRight(c) ==
  /\ link[c].at = "limit" => call[c].at # "idle"
  /\ link[c].at = "pick" => link[c].session.user = None
  /\ link[c].at = "outbound" => link[c].session.user = None \/ detect[c].at = "allowed"

AskedInv == \A c \in Conn : AskedRight(c)

LEMMA CallLeftType == \A c \in Conn : CallLeft(c) \in Nat
BY DEF CallLeft, CallStage

LEMMA LimiterStepLeft ==
  ASSUME LimiterInv, NEW c \in Conn, LimiterStep(c)
  PROVE  /\ \A d \in Conn : d # c => call'[d] = call[d]
         /\ call'[c].at # "idle" /\ CallLeft(c)' < CallLeft(c)
<1>1. LimiterTypeOK /\ ShapeInv
  BY DEF LimiterInv
<1>2. CASE JoinOnline(c)
  <2>1. /\ Moves(c) /\ call[c].at = "join" /\ call'[c].push = call[c].push
        /\ call'[c].at \in {"global", "add"}
    BY <1>1, <1>2, JoinEffect
  <2> QED BY <2>1 DEF Moves, CallLeft, CallStage
<1>3. CASE AddIp(c)
  <2>1. /\ Moves(c) /\ call[c].at = "add" /\ call'[c].push = call[c].push
        /\ call'[c].at \in {"global", "count"}
    BY <1>1, <1>3, AddEffect
  <2> QED BY <2>1 DEF Moves, CallLeft, CallStage
<1>4. CASE CountIps(c)
  <2>1. /\ Moves(c) /\ call[c].at = "count" /\ call'[c].push = call[c].push
        /\ call'[c].at \in {"global", "rejected"}
    BY <1>1, <1>4, CountEffect
  <2> QED BY <2>1 DEF Moves, CallLeft, CallStage
<1>5. CASE globalLimit(c)
  <2>1. Moves(c) /\ call[c].at = "global" /\ call'[c].at \in {"speed", "rejected"}
    BY <1>1, <1>5, GlobalEffect
  <2> QED BY <2>1 DEF Moves, CallLeft, CallStage
<1>6. CASE SpeedLimit(c)
  <2>1. /\ Moves(c) /\ call[c].at = "speed" /\ call'[c].at = "admitted"
        /\ call'[c].push = call[c].push
    BY <1>1, <1>6, SpeedEffect
  <2> QED BY <2>1 DEF Moves, CallLeft, CallStage
<1>7. CASE pushIP(c)
  <2>1. /\ Moves(c) /\ call[c].push # {} /\ call'[c].push = {}
        /\ call'[c].at = call[c].at /\ call[c].at # "idle"
    BY <1>1, <1>7, PushEffect
  <2> QED BY <2>1 DEF Moves, CallLeft, CallStage
<1> QED BY <1>2, <1>3, <1>4, <1>5, <1>6, <1>7 DEF LimiterStep

LEMMA DispatchLeft ==
  ASSUME DispatcherInv, NEW c \in Conn, NEW s \in Session, Dispatch(c, s)
  PROVE  Alone(c) /\ StepsLeft(c)' < StepsLeft(c) /\ AskedRight(c)'
<1>1. LimiterTypeOK /\ ShapeInv /\ RuleInv /\ LinkInv
  BY DEF DispatcherInv, LimiterInv
<1>2. /\ link[c].at = "new" /\ AsksLimiter(s) /\ link' = [link EXCEPT ![c] = Fresh(s, "limit")]
      /\ GetUserBucket(c, s.user, s.ip) /\ UNCHANGED ruleVars
  BY DEF Dispatch
<1>3. s.user \in Email /\ s.ip \in Ip
  BY <1>2, DispatcherAssumption DEF AsksLimiter
<1>4. /\ call[c].at = "idle" /\ call[c].push = {} /\ call'[c].push = {}
      /\ call'[c].at \in {"admitted", "join"}
      /\ \A d \in Conn : d # c => call'[d] = call[d]
  BY <1>1, <1>2, <1>3, AskEffect DEF ShapeInv
<1>5. link'[c].at = "limit" /\ \A d \in Conn : d # c => link'[d] = link[d]
  BY <1>1, <1>2, FreshIsLink DEF LinkInv
<1>6. \A d \in Conn : detect'[d] = detect[d]
  BY <1>1, <1>2, RulesStay
<1>7. CallLeft(c) = 12 /\ CallLeft(c)' \in {0, 10}
  BY <1>4 DEF CallLeft, CallStage
<1>8. StepsLeft(c)' < StepsLeft(c)
  BY <1>2, <1>5, <1>6, <1>7 DEF StepsLeft, LinkStage, DetectStage
<1> QED BY <1>4, <1>5, <1>6, <1>8 DEF Alone, AskedRight

LEMMA DispatchLinkLeft ==
  ASSUME DispatcherInv, NEW c \in Conn, NEW s \in Session, DispatchLink(c, s)
  PROVE  Alone(c) /\ StepsLeft(c)' < StepsLeft(c) /\ AskedRight(c)'
<1>1. RuleInv /\ LinkInv
  BY DEF DispatcherInv
<1>2. /\ link[c].at = "new" /\ link' = [link EXCEPT ![c] = Fresh(s, "route")]
      /\ UNCHANGED << limiterVars, ruleVars >>
  BY DEF DispatchLink
<1>3. UNCHANGED call
  BY <1>2 DEF limiterVars
<1>4. link'[c].at = "route" /\ \A d \in Conn : d # c => link'[d] = link[d]
  BY <1>1, <1>2, FreshIsLink DEF LinkInv
<1>5. \A d \in Conn : detect'[d] = detect[d]
  BY <1>1, <1>2, RulesStay
<1>6. CallLeft(c)' = CallLeft(c) /\ CallLeft(c) \in Nat
  BY <1>3, CallLeftType DEF CallLeft
<1>7. StepsLeft(c)' < StepsLeft(c)
  BY <1>2, <1>4, <1>5, <1>6 DEF StepsLeft, LinkStage, DetectStage
<1> QED BY <1>3, <1>4, <1>5, <1>7 DEF Alone, AskedRight

\* A link that goes on by itself.
LEMMA PlainLeft ==
  ASSUME DispatcherInv, AskedInv, NEW c \in Conn, NEW step \in LinkSteps, Step(c, step),
         UNCHANGED << limiterVars, ruleVars >>,
         \/ link[c].at = "limit" /\ step \in {"route", "refused"}
         \/ link[c].at \in {"detect", "pick"} /\ step = "closed"
         \/ Allowed(c) /\ step = "outbound"
  PROVE  Alone(c) /\ StepsLeft(c)' < StepsLeft(c) /\ AskedRight(c)'
<1>1. RuleInv /\ LinkInv /\ AskedRight(c) /\ LinkRight(c)
  BY DEF DispatcherInv, LinkInv, AskedInv
<1>2. link'[c] = [link[c] EXCEPT !.at = step] /\ \A d \in Conn : d # c => link'[d] = link[d]
  BY <1>1 DEF Step, LinkInv
<1>3. link'[c].at = step /\ link'[c].session = link[c].session
  BY <1>1, <1>2 DEF LinkRight, IsLink
<1>4. UNCHANGED call /\ \A d \in Conn : detect'[d] = detect[d]
  BY <1>1, RulesStay DEF limiterVars
<1>5. CallLeft(c)' = CallLeft(c) /\ CallLeft(c) \in Nat /\ DetectStage(detect[c].at) \in Nat
  BY <1>4, CallLeftType DEF CallLeft, DetectStage
<1>6. LinkStage(link'[c].at) < LinkStage(link[c].at) /\ LinkStage(link'[c].at) \in Nat
      /\ LinkStage(link[c].at) \in Nat
  BY <1>3 DEF LinkStage, Allowed
<1>7. StepsLeft(c)' < StepsLeft(c)
  BY <1>4, <1>5, <1>6 DEF StepsLeft
<1> QED BY <1>1, <1>2, <1>3, <1>4, <1>7 DEF Alone, AskedRight, Allowed

LEMMA RoutedLeft ==
  ASSUME DispatcherInv, NEW c \in Conn, routedDispatch(c)
  PROVE  Alone(c) /\ StepsLeft(c)' < StepsLeft(c) /\ AskedRight(c)'
<1>1. RuleInv /\ LinkInv /\ LinkRight(c)
  BY DEF DispatcherInv, LinkInv
<1>2. PICK r \in Sniff(link[c].session) :
        LET l == LookupHosts(Override(link[c], SnifferResult(link[c].session, r)))
        IN  IF l.session.user = None
            THEN link' = [link EXCEPT ![c] = [l EXCEPT !.at = "pick"]] /\ UNCHANGED ruleVars
            ELSE /\ link' = [link EXCEPT ![c] = [l EXCEPT !.at = "detect"]]
                 /\ Detect(c, l.session.user, l.checked)
  BY DEF routedDispatch
<1>3. link[c].at = "route" /\ UNCHANGED call
  BY DEF routedDispatch, limiterVars
<1>4. PICK l : l = LookupHosts(Override(link[c], SnifferResult(link[c].session, r)))
  OBVIOUS
<1>5. IsLink(l) /\ l.session = link[c].session /\ l.session \in Session
  BY <1>1, <1>3, <1>4, SameDestination DEF LinkRight
<1>6. CallLeft(c)' = CallLeft(c) /\ CallLeft(c) \in Nat
  BY <1>3, CallLeftType DEF CallLeft
<1>7. ASSUME NEW step \in {"pick", "detect"}, link' = [link EXCEPT ![c] = [l EXCEPT !.at = step]],
             \A d \in Conn : d # c => detect'[d] = detect[d],
             step = "pick" => l.session.user = None
      PROVE  Alone(c) /\ StepsLeft(c)' < StepsLeft(c) /\ AskedRight(c)'
  <2>1. link'[c] = [l EXCEPT !.at = step] /\ \A d \in Conn : d # c => link'[d] = link[d]
    BY <1>1, <1>7 DEF LinkInv
  <2>2. link'[c].at = step /\ link'[c].session = l.session
    BY <1>5, <2>1 DEF IsLink
  <2>3. detect[c].at = "idle" /\ DetectStage(detect'[c].at) \in 0 .. 3
    BY <1>1, <1>3 DEF LinkRight, DetectStage
  <2>4. StepsLeft(c)' < StepsLeft(c)
    BY <1>3, <1>6, <2>2, <2>3 DEF StepsLeft, LinkStage, DetectStage
  <2> QED BY <1>3, <1>7, <2>1, <2>2, <2>4 DEF Alone, AskedRight
<1>8. CASE l.session.user = None
  <2>1. link' = [link EXCEPT ![c] = [l EXCEPT !.at = "pick"]] /\ UNCHANGED ruleVars
    BY <1>2, <1>4, <1>8
  <2>2. \A d \in Conn : detect'[d] = detect[d]
    BY <1>1, <2>1, RulesStay
  <2> QED BY <1>7, <1>8, <2>1, <2>2
<1>9. CASE l.session.user # None
  <2>1. /\ link' = [link EXCEPT ![c] = [l EXCEPT !.at = "detect"]]
        /\ Detect(c, l.session.user, l.checked)
    BY <1>2, <1>4, <1>9
  <2>2. l.session.user \in Email
    BY <1>5, <1>9, DispatcherAssumption
  <2>3. \A d \in Conn : d # c => detect'[d] = detect[d]
    BY <1>1, <2>1, <2>2, DetectKeepsInv
  <2> QED BY <1>7, <2>1, <2>3
<1> QED BY <1>8, <1>9

LEMMA DetectStepLeft ==
  ASSUME RuleInv, NEW c \in Conn, DetectStep(c)
  PROVE  /\ \A d \in Conn : d # c => detect'[d] = detect[d]
         /\ detect[c].at \in {"add", "store"}
         /\ DetectStage(detect'[c].at) < DetectStage(detect[c].at)
<1>1. \A d \in Conn : d # c => detect'[d] = detect[d]
  BY AddResultKeepsInv, StoreResultsKeepsInv DEF DetectStep
<1>2. PICK step \in {"recorded", "store"} :
        /\ detect' = [detect EXCEPT ![c].at = step]
        /\ detect[c].at = "add" \/ (detect[c].at = "store" /\ step = "recorded")
  BY DEF DetectStep, AddResult, StoreResults
<1>3. detect'[c].at = step
  BY <1>2, DetectMoves DEF RuleInv, RuleTypes
<1> QED BY <1>1, <1>2, <1>3 DEF DetectStage

LEMMA OwnStepLeft ==
  ASSUME DispatcherInv, AskedInv, NEW c \in Conn, OwnStep(c)
  PROVE  Alone(c) /\ StepsLeft(c)' < StepsLeft(c) /\ AskedRight(c)'
<1>1. LimiterInv /\ RuleInv /\ LinkInv /\ AskedRight(c)
  BY DEF DispatcherInv, AskedInv
<1>2. /\ LinkStage(link[c].at) \in Nat /\ DetectStage(detect[c].at) \in Nat
      /\ CallLeft(c) \in Nat /\ CallLeft(c)' \in Nat /\ DetectStage(detect'[c].at) \in Nat
  BY DEF LinkStage, DetectStage, CallLeft, CallStage
<1>3. CASE LimiterStep(c) /\ UNCHANGED << ruleVars, link, handlers, changes >>
  <2>1. /\ \A d \in Conn : d # c => call'[d] = call[d]
        /\ call'[c].at # "idle" /\ CallLeft(c)' < CallLeft(c)
    BY <1>1, <1>3, LimiterStepLeft
  <2>2. UNCHANGED link /\ \A d \in Conn : detect'[d] = detect[d]
    BY <1>1, <1>3, RulesStay
  <2>3. StepsLeft(c)' < StepsLeft(c)
    BY <1>2, <2>1, <2>2 DEF StepsLeft
  <2> QED BY <1>1, <2>1, <2>2, <2>3 DEF Alone, AskedRight
<1>4. CASE DetectStep(c) /\ UNCHANGED << limiterVars, link, handlers, changes >>
  <2>1. /\ \A d \in Conn : d # c => detect'[d] = detect[d]
        /\ detect[c].at \in {"add", "store"}
        /\ DetectStage(detect'[c].at) < DetectStage(detect[c].at)
    BY <1>1, <1>4, DetectStepLeft
  <2>2. UNCHANGED << link, call >>
    BY <1>4 DEF limiterVars
  <2>3. CallLeft(c)' = CallLeft(c)
    BY <2>2 DEF CallLeft
  <2>4. StepsLeft(c)' < StepsLeft(c)
    BY <1>2, <2>1, <2>2, <2>3 DEF StepsLeft
  <2> QED BY <1>1, <2>1, <2>2, <2>4 DEF Alone, AskedRight
<1>5. CASE getLink(c)
  <2>1. PICK step \in LinkSteps :
          /\ Step(c, step) /\ UNCHANGED << limiterVars, ruleVars >>
          /\ link[c].at = "limit" /\ step \in {"route", "refused"}
    BY <1>5 DEF getLink, LinkSteps
  <2> QED BY <2>1, PlainLeft
<1>6. CASE CloseRejected(c)
  <2>1. /\ Step(c, "closed") /\ UNCHANGED << limiterVars, ruleVars >>
        /\ link[c].at = "detect" /\ "closed" \in LinkSteps
    BY <1>6 DEF CloseRejected, LinkSteps
  <2> QED BY <2>1, PlainLeft
<1>7. CASE PickHandler(c)
  <2>1. PICK step \in LinkSteps :
          /\ Step(c, step) /\ UNCHANGED << limiterVars, ruleVars >>
          /\ Allowed(c) /\ step \in {"outbound", "closed"}
    BY <1>7 DEF PickHandler, LinkSteps
  <2>2. link[c].at \in {"detect", "pick"}
    BY <2>1 DEF Allowed
  <2> QED BY <2>1, <2>2, PlainLeft
<1>8. CASE routedDispatch(c)
  BY <1>8, RoutedLeft
<1>9. CASE \E s \in Session : Dispatch(c, s) \/ DispatchLink(c, s)
  BY <1>9, DispatchLeft, DispatchLinkLeft
<1> QED BY <1>3, <1>4, <1>5, <1>6, <1>7, <1>8, <1>9 DEF OwnStep, Work

\* The controller leaves the connections where they are.
LEMMA ControllerLeaves ==
  ASSUME DispatcherInv, ControllerStep
  PROVE  \A c \in Conn : link'[c] = link[c] /\ call'[c] = call[c] /\ detect'[c] = detect[c]
<1>1. UNCHANGED link
  BY DEF ControllerStep, OutboundChange
<1>2. UNCHANGED call
  BY DEF ControllerStep, LimiterCall, LimiterWork, CacheStep, AddInboundLimiter, DeleteInboundLimiter,
         UpdateUser, GetOnlineDevice, UpdateBucket, ClearBucket, ResetOnline, Expire, OtherNode,
         OutboundChange, limiterVars
<1>3. UNCHANGED detect
  BY DEF ControllerStep, OutboundChange, GetDetectResult, UpdateRule, ReadResults, ruleVars
<1> QED BY <1>1, <1>2, <1>3

LEMMA NextLeft ==
  ASSUME DispatcherInv, AskedInv, [Next]_vars
  PROVE  /\ AskedInv'
         /\ \A c \in Conn : \/ OwnStep(c) /\ StepsLeft(c)' < StepsLeft(c)
                            \/ ~OwnStep(c) /\ StepsLeft(c)' = StepsLeft(c)
<1>1. ASSUME NEW c \in Conn, link'[c] = link[c], call'[c] = call[c], detect'[c] = detect[c]
      PROVE  AskedRight(c)' /\ StepsLeft(c)' = StepsLeft(c)
  BY <1>1 DEF AskedInv, AskedRight, StepsLeft, CallLeft
<1>2. \A c \in Conn : OwnStep(c) => StepsLeft(c)' < StepsLeft(c)
  BY OwnStepLeft
<1>3. /\ \A c \in Conn : AskedRight(c)'
      /\ \A c \in Conn : ~OwnStep(c) => StepsLeft(c)' = StepsLeft(c)
  <2>1. CASE ControllerStep
    BY <1>1, <2>1, ControllerLeaves
  <2>2. CASE \E c \in Conn : OwnStep(c)
    <3>1. PICK c \in Conn : OwnStep(c)
      BY <2>2
    <3> QED BY <1>1, <3>1, OwnStepLeft DEF Alone
  <2>3. CASE UNCHANGED vars
    BY <1>1, <2>3 DEF vars, limiterVars, ruleVars
  <2> QED BY <2>1, <2>2, <2>3 DEF Next, OwnStep
<1> QED BY <1>2, <1>3 DEF AskedInv

LEMMA InitAsked == Init => AskedInv
<1> SUFFICES ASSUME Init, NEW c \in Conn PROVE AskedRight(c)
  BY DEF AskedInv
<1>1. link[c].at = "new"
  BY DEF Init, NoLink
<1> QED BY <1>1 DEF AskedRight

LEMMA AskedHolds == Spec => []AskedInv
<1>1. DispatcherInv /\ AskedInv /\ [Next]_vars => AskedInv'
  BY NextLeft
<1> QED BY <1>1, InitAsked, DispatcherInvHolds, PTL DEF Spec

\* Nothing gets out unasked: whatever is handed to an outbound was admitted by
\* the limiter, if it is a user's own connection, and allowed by the audit
\* rules that there were, if it is a user's at all.
OutboundIsChecked ==
  \A c \in Conn : link[c].at = "outbound" =>
    /\ AsksLimiter(link[c].session) => call[c].at = "admitted"
    /\ link[c].session.user # None => detect[c].at = "allowed"

\* However the limiter, the rules and the handlers change meanwhile, a link of
\* a user that the limiter or the audit rules reject is never handed over.
THEOREM OutboundsAreChecked == Spec => []OutboundIsChecked
<1>1. DispatcherInv /\ AskedInv => OutboundIsChecked
  BY DEF DispatcherInv, LinkInv, LinkRight, AskedInv, AskedRight, OutboundIsChecked
<1> QED BY <1>1, DispatcherInvHolds, AskedHolds, PTL

\* Dispatch, its GetUserBucket, its push and its Detect are at most
\* nineteen steps: each of its own steps leaves fewer, and nothing that the
\* controller, the cache or another connection does leaves more.
THEOREM DispatchIsBounded ==
  Spec => [][\A c \in Conn : /\ StepsLeft(c) \in 0 .. 19
                             /\ OwnStep(c) => StepsLeft(c)' < StepsLeft(c)
                             /\ ~OwnStep(c) => StepsLeft(c)' = StepsLeft(c)]_vars
<1> DEFINE A == \A c \in Conn : /\ StepsLeft(c) \in 0 .. 19
                                /\ OwnStep(c) => StepsLeft(c)' < StepsLeft(c)
                                /\ ~OwnStep(c) => StepsLeft(c)' = StepsLeft(c)
<1>1. DispatcherInv /\ AskedInv /\ [Next]_vars => A
  <2> SUFFICES ASSUME DispatcherInv, AskedInv, [Next]_vars PROVE A
    OBVIOUS
  <2>1. \A c \in Conn : \/ OwnStep(c) /\ StepsLeft(c)' < StepsLeft(c)
                        \/ ~OwnStep(c) /\ StepsLeft(c)' = StepsLeft(c)
    BY NextLeft
  <2>2. \A c \in Conn : StepsLeft(c) \in 0 .. 19
    <3>1. \A c \in Conn : call[c].at = "idle" => call[c].push = {}
      BY DEF DispatcherInv, LimiterInv, ShapeInv
    <3> QED BY <3>1 DEF StepsLeft, LinkStage, CallLeft, CallStage, DetectStage
  <2>3. \A c \in Conn : OwnStep(c) => StepsLeft(c)' < StepsLeft(c)
    BY <2>1
  <2>4. \A c \in Conn : ~OwnStep(c) => StepsLeft(c)' = StepsLeft(c)
    BY <2>1
  <2> QED BY <2>2, <2>3, <2>4
<1> HIDE DEF A
<1>2. Spec => [][A]_vars
  BY <1>1, DispatcherInvHolds, AskedHolds, PTL DEF Spec
<1> QED BY <1>2 DEF A

\* What a connection that is being dispatched waits for is its own next step:
\* a step of GetUserBucket, its answer, the sniffers, a step of Detect, its
\* answer or the choice of an outbound.
NextStepIsItsOwn ==
  \A c \in Conn :
    /\ link[c].at = "limit" => call[c].at \in {"join", "add", "count", "global", "speed", "admitted", "rejected"}
    /\ link[c].at = "route" => detect[c].at = "idle"
    /\ link[c].at = "detect" => detect[c].at \in {"add", "store"} \/ Rejects(c) \/ Allowed(c)

\* A dispatch waits for nobody else: where it may go on, the guard of one of
\* its own steps holds.
THEOREM DispatchesGoOn == Spec => []NextStepIsItsOwn
<1>1. DispatcherInv /\ AskedInv => NextStepIsItsOwn
  <2> SUFFICES ASSUME DispatcherInv, AskedInv, NEW c \in Conn
               PROVE  /\ link[c].at = "limit" => call[c].at \in CallStep \ {"idle"}
                      /\ link[c].at = "route" => detect[c].at = "idle"
                      /\ link[c].at = "detect" => detect[c].at \in {"add", "store"} \/ Rejects(c) \/ Allowed(c)
    BY DEF NextStepIsItsOwn, CallStep
  <2>1. LinkRight(c) /\ AskedRight(c)
    BY DEF DispatcherInv, LinkInv, AskedInv
  <2>2. call[c].at \in CallStep
    BY DEF DispatcherInv, LimiterInv, LimiterTypeOK, CallStep
  <2>3. detect[c].at \in {"idle", "allowed", "unrecorded", "add", "store", "recorded"}
    BY DEF DispatcherInv, RuleInv, RuleTypes, DetectRecord
  <2> QED BY <2>1, <2>2, <2>3 DEF LinkRight, AskedRight, Rejects, Allowed
<1> QED BY <1>1, DispatcherInvHolds, AskedHolds, PTL
=============================================================================
