---------------------------- MODULE RuleManager ----------------------------
(***************************************************************************)
(* The audit rules of one tag (common/rule): Detect, which a connection    *)
(* asks before it is routed, records whom it has rejected; UpdateRule and  *)
(* GetDetectResult are the controller's.  A set of results has the name of *)
(* the connection that made it.                                            *)
(***************************************************************************)
EXTENDS Connections, Integers, Sequences

CONSTANTS
  Destination, \* destinations
  RuleLists    \* the rule lists of the panel: [id |-> ..., matches |-> ...]

Rule == [id : Int, matches : SUBSET Destination]

ASSUME RuleAssumption == RuleLists \subseteq Seq(Rule)

VARIABLES
  rules,      \* InboundRule of the tag, which Start has set
  results,    \* InboundDetectResult: the set of the tag
  found,      \* what is in each set: a user's email and a rule's ID
  detect,     \* Detect, for each connection
  reader,     \* the set that GetDetectResult is reading
  detections, \* history: everything that GetDetectResult has returned
  overwritten \* history: what was in a set when another one took its place

ruleVars == << rules, results, found, detect, reader, detections, overwritten >>

\* A new list takes effect for the connections that are checked from now on.
UpdateRule(list) ==
  /\ list # rules
  /\ rules' = list
  /\ UNCHANGED << results, found, detect, reader, detections, overwritten >>

\* The set is taken away, and then read: a Detect that has loaded it adds to
\* it meanwhile.
GetDetectResult ==
  /\ reader = None
  /\ results # None
  /\ reader' = results
  /\ results' = None
  /\ UNCHANGED << rules, found, detect, detections, overwritten >>

ReadResults ==
  /\ reader # None
  /\ detections' = detections \cup found[reader]
  /\ reader' = None
  /\ UNCHANGED << rules, results, found, detect, overwritten >>

(***************************************************************************)
(* Detect.                                                                 *)
(***************************************************************************)

Unchecked == [at |-> "idle", hit |-> << >>, set |-> None]

Hits(d) == {i \in DOMAIN rules : d \in rules[i].matches}

\* The ID of the first rule that matches; -1 is a rule of the local list.
FirstHit(d) == rules[CHOOSE i \in Hits(d) : \A j \in Hits(d) : i <= j].id

\* LoadOrStore of a set with the result, after the rules have been loaded.
Detect(c, e, d) ==
  /\ detect[c].at = "idle"
  /\ IF Hits(d) = {}
     THEN /\ detect' = [detect EXCEPT ![c].at = "allowed"]
          /\ UNCHANGED << results, found >>
     ELSE IF FirstHit(d) = -1
     THEN /\ detect' = [detect EXCEPT ![c].at = "unrecorded"]
          /\ UNCHANGED << results, found >>
     ELSE LET hit == << e, FirstHit(d) >>
          IN  IF results = None
              THEN /\ results' = c
                   /\ found' = [found EXCEPT ![c] = {hit}]
                   /\ detect' = [detect EXCEPT ![c] = [at |-> "recorded", hit |-> hit, set |-> c]]
              ELSE /\ detect' = [detect EXCEPT ![c] = [at |-> "add", hit |-> hit, set |-> results]]
                   /\ UNCHANGED << results, found >>
  /\ UNCHANGED << rules, reader, detections, overwritten >>

\* Faulty: a set that has grown is not stored again.
AddResult_only(c) ==
  LET s == detect[c].set
  IN  /\ detect[c].at = "add"
      /\ found' = [found EXCEPT ![s] = @ \cup {detect[c].hit}]
      /\ detect' = [detect EXCEPT ![c].at = "recorded"]
      /\ UNCHANGED << rules, results, reader, detections, overwritten >>

\* The result is added to the set that was loaded.  If it is new there, the
\* set is stored again.
AddResult(c) ==
  LET s == detect[c].set
  IN  /\ detect[c].at = "add"
      /\ found' = [found EXCEPT ![s] = @ \cup {detect[c].hit}]
      /\ detect' = [detect EXCEPT ![c].at = IF detect[c].hit \in found[s] THEN "recorded" ELSE "store"]
      /\ UNCHANGED << rules, results, reader, detections, overwritten >>

\* Whatever set is there meanwhile is overwritten.
StoreResults(c) ==
  LET s == detect[c].set
  IN  /\ detect[c].at = "store"
      /\ results' = s
      /\ overwritten' = IF results \in {None, s} THEN overwritten ELSE overwritten \cup found[results]
      /\ detect' = [detect EXCEPT ![c].at = "recorded"]
      /\ UNCHANGED << rules, found, reader, detections >>

DetectStep(c) == AddResult(c) \/ StoreResults(c)

Rejects(c) == detect[c].at \in {"recorded", "unrecorded"}

RuleInit ==
  /\ rules \in RuleLists
  /\ results = None
  /\ found = [c \in Conn |-> {}]
  /\ detect = [c \in Conn |-> Unchecked]
  /\ reader = None
  /\ detections = {}
  /\ overwritten = {}

(***************************************************************************)
(* Properties.                                                             *)
(***************************************************************************)

RuleTypeOK ==
  /\ rules \in RuleLists
  /\ results \in Conn \cup {None} /\ reader \in Conn \cup {None}
  /\ \A c \in Conn :
       /\ found[c] \subseteq Email \X Int
       /\ detect[c].at \in {"idle", "allowed", "unrecorded", "add", "store", "recorded"}
       /\ detect[c].at \in {"add", "store", "recorded"} =>
            detect[c].set \in Conn /\ detect[c].hit \in Email \X Int
  /\ detections \subseteq Email \X Int /\ overwritten \subseteq Email \X Int

\* What is in the set of the tag, is being read or will be stored again.
Kept ==
  detections \cup overwritten
    \cup (UNION {found[s] : s \in {results, reader} \cap Conn})
    \cup (UNION {found[detect[c].set] : c \in {x \in Conn : detect[x].at = "store"}})

\* A detection that was recorded is reported, or will be; it is lost only when
\* a Detect stores a set again that GetDetectResult has taken away, and
\* another set has come in its place.
DetectionKept ==
  \A c \in Conn : detect[c].at = "recorded" => detect[c].hit \in Kept

=============================================================================
