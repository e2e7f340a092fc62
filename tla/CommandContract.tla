-------------------------- MODULE CommandContract --------------------------
(***************************************************************************)
(* What the Center and the agent together promise about commands, without  *)
(* connections, goroutines or messages: an administrator queues a command  *)
(* (of a checked type only when the node grants it), the node carries it   *)
(* out any number of times, and a verdict is recorded that claims SUCCESS  *)
(* only of a command carried out.  A verdict is not final: the handlers    *)
(* that write the status do not look at it, so a verdict can be reopened   *)
(* or replaced.                                                            *)
(***************************************************************************)
CONSTANTS
  Cmd,         \* command ids
  AllTypes,    \* command types
  Unchecked,   \* types queued without asking the node's settings
  Verdicts     \* statuses a result may carry

VARIABLES
  granted,     \* types the node allowed at some time
  queued,      \* the type of a queued command, "none" before
  performed,   \* commands carried out
  verdict      \* the recorded result, "none" without one

contractVars == << granted, queued, performed, verdict >>

ContractInit ==
  /\ granted = {}
  /\ queued = [c \in Cmd |-> "none"]
  /\ performed = {}
  /\ verdict = [c \in Cmd |-> "none"]

Grant ==
  /\ granted' \in SUBSET AllTypes
  /\ granted \subseteq granted'
  /\ UNCHANGED << queued, performed, verdict >>

Queue(c, t) ==
  /\ queued[c] = "none"
  /\ t \in granted \cup Unchecked
  /\ queued' = [queued EXCEPT ![c] = t]
  /\ UNCHANGED << granted, performed, verdict >>

Perform(c) ==
  /\ queued[c] # "none"
  /\ performed' = performed \cup {c}
  /\ UNCHANGED << granted, queued, verdict >>

Conclude(c, v) ==
  /\ queued[c] # "none"
  /\ v = "SUCCESS" => c \in performed
  /\ verdict' = [verdict EXCEPT ![c] = v]
  /\ UNCHANGED << granted, queued, performed >>

Reopen(c) ==
  /\ verdict' = [verdict EXCEPT ![c] = "none"]
  /\ UNCHANGED << granted, queued, performed >>

ContractNext ==
  \/ Grant
  \/ \E c \in Cmd :
       \/ \E t \in AllTypes : Queue(c, t)
       \/ Perform(c)
       \/ \E v \in Verdicts : Conclude(c, v)
       \/ Reopen(c)

ContractSpec == ContractInit /\ [][ContractNext]_contractVars

\* What the contract adds up to: only a queued command is carried out or has a
\* verdict, a SUCCESS is recorded only of one carried out, and what is queued
\* was granted or needs no grant.
ContractKept ==
  /\ \A c \in performed : queued[c] # "none"
  /\ \A c \in Cmd : verdict[c] # "none" => queued[c] # "none"
  /\ \A c \in Cmd : verdict[c] = "SUCCESS" => c \in performed
  /\ \A c \in Cmd : queued[c] \in {"none"} \cup granted \cup Unchecked

=============================================================================
