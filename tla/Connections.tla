---------------------------- MODULE Connections ----------------------------
(***************************************************************************)
(* What the limiter, the audit rules and the dispatcher of an inbound have *)
(* in common: the connections and the users they belong to.                *)
(***************************************************************************)

CONSTANTS
  Conn,   \* connections, each of which is dispatched at most once
  Email   \* users, by the email that xray-core knows them by

None == "none"

ASSUME ConnAssumption == None \notin Conn /\ None \notin Email

=============================================================================
