-------------------------- MODULE MCCommandSystem --------------------------
(***************************************************************************)
(* Instances of CommandSystem for TLC.                                     *)
(***************************************************************************)
EXTENDS CommandSystem, TLC

Symmetry == Permutations(Cmd) \cup Permutations(Conn) \cup Permutations(Slot)

\* Bounds of the liveness run.  There is one request, around a first connection
\* that breaks, or a second one after it as long as none broke; connections
\* are dialed and goroutines started in a fixed order, their names being
\* interchangeable.  This holds back administrators and faults, and never the
\* last step open to a process, so these are behaviours of FairSpec.
FirstCmd  == CHOOSE c \in Cmd : TRUE
FirstConn == CHOOSE k \in Conn : TRUE
FirstSlot == CHOOSE s \in Slot : TRUE

OnePlusOne ==
  /\ \A c \in Cmd \ {FirstCmd} : At(c, "idle") \/ (Unbroken /\ ~At(FirstCmd, "idle"))
  /\ \A k \in Conn \ {FirstConn} : link[k] # "broken"

InOrder ==
  /\ \A k \in Conn \ {FirstConn} : link'[k] = link[k] \/ link[FirstConn] # "none"
  /\ \A s \in Slot \ {FirstSlot} :
       slot[s].at # "idle" \/ slot'[s].at = "idle" \/ slot[FirstSlot].at # "idle"

BoundedNext == Next /\ OnePlusOne' /\ InOrder

BoundedFairSpec == Init /\ [][BoundedNext]_vars /\ Fairness

=============================================================================
