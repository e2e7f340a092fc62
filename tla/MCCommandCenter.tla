-------------------------- MODULE MCCommandCenter --------------------------
(***************************************************************************)
(* Instances of CommandCenter for TLC.                                     *)
(***************************************************************************)
EXTENDS CommandCenter, TLC

\* Commands are interchangeable, and so are connections.
Symmetry == Permutations(Cmd) \cup Permutations(Conn)

\* Bound of the run of the delivery: its faults happen to commands that need no
\* permission, and settings change around one connection that stays whole.
SettingsOrFaults ==
  \/ /\ node = [writable |-> FALSE, allow |-> {}] /\ granted = {}
     /\ \A c \in Cmd : ~dangerousCommand(ctype[c])
  \/ /\ \A k \in Conn : link[k] # "broken" /\ flush[k].at # "failed"
     /\ \A c \in Cmd : req[c].at # "failed"
     /\ \A j, k \in Conn : session[j] # "none" /\ session[k] # "none" => j = k

=============================================================================
