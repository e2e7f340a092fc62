---------------------------- MODULE MCNodeFiles ----------------------------
(***************************************************************************)
(* NodeFiles for TLC: commands are interchangeable, and what is remembered *)
(* of a command counts until the next one begins.                          *)
(***************************************************************************)
EXTENDS NodeFiles, TLC

Interchangeable == Permutations(Cmd)

\* Of a command that is over nothing counts any more but whether its files work.
Forgotten(c) == job[c].at \in Ended /\ last # c

WithoutForgotten ==
  << file, run, last,
     [c \in Cmd |-> IF Forgotten(c) THEN << job[c].at, job[c].works >>
                                    ELSE << job[c], before[c], harm[c] >>] >>

=============================================================================
