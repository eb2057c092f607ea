-------------------------- MODULE MCCapturePipeline --------------------------
(***************************************************************************)
(* Instances of CapturePipeline for TLC.                                   *)
(***************************************************************************)
EXTENDS CapturePipeline, TLC

CONSTANTS e1, e2, e3, p1, p2, h1, h2

\* Every entry belongs to one project: its two hours are two files.
OneProject == [e \in Entry |-> p1]

\* One entry of another project: three projects' worth of paths is never needed.
TwoProjects == [e \in Entry |-> IF e = e1 THEN p1 ELSE p2]

\* No action compares two hours: they only tell the files of a project apart.
Hours == Permutations(Hour)

=============================================================================
