--------------------------------- MODULE Gallery ---------------------------------
(***************************************************************************)
(* Variables for components that are checked one beside the other. A run    *)
(* starts in one component and stays with it: only that one has a state, so *)
(* the components share the variables.                                      *)
(***************************************************************************)
EXTENDS Naturals

VARIABLES focus,   \* the component that takes steps
          v1, v2, v3, v4, v5, v6, v7, v8, v9, v10, v11

slots == <<v1, v2, v3, v4, v5, v6, v7, v8, v9, v10, v11>>

\* A component that has n variables leaves the others blank.
Blank(n) ==
  /\ IF n < 1 THEN v1 = 0 ELSE TRUE
  /\ IF n < 2 THEN v2 = 0 ELSE TRUE
  /\ IF n < 3 THEN v3 = 0 ELSE TRUE
  /\ IF n < 4 THEN v4 = 0 ELSE TRUE
  /\ IF n < 5 THEN v5 = 0 ELSE TRUE
  /\ IF n < 6 THEN v6 = 0 ELSE TRUE
  /\ IF n < 7 THEN v7 = 0 ELSE TRUE
  /\ IF n < 8 THEN v8 = 0 ELSE TRUE
  /\ IF n < 9 THEN v9 = 0 ELSE TRUE
  /\ IF n < 10 THEN v10 = 0 ELSE TRUE
  /\ IF n < 11 THEN v11 = 0 ELSE TRUE
Rest(n) ==
  /\ IF n < 1 THEN UNCHANGED v1 ELSE TRUE
  /\ IF n < 2 THEN UNCHANGED v2 ELSE TRUE
  /\ IF n < 3 THEN UNCHANGED v3 ELSE TRUE
  /\ IF n < 4 THEN UNCHANGED v4 ELSE TRUE
  /\ IF n < 5 THEN UNCHANGED v5 ELSE TRUE
  /\ IF n < 6 THEN UNCHANGED v6 ELSE TRUE
  /\ IF n < 7 THEN UNCHANGED v7 ELSE TRUE
  /\ IF n < 8 THEN UNCHANGED v8 ELSE TRUE
  /\ IF n < 9 THEN UNCHANGED v9 ELSE TRUE
  /\ IF n < 10 THEN UNCHANGED v10 ELSE TRUE
  /\ IF n < 11 THEN UNCHANGED v11 ELSE TRUE
=================================================================================
