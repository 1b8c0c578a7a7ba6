----------------------------- MODULE ImageTable ------------------------------
(***************************************************************************)
(* The life of a row of the images table, as clients of the image API may  *)
(* rely on it: an image is built once, is usable only while READY, and its *)
(* deletion is never taken back. Images implements it, Lifecycle uses it.  *)
(***************************************************************************)
CONSTANT Images
VARIABLE row

RowStates == {"none", "BUILDING", "READY", "ERROR", "DELETING", "DELETED"}

Init == row = [i \in Images |-> "none"]

\* The transitions a row may make.
Edges ==
  {<<"none", "BUILDING">>, <<"BUILDING", "READY">>, <<"BUILDING", "ERROR">>,
   <<"READY", "DELETING">>, <<"ERROR", "DELETING">>, <<"DELETING", "DELETED">>}

Move(i) == \E e \in Edges : row[i] = e[1] /\ row' = [row EXCEPT ![i] = e[2]]

\* A restart of the service ends all builds at once.
Interrupt ==
  row' = [i \in Images |-> IF row[i] = "BUILDING" THEN "ERROR" ELSE row[i]]

Next == (\E i \in Images : Move(i)) \/ Interrupt

Spec == Init /\ [][Next]_row
=============================================================================
