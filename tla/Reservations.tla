---------------------------- MODULE Reservations -----------------------------
(***************************************************************************)
(* Sums over the rows of a table (src/capacity.cr asks SQLite for them).   *)
(* A sum is the number of units all rows hold together, so that the        *)
(* theorems on finite sets apply to it.                                    *)
(***************************************************************************)
EXTENDS Integers, FiniteSets

\* One pair for each unit of r that a row of S holds.
Units(f, S, r) == UNION {{s} \X (1..f[s][r]) : s \in S}

\* sum(f.r) over the rows of S.
Sum(f, S, r) == Cardinality(Units(f, S, r))
=============================================================================
