------------------------------ MODULE MCCapacity ------------------------------
(***************************************************************************)
(* For TLC: CapacityMirror, and RowLocks with rows as small numbers in the *)
(* common order.  The two share no state, so a behaviour is one of either, *)
(* chosen at the start, while the other stands still.  Claims and readers  *)
(* are interchangeable.                                                    *)
(***************************************************************************)
EXTENDS CapacityMirror, RowLocks, TLC

VARIABLE which

MCInit == which \in {"capacity", "locks"} /\ Init /\ LockInit

MCNext ==
  \/ which = "capacity" /\ Next /\ UNCHANGED <<which, lockVars>>
  \/ which = "locks" /\ LockNext /\ UNCHANGED <<which, vars>>

MCSpec == MCInit /\ [][MCNext]_<<which, vars, lockVars>>

Symm == Permutations(Claim) \cup Permutations(Reader)

=============================================================================
