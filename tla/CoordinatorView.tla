--------------------------- MODULE CoordinatorView ---------------------------
(***************************************************************************)
(* What the Coprocessor promises a Coordinator about a Handle, whatever    *)
(* happens inside: a Handle Key is unknown until the chain names it, then  *)
(* refused, Pending or Ready; a Pending one becomes Ready or Failed, once; *)
(* and a key that is withdrawn because its event was orphaned, alone or    *)
(* with everything derived from it, reads unknown from then on.            *)
(*                                                                         *)
(* An abstract specification: module CoordinatorApi shows that the Handle  *)
(* Graph Core and the projection of its records implement it.              *)
(***************************************************************************)
CONSTANT HandleKey

VARIABLES
  view,       \* Handle Key -> HandleStateView
  withdrawn   \* the keys that were discarded

Unknown          == [tag |-> "Unknown"]
Pending          == [tag |-> "Pending"]
Failed(category) == [tag |-> "Failed", category |-> category]

\* The categories of an operation refused at ingestion, and of a resolution
\* that failed.
RefusalCategory    == {"LineageViolation", "OperationViolation"}
ResolutionCategory == {"MpcTransformationFailure", "EnclaveExecutionFailure",
                       "MaterializationFailure"}

Init ==
  /\ view = [k \in HandleKey |-> Unknown]
  /\ withdrawn = {}

\* Only the view of k changes.
OnlyViewOf(k) == view' = [view EXCEPT ![k] = view'[k]] /\ UNCHANGED withdrawn

\* The chain names a Handle.
Announce(k) ==
  /\ view[k] = Unknown
  /\ k \notin withdrawn
  /\ OnlyViewOf(k)
  /\ \/ view'[k] = Pending
     \/ view'[k].tag = "Ready"
     \/ \E category \in RefusalCategory : view'[k] = Failed(category)

\* Its resolution ends.
Settle(k) ==
  /\ view[k] = Pending
  /\ OnlyViewOf(k)
  /\ \/ view'[k].tag = "Ready"
     \/ \E category \in ResolutionCategory : view'[k] = Failed(category)

\* An Orphan Discard takes any number of known Handles away, for good.
Withdraw ==
  LET keys == withdrawn' \ withdrawn
  IN  /\ withdrawn \subseteq withdrawn'
      /\ \A k \in keys : view[k] # Unknown
      /\ view' = [k \in HandleKey |-> IF k \in keys THEN Unknown ELSE view[k]]

Next == Withdraw \/ \E k \in HandleKey : Announce(k) \/ Settle(k)

Spec == Init /\ [][Next]_<<view, withdrawn>>
=============================================================================
