---------------------------- MODULE OrphanCascade ---------------------------
(***************************************************************************)
(* apply_orphan_discard pass by pass (handle-graph-core/src/orphan.rs).    *)
(* The call tombstones the records of the orphaned events, then repeats a  *)
(* pass over all records that tombstones the direct dependents of          *)
(* tombstoned records, and returns after the first pass that finds none.   *)
(* HandleGraph takes the call for one step to the least set closed under   *)
(* lineage; here it is shown that the loop computes that set, that it ends *)
(* and that the outcome it returns is exactly what it changed.             *)
(*                                                                         *)
(* The call holds &mut self: no other operation runs between its passes.   *)
(***************************************************************************)
EXTENDS HandleGraph

VARIABLES
  pc,        \* "idle", or "cascade" while the call is in its loop
  before,    \* the records when the call began (history)
  orphaned,  \* the call's argument, orphaned_event_refs
  directly_tombstoned,  \* the keys in the two lists of the OrphanDiscardOutcome
  cascade_tombstoned,
  named_again           \* the keys named in them more than once

outcomeVars == <<directly_tombstoned, cascade_tombstoned, named_again>>
callVars    == <<pc, before, orphaned, outcomeVars>>
vars == <<graphVars, callVars>>

\* Mutant: a pass does not skip tombstoned records.
NewlyTombstonedAgain(recs) == Dependents(recs, Tombstoned(recs))

\* Mutant: only the dependents of the orphaned records are looked for.
NewlyTombstonedDirect(recs) == Dependents(recs, directly_tombstoned) \ Tombstoned(recs)

\* The records a pass tombstones: still canonical, with a tombstoned input.
NewlyTombstoned(recs) == Dependents(recs, Tombstoned(recs)) \ Tombstoned(recs)

BeginDiscard(refs) ==
  LET direct == DirectlyTombstoned(records, refs)
  IN  /\ pc = "idle"
      /\ pc' = "cascade"
      /\ before' = records
      /\ orphaned' = refs
      /\ directly_tombstoned' = direct
      /\ cascade_tombstoned' = {}
      /\ named_again' = {}
      /\ records' = MarkTombstoned(records, direct)
      /\ UNCHANGED <<consumed_events, plaintext_key_id>>

\* One pass; its keys are appended to the list, which does not look for those
\* it has already.
CascadePass ==
  LET newly == NewlyTombstoned(records)
  IN  /\ pc = "cascade"
      /\ newly # {}
      /\ records' = MarkTombstoned(records, newly)
      /\ cascade_tombstoned' = cascade_tombstoned \cup newly
      /\ named_again' =
           named_again \cup (newly \cap (directly_tombstoned \cup cascade_tombstoned))
      /\ UNCHANGED <<consumed_events, plaintext_key_id, pc, before, orphaned,
                     directly_tombstoned>>

\* The call returns its outcome and its local variables are gone.
EndDiscard ==
  /\ pc = "cascade"
  /\ NewlyTombstoned(records) = {}
  /\ pc' = "idle"
  /\ before' = [k \in {} |-> k]
  /\ orphaned' = {}
  /\ directly_tombstoned' = {}
  /\ cascade_tombstoned' = {}
  /\ named_again' = {}
  /\ UNCHANGED graphVars

\* Every other operation of the core runs between calls.
OtherOperation ==
  /\ pc = "idle"
  /\ \/ \E e \in ChainEvents : ApplyChainEvent(e)
     \/ \E k \in HandleKey, c \in SystemCiphertext : MaterializeDerivedHandle(k, c)
     \/ \E k \in HandleKey, why \in ResolutionFailure : FailDerivedHandle(k, why)
  /\ UNCHANGED callVars

Init ==
  /\ GraphInit
  /\ pc = "idle"
  /\ before = [k \in {} |-> k]
  /\ orphaned = {}
  /\ directly_tombstoned = {}
  /\ cascade_tombstoned = {}
  /\ named_again = {}

Next ==
  \/ \E refs \in OrphanSignals : BeginDiscard(refs)
  \/ CascadePass
  \/ EndDiscard
  \/ OtherOperation

\* A call, once begun, runs to its end.
Spec == Init /\ [][Next]_vars /\ WF_vars(CascadePass \/ EndDiscard)

(***************************************************************************)
(* Properties.                                                             *)
(***************************************************************************)
\* The records as a caller sees them: a call in progress has not happened.
Visible == IF pc = "idle" THEN records ELSE before

Atomic == INSTANCE HandleGraph WITH records <- Visible

\* The loop does in one visible step what ApplyOrphanDiscard of HandleGraph
\* does: it reaches the least closed set of tombstones, and nothing else.
ImplementsAtomic == Atomic!GraphSpec

\* The loop ends, also over the cyclic lineages that Failed Derived Handles
\* may form.
DiscardTerminates == pc = "cascade" ~> pc = "idle"

\* The outcome names each record the call has flipped once and no other.
\* (Each pass tombstones records no earlier pass did, although it looks at all
\* of them.)  apply_orphan_discard_with_persistence writes what the outcome
\* names, as often as it names it.
OutcomeIsDelta ==
  pc = "cascade" =>
    /\ named_again = {}
    /\ directly_tombstoned \cap cascade_tombstoned = {}
    /\ directly_tombstoned \cup cascade_tombstoned
         = Tombstoned(records) \ Tombstoned(before)

(***************************************************************************)
(* The loop invariant: the records are those of before with some more      *)
(* tombstones, at least the direct ones and at most the least closed set.  *)
(***************************************************************************)
CascadeStart == Tombstoned(before) \cup DirectlyTombstoned(before, orphaned)

LoopInv ==
  /\ pc \in {"idle", "cascade"}
  /\ pc = "cascade" =>
       /\ orphaned \in OrphanSignals
       /\ records = MarkTombstoned(before, Tombstoned(records))
       /\ CascadeStart \subseteq Tombstoned(records)
       /\ Tombstoned(records) \subseteq Cascade(before, CascadeStart)
=============================================================================
