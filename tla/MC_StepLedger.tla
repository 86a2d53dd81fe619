---------------------------- MODULE MC_StepLedger ----------------------------
(***************************************************************************)
(* StepLedger on small instances: every sequence of calls, by any clients. *)
(***************************************************************************)
EXTENDS StepLedger, TLC

CONSTANTS
    MaxVersion,   \* bound on the version of a record
    MaxToken      \* bound on the fencing tokens issued

Bounded ==
    /\ tokens <= MaxToken
    /\ \A k \in Keys : entries[k].version <= MaxVersion

MCNext ==
    \/ RecordCalls     /\ Bounded'
    \/ DecisionCalls   /\ Bounded'
    \/ LeaseCalls      /\ Bounded'
    \/ QueueCalls      /\ Bounded'
    \/ TransitionCalls /\ Bounded'
    \/ Expire          /\ Bounded'

MCSpec == LedgerInit /\ [][MCNext]_ledgerVars

Symmetry == Permutations(EffectKeys) \cup Permutations(Owners)
              \cup Permutations(Inputs) \cup Permutations(DecisionIds)

=============================================================================
