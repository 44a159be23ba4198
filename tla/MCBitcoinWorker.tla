-------------------------- MODULE MCBitcoinWorker --------------------------
(* BitcoinWorker for TLC in four scenes, each with the bounds its question   *)
(* needs; a behaviour stays in the scene it begins in.                       *)
EXTENDS BitcoinWorker, TLC

VARIABLE scene

Symmetry == Permutations(Procs)

\* Overlapping processes share the slot: the constants of the configuration.
\* One process works through several offers, the actor restarts, peers mine.
Ledger == INSTANCE BitcoinWorker WITH Ceiling <- 2, Batch <- 2, MaxOffer <- 2, MaxArms <- 2,
                                      MaxActor <- 1, MaxExternal <- 1

\* The network is paused and resumed.
Paused == INSTANCE BitcoinWorker WITH Edits <- {"Pause"}, Ceiling <- 0, Batch <- 1, MaxOffer <- 0,
                                      MaxGen <- 4

\* The participant is removed, selected again and removed for good.
Drained == INSTANCE BitcoinWorker WITH Edits <- {"Select"}, Ceiling <- 0,
                                       Batch <- 1, MaxOffer <- 0, MaxGen <- 4

SlotInit == scene = "Slot" /\ Init

MCInit ==
    \/ SlotInit
    \/ scene = "Ledger" /\ Ledger!Init
    \/ scene = "Pause" /\ Paused!Init
    \/ scene = "Drain" /\ Drained!Init

SlotNext == scene = "Slot" /\ Next /\ UNCHANGED scene

LedgerNext ==
    /\ scene = "Ledger" /\ Ledger!Next /\ UNCHANGED scene
    /\ Cardinality({p \in Procs : pc'[p] # "off"}) <= 1

PauseNext == scene = "Pause" /\ Paused!Next /\ UNCHANGED scene

DrainNext == scene = "Drain" /\ Drained!Next /\ UNCHANGED scene

MCNext == SlotNext \/ LedgerNext \/ PauseNext \/ DrainNext

MCSpec == MCInit /\ [][MCNext]_<<vars, scene>>

\* The shared slot alone, under the fairness of the specification.
LiveSpec == SlotInit /\ [][SlotNext]_<<vars, scene>> /\ Fairness
=============================================================================
