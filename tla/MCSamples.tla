------------------------------ MODULE MCSamples ------------------------------
(***************************************************************************)
(* The sample recorder, with its variables and its promises under names of *)
(* their own: MCSymmetric model-checks it, and SampleProofs proves them of *)
(* any number of clients, iterators and samples.                           *)
(***************************************************************************)
EXTENDS Integers, FiniteSets

CONSTANTS Clients, Iterators, Samples, Graveyard, NoSample, max_samples_, MaxDropped

ASSUME SampleAssumption ==
    /\ IsFiniteSet(Clients) /\ Clients \cap Iterators = {}
    /\ Graveyard \notin Samples /\ NoSample \notin Samples \cup {Graveyard}
    /\ NoSample \notin Clients \cup Iterators
    /\ max_samples_ \in Nat /\ MaxDropped \in Nat

VARIABLES
    size_estimate_, dropped_samples_, all_, sample_next, dead, init_mu, ready,
    sample_pc, sample, must, seen

sampleVars == <<size_estimate_, dropped_samples_, all_, sample_next, dead, init_mu,
                ready, sample_pc, sample, must, seen>>

SR == INSTANCE SampleRecorder WITH None <- NoSample, next <- sample_next, pc <- sample_pc

\* SampleRecorder: Iterate calls f on finished samples under their lock and on all
\* that are registered throughout; size_estimate_ counts the samples.
SampleInv ==
    SR!TypeOK /\ SR!IteratesOverLive /\ SR!VisitsAllRegistered /\ SR!SizeIsCounted
=============================================================================
