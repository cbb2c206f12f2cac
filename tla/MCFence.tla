------------------------------- MODULE MCFence -------------------------------
(***************************************************************************)
(* Forward-adjusted history under corporate-action rebases: two tasks that *)
(* race through the Hub's fence over two days, and one task at a time over *)
(* three days, once from a provider that declares authoritative history    *)
(* and once from one that does not.                                        *)
(***************************************************************************)
EXTENDS AnalysisStream, TLC

VARIABLE scenario

Trusted == INSTANCE AnalysisStream WITH Authoritative <- TRUE

\* Bounds of the race: two days, and half the changes of the provider.
RaceBounds == today' <= 2 /\ 2 * edition' <= MaxEdition
\* At most one task or request of a task is in flight.
OneAtATime == \E j \in Jobs : \A k \in Jobs \ {j} : job'[k] = IdleJob /\ sync'[k] = IdleSync

\* Three days published by the provider, nothing stored yet.
ThreeDays ==
    /\ today = 3 /\ edition = 4 /\ feed_revision = 1
    /\ feed = [d \in Days |-> [edition |-> d + 1, revision |-> 1]]
    /\ NothingStored
MCInit ==
    \/ scenario = "race" /\ Init
    \/ scenario \in {"trusted", "untrusted"} /\ ThreeDays

MCNext ==
    \/ scenario = "race" /\ Next /\ RaceBounds /\ UNCHANGED scenario
    \/ scenario = "trusted" /\ Trusted!Next /\ OneAtATime /\ UNCHANGED scenario
    \/ scenario = "untrusted" /\ Next /\ OneAtATime /\ UNCHANGED scenario
MCSpec == MCInit /\ [][MCNext]_<<scenario, vars>>

JobSymmetry == Permutations(Jobs)

\* AnalysisStream.NoUnauthorisedDeletion: only a rebase of an authoritative source
\* removes a stored day.
NoDeletionUnlessTrusted ==
    [][\A d \in Days : bars[d] # NoBar /\ bars'[d] = NoBar => scenario = "trusted"]_bars
=============================================================================
