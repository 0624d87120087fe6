------------------------- MODULE MCProviderAdmission -------------------------
(* Small instances of ProviderAdmission for TLC. *)
EXTENDS ProviderAdmission

\* Launches are interchangeable: what holds of one holds of each.
Watched == CHOOSE l \in Launches : TRUE

FairWatched == Spec /\ LaunchFairness(Watched)

\* The watched launch ends while another launch of the same allocation runs,
\* wins or loses the root, or is terminated: run_launcher's wait is bounded. And
\* the manager of a reader that died, be it just before its admission was
\* written, ends as well: no launch stays up over a dead provider.
WatchedLaunchEnds == LaunchEnds(Watched) /\ ManagerFollows(Watched)
=============================================================================
