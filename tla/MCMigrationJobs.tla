--------------------------- MODULE MCMigrationJobs ---------------------------
(* Two nodes; three rows of one table and one of the other, in batches of two. *)
EXTENDS MigrationJobs, TLC

CONSTANTS n1, n2

ThreeAndOne == ("TeamMembers" :> 3) @@ ("ChannelMembers" :> 1)
OneAndOne   == ("TeamMembers" :> 1) @@ ("ChannelMembers" :> 1)
Swap        == Permutations({n1, n2})

\* Failures, or requests of an administrator, but not both in one behavior.
NoRequests == [Unused EXCEPT !.cancels = MaxCancels, !.stops = MaxStops]
NoFailures == [Unused EXCEPT !.errors = MaxErrors, !.crashes = MaxCrashes, !.changes = MaxChanges]

EitherSpec == (Started(NoRequests) \/ Started(NoFailures)) /\ [][Next]_vars /\ Fairness
=============================================================================
