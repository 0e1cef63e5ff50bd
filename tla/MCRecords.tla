------------------------------ MODULE MCRecords ------------------------------
(* Instances of CompositionViews, AssetFiles and CreditHistory for TLC, side *)
(* by side: they share no state, so that their steps need not be             *)
(* interleaved.                                                              *)
EXTENDS CompositionViews, Naturals, FiniteSets, TLC

CONSTANTS Photos, Results, Tokens, Requests, MaxWrites, NoToken, NoAsset
CONSTANTS RowIds, Writers, Limit, MaxTime

VARIABLES assets, links, public, private, written, phase, manifest, tool, session
VARIABLES now, table, pending, reader

moving == <<assets, links, public, private, written, phase, manifest, tool, session>>
history == <<now, table, pending, reader>>

VARIABLE component   \* the one that takes steps

A == INSTANCE AssetFiles
H == INSTANCE CreditHistory WITH Ids <- RowIds

ASSUME A!AssetAssumption /\ H!HistoryAssumption

\* The same model values stand for jobs and photographs, for streams and
\* tokens, for forms and writers: each pair has one symmetry.
Symmetry == Permutations(Jobs) \cup Permutations(Streams) \cup Permutations(Forms)

MCInit ==
  /\ Init /\ A!Init /\ H!Init
  /\ component = "history" \/ (component \in {"views", "assets"} /\ reader.list = "pass")

MCNext ==
  \/ component = "views" /\ Next /\ UNCHANGED <<moving, history, component>>
  \/ component = "assets" /\ A!Next /\ UNCHANGED <<vars, history, component>>
  \/ component = "history" /\ H!Next /\ UNCHANGED <<vars, moving, component>>

\* Bound: the clients of compositions that have something open.
FewClients ==
  Cardinality({v \in Streams : stream[v] # NoStream})
    + Cardinality({f \in Forms : form[f] # NoForm}) <= 2

MCSpec == MCInit /\ [][MCNext]_<<vars, moving, history, component>>

\* The properties of AssetFiles and CreditHistory, for the instances above.
AssetsAreThere == A!AssetsAreThere
HistoryIsWhole == H!HistoryIsWhole
=============================================================================
