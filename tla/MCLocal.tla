------------------------------- MODULE MCLocal -------------------------------
(* The registries of relay/local.rs: the namespaces, and the tracks of one   *)
(* namespace.  They are modelled with no common variable: a behaviour runs   *)
(* one of Parts, the other rests in its initial state.                       *)
EXTENDS LocalNamespaces, LocalTracks, TLC

CONSTANTS Parts   \* the components that run

VARIABLES part

ASSUME LocalAssumption == LocalNamespacesAssumption /\ LocalTracksAssumption

LocalVars == <<part, vars, trackVars>>

LocalInit == part \in Parts /\ Init /\ TracksInit

LocalNext ==
  \/ part = "namespaces" /\ Next /\ UNCHANGED <<part, trackVars>>
  \/ part = "tracks" /\ TracksNext /\ UNCHANGED <<part, vars>>

LocalSpec == LocalInit /\ [][LocalNext]_LocalVars

\* Callers differ only in their names, and so do namespaces.
Symmetry == Permutations(Callers) \cup Permutations(Namespaces)

-----------------------------------------------------------------------------
(* The types of both registries (local.rs).                                  *)
LocalTypeOK == TypeOK /\ TracksTypeOK

(* LocalNamespaces, LocalTracks: a SUBSCRIBE_NAMESPACE handler that has      *)
(* caught up knows the namespaces that are listed, and has PUBLISHed the     *)
(* track that is registered under a name, unless it had PUBLISHed an earlier *)
(* one of that name or its peer SUBSCRIBEd the name itself (producer.rs).    *)
(* Both registries keep their types.                                         *)
WatcherConverges == LocalTypeOK /\ NamespacesReach /\ TrackReaches
=============================================================================
