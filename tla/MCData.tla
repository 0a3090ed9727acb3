------------------------------- MODULE MCData -------------------------------
(* The data plane of one session, and the requests that have streams of     *)
(* their own.                                                               *)
EXTENDS Ingress, DatagramForwarder, NamespaceStreams, SessionLifecycle

CONSTANTS DataParts         \* the components that run

VARIABLES dataPart

ASSUME DataAssumption ==
  /\ DataParts \subseteq {"plane", "loss", "names", "life"}
  /\ Cases # {} /\ SetupCases # {}
  /\ ObjectForwarderAssumption /\ IngressAssumption /\ DatagramForwarderAssumption
  /\ NamespaceStreamsAssumption /\ LifecycleAssumption

U(id, size, chunk) == [id |-> id, size |-> size, chunk |-> chunk]

\* Two subgroups; objects with gaps, with and without payload.
MCStreams == 1 .. 2
MCUnits == <<<<U(0, 0, 0), U(2, 1, 0), U(2, 1, 1)>>, <<U(1, 1, 0), U(1, 1, 1), U(2, 0, 0)>>>>
TwoGroups == <<[group |-> 0, sub |-> 0], [group |-> 1, sub |-> 0]>>
SameSubgroup == <<[group |-> 1, sub |-> 0], [group |-> 1, sub |-> 0]>>

Asking(type, start, end, top) ==
  [forward |-> TRUE, filter |-> [type |-> type, start |-> start, end |-> end], largest |-> top]
Everything == Asking("none", NoLocation, NoEnd, NoLocation)
NotForwarded == [Everything EXCEPT !.forward = FALSE]

Case(k, c, a, kind, win, datagrams) ==
  [key |-> k, cut |-> c, asked |-> a, origin |-> kind, window |-> win, datagrams |-> datagrams]
MCCases ==
  {Case(TwoGroups, <<3, 3>>, Everything, "subscribe", 1, {}),
   Case(TwoGroups, <<2, 3>>, Everything, "publish", 0, {}),
   Case(SameSubgroup, <<1, 2>>, Everything, "subscribe", 0, {}),
   Case(TwoGroups, <<3, 2>>, Asking("LargestObject", NoLocation, NoEnd, <<0, 0>>), "subscribe", 0, {}),
   Case(TwoGroups, <<3, 3>>, Asking("NextGroupStart", NoLocation, NoEnd, <<0, 2>>), "subscribe", 0, {}),
   Case(TwoGroups, <<3, 3>>, Asking("AbsoluteRange", <<0, 1>>, 0, <<1, 2>>), "publish", 0, {}),
   Case(TwoGroups, <<3, 3>>, NotForwarded, "subscribe", 0, {}),
   Case(TwoGroups, <<0, 0>>, Everything, "subscribe", 0, {"d1", "d2"}),
   Case(TwoGroups, <<1, 0>>, Everything, "publish", 0, {"d1", "d2"})}


Setup(profile, transport, segs, query) ==
  [profile |-> profile, transport |-> transport, url |-> [segs |-> segs, query |-> query],
   max |-> [client |-> 0, server |-> 0], kinds |-> {}, foreign |-> {}]
With(s, client, server, kinds, foreigners) ==
  [s EXCEPT !.max = [client |-> client, server |-> server], !.kinds = kinds, !.foreign = foreigners]
\* Two requests of the client, one of each end, a peer of another kind; and setups that go wrong
\* or carry a query.
MCSetupCases ==
  {With(Setup("Draft16", "WebTransport", <<"a", "b">>, FALSE), 0, 4, {"Subscribe", "PublishNamespace"}, {}),
   With(Setup("Blockcast01", "RawQuic", <<"a", "">>, FALSE), 2, 2, {"Fetch"}, {}),
   With(Setup("Draft16", "RawQuic", <<>>, FALSE), 0, 2, {"TrackStatus", "Publish"}, {}),
   With(Setup("Draft16", "RawQuic", <<>>, FALSE), 0, 0, {},
        {"Unknown", "GoAway", "RequestUpdate", "SubscribeNamespace"}),
   Setup("Draft16", "RawQuic", <<"a">>, TRUE), Setup("Draft16", "WebTransport", <<"a">>, TRUE),
   Setup("Draft19", "RawQuic", <<>>, FALSE), Setup("Draft16", "RawQuic", <<"a", "..">>, FALSE),
   Setup("Draft16", "WebTransport", <<"a", "", "b">>, FALSE),
   Setup("Draft16", "RawQuic", <<"", "", "", "">>, FALSE)}

planeVars == <<forwarderVars, ingressVars>>
dataVars == <<dataPart, planeVars, lossVars, namespaceVars, lifeVars>>

\* A component with several initial states rests in one of them.
DataLayerInit ==
  /\ dataPart \in DataParts
  /\ IF dataPart = "plane" THEN DataInit ELSE DataStart(CHOOSE c \in Cases : TRUE)
  /\ LossInit
  /\ NamespacesStart
  /\ IF dataPart = "life" THEN LifecycleInit ELSE LifecycleStart(CHOOSE c \in SetupCases : TRUE)

DataRuns(p) ==
  /\ dataPart = p /\ UNCHANGED dataPart
  /\ IF p = "plane" THEN TRUE ELSE UNCHANGED planeVars
  /\ IF p = "loss" THEN TRUE ELSE UNCHANGED lossVars
  /\ IF p = "names" THEN TRUE ELSE UNCHANGED namespaceVars
  /\ IF p = "life" THEN TRUE ELSE UNCHANGED lifeVars

DataLayerNext ==
  \/ DataRuns("plane") /\ DataNext
  \/ DataRuns("loss") /\ LossNext
  \/ DataRuns("names") /\ NamespacesNext
  \/ DataRuns("life") /\ LifecycleNext

DataSpec == DataLayerInit /\ [][DataLayerNext]_dataVars

-----------------------------------------------------------------------------
(* The types of the component that runs (session/).                          *)
DataLayerTypeOK ==
  CASE dataPart = "plane" -> DataTypeOK
    [] dataPart = "loss"  -> LossTypeOK
    [] dataPart = "names" -> NamespacesTypeOK
    [] dataPart = "life"  -> LifecycleTypeOK

(* The two ends agree on the session they set up, and a session ends no      *)
(* request twice and never sleeps past one (session/mod.rs,                  *)
(* session/pending_requests.rs).  Every component keeps its types.           *)
SessionSound == DataLayerTypeOK /\ SetupAgrees /\ PendingSound
=============================================================================
