------------------------------- MODULE MCRelay -------------------------------
(* The relay around its registries: one FETCH between two ends of a session, *)
(* the objects retained for FETCH, the drain of the draft-19 connections,    *)
(* the two coordinators that relays share, the requests of one draft-16      *)
(* connection, and the calls for a track that several of them make at once.  *)
(* They meet in calls whose outcome each module leaves open, so a behaviour  *)
(* is a behaviour of one of them, chosen in part.                            *)
EXTENDS Fetches, FetchRetention, Drain, Coordinators, RelaySession, LocalTracks

CONSTANTS Parts   \* the parts a run looks at

VARIABLES part

ASSUME RelayAssumption == LocalTracksAssumption

relayVars ==
  <<part, fetchVars, retentionVars, drainVars, coordinatorVars, apiVars, relaySessionVars,
    trackVars>>

-----------------------------------------------------------------------------
(* Cases                                                                   *)

FetchCase(local, rest, parts, end, result) ==
  [local |-> local, rest |-> rest, parts |-> parts, end |-> end, answer |-> result]

MCFetchCases ==
  {FetchCase(2, "complete", 0, "fin", "ok"), FetchCase(1, "unknown", 0, "fin", "ok"),
   FetchCase(1, "upstream", 1, "fin", "ok"), FetchCase(0, "upstream", 1, "fin", "error"),
   FetchCase(0, "upstream", 2, "reset", "error"), FetchCase(1, "upstream", 1, "silent", "none")}

Whole(g, o, cost) == [group |-> g, object |-> o, cost |-> cost, whole |-> TRUE]
Status(g, o) == [group |-> g, object |-> o, cost |-> 1, whole |-> FALSE]
Asked(k, start, end, order, upstream) ==
  [key |-> k, start |-> start, end |-> end, order |-> order, upstream |-> upstream]
Retaining(key, mode, history, objects, kept, trackBytes, totalBytes, a) ==
  [key |-> key, objects |-> objects, mode |-> [k \in DOMAIN objects |-> mode],
   history |-> [k \in DOMAIN objects |-> history], groups |-> kept, trackBytes |-> trackBytes,
   totalBytes |-> totalBytes, ask |-> a]

\* Two tracks that compete for the budget, a track registered twice, a gap, a status object, a
\* copy, the last id, datagrams out of order and a subgroup that leaves the history.
MCRetentionCases ==
  LET none == Asked(NoTrack, <<0, 0>>, <<0, 0>>, "Ascending", FALSE)
      S(key, objects, kept, trackBytes, totalBytes, a) ==
        Retaining(key, "Subgroups", 0, objects, kept, trackBytes, totalBytes, a)
      two == <<<<Whole(0, 0, 1), Whole(0, 1, 1), Whole(1, 0, 2)>>, <<Whole(3, 0, 1), Whole(2, 0, 2)>>>>
      one == <<<<Whole(0, 0, 1), Whole(1, 0, 1), Whole(1, 1, 1)>>>>
      odd == <<<<Whole(0, 0, 1), Whole(0, 0, 1), Status(0, 1), Whole(1, 0, 1), Whole(1, 2, 1)>>>>
      again == <<<<Whole(0, 0, 1), Whole(1, 0, 1)>>>>
      back == <<<<Whole(3, 0, 1), Whole(2, 0, 1), Whole(2, 1, 1)>>>>
      end == <<<<Whole(0, END_OF_GROUP - 1, 1), Whole(0, END_OF_GROUP, 1), Whole(1, 0, 1)>>>>
  IN {S(<<1, 2>>, two, 1, 2, 3, none),
      S(<<1, 1>>, again, 1, 2, 3, Asked(1, <<1, 0>>, <<1, 2>>, "Ascending", FALSE)),
      S(<<1>>, one, 2, 4, 4, Asked(1, <<0, 0>>, <<1, 2>>, "Descending", TRUE)),
      S(<<1>>, one, 1, 4, 4, Asked(1, <<1, 1>>, <<1, 1>>, "Descending", FALSE)),
      S(<<1>>, odd, 2, 4, 4, Asked(1, <<0, 0>>, <<2, 0>>, "Ascending", TRUE)),
      S(<<1>>, odd, 2, 3, 3, Asked(1, <<0, 1>>, <<1, 2>>, "Descending", FALSE)),
      S(<<1>>, end, 2, 4, 4, Asked(1, <<0, END_OF_GROUP - 1>>, <<1, 0>>, "Ascending", FALSE)),
      Retaining(<<1>>, "Subgroups", 1, SubSeq(two, 1, 1), 2, 4, 4,
                Asked(1, <<0, 0>>, <<1, 0>>, "Ascending", FALSE)),
      Retaining(<<1>>, "Datagrams", 0, one, 2, 4, 4, Asked(1, <<1, 0>>, <<1, 0>>, "Ascending", TRUE)),
      Retaining(<<1>>, "Datagrams", 0, back, 1, 4, 4, Asked(1, <<2, 0>>, <<4, 0>>, "Ascending", FALSE))}

MCDrainCases ==
  {[timeout |-> 2, peer |-> <<"closes", "stays", "stalls">>],
   [timeout |-> 1, peer |-> <<"stays", "mute", "closes">>],
   [timeout |-> 1, peer |-> <<"stays", "withholds", "mute">>],
   [timeout |-> 0, peer |-> <<"closes", "closes", "closes">>]}

Hosts(relay, name, source) ==
  [relay |-> relay, kind |-> "namespace", name |-> [ns |-> name, track |-> ""],
   public |-> TRUE, source |-> source]
HostsTrack(relay, name, t) ==
  [relay |-> relay, kind |-> "track", name |-> [ns |-> name, track |-> t],
   public |-> TRUE, source |-> Nobody]
Seeks(relay, prefix, public, source) ==
  [relay |-> relay, kind |-> "interest", name |-> [ns |-> prefix, track |-> ""],
   public |-> public, source |-> source]

\* Two sessions of one relay with the same interest, namespaces above one another with calls made
\* for another relay, a track under a namespace, a namespace that moves between relays, and two
\* tracks whose namespaces have the same path, by a slash and by octets that are not text.
MCCoordinatorCases ==
  LET a == <<"a">>
      b == <<"b">>
      aSlashB == <<"a", "/", "b">>
  IN {<<Hosts("r1", <<a, b>>, Nobody), Seeks("r2", <<a>>, TRUE, Nobody), Seeks("r2", <<a>>, TRUE, Nobody)>>,
      <<Hosts("r1", <<a>>, Nobody), Hosts("r1", <<a, b>>, "r2"), Seeks("r2", <<>>, FALSE, "r1")>>,
      <<Hosts("r1", <<a>>, Nobody), HostsTrack("r2", <<a>>, "t"), Seeks("r2", <<a>>, TRUE, Nobody)>>,
      <<Hosts("r1", <<a>>, Nobody), Hosts("r2", <<a>>, Nobody), HostsTrack("r1", <<a>>, "t")>>,
      <<HostsTrack("r1", <<aSlashB>>, "t"), HostsTrack("r2", <<a, b>>, "t"), Hosts("r2", <<a, b>>, Nobody)>>,
      <<HostsTrack("r1", <<<<"xfe">>>>, "t"), HostsTrack("r2", <<<<"xff">>>>, "t")>>}

Registration(relay, every) == [relay |-> relay, every |-> every]

\* Two relays and two sessions of one, which refresh often enough to bear a failure, just often
\* enough, and too seldom.
MCApiCases ==
  {<<Registration("r1", 1), Registration("r2", 2)>>, <<Registration("r1", 2), Registration("r1", 1)>>,
   <<Registration("r1", 3), Registration("r2", 2)>>}

MCRequestCases ==
  {<<"PublishNamespace", "Publish", "Publish">>, <<"Subscribe", "TrackStatus", "PublishNamespace">>}

-----------------------------------------------------------------------------
(* The composition                                                         *)

RelayInit ==
  /\ part \in Parts
  /\ IF part = "fetch" THEN FetchInit ELSE FetchStart(FetchCase(0, "complete", 0, "fin", "ok"))
  /\ IF part = "retention" THEN RetentionInit
     ELSE RetentionStart(Retaining(<<1>>, "Subgroups", 0, <<<<>>>>, 1, 1, 1, Asked(NoTrack, <<0, 0>>, <<0, 0>>, "Ascending", FALSE)))
  /\ IF part = "drain" THEN DrainInit ELSE DrainStart([timeout |-> 0, peer |-> <<>>])
  /\ IF part = "file" THEN CoordinatorInit ELSE CoordinatorStart(<<>>)
  /\ IF part = "api" THEN ApiInit ELSE ApiStart(<<>>)
  /\ IF part = "requests" THEN RelaySessionInit ELSE RelaySessionStart(<<>>)
  /\ TracksInit

\* Part p runs, the others rest.
Runs(p) ==
  /\ part = p /\ UNCHANGED part
  /\ IF p = "fetch" THEN TRUE ELSE UNCHANGED fetchVars
  /\ IF p = "retention" THEN TRUE ELSE UNCHANGED retentionVars
  /\ IF p = "drain" THEN TRUE ELSE UNCHANGED drainVars
  /\ IF p = "file" THEN TRUE ELSE UNCHANGED coordinatorVars
  /\ IF p = "api" THEN TRUE ELSE UNCHANGED apiVars
  /\ IF p = "requests" THEN TRUE ELSE UNCHANGED relaySessionVars
  /\ IF p = "calls" THEN TRUE ELSE UNCHANGED trackVars

RelayNext ==
  \/ Runs("fetch") /\ FetchNext
  \/ Runs("retention") /\ RetentionNext
  \/ Runs("drain") /\ DrainNext
  \/ Runs("file") /\ CoordinatorNext
  \/ Runs("api") /\ ApiNext
  \/ Runs("requests") /\ RelaySessionNext
  \/ Runs("calls") /\ TracksNext

\* The calls rest with no fair step enabled but those of their callers, who look for the track.
RelaySpec ==
  /\ RelayInit /\ [][RelayNext]_relayVars
  /\ FetchFairness /\ DrainFairness /\ ApiFairness
  /\ \A c \in Callers : WF_trackVars(part = "calls" /\ CallStep(c))
  /\ \A s \in Publishers : WF_trackVars(part = "calls" /\ TakeRequest(s))

-----------------------------------------------------------------------------
(* The types of the component that runs.                                     *)
RelayTypeOK ==
  CASE part = "fetch"     -> FetchTypeOK
    [] part = "retention" -> RetentionTypeOK
    [] part = "drain"     -> DrainTypeOK
    [] part = "file"      -> CoordinatorTypeOK
    [] part = "api"       -> ApiTypeOK
    [] part = "requests"  -> RelaySessionTypeOK
    [] part = "calls"     -> TracksTypeOK

(* What was begun comes to its end: a FETCH is answered or given up and      *)
(* leaves no entry behind; a drain with a Timeout ends though no peer        *)
(* closes, if those admitted before the signal send their SETUP and take     *)
(* their GOAWAY; the entry of a relay that died or gave its handle up leaves *)
(* moq-api (Fetch::drop, FetchRequested::serve, Draft19Drain::finished,      *)
(* start_refresh_task).  On the way every component keeps its types.         *)
RelaySettles == []RelayTypeOK /\ <>[](FetchSettled /\ DrainOver /\ StaleExpires)

(* LocalTracks: every call for a track returns, and cleaning up after a      *)
(* closed track takes no live one away (local.rs).                           *)
CallsSettle == CallReturns /\ PruneSparesLive
=============================================================================
