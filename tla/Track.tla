------------------------------- MODULE Track --------------------------------
(***************************************************************************)
(* One track (serve/track.rs): the TrackWriter picks a mode once, which    *)
(* consumes it and leaves the mode's own writer to keep the track alive;   *)
(* readers wait for the mode or for the end, take taps, and ask whether a  *)
(* cached reader is stale.  A call that waits has no step until it can     *)
(* return (WatchState shows that it is woken then).                        *)
(***************************************************************************)
EXTENDS Naturals

CONSTANTS
  Readers,      \* tasks holding a TrackReader
  Windows       \* history windows a publisher may set

Modes == {"stream", "subgroups", "datagrams"}
NoWindow == 0

TrackAssumption == Windows \subseteq Nat \ {NoWindow}

VARIABLES
  writer,       \* the TrackWriter: "live", then "used" by a mode or "gone"
  mode,         \* TrackState::reader_mode, or "none"
  closed,       \* TrackState::closed.is_err()
  window,       \* TrackState::history_window_groups
  modeWriter,   \* the mode's writer: "none", "live", "closed", "gone"
  modeWindow,   \* the window the mode's writer enforces
  call,         \* what each reader's task is doing
  tap           \* each reader's tap: "none", "open", "ended"

vars == <<writer, mode, closed, window, modeWriter, modeWindow, call, tap>>
trackVars == <<writer, mode, closed, window, modeWriter, modeWindow>>

Calls == {"idle", "mode", "closed", "is_closed"}
Results == {"got_mode", "mode_err", "mode_done", "closed_ok", "closed_err",
            "stale", "fresh", "gone"}

\* A TrackReader exists; only then does the writer's lock_mut succeed.
Held == \E r \in Readers : call[r] # "gone"

Init ==
  /\ writer = "live" /\ mode = "none" /\ closed = FALSE /\ window = NoWindow
  /\ modeWriter = "none" /\ modeWindow = NoWindow
  /\ call = [r \in Readers |-> "idle"]
  /\ tap = [r \in Readers |-> "none"]

-----------------------------------------------------------------------------
(* TrackWriter and the mode's writer                                       *)

\* Taps end when the last writer holding the tap list goes.
EndTaps == tap' = [r \in Readers |-> IF tap[r] = "open" THEN "ended" ELSE tap[r]]

SetHistoryWindow(n) ==
  /\ writer = "live" /\ Held
  /\ window' = n
  /\ UNCHANGED <<writer, mode, closed, modeWriter, modeWindow, call, tap>>

\* What the mode's writer enforces: the track's window, and for datagrams a
\* ring of at least one.
Inherited(m) ==
  CASE m = "subgroups" -> window
    [] m = "datagrams" -> IF window = NoWindow THEN 1 ELSE window
    [] m = "stream" -> NoWindow

\* TrackWriter::stream, subgroups, datagrams.  Without a reader: Cancel, and
\* everything is dropped.  Streams do not take over the taps.
Become(m) ==
  /\ writer = "live"
  /\ writer' = "used"
  /\ IF Held THEN mode' = m /\ modeWriter' = "live" /\ modeWindow' = Inherited(m)
             ELSE UNCHANGED <<mode, modeWriter, modeWindow>>
  /\ IF m = "stream" \/ ~Held THEN EndTaps ELSE UNCHANGED tap
  /\ UNCHANGED <<closed, window, call>>

\* TrackWriter::close(err).
CloseTrack ==
  /\ writer = "live"
  /\ writer' = "gone"
  /\ closed' = Held
  /\ EndTaps
  /\ UNCHANGED <<mode, window, modeWriter, modeWindow, call>>

DropTrack ==
  /\ writer = "live"
  /\ writer' = "gone"
  /\ EndTaps
  /\ UNCHANGED <<mode, closed, window, modeWriter, modeWindow, call>>

\* close(err) or drop of the mode's writer.
EndMode(how) ==
  /\ modeWriter = "live"
  /\ modeWriter' = how
  /\ EndTaps
  /\ UNCHANGED <<writer, mode, closed, window, modeWindow, call>>

-----------------------------------------------------------------------------
(* TrackReader                                                             *)

Begin(r, c) ==
  /\ call[r] # "gone" /\ call[r] \notin Calls \ {"idle"}
  /\ call' = [call EXCEPT ![r] = c]
  /\ UNCHANGED <<trackVars, tap>>

\* TrackReader::mode.
ModeReturns(r) ==
  /\ call[r] = "mode"
  /\ \/ mode # "none" /\ call' = [call EXCEPT ![r] = "got_mode"]
     \/ mode = "none" /\ closed /\ call' = [call EXCEPT ![r] = "mode_err"]
     \/ mode = "none" /\ ~closed /\ writer # "live" /\ call' = [call EXCEPT ![r] = "mode_done"]
  /\ UNCHANGED <<trackVars, tap>>

\* TrackReader::closed: only the TrackWriter's half of the state is watched.
ClosedReturns(r) ==
  /\ call[r] = "closed"
  /\ \/ closed /\ call' = [call EXCEPT ![r] = "closed_err"]
     \/ ~closed /\ writer # "live" /\ call' = [call EXCEPT ![r] = "closed_ok"]
  /\ UNCHANGED <<trackVars, tap>>

\* Mutant: a cached reader is stale once the TrackWriter is gone.
Stale_TrackOnly == closed \/ writer # "live"

\* TrackReader::is_closed.
Stale ==
  \/ closed
  \/ mode # "none" /\ modeWriter # "live"
  \/ mode = "none" /\ writer # "live"

IsClosedReturns(r) ==
  /\ call[r] = "is_closed"
  /\ call' = [call EXCEPT ![r] = IF Stale THEN "stale" ELSE "fresh"]
  /\ UNCHANGED <<trackVars, tap>>

\* A writer that would still hand events to a tap.
TapsHeld == writer = "live" \/ (modeWriter = "live" /\ mode # "stream")

\* TrackReader::tap; it ends at once when the writers are gone.
TakeTap(r) ==
  /\ call[r] # "gone" /\ tap[r] = "none"
  /\ tap' = [tap EXCEPT ![r] = IF TapsHeld THEN "open" ELSE "ended"]
  /\ UNCHANGED <<trackVars, call>>

DropReader(r) ==
  /\ call[r] # "gone"
  /\ call' = [call EXCEPT ![r] = "gone"]
  /\ UNCHANGED <<trackVars, tap>>

Next ==
  \/ \E n \in Windows : SetHistoryWindow(n)
  \/ \E m \in Modes : Become(m)
  \/ CloseTrack \/ DropTrack
  \/ \E how \in {"closed", "gone"} : EndMode(how)
  \/ \E r \in Readers :
       \/ \E c \in Calls \ {"idle"} : Begin(r, c)
       \/ ModeReturns(r) \/ ClosedReturns(r) \/ IsClosedReturns(r)
       \/ TakeTap(r) \/ DropReader(r)

Spec == Init /\ [][Next]_vars

-----------------------------------------------------------------------------
TypeOK ==
  /\ writer \in {"live", "used", "gone"}
  /\ mode \in Modes \cup {"none"}
  /\ closed \in BOOLEAN
  /\ window \in Windows \cup {NoWindow}
  /\ modeWriter \in {"none", "live", "closed", "gone"}
  /\ modeWindow \in Windows \cup {NoWindow, 1}
  /\ call \in [Readers -> Calls \cup Results]
  /\ tap \in [Readers -> {"none", "open", "ended"}]

CanWrite == writer = "live" \/ modeWriter = "live"

(* track.rs:323-347: is_closed() drops cached readers: when it answers TRUE *)
(* nobody can write to the track any more, and it never calls a track stale *)
(* because its writer moved on to a mode.                                   *)
StaleIsFinal ==
  /\ \A r \in Readers : call[r] = "stale" => ~CanWrite
  /\ Held /\ CanWrite => ~Stale

(* track.rs:150-163: the window advertised in SUBSCRIBE_OK from the         *)
(* TrackReader is the one the subgroups writer enforces.                    *)
AdvertisedIsEnforced ==
  /\ mode = "subgroups" => modeWindow = window
  /\ mode = "datagrams" /\ window # NoWindow => modeWindow = window

(* track.rs:262-268: a tap taken while subgroups or datagrams may still be  *)
(* written stays open until the writer is gone.                             *)
TapOutlivesMode ==
  \A r \in Readers : tap[r] = "ended" => writer # "live" /\ (modeWriter = "live" => mode = "stream")

(* track.rs:277-293: mode() never gives up on a track that has a mode.      *)
DoneMeansNoMode ==
  \A r \in Readers : call[r] \in {"mode_done", "mode_err"} => mode = "none"

(* track.rs:306 "Wait until the track is closed, returning the closing      *)
(* error.": closed() returns only when nobody can write to the track.       *)
ClosedReportsEnd ==
  \A r \in Readers : call[r] \in {"closed_ok", "closed_err"} => ~CanWrite
=============================================================================
