-------------------------------- MODULE Drain --------------------------------
(* The draft-19 connections of a relay and its drain (relay.rs Draft19Drain, *)
(* serve_draft19_control_plane and the accept loop; the shutdown of main.rs).*)
(* The first shutdown signal redirects every session with GOAWAY; the relay  *)
(* stops when the sessions have ended, at a ceiling, or on a second signal.  *)
(*                                                                           *)
(* The relay and the drain are polled by one task, so a step of the relay,   *)
(* the end of a session and a new admission together, may come before the    *)
(* drain looks.  Time passes in ticks; a timer that is 0 has run out and     *)
(* fires some time later.                                                    *)
EXTENDS Integers, FiniteSets, FiniteSetsExt

CONSTANTS
  DrainCases,       \* what a run begins with: [timeout, peer], where timeout is timeout_ms in ticks
                    \* and peer says of each connection what its other end does: "closes" some time,
                    \* "stays", "stalls" (stays, and does not let the close through), "mute" (never
                    \* sends its SETUP) or "withholds" (the credit its GOAWAY needs)
  CloseFlush        \* GOAWAY_CLOSE_FLUSH_MS in ticks

ASSUME DrainAssumption == CloseFlush \in Nat \ {0}

VARIABLES
  dcase,
  conn,         \* per connection: "away", "setup", "serving", "sending" (the GOAWAY), "told",
                \* "flushing", "ended", "cut" (closed by the relay stopping)
  broadcast,    \* the connections with a broadcast token
  timer,        \* per connection: what is left of its GOAWAY Timeout, then of its close flush
  timedOut,     \* the connections closed with GOAWAY_TIMEOUT
  signalled,    \* Draft19Drain::signal is cancelled, and finished() waits
  window,       \* what is left of the Timeout since the broadcast's last GOAWAY or the signal
  wasEmpty,     \* TaskTracker: sessions was closed and empty once
  finish        \* "no", "Drained", "Ceiling", "second", "ended" (the accept loop failed)

drainVars == <<dcase, conn, broadcast, timer, timedOut, signalled, window, wasEmpty, finish>>

Conns == DOMAIN dcase.peer
LiveStates == {"setup", "serving", "sending", "told", "flushing"}
Live == {c \in Conns : conn[c] \in LiveStates}
Running == finish = "no"
\* Why finished() returned.
Draft19DrainEnd == {"Drained", "Ceiling"}

DrainStart(c) ==
  /\ dcase = c
  /\ conn = [x \in DOMAIN c.peer |-> "away"]
  /\ broadcast = {} /\ timer = [x \in DOMAIN c.peer |-> 0] /\ timedOut = {}
  /\ signalled = FALSE /\ window = 0 /\ wasEmpty = FALSE /\ finish = "no"
DrainInit == \E c \in DrainCases : DrainStart(c)

-----------------------------------------------------------------------------
(* A connection                                                            *)

\* Draft19Drain::admit in the accept loop, before the connection's task runs.
AcceptConn(c) ==
  /\ Running /\ conn[c] = "away"
  /\ conn' = [conn EXCEPT ![c] = "setup"]
  /\ broadcast' = IF signalled THEN broadcast ELSE broadcast \union {c}
  /\ UNCHANGED <<dcase, timer, timedOut, signalled, window, wasEmpty, finish>>

\* Draft19Session::establish; nothing bounds how long the peer's SETUP takes.
Establish(c) ==
  /\ Running /\ conn[c] = "setup" /\ dcase.peer[c] # "mute"
  /\ conn' = [conn EXCEPT ![c] = "serving"]
  /\ UNCHANGED <<dcase, broadcast, timer, timedOut, signalled, window, wasEmpty, finish>>

\* The task returns: its admission, and with it both tokens, is dropped.  The wait of a TaskTracker
\* that was closed and empty returns even if it is not empty any more.
End(c) ==
  /\ conn' = [conn EXCEPT ![c] = "ended"]
  /\ wasEmpty' = (wasEmpty \/ (signalled /\ Live = {c}))
  /\ timer' = [timer EXCEPT ![c] = 0]

\* The peer closes, or the connection fails: establish, receive_control or send_control errs.
PeerCloses(c) ==
  /\ Running /\ conn[c] \in {"setup", "serving", "sending", "told"} /\ dcase.peer[c] = "closes"
  /\ End(c)
  /\ UNCHANGED <<dcase, broadcast, timedOut, signalled, window, finish>>

\* The window of the drain begins anew.
GoawaySent(c) == window' = IF c \in broadcast THEN dcase.timeout ELSE window

\* drain_signalled: the loop breaks, and the GOAWAY is written.
DrainSignalled(c) ==
  /\ Running /\ conn[c] = "serving" /\ signalled
  /\ conn' = [conn EXCEPT ![c] = "sending"]
  /\ UNCHANGED <<dcase, broadcast, timer, timedOut, signalled, window, wasEmpty, finish>>

\* send_control returns, which no timeout bounds: the GOAWAY is out, and goaway_sent is called for a
\* connection of the broadcast.
SendGoaway(c) ==
  /\ Running /\ conn[c] = "sending" /\ dcase.peer[c] # "withholds"
  /\ conn' = [conn EXCEPT ![c] = "told"]
  /\ timer' = [timer EXCEPT ![c] = dcase.timeout]
  /\ GoawaySent(c)
  /\ UNCHANGED <<dcase, broadcast, timedOut, signalled, wasEmpty, finish>>

\* The Timeout ran out: enforce_control_goaway_timeout closes with GOAWAY_TIMEOUT.
GoawayTimeout(c) ==
  /\ Running /\ conn[c] = "told" /\ dcase.timeout # 0 /\ timer[c] = 0
  /\ conn' = [conn EXCEPT ![c] = "flushing"]
  /\ timer' = [timer EXCEPT ![c] = CloseFlush]
  /\ timedOut' = timedOut \union {c}
  /\ UNCHANGED <<dcase, broadcast, signalled, window, wasEmpty, finish>>

\* Mutant: the close is waited for without a timeout.
FlushBounded_Not(c) == dcase.peer[c] # "stalls"

\* The session reports itself closed, or GOAWAY_CLOSE_FLUSH_MS passed.
FlushBounded(c) == dcase.peer[c] = "stalls" => timer[c] = 0

CloseFlushed(c) ==
  /\ Running /\ conn[c] = "flushing" /\ FlushBounded(c)
  /\ End(c)
  /\ UNCHANGED <<dcase, broadcast, timedOut, signalled, window, finish>>

-----------------------------------------------------------------------------
(* The drain                                                               *)

\* The first signal: cancel, and finished() begins; with no session it returns at once.
Signal ==
  /\ Running /\ ~signalled
  /\ signalled' = TRUE
  /\ IF Live = {} THEN wasEmpty' = TRUE /\ finish' = "Drained" /\ UNCHANGED window
     ELSE window' = dcase.timeout /\ UNCHANGED <<wasEmpty, finish>>
  /\ UNCHANGED <<dcase, conn, broadcast, timer, timedOut>>

\* drain_then_stop is done or the accept loop failed: the relay is dropped, and close_and_wait_idle
\* closes what is left.
Stop(how) ==
  /\ finish' = how
  /\ conn' = [c \in Conns |-> IF c \in Live THEN "cut" ELSE conn[c]]
  /\ timer' = [c \in Conns |-> 0] /\ window' = 0
  /\ UNCHANGED <<dcase, broadcast, timedOut, signalled, wasEmpty>>

Drained == Running /\ signalled /\ wasEmpty /\ Stop("Drained")

\* Mutant: the ceiling does not wait for the sessions it redirected.
BroadcastEnded_NotAwaited == TRUE

\* broadcast.wait: no token is given out after the signal.
BroadcastEnded == broadcast \intersect Live = {}

\* Timeout 0 has no ceiling.
Ceiling ==
  /\ Running /\ signalled /\ BroadcastEnded /\ dcase.timeout # 0 /\ window = 0
  /\ Stop("Ceiling")

SecondSignal == Running /\ signalled /\ Stop("second")
AcceptFails == Running /\ Stop("ended")

Tick ==
  /\ Running
  /\ window > 0 \/ \E c \in Conns : timer[c] > 0
  /\ window' = Max({0, window - 1})
  /\ timer' = [c \in Conns |-> Max({0, timer[c] - 1})]
  /\ UNCHANGED <<dcase, conn, broadcast, timedOut, signalled, wasEmpty, finish>>

\* What goes on by itself.
DrainStep ==
  \/ \E c \in Conns : Establish(c) \/ DrainSignalled(c) \/ SendGoaway(c) \/ GoawayTimeout(c) \/ CloseFlushed(c)
  \/ Drained \/ Ceiling \/ Tick

DrainNext ==
  \/ DrainStep
  \/ \E c \in Conns : AcceptConn(c) \/ PeerCloses(c)
  \/ Signal \/ SecondSignal \/ AcceptFails

DrainSpec == DrainInit /\ [][DrainNext]_drainVars
DrainFairness == WF_drainVars(DrainStep)

-----------------------------------------------------------------------------
DrainTypeOK ==
  /\ dcase \in DrainCases
  /\ conn \in [Conns -> LiveStates \union {"away", "ended", "cut"}]
  /\ broadcast \subseteq Conns /\ timedOut \subseteq Conns
  /\ \A c \in Conns : timer[c] \in 0 .. Max({dcase.timeout, CloseFlush})
  /\ signalled \in BOOLEAN /\ window \in 0 .. dcase.timeout /\ wasEmpty \in BOOLEAN
  /\ finish \in Draft19DrainEnd \union {"no", "second", "ended"}

(* A session that was live when the drain began is redirected before the     *)
(* relay stops by itself: it ended on its own or with GOAWAY_TIMEOUT, never  *)
(* by the relay's exit, whatever arrives meanwhile and however its close     *)
(* stalls; nobody is timed out who was not told, and with a zero Timeout     *)
(* nobody is (finished, serve_draft19_control_plane).                        *)
NoneCutShort ==
  /\ finish \in Draft19DrainEnd => \A c \in broadcast : conn[c] = "ended"
  /\ \A c \in timedOut : dcase.timeout # 0 /\ signalled
  /\ finish = "Ceiling" => dcase.timeout # 0

\* A peer that lets establish and send_control return.
Obliges(c) == dcase.peer[c] \notin {"mute", "withholds"}

(* With a Timeout, the drain comes to its end by itself, also with peers     *)
(* that never close, if those admitted before the signal send their SETUP    *)
(* and take their GOAWAY.  Neither wait is bounded, and the ceiling waits    *)
(* for both; a peer that arrives after the signal may do as it likes         *)
(* (finished, Draft19Session::establish, send_control).                      *)
DrainOver == signalled /\ dcase.timeout # 0 /\ (\A c \in broadcast : Obliges(c)) => ~Running

(* What admit says of itself: the drain cannot be finished while an          *)
(* admission is alive, so an arrival is redirected, not dropped at exit.     *)
AdmittedIsRedirected ==
  finish = "Drained" => \A c \in Conns : conn[c] # "cut"
=============================================================================
