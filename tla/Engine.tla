------------------------------- MODULE Engine -------------------------------
(***************************************************************************)
(* The supervisor of the tunnel engine: class Engine of engine.py.         *)
(*                                                                         *)
(* One thread, the GTK main thread, calls validate(), start(), stop() and  *)
(* poll(); a call blocks it, so a call is a sequence of steps told apart   *)
(* by pc and everything outside the thread (the engine process, its        *)
(* metrics port, its peer, the log reader, the clock) moves in between.    *)
(*                                                                         *)
(* A run r stands for one temporary config file, and for the child process *)
(* started with it.  A run's name is reused once its file is deleted and   *)
(* its process is gone, so the number of connections is not bounded.       *)
(***************************************************************************)
EXTENDS Naturals, FiniteSets

CONSTANTS
    Run,                    \* names of config files and of the children that read them
    NoRun,                  \* Python's None where a run could be
    STARTUP_GRACE,          \* the four time limits of the module, in clock ticks
    HANDSHAKE_TIMEOUT,
    STALE_HANDSHAKE_AGE,
    RECENT_TRAFFIC_WINDOW,
    MaxLines,               \* the capacity of the log, _LOG_LINES
    Escapes                 \* exceptions that validate(), start() and poll() let out unconverted

ASSUME NoRunAssumption == NoRun \notin Run

ASSUME LimitsAssumption ==
    /\ STARTUP_GRACE \in Nat
    /\ HANDSHAKE_TIMEOUT \in Nat
    /\ STALE_HANDSHAKE_AGE \in Nat
    /\ RECENT_TRAFFIC_WINDOW \in Nat \ {0}
    /\ STARTUP_GRACE <= HANDSHAKE_TIMEOUT

ASSUME MaxLinesAssumption == MaxLines \in Nat \ {0}

ASSUME EscapesAssumption == Escapes \subseteq {"OSError", "HTTPException"}

VARIABLES
    runtime,    \* Engine._runtime: the run the object owns
    status,     \* Engine._status
    files,      \* config files in the runtime directory
    proc,       \* what the operating system says of each child
    pc,         \* where the main thread is inside a call; "idle" outside
    cur,        \* the run the call in progress works on
    then,       \* the state a call reports when the stop nested in it returns
    result,     \* how the last call ended: returned, or the exception it raised
    elapsed,    \* poll()'s local: the uptime read before the metrics
    link,       \* how far the owned run has come: metrics served, peer shaken
    rxNew,      \* bytes received that no poll has seen
    log,        \* lines in the owned run's log
    uptime,     \* clocks of the owned run, that stop at the largest value told apart
    shakeAge,
    rxAge

owned == <<runtime, files, proc>>
call == <<pc, cur, then, result, elapsed>>
clocks == <<uptime, shakeAge, rxAge>>
facets == <<link, rxNew, log, uptime, shakeAge, rxAge>>
vars == <<runtime, status, files, proc, pc, cur, then, result, elapsed,
          link, rxNew, log, uptime, shakeAge, rxAge>>

ActiveStates == {"starting", "handshaking", "connected", "degraded"}
States == ActiveStates \cup {"idle", "stopping", "failed"}
Results == {"ok", "EngineError", "OSError", "HTTPException"}

IsActive(s) == s.state \in ActiveStates
Told(state) == [state |-> state, proxy |-> NoRun]
Advertising(state) == [state |-> state, proxy |-> runtime]

IsRunning == runtime # NoRun /\ proc[runtime] = "alive"
Fresh(r) == r \notin files /\ proc[r] = "exited" /\ r # runtime

-----------------------------------------------------------------------------
(* The facets of the owned run: set when it starts, dropped with it. *)

ResetFacets ==
    /\ link' = "down"
    /\ rxNew' = FALSE
    /\ log' = 0
    /\ uptime' = 0
    /\ shakeAge' = 0
    /\ rxAge' = RECENT_TRAFFIC_WINDOW      \* last_rx_change = 0.0: never

Init ==
    /\ runtime = NoRun
    /\ status = Told("idle")
    /\ files = {}
    /\ proc = [r \in Run |-> "exited"]
    /\ pc = "idle"
    /\ cur = NoRun
    /\ then = "idle"
    /\ result = "ok"
    /\ elapsed = 0
    /\ link = "down"
    /\ rxNew = FALSE
    /\ log = 0
    /\ uptime = 0
    /\ shakeAge = 0
    /\ rxAge = RECENT_TRAFFIC_WINDOW

(* A call ends: control goes back to the caller with this result. *)
Return(res) ==
    /\ pc' = "idle"
    /\ cur' = NoRun
    /\ then' = "idle"
    /\ elapsed' = 0
    /\ result' = res

(* A call goes on: the thread blocks at p, working on run r. *)
Block(p, r, t, e) ==
    /\ pc' = p
    /\ cur' = r
    /\ then' = t
    /\ elapsed' = e
    /\ UNCHANGED result

(* _pick_free_ports and _write_config: an OSError leaves no file behind, and
   is not converted; otherwise the profile, key included, is on disk. *)
WriteConfig(r, next) ==
    \/ /\ "OSError" \in Escapes
       /\ Return("OSError")
       /\ UNCHANGED files
    \/ /\ files' = files \cup {r}
       /\ Block(next, r, "idle", 0)

-----------------------------------------------------------------------------
(* validate() *)

(* find_engine() may refuse before anything is written. *)
Validate(r) ==
    /\ pc = "idle"
    /\ Fresh(r)
    /\ \/ Return("EngineError") /\ UNCHANGED files
       \/ WriteConfig(r, "testing")
    /\ UNCHANGED <<runtime, status, proc, facets>>

(* The config test ended, timed out, or could not be executed at all; the
   file goes in every case, and only the last exception is not converted. *)
ValidateReturn ==
    /\ pc = "testing"
    /\ files' = files \ {cur}
    /\ \E res \in {"ok", "EngineError"} \cup (Escapes \cap {"OSError"}) : Return(res)
    /\ UNCHANGED <<runtime, status, proc, facets>>

-----------------------------------------------------------------------------
(* start() *)

(* Mutant of Start: without the is_running test. *)
StartUnguarded(r) ==
    /\ pc = "idle"
    /\ Fresh(r)
    /\ WriteConfig(r, "spawning")
    /\ UNCHANGED <<runtime, status, proc, facets>>

Start(r) ==
    /\ pc = "idle"
    /\ Fresh(r)
    /\ \/ Return("EngineError") /\ UNCHANGED files      \* is_running, or find_engine()
       \/ ~IsRunning /\ WriteConfig(r, "spawning")
    /\ UNCHANGED <<runtime, status, proc, facets>>

(* Popen, then the object takes the new run over. *)
Spawn ==
    /\ pc = "spawning"
    /\ \/ /\ files' = files \ {cur}
          /\ Return("EngineError")
          /\ UNCHANGED <<runtime, status, proc, facets>>
       \/ /\ proc' = [proc EXCEPT ![cur] = "alive"]
          /\ runtime' = cur
          /\ status' = [state |-> "starting", proxy |-> cur]
          /\ ResetFacets
          /\ Return("ok")
          /\ UNCHANGED files

-----------------------------------------------------------------------------
(* stop(), called by the window or by poll(), and _terminate() *)

(* Mutant of BeginStop: the status is reset before the wait. *)
BeginStopToldAtOnce(t) ==
    /\ runtime # NoRun
    /\ runtime' = NoRun
    /\ ResetFacets
    /\ status' = Told(t)
    /\ UNCHANGED proc
    /\ \/ /\ proc[runtime] = "exited"
          /\ files' = files \ {runtime}
          /\ Return("ok")
       \/ /\ proc[runtime] # "exited"
          /\ Block("term", runtime, t, 0)
          /\ UNCHANGED files

(* The object lets go of its run first.  A child that is already gone leaves
   only its file; the others get a SIGTERM and the thread waits. *)
BeginStop(t) ==
    /\ runtime # NoRun
    /\ runtime' = NoRun
    /\ ResetFacets
    /\ UNCHANGED proc
    /\ \/ /\ proc[runtime] = "exited"
          /\ files' = files \ {runtime}
          /\ status' = Told(t)
          /\ Return("ok")
       \/ /\ proc[runtime] # "exited"
          /\ status' = Told("stopping")
          /\ Block("term", runtime, t, 0)
          /\ UNCHANGED files

Stop ==
    /\ pc = "idle"
    /\ \/ BeginStop("idle")
       \/ /\ runtime = NoRun
          /\ status' = Told("idle")
          /\ Return("ok")
          /\ UNCHANGED <<owned, facets>>

(* The wait is over, or both waits timed out: the file goes either way. *)
FinishStop ==
    /\ files' = files \ {cur}
    /\ status' = Told(then)
    /\ Return("ok")
    /\ UNCHANGED <<runtime, proc, facets>>

Reaped ==
    /\ pc \in {"term", "kill"}
    /\ proc[cur] = "exited"
    /\ FinishStop

(* Mutant of Escalate: the wait for SIGTERM has no timeout. *)
EscalateNever == pc = "term" /\ proc[cur] = "alive" /\ FALSE /\ UNCHANGED vars

Escalate ==
    /\ pc = "term"
    /\ proc[cur] = "alive"
    /\ proc' = [proc EXCEPT ![cur] = "dying"]       \* SIGKILL, not delivered yet
    /\ pc' = "kill"
    /\ UNCHANGED <<runtime, status, files, cur, then, result, elapsed, facets>>

(* Mutant of GiveUp: the wait for SIGKILL has no timeout. *)
GiveUpNever == pc = "kill" /\ proc[cur] = "dying" /\ FALSE /\ UNCHANGED vars

GiveUp ==
    /\ pc = "kill"
    /\ proc[cur] = "dying"
    /\ FinishStop

-----------------------------------------------------------------------------
(* poll() *)

PollNone ==
    /\ pc = "idle"
    /\ runtime = NoRun
    /\ status' = Told("idle")
    /\ Return("ok")
    /\ UNCHANGED <<owned, facets>>

(* Mutant of PollExited: the failed status is the old one with a new state. *)
PollExitedAdvertising ==
    /\ pc = "idle"
    /\ runtime # NoRun
    /\ proc[runtime] = "exited"
    /\ files' = files \ {runtime}
    /\ runtime' = NoRun
    /\ status' = Advertising("failed")
    /\ ResetFacets
    /\ Return("ok")
    /\ UNCHANGED proc

(* Mutant of PollExited: the config file is forgotten. *)
PollExitedKeepsFile ==
    /\ pc = "idle"
    /\ runtime # NoRun
    /\ proc[runtime] = "exited"
    /\ runtime' = NoRun
    /\ status' = Told("failed")
    /\ ResetFacets
    /\ Return("ok")
    /\ UNCHANGED <<files, proc>>

PollExited ==
    /\ pc = "idle"
    /\ runtime # NoRun
    /\ proc[runtime] = "exited"
    /\ files' = files \ {runtime}
    /\ runtime' = NoRun
    /\ status' = Told("failed")
    /\ ResetFacets
    /\ Return("ok")
    /\ UNCHANGED proc

PollBegin ==
    /\ pc = "idle"
    /\ IsRunning
    /\ Block("metrics", runtime, "idle", uptime)
    /\ UNCHANGED <<owned, status, facets>>

Poll == PollNone \/ PollExited \/ PollBegin

Overdue == elapsed > HANDSHAKE_TIMEOUT

(* The poll keeps the run and reports it. *)
Report(state) ==
    /\ status' = Advertising(state)
    /\ Return("ok")
    /\ UNCHANGED owned

(* Mutant of NoReply: no deadline while the metrics are missing. *)
NoReplyPatient ==
    /\ Report(IF elapsed < STARTUP_GRACE THEN "starting" ELSE "handshaking")
    /\ UNCHANGED facets

(* _read_metrics() returned None: refused, timed out, or not an answer. *)
NoReply ==
    /\ \/ Overdue /\ BeginStop("failed")
       \/ /\ ~Overdue
          /\ Report(IF elapsed < STARTUP_GRACE THEN "starting" ELSE "handshaking")
          /\ UNCHANGED facets

(* Mutant of SeeTraffic: the date of the new bytes is not kept. *)
SeeTrafficUndated == rxNew' = FALSE /\ UNCHANGED <<rxAge, link, log, uptime, shakeAge>>

(* New bytes date the last traffic to this poll. *)
SeeTraffic ==
    /\ rxNew' = FALSE
    /\ rxAge' = IF rxNew THEN 0 ELSE rxAge
    /\ UNCHANGED <<link, log, uptime, shakeAge>>

(* Mutant of NoHandshake: no deadline once the metrics answer. *)
NoHandshakePatient == link = "serving" /\ SeeTraffic /\ Report("handshaking")

NoHandshake ==
    /\ link = "serving"
    /\ \/ Overdue /\ BeginStop("failed")
       \/ /\ ~Overdue
          /\ SeeTraffic
          /\ Report("handshaking")

(* Mutant of HasHandshake: any answer of the engine counts as connected. *)
HasHandshakeOnReply ==
    /\ link # "down"
    /\ SeeTraffic
    /\ Report("connected")

HasHandshake ==
    /\ link = "shaken"
    /\ SeeTraffic
    /\ Report(IF shakeAge > STALE_HANDSHAKE_AGE /\ rxAge' >= RECENT_TRAFFIC_WINDOW
              THEN "degraded" ELSE "connected")

(* http.client's errors are neither OSError nor ValueError. *)
MalformedReply ==
    /\ "HTTPException" \in Escapes
    /\ link # "down"
    /\ Return("HTTPException")
    /\ UNCHANGED <<owned, status, facets>>

PollReply ==
    /\ pc = "metrics"
    /\ NoReply \/ NoHandshake \/ HasHandshake \/ MalformedReply

-----------------------------------------------------------------------------
(* Everything outside the main thread *)

Serve ==
    /\ IsRunning /\ link = "down"
    /\ link' = "serving"
    /\ UNCHANGED <<owned, status, call, rxNew, log, clocks>>

Handshake ==
    /\ IsRunning /\ link # "down"
    /\ link' = "shaken"
    /\ shakeAge' = 0
    /\ UNCHANGED <<owned, status, call, rxNew, log, uptime, rxAge>>

Receive ==
    /\ IsRunning /\ link # "down"
    /\ rxNew' = TRUE
    /\ UNCHANGED <<owned, status, call, link, log, clocks>>

(* Mutant of DrainOutput: a log without a maximal length. *)
DrainOutputUnbounded ==
    /\ runtime # NoRun
    /\ log' = log + 1
    /\ UNCHANGED <<owned, status, call, link, rxNew, clocks>>

(* The reader thread appends a line that the engine wrote. *)
DrainOutput ==
    /\ runtime # NoRun
    /\ log < MaxLines
    /\ log' = log + 1
    /\ UNCHANGED <<owned, status, call, link, rxNew, clocks>>

Exit(r) ==
    /\ proc[r] # "exited"
    /\ proc' = [proc EXCEPT ![r] = "exited"]
    /\ UNCHANGED <<runtime, status, files, call, facets>>

Older(age, cap) == IF age < cap THEN age + 1 ELSE age

Tick ==
    /\ runtime # NoRun
    /\ uptime' = Older(uptime, HANDSHAKE_TIMEOUT + 1)
    /\ shakeAge' = IF link = "shaken" THEN Older(shakeAge, STALE_HANDSHAKE_AGE + 1)
                                      ELSE shakeAge
    /\ rxAge' = Older(rxAge, RECENT_TRAFFIC_WINDOW)
    /\ UNCHANGED <<owned, status, call, link, rxNew, log>>

(* handshake_age is a difference of two readings of the wall clock, which may
   be set: the age can be anything afterwards.  The other clocks are monotonic. *)
ClockStep ==
    /\ runtime # NoRun /\ link = "shaken"
    /\ shakeAge' \in 0 .. STALE_HANDSHAKE_AGE + 1
    /\ UNCHANGED <<owned, status, call, link, rxNew, log, uptime, rxAge>>

-----------------------------------------------------------------------------
CallStep == ValidateReturn \/ Spawn \/ Reaped \/ Escalate \/ GiveUp \/ PollReply

World == \/ Serve \/ Handshake \/ Receive \/ DrainOutput \/ Tick \/ ClockStep
         \/ \E r \in Run : Exit(r)

Next ==
    \/ \E r \in Run : Validate(r) \/ Start(r)
    \/ Stop
    \/ Poll
    \/ CallStep
    \/ World

(* Every wait of a call has a timeout, so the thread's next step comes. *)
Fairness == WF_vars(CallStep)

Spec == Init /\ [][Next]_vars /\ Fairness

-----------------------------------------------------------------------------
(* The variables keep their types. *)
TypeOK ==
    /\ runtime \in Run \cup {NoRun}
    /\ status \in [state : States, proxy : Run \cup {NoRun}]
    /\ files \subseteq Run
    /\ proc \in [Run -> {"alive", "dying", "exited"}]
    /\ pc \in {"idle", "testing", "spawning", "metrics", "term", "kill"}
    /\ cur \in Run \cup {NoRun}
    /\ then \in {"idle", "failed"}
    /\ result \in Results
    /\ elapsed \in 0 .. HANDSHAKE_TIMEOUT + 1
    /\ link \in {"down", "serving", "shaken"}
    /\ rxNew \in BOOLEAN
    /\ log \in 0 .. MaxLines
    /\ uptime \in 0 .. HANDSHAKE_TIMEOUT + 1
    /\ shakeAge \in 0 .. STALE_HANDSHAKE_AGE + 1
    /\ rxAge \in 0 .. RECENT_TRAFFIC_WINDOW

(* "Owns at most one engine process": a child that has not been told to die
   is the one the object owns, or the one stop() is waiting for, through any
   sequence of starts, exits, polls that stop, and stops that give up. *)
OneEngine ==
    \A r \in Run : proc[r] = "alive" => r = runtime \/ (pc = "term" /\ r = cur)

(* No working tunnel is claimed on the strength of a successful exec: a
   status that says connected is about the run owned now, whose peer has
   completed a handshake; never about an earlier run. *)
HonestStatus ==
    status.state \in {"connected", "degraded"} =>
        runtime # NoRun /\ status.proxy = runtime /\ link = "shaken"

(* Between calls the status the UI reads is active exactly while the object
   owns a run, and a proxy address is offered exactly then, for that run:
   a stopped or failed tunnel leaves no address to copy. *)
StatusTracksRuntime ==
    pc = "idle" => /\ IsActive(status) <=> runtime # NoRun
                   /\ status.proxy = runtime

(* A poll that began after the handshake deadline leaves the tunnel up only
   if the peer has completed a handshake, however the metrics were missing. *)
OverdueNeedsHandshake ==
    [][pc = "metrics" /\ Overdue /\ pc' = "idle" /\ result' = "ok" /\ runtime' # NoRun
        => link = "shaken"]_vars

(* Bytes that arrived since the last poll keep the tunnel connected, however
   old the handshake is, or seems to be after the wall clock was set. *)
TrafficIsNotIdle ==
    [][pc = "metrics" /\ rxNew /\ status' # status => status'.state # "degraded"]_vars

(* "How long to wait for a first handshake": once the tunnel has been
   reported as connected, the deadline no longer stops it. *)
EstablishedNotTimedOut ==
    [][pc = "metrics" /\ status.state \in {"connected", "degraded"} => pc' # "term"]_vars

(* Every call returns, a stop of a child that ignores both signals too. *)
CallsReturn == pc # "idle" ~> pc = "idle"

-----------------------------------------------------------------------------
(* The part of the status that a watcher of the tunnel goes by. *)
Face(s) ==
    CASE s.state \in {"starting", "handshaking"} -> "opening"
      [] s.state \in {"connected", "degraded"} -> "open"
      [] s.state = "stopping" -> "closing"
      [] s.state = "idle" -> "off"
      [] OTHER -> s.state

T == INSTANCE Tunnel WITH
        tunnel <- runtime,
        face <- Face(status),
        answered <- link = "shaken",
        alive <- IsRunning

(* The supervisor implements the tunnel its watchers see: it replaces no
   live run, says open only after a handshake of that run, never says off of
   a run that is still to be stopped, and its stops come to an end. *)
IsTunnel == T!TSpec
=============================================================================
