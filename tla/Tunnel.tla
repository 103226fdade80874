------------------------------- MODULE Tunnel -------------------------------
(***************************************************************************)
(* What the supervisor promises to whoever watches it: class Engine        *)
(* without its calls, its config files and its clocks.  Module Engine      *)
(* implements this one, and module Threads is built on it.                 *)
(*                                                                         *)
(* There is one tunnel at a time.  It has a face, the part of the status   *)
(* the window shows, and the face is open only for a tunnel whose peer has *)
(* answered.  A live tunnel is closed before it is said to be off, and no  *)
(* other is opened meanwhile.                                              *)
(***************************************************************************)

CONSTANTS
    Run,        \* names of the engine's runs
    NoRun       \* no tunnel

ASSUME TunnelAssumption == NoRun \notin Run

VARIABLES
    tunnel,     \* the run behind the proxy, _runtime
    face,       \* what the status says of it
    answered,   \* the peer of this run has completed a handshake
    alive       \* the engine of this run has not exited

tvars == <<tunnel, face, answered, alive>>

TInit ==
    /\ tunnel = NoRun
    /\ face = "off"
    /\ answered = FALSE
    /\ alive = FALSE

-----------------------------------------------------------------------------
(* Only a tunnel that is down, or dead and not noticed yet, is replaced. *)
Open(r) ==
    /\ ~alive
    /\ r # tunnel
    /\ face # "closing"
    /\ tunnel' = r
    /\ face' = "opening"
    /\ answered' = FALSE
    /\ alive' = TRUE

Answer ==
    /\ alive
    /\ answered' = TRUE
    /\ UNCHANGED <<tunnel, face, alive>>

Break ==
    /\ alive
    /\ alive' = FALSE
    /\ UNCHANGED <<tunnel, face, answered>>

(* The status is taken anew; a request for it may have failed. *)
Show ==
    /\ tunnel # NoRun
    /\ face' = "opening" \/ (answered /\ face' = "open")
    /\ UNCHANGED <<tunnel, answered, alive>>

(* Of a dead tunnel nothing is left to be closed. *)
Close ==
    /\ tunnel # NoRun
    /\ tunnel' = NoRun
    /\ answered' = FALSE
    /\ alive' = FALSE
    /\ IF alive THEN face' = "closing" ELSE face' \in {"off", "failed"}

Closed ==
    /\ face = "closing"
    /\ face' \in {"off", "failed"}
    /\ UNCHANGED <<tunnel, answered, alive>>

(* A failure is told until the next status is taken. *)
Forget ==
    /\ tunnel = NoRun
    /\ face # "closing"
    /\ face' = "off"
    /\ UNCHANGED <<tunnel, answered, alive>>

-----------------------------------------------------------------------------
TNext == (\E r \in Run : Open(r)) \/ Answer \/ Break \/ Show \/ Close \/ Closed \/ Forget

(* The safety part, and the promise that closing ends. *)
TSafe == TInit /\ [][TNext]_tvars
TSpec == TSafe /\ WF_tvars(Closed)
=============================================================================
