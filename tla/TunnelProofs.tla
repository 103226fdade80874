---------------------------- MODULE TunnelProofs ----------------------------
(***************************************************************************)
(* Every behaviour of the supervisor, its calls and waits left out, is one *)
(* of the tunnel of module Tunnel, for every instance of the constants.    *)
(*                                                                         *)
(* Beside IInv the mapping needs that the owned child is never one that    *)
(* has been given up (a stop that saw it alive waits for it), that a start *)
(* never takes the name of the dead run it replaces, and that no call but  *)
(* a stop says "stopping".                                                 *)
(***************************************************************************)
EXTENDS EngineProofs

Distinct ==
    /\ runtime # NoRun => proc[runtime] # "dying"
    /\ pc = "spawning" => cur # runtime

Settled == status.state = "stopping" => pc \in {"term", "kill"}

(* The operations that take no run over keep what Distinct says of it. *)
LEMMA KeepsDistinct ==
  ASSUME Distinct, runtime' = runtime, proc' = proc,
         pc' = "spawning" => pc = "spawning" /\ cur' = cur
  PROVE  Distinct'
BY DEF Distinct

LEMMA DropsRun ==
  ASSUME runtime' = NoRun, pc' # "spawning"
  PROVE  Distinct'
BY DEF Distinct

LEMMA BeginStopDrops ==
  ASSUME NEW t, BeginStop(t)
  PROVE  Distinct'
BY DropsRun DEF BeginStop, Return, Block

LEMMA CallsDistinct ==
  ASSUME IInv, Distinct, Stop \/ Poll \/ \E r \in Run : Validate(r) \/ Start(r)
  PROVE  Distinct'
<1>1. CASE Stop
  BY <1>1, BeginStopDrops, KeepsDistinct DEF Stop, Return, owned
<1>2. CASE PollNone
  BY <1>2, KeepsDistinct DEF PollNone, Return, owned
<1>3. CASE PollExited
  BY <1>3, DropsRun DEF PollExited, Return
<1>4. CASE PollBegin
  BY <1>4, KeepsDistinct DEF PollBegin, Block, owned
<1>5. ASSUME NEW r \in Run, Validate(r) PROVE Distinct'
  BY <1>5, KeepsDistinct DEF Validate, WriteConfig, Return, Block
<1>6. ASSUME NEW r \in Run, Start(r) PROVE Distinct'
  <2>1. runtime' = runtime /\ proc' = proc /\ r # runtime
    BY <1>6 DEF Start, Fresh
  <2>2. pc' = "spawning" => cur' = r
    BY <1>6 DEF Start, WriteConfig, Return, Block
  <2> QED
    BY <2>1, <2>2 DEF Distinct
<1> QED
  BY <1>1, <1>2, <1>3, <1>4, <1>5, <1>6 DEF Poll

LEMMA CallStepDistinct == IInv /\ Distinct /\ CallStep => Distinct'
<1> SUFFICES ASSUME IInv, Distinct, CallStep PROVE Distinct'
  OBVIOUS
<1>1. CASE ValidateReturn
  BY <1>1, KeepsDistinct DEF ValidateReturn, Return
<1>2. CASE Spawn
  <2>1. cur \in Run /\ proc \in [Run -> {"alive", "dying", "exited"}]
    BY <1>2 DEF Spawn, IInv, CallInv, TypeOK
  <2> QED
    BY <1>2, <2>1, KeepsDistinct DEF Spawn, Return, Distinct
<1>3. CASE Reaped \/ GiveUp
  BY <1>3, KeepsDistinct DEF Reaped, GiveUp, FinishStop, Return
<1>4. CASE Escalate
  BY <1>4, DropsRun DEF Escalate, IInv, CallInv
<1>5. CASE PollReply
  BY <1>5, BeginStopDrops, KeepsDistinct
     DEF PollReply, NoReply, NoHandshake, HasHandshake, MalformedReply, Report, Return, owned
<1> QED
  BY <1>1, <1>2, <1>3, <1>4, <1>5 DEF CallStep

LEMMA NextDistinct == IInv /\ Distinct /\ [Next]_vars => Distinct'
<1> SUFFICES ASSUME IInv, Distinct, [Next]_vars PROVE Distinct'
  OBVIOUS
<1>1. CASE UNCHANGED vars
  BY <1>1, KeepsDistinct DEF vars
<1>2. CASE Serve \/ Handshake \/ Receive \/ DrainOutput \/ Tick \/ ClockStep
  BY <1>2, KeepsDistinct DEF Serve, Handshake, Receive, DrainOutput, Tick, ClockStep, owned, call
<1>3. ASSUME NEW r \in Run, Exit(r) PROVE Distinct'
  BY <1>3 DEF Exit, Distinct, IInv, TypeOK, call
<1> QED
  BY <1>1, <1>2, <1>3, CallsDistinct, CallStepDistinct DEF Next, World

-----------------------------------------------------------------------------
LEMMA StaysSettled ==
  ASSUME Settled,
         \/ status'.state # "stopping"
         \/ status' = status /\ (pc \notin {"term", "kill"} \/ pc' = pc)
         \/ pc' \in {"term", "kill"}
  PROVE  Settled'
BY DEF Settled

LEMMA BeginStopSettles ==
  ASSUME Settled, NEW t \in {"idle", "failed"}, BeginStop(t)
  PROVE  Settled'
BY StaysSettled DEF BeginStop, Told, Block

LEMMA CallStepSettled == IInv /\ Settled /\ CallStep => Settled'
<1> SUFFICES ASSUME IInv, Settled, CallStep PROVE Settled'
  OBVIOUS
<1>1. CASE ValidateReturn
  BY <1>1, StaysSettled DEF ValidateReturn
<1>2. CASE Spawn
  BY <1>2, StaysSettled DEF Spawn
<1>3. CASE Reaped \/ GiveUp
  BY <1>3, StaysSettled DEF Reaped, GiveUp, FinishStop, Told, IInv, TypeOK
<1>4. CASE Escalate
  BY <1>4, StaysSettled DEF Escalate
<1>5. CASE PollReply
  BY <1>5, BeginStopSettles, StaysSettled
     DEF PollReply, NoReply, NoHandshake, HasHandshake, MalformedReply, Report, Advertising
<1> QED
  BY <1>1, <1>2, <1>3, <1>4, <1>5 DEF CallStep

LEMMA NextSettled == IInv /\ Settled /\ [Next]_vars => Settled'
<1> SUFFICES ASSUME IInv, Settled, [Next]_vars PROVE Settled'
  OBVIOUS
<1>1. CASE UNCHANGED vars
  BY <1>1, StaysSettled DEF vars
<1>2. CASE World
  BY <1>2, StaysSettled
     DEF World, Serve, Handshake, Receive, DrainOutput, Tick, ClockStep, Exit, call
<1>3. CASE Stop
  BY <1>3, BeginStopSettles, StaysSettled DEF Stop, Told
<1>4. CASE Poll
  BY <1>4, StaysSettled DEF Poll, PollNone, PollExited, PollBegin, Told
<1>5. ASSUME NEW r \in Run, Validate(r) \/ Start(r) PROVE Settled'
  BY <1>5, StaysSettled DEF Validate, Start
<1> QED
  BY <1>1, <1>2, <1>3, <1>4, <1>5, CallStepSettled DEF Next

TInv == IInv /\ Distinct /\ Settled

LEMMA TInvHolds == Spec => []TInv
<1>1. Init => TInv
  BY InitIInv DEF Init, Distinct, Settled, Told, TInv
<1>2. TInv /\ [Next]_vars => TInv'
  BY NextIInv, NextDistinct, NextSettled DEF TInv
<1> QED
  BY <1>1, <1>2, PTL DEF Spec

-----------------------------------------------------------------------------
(* What the face of a status can be. *)
LEMMA Faces ==
  /\ \A s : s.state = "idle" => Face(s) = "off"
  /\ \A s : s.state = "failed" => Face(s) = "failed"
  /\ \A s : s.state = "stopping" => Face(s) = "closing"
  /\ \A s : s.state \in {"starting", "handshaking"} => Face(s) = "opening"
  /\ \A s : s.state \in {"connected", "degraded"} => Face(s) = "open"
BY DEF Face

(* A step that leaves run, status and handshake alone, and the life of the
   owned child, is not seen from outside. *)
LEMMA Unseen ==
  ASSUME UNCHANGED <<runtime, status>>, (link' = "shaken") <=> (link = "shaken"),
         IsRunning' <=> IsRunning
  PROVE  UNCHANGED T!tvars
BY DEF T!tvars, Face

LEMMA BeginStopCloses ==
  ASSUME IInv, Distinct, NEW t \in {"idle", "failed"}, BeginStop(t)
  PROVE  T!Close
<1>1. runtime # NoRun /\ runtime' = NoRun /\ link' = "down"
  BY DEF BeginStop, ResetFacets
<1>2. ~IsRunning'
  BY <1>1 DEF IsRunning
<1>3. CASE proc[runtime] = "exited"
  <2>1. status'.state = t
    BY <1>3 DEF BeginStop, Told
  <2>2. Face(status') \in {"off", "failed"}
    BY <2>1, Faces
  <2> QED
    BY <1>1, <1>2, <1>3, <2>2 DEF T!Close, IsRunning
<1>4. CASE proc[runtime] # "exited"
  <2>1. IsRunning
    BY <1>1, <1>4 DEF Distinct, IsRunning, IInv, TypeOK
  <2>2. Face(status') = "closing"
    BY <1>4, Faces DEF BeginStop, Told
  <2> QED
    BY <1>1, <1>2, <2>1, <2>2 DEF T!Close
<1> QED
  BY <1>3, <1>4

(* Reporting a state is showing the tunnel anew. *)
LEMMA ReportShows ==
  ASSUME IInv, pc = "metrics", NEW s \in ActiveStates, Report(s), link' = link,
         s \in {"connected", "degraded"} => link = "shaken"
  PROVE  T!Show
<1>1. runtime # NoRun /\ UNCHANGED <<runtime, proc, link>>
  BY NoRunAssumption DEF IInv, CallInv, Report, owned
<1>2. Face(status') = "opening" \/ (link = "shaken" /\ Face(status') = "open")
  BY Faces DEF Report, Advertising, ActiveStates
<1> QED
  BY <1>1, <1>2 DEF T!Show, IsRunning

LEMMA PollReplyRefines ==
  ASSUME IInv, Distinct, PollReply
  PROVE  [T!TNext]_(T!tvars)
<1>0. pc = "metrics"
  BY DEF PollReply
<1>1. ASSUME BeginStop("failed") PROVE T!TNext
  BY <1>1, BeginStopCloses DEF T!TNext
<1>2. CASE NoReply /\ ~BeginStop("failed")
  <2> DEFINE s == IF elapsed < STARTUP_GRACE THEN "starting" ELSE "handshaking"
  <2>1. Report(s) /\ link' = link
    BY <1>2 DEF NoReply, facets
  <2>2. s \in ActiveStates /\ s \notin {"connected", "degraded"}
    BY DEF ActiveStates
  <2> QED
    BY <1>0, <2>1, <2>2, ReportShows DEF T!TNext
<1>3. CASE NoHandshake /\ ~BeginStop("failed")
  BY <1>0, <1>3, ReportShows DEF NoHandshake, SeeTraffic, ActiveStates, T!TNext
<1>4. CASE HasHandshake
  <2> DEFINE s == IF shakeAge > STALE_HANDSHAKE_AGE /\ rxAge' >= RECENT_TRAFFIC_WINDOW
                  THEN "degraded" ELSE "connected"
  <2>1. Report(s) /\ link' = link /\ link = "shaken"
    BY <1>4 DEF HasHandshake, SeeTraffic
  <2>2. s \in ActiveStates
    BY DEF ActiveStates
  <2> HIDE DEF s
  <2> QED
    BY <1>0, <2>1, <2>2, ReportShows DEF T!TNext
<1>5. CASE MalformedReply
  BY <1>5, Unseen DEF MalformedReply, owned, facets, IsRunning
<1> QED
  BY <1>1, <1>2, <1>3, <1>4, <1>5 DEF PollReply

(* A new child comes while none is alive, under another name, and never in
   the middle of a stop. *)
LEMMA SpawnRefines ==
  ASSUME TInv, Spawn
  PROVE  [T!TNext]_(T!tvars)
<1>0. cur \in Run /\ ~IsRunning /\ cur # runtime /\ pc = "spawning"
  BY DEF Spawn, TInv, IInv, CallInv, Distinct
<1>1. CASE UNCHANGED <<runtime, status, proc, facets>>
  BY <1>1, Unseen DEF facets, IsRunning
<1>2. CASE /\ proc' = [proc EXCEPT ![cur] = "alive"]
           /\ runtime' = cur
           /\ status' = [state |-> "starting", proxy |-> cur]
           /\ ResetFacets
  <2>1. IsRunning' /\ link' = "down"
    BY <1>0, <1>2, NoRunAssumption DEF IsRunning, ResetFacets, TInv, IInv, TypeOK
  <2>2. Face(status') = "opening"
    BY <1>2, Faces
  <2>3. Face(status) # "closing"
    <3>1. status.state \in States /\ status.state # "stopping"
      BY <1>0 DEF TInv, Settled, IInv, TypeOK
    <3> QED
      BY <3>1, Faces DEF States, ActiveStates
  <2> QED
    BY <1>0, <1>2, <2>1, <2>2, <2>3 DEF T!TNext, T!Open
<1> QED
  BY <1>1, <1>2 DEF Spawn

-----------------------------------------------------------------------------
(* The other steps of the supervisor, and of the world around it. *)
LEMMA CallStepRefines ==
  ASSUME TInv, CallStep
  PROVE  [T!TNext]_(T!tvars)
<1>1. CASE ValidateReturn
  BY <1>1, Unseen DEF ValidateReturn, facets, IsRunning
<1>2. CASE Reaped \/ GiveUp
  <2>1. runtime = NoRun /\ status = Told("stopping") /\ then \in {"idle", "failed"}
    BY <1>2 DEF TInv, IInv, TypeOK, CallInv, StatusOwned, Reaped, GiveUp
  <2>2. UNCHANGED <<runtime, proc, link>> /\ status' = Told(then)
    BY <1>2 DEF Reaped, GiveUp, FinishStop, facets
  <2>3. Face(status) = "closing" /\ Face(status') \in {"off", "failed"}
    BY <2>1, <2>2, Faces DEF Told
  <2> QED
    BY <2>2, <2>3 DEF T!TNext, T!Closed, IsRunning
<1>3. CASE Escalate
  <2>1. runtime = NoRun
    BY <1>3 DEF TInv, IInv, CallInv, Escalate
  <2> QED
    BY <1>3, <2>1, Unseen DEF Escalate, facets, IsRunning
<1> QED
  BY <1>1, <1>2, <1>3, SpawnRefines, PollReplyRefines DEF CallStep, TInv

(* No run, and no stop in progress: the status is reset. *)
LEMMA ResetForgets ==
  ASSUME TInv, pc = "idle", runtime = NoRun, status' = Told("idle"), UNCHANGED <<owned, facets>>
  PROVE  T!Forget
<1>1. status.state \in States /\ status.state # "stopping"
  BY DEF TInv, Settled, IInv, TypeOK
<1>2. Face(status) # "closing" /\ Face(status') = "off"
  BY <1>1, Faces DEF States, ActiveStates, Told
<1> QED
  BY <1>2 DEF T!Forget, owned, facets, IsRunning

LEMMA CallsRefine ==
  ASSUME TInv, Stop \/ Poll \/ \E r \in Run : Validate(r) \/ Start(r)
  PROVE  [T!TNext]_(T!tvars)
<1>1. CASE BeginStop("idle")
  BY <1>1, BeginStopCloses DEF TInv, T!TNext
<1>2. CASE Stop /\ ~BeginStop("idle")
  BY <1>2, ResetForgets DEF Stop, T!TNext
<1>3. CASE PollNone
  BY <1>3, ResetForgets DEF PollNone, T!TNext
<1>4. CASE PollExited
  <2>1. runtime # NoRun /\ runtime' = NoRun /\ link' = "down" /\ ~IsRunning
    BY <1>4 DEF PollExited, ResetFacets, IsRunning
  <2>2. Face(status') = "failed"
    BY <1>4, Faces DEF PollExited, Told
  <2> QED
    BY <2>1, <2>2 DEF T!TNext, T!Close, IsRunning
<1>5. CASE PollBegin
  BY <1>5, Unseen DEF PollBegin, owned, facets, IsRunning
<1>6. CASE \E r \in Run : Validate(r) \/ Start(r)
  BY <1>6, Unseen DEF Validate, Start, facets, IsRunning
<1> QED
  BY <1>1, <1>2, <1>3, <1>4, <1>5, <1>6 DEF Poll

LEMMA WorldRefines ==
  ASSUME TInv, World
  PROVE  [T!TNext]_(T!tvars)
<1>1. CASE Serve
  BY <1>1, Unseen DEF Serve, owned, IsRunning
<1>2. CASE Handshake
  BY <1>2 DEF Handshake, owned, IsRunning, T!TNext, T!Answer
<1>3. CASE Receive \/ DrainOutput \/ Tick \/ ClockStep
  BY <1>3, Unseen DEF Receive, DrainOutput, Tick, ClockStep, owned, IsRunning
<1>4. ASSUME NEW r \in Run, Exit(r) PROVE [T!TNext]_(T!tvars)
  <2>1. proc \in [Run -> {"alive", "dying", "exited"}]
    BY DEF TInv, IInv, TypeOK
  <2>2. UNCHANGED <<runtime, status, link>>
    BY <1>4 DEF Exit, facets
  <2>3. CASE r = runtime
    <3>1. IsRunning /\ ~IsRunning'
      BY <1>4, <2>1, <2>3, NoRunAssumption DEF Exit, IsRunning, TInv, Distinct
    <3> QED
      BY <2>2, <3>1 DEF T!TNext, T!Break
  <2>4. CASE r # runtime
    <3>1. IsRunning' <=> IsRunning
      BY <1>4, <2>1, <2>2, <2>4 DEF Exit, IsRunning, TInv, IInv, TypeOK
    <3> QED
      BY <2>2, <3>1, Unseen
  <2> QED
    BY <2>3, <2>4
<1> QED
  BY <1>1, <1>2, <1>3, <1>4 DEF World

LEMMA NextRefines == TInv /\ [Next]_vars => [T!TNext]_(T!tvars)
<1> SUFFICES ASSUME TInv, [Next]_vars PROVE [T!TNext]_(T!tvars)
  OBVIOUS
<1>1. CASE UNCHANGED vars
  BY <1>1, Unseen DEF vars, IsRunning
<1> QED
  BY <1>1, CallsRefine, CallStepRefines, WorldRefines DEF Next

(* The supervisor implements the safety part of the tunnel: start() replaces
   no live run, a status says open only after a handshake of its run, and a
   live run is not said to be off before stop() has waited for it. *)
THEOREM ImplementsTunnel == Spec => T!TSafe
<1>1. Init => T!TInit
  BY Faces DEF Init, Told, T!TInit, IsRunning
<1>2. TInv /\ [Next]_vars => [T!TNext]_(T!tvars)
  BY NextRefines
<1> QED
  BY <1>1, <1>2, TInvHolds, PTL DEF Spec, T!TSafe
=============================================================================
