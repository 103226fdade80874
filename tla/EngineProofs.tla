---------------------------- MODULE EngineProofs ----------------------------
(***************************************************************************)
(* Proofs about the supervisor, for every set of runs and every choice of  *)
(* the time limits, the log length and the exceptions that escape.         *)
(*                                                                         *)
(* StatusTracksRuntime says nothing of the middle of a call, so it is not  *)
(* inductive; CallInv says what each value of pc promises about the run    *)
(* the call works on, and StatusOwned extends the promise on the status to *)
(* every call except a stop.  OneEngine stands apart from IInv: a UI       *)
(* process that is killed leaves its child behind (module Window), and     *)
(* IInv survives that.                                                     *)
(***************************************************************************)
EXTENDS Engine, TLAPS

CallInv ==
    /\ pc = "testing" => cur \in Run
    /\ pc = "spawning" => cur \in Run /\ ~IsRunning
    /\ pc = "metrics" => runtime \in Run
    /\ pc \in {"term", "kill"} => cur \in Run /\ runtime = NoRun

StatusOwned ==
    IF pc \in {"term", "kill"}
    THEN status = Told("stopping")
    ELSE (IsActive(status) <=> runtime # NoRun) /\ status.proxy = runtime

IInv == TypeOK /\ CallInv /\ HonestStatus /\ StatusOwned

-----------------------------------------------------------------------------
(* The operations one by one keep the types. *)

(* The facets of a run that has just started, or of none. *)
FacetsOK ==
    /\ link \in {"down", "serving", "shaken"}
    /\ rxNew \in BOOLEAN
    /\ log \in 0 .. MaxLines
    /\ uptime \in 0 .. HANDSHAKE_TIMEOUT + 1
    /\ shakeAge \in 0 .. STALE_HANDSHAKE_AGE + 1
    /\ rxAge \in 0 .. RECENT_TRAFFIC_WINDOW

LEMMA ResetFacetsTypes == ResetFacets => FacetsOK'
<1> SUFFICES ASSUME ResetFacets PROVE FacetsOK'
  OBVIOUS
<1>1. link' \in {"down", "serving", "shaken"} /\ rxNew' \in BOOLEAN
  BY Zenon DEF ResetFacets
<1>2. /\ log' \in 0 .. MaxLines
      /\ uptime' \in 0 .. HANDSHAKE_TIMEOUT + 1
      /\ shakeAge' \in 0 .. STALE_HANDSHAKE_AGE + 1
      /\ rxAge' \in 0 .. RECENT_TRAFFIC_WINDOW
  BY LimitsAssumption, MaxLinesAssumption DEF ResetFacets
<1> QED
  BY <1>1, <1>2 DEF FacetsOK

LEMMA InitIInv == Init => IInv
<1> SUFFICES ASSUME Init PROVE IInv
  OBVIOUS
<1> USE NoRunAssumption, LimitsAssumption, MaxLinesAssumption DEF Init
<1>1. status \in [state : States, proxy : Run \cup {NoRun}]
  BY DEF Told, States
<1>2. TypeOK
  <2>1. rxNew \in BOOLEAN
    BY Zenon
  <2> QED
    BY <1>1, <2>1 DEF TypeOK, Results
<1>3. CallInv /\ HonestStatus
  BY DEF CallInv, HonestStatus, Told
<1>4. StatusOwned
  BY DEF StatusOwned, IsActive, Told, ActiveStates
<1> QED
  BY <1>2, <1>3, <1>4 DEF IInv

(* A call that ends without having touched anything. *)
LEMMA ReturnIInv ==
  ASSUME IInv, NEW res \in Results, pc \in {"idle", "testing", "metrics"}, Return(res),
         files' \subseteq Run, UNCHANGED <<runtime, status, proc, facets>>
  PROVE  IInv'
<1>1. TypeOK'
  <2>1. UNCHANGED <<runtime, status, proc, link, rxNew, log, uptime, shakeAge, rxAge>>
    BY DEF facets
  <2>2. elapsed' \in 0 .. HANDSHAKE_TIMEOUT + 1
    BY LimitsAssumption DEF Return
  <2>3. /\ pc' = "idle" /\ cur' \in Run \cup {NoRun}
        /\ then' = "idle" /\ result' \in Results
    BY DEF Return
  <2> QED
    BY <2>1, <2>2, <2>3, Zenon DEF IInv, TypeOK
<1>2. CallInv' /\ HonestStatus'
  BY DEF IInv, CallInv, HonestStatus, Return, facets
<1>3. StatusOwned'
  BY DEF IInv, StatusOwned, IsActive, Return
<1> QED
  BY <1>1, <1>2, <1>3 DEF IInv

LEMMA BeginStopIInv ==
  ASSUME NEW t \in {"idle", "failed"}, IInv, pc \in {"idle", "metrics"}, BeginStop(t)
  PROVE  IInv'
<1> USE NoRunAssumption, LimitsAssumption, MaxLinesAssumption
<1>0. status' \in [state : States, proxy : Run \cup {NoRun}]
  BY DEF BeginStop, Told, States
<1>1. TypeOK'
  <2>1. FacetsOK'
    BY ResetFacetsTypes DEF BeginStop
  <2>2. /\ runtime' \in Run \cup {NoRun}
        /\ files' \subseteq Run
        /\ proc' \in [Run -> {"alive", "dying", "exited"}]
        /\ pc' \in {"idle", "term"}
        /\ cur' \in Run \cup {NoRun}
        /\ then' \in {"idle", "failed"}
        /\ result' \in Results
        /\ elapsed' \in 0 .. HANDSHAKE_TIMEOUT + 1
    BY DEF IInv, TypeOK, BeginStop, Return, Block, Results
  <2> QED
    BY <1>0, <2>1, <2>2 DEF TypeOK, FacetsOK
<1>2. CallInv'
  BY DEF IInv, TypeOK, CallInv, BeginStop, Return, Block, IsRunning
<1>3. HonestStatus'
  BY DEF IInv, HonestStatus, BeginStop, Told
<1>4. StatusOwned'
  BY DEF IInv, StatusOwned, BeginStop, Return, Block, Told, IsActive, ActiveStates
<1> QED
  BY <1>1, <1>2, <1>3, <1>4 DEF IInv

LEMMA ReportIInv ==
  ASSUME NEW s \in ActiveStates, IInv, pc = "metrics", Report(s),
         link' = link, rxNew' \in BOOLEAN, rxAge' \in 0 .. RECENT_TRAFFIC_WINDOW,
         UNCHANGED <<log, uptime, shakeAge>>,
         s \in {"connected", "degraded"} => link = "shaken"
  PROVE  IInv'
<1> USE NoRunAssumption, LimitsAssumption, MaxLinesAssumption
<1>1. TypeOK'
  BY DEF IInv, TypeOK, Report, Advertising, Return, owned, States, ActiveStates, Results
<1>2. CallInv'
  BY DEF Report, Return, CallInv
<1>3. HonestStatus'
  BY DEF IInv, CallInv, HonestStatus, Report, Advertising, owned
<1>4. StatusOwned'
  BY DEF IInv, CallInv, StatusOwned, Report, Return, Advertising, IsActive, owned
<1> QED
  BY <1>1, <1>2, <1>3, <1>4 DEF IInv

(* The dates of the traffic stay within their bounds. *)
LEMMA SeeTrafficTypes ==
  ASSUME TypeOK, SeeTraffic
  PROVE  /\ rxNew' \in BOOLEAN
         /\ rxAge' \in 0 .. RECENT_TRAFFIC_WINDOW
         /\ UNCHANGED <<link, log, uptime, shakeAge>>
<1>1. rxNew' \in BOOLEAN
  BY Zenon DEF SeeTraffic
<1>2. 0 \in 0 .. RECENT_TRAFFIC_WINDOW
  BY LimitsAssumption
<1>3. rxAge' \in 0 .. RECENT_TRAFFIC_WINDOW
  BY <1>2, Zenon DEF SeeTraffic, TypeOK
<1>4. UNCHANGED <<link, log, uptime, shakeAge>>
  BY DEF SeeTraffic
<1> QED
  BY <1>1, <1>3, <1>4

LEMMA PollReplyIInv == IInv /\ PollReply => IInv'
<1> SUFFICES ASSUME IInv, PollReply PROVE IInv'
  OBVIOUS
<1> USE NoRunAssumption, LimitsAssumption, MaxLinesAssumption
<1>1. CASE NoReply
  <2>1. CASE Overdue /\ BeginStop("failed")
    BY <2>1, BeginStopIInv DEF PollReply
  <2>2. CASE ~Overdue
    <3> DEFINE s == IF elapsed < STARTUP_GRACE THEN "starting" ELSE "handshaking"
    <3>1. Report(s) /\ UNCHANGED facets
      BY <1>1, <2>2 DEF NoReply
    <3>2. s \in ActiveStates /\ s \notin {"connected", "degraded"}
      BY DEF ActiveStates
    <3> QED
      BY <3>1, <3>2, ReportIInv DEF PollReply, facets, IInv, TypeOK
  <2> QED
    BY <1>1, <2>1, <2>2 DEF NoReply
<1>2. CASE NoHandshake
  <2>1. CASE Overdue /\ BeginStop("failed")
    BY <2>1, BeginStopIInv DEF PollReply
  <2>2. CASE ~Overdue
    <3>1. SeeTraffic /\ Report("handshaking")
      BY <1>2, <2>2 DEF NoHandshake
    <3> QED
      BY <3>1, SeeTrafficTypes, ReportIInv DEF PollReply, ActiveStates, IInv
  <2> QED
    BY <1>2, <2>1, <2>2 DEF NoHandshake
<1>3. CASE HasHandshake
  <2> DEFINE s == IF shakeAge > STALE_HANDSHAKE_AGE /\ rxAge' >= RECENT_TRAFFIC_WINDOW
                  THEN "degraded" ELSE "connected"
  <2>1. Report(s) /\ SeeTraffic /\ link = "shaken"
    BY <1>3 DEF HasHandshake
  <2>2. s \in ActiveStates
    BY DEF ActiveStates
  <2> HIDE DEF s
  <2> QED
    BY <2>1, <2>2, SeeTrafficTypes, ReportIInv DEF PollReply, IInv
<1>4. CASE MalformedReply
  <2>1. files' \subseteq Run
    BY <1>4 DEF MalformedReply, owned, IInv, TypeOK
  <2>2. "HTTPException" \in Results
    BY DEF Results
  <2> QED
    BY <1>4, <2>1, <2>2, ReturnIInv DEF PollReply, MalformedReply, owned, facets
<1> QED
  BY <1>1, <1>2, <1>3, <1>4 DEF PollReply

-----------------------------------------------------------------------------
(* validate() and start() *)

LEMMA ResultTypes ==
  /\ {"ok", "EngineError"} \cup (Escapes \cap {"OSError"}) \subseteq Results
  /\ {"ok", "EngineError", "OSError", "HTTPException"} = Results
BY DEF Results

LEMMA WriteConfigIInv ==
  ASSUME IInv, NEW r \in Run, NEW next \in {"testing", "spawning"}, pc = "idle",
         WriteConfig(r, next), next = "spawning" => ~IsRunning,
         UNCHANGED <<runtime, status, proc, facets>>
  PROVE  IInv'
<1>1. files' \subseteq Run
  BY DEF WriteConfig, IInv, TypeOK
<1>2. CASE Return("OSError")
  BY <1>1, <1>2, ResultTypes, ReturnIInv
<1>3. CASE Block(next, r, "idle", 0)
  <2>1. TypeOK'
    <3>1. UNCHANGED <<runtime, status, proc, link, rxNew, log, uptime, shakeAge, rxAge>>
      BY DEF facets
    <3>2. elapsed' \in 0 .. HANDSHAKE_TIMEOUT + 1
      BY <1>3, LimitsAssumption DEF Block
    <3>3. /\ pc' \in {"testing", "spawning"} /\ cur' \in Run \cup {NoRun}
          /\ then' = "idle" /\ result' = result
      BY <1>3 DEF Block
    <3> QED
      BY <1>1, <3>1, <3>2, <3>3, Zenon DEF IInv, TypeOK
  <2>2. CallInv'
    BY <1>3 DEF CallInv, Block, IsRunning
  <2>3. HonestStatus'
    BY <1>3 DEF IInv, HonestStatus, Block, facets
  <2>4. StatusOwned'
    BY <1>3 DEF IInv, StatusOwned, IsActive, Block
  <2> QED
    BY <2>1, <2>2, <2>3, <2>4 DEF IInv
<1> QED
  BY <1>2, <1>3 DEF WriteConfig

LEMMA ValidateIInv ==
  ASSUME IInv, NEW r \in Run, Validate(r)
  PROVE  IInv'
<1>1. CASE Return("EngineError") /\ UNCHANGED files
  BY <1>1, ResultTypes, ReturnIInv DEF Validate, IInv, TypeOK
<1>2. CASE WriteConfig(r, "testing")
  BY <1>2, WriteConfigIInv DEF Validate
<1> QED
  BY <1>1, <1>2 DEF Validate

LEMMA StartIInv ==
  ASSUME IInv, NEW r \in Run, Start(r)
  PROVE  IInv'
<1>1. CASE Return("EngineError") /\ UNCHANGED files
  BY <1>1, ResultTypes, ReturnIInv DEF Start, IInv, TypeOK
<1>2. CASE ~IsRunning /\ WriteConfig(r, "spawning")
  BY <1>2, WriteConfigIInv DEF Start
<1> QED
  BY <1>1, <1>2 DEF Start

LEMMA ValidateReturnIInv == IInv /\ ValidateReturn => IInv'
<1> SUFFICES ASSUME IInv, ValidateReturn PROVE IInv'
  OBVIOUS
<1>1. PICK res \in Results : Return(res)
  BY ResultTypes DEF ValidateReturn
<1>2. files' \subseteq Run
  BY DEF ValidateReturn, IInv, TypeOK
<1> QED
  BY <1>1, <1>2, ReturnIInv DEF ValidateReturn

LEMMA SpawnIInv == IInv /\ Spawn => IInv'
<1> SUFFICES ASSUME IInv, Spawn PROVE IInv'
  OBVIOUS
<1>0. cur \in Run /\ ~IsRunning /\ pc = "spawning"
  BY DEF IInv, CallInv, Spawn
<1>1. CASE UNCHANGED <<runtime, status, proc, facets>> /\ Return("EngineError") /\ files' = files \ {cur}
  <2>1. TypeOK'
    <3>1. UNCHANGED <<runtime, status, proc, link, rxNew, log, uptime, shakeAge, rxAge>>
      BY <1>1 DEF facets
    <3>2. elapsed' \in 0 .. HANDSHAKE_TIMEOUT + 1
      BY <1>1, LimitsAssumption DEF Return
    <3>3. /\ pc' = "idle" /\ cur' \in Run \cup {NoRun} /\ files' \subseteq Run
          /\ then' = "idle" /\ result' \in Results
      BY <1>1, ResultTypes DEF Return, IInv, TypeOK
    <3> QED
      BY <3>1, <3>2, <3>3, Zenon DEF IInv, TypeOK
  <2>2. CallInv' /\ HonestStatus'
    BY <1>0, <1>1 DEF IInv, CallInv, HonestStatus, Return, facets
  <2>3. StatusOwned'
    BY <1>0, <1>1 DEF IInv, StatusOwned, IsActive, Return
  <2> QED
    BY <2>1, <2>2, <2>3 DEF IInv
<1>2. CASE /\ proc' = [proc EXCEPT ![cur] = "alive"]
           /\ runtime' = cur
           /\ status' = [state |-> "starting", proxy |-> cur]
           /\ ResetFacets
           /\ Return("ok")
           /\ UNCHANGED files
  <2>1. TypeOK'
    <3>1. FacetsOK'
      BY <1>2, ResetFacetsTypes
    <3>2. status' \in [state : States, proxy : Run \cup {NoRun}]
      BY <1>0, <1>2 DEF States, ActiveStates
    <3>3. /\ runtime' \in Run \cup {NoRun}
          /\ files' \subseteq Run
          /\ proc' \in [Run -> {"alive", "dying", "exited"}]
          /\ pc' = "idle"
          /\ cur' \in Run \cup {NoRun}
          /\ then' = "idle"
          /\ result' \in Results
          /\ elapsed' \in 0 .. HANDSHAKE_TIMEOUT + 1
      BY <1>0, <1>2, LimitsAssumption, ResultTypes DEF IInv, TypeOK, Return
    <3> QED
      BY <3>1, <3>2, <3>3 DEF TypeOK, FacetsOK
  <2>2. CallInv'
    BY <1>2 DEF CallInv, Return
  <2>3. HonestStatus'
    BY <1>2 DEF HonestStatus
  <2>4. StatusOwned'
    BY <1>0, <1>2, NoRunAssumption DEF StatusOwned, IsActive, ActiveStates, Return
  <2> QED
    BY <2>1, <2>2, <2>3, <2>4 DEF IInv
<1> QED
  BY <1>1, <1>2 DEF Spawn

-----------------------------------------------------------------------------
(* stop() and the end of poll() *)

(* A call ends with no run owned. *)
LEMMA SettleIInv ==
  ASSUME IInv, NEW t \in {"idle", "failed"}, runtime = NoRun,
         status' = Told(t), Return("ok"), files' \subseteq Run,
         UNCHANGED <<runtime, proc, facets>>
  PROVE  IInv'
<1>1. TypeOK'
  <2>1. UNCHANGED <<runtime, proc, link, rxNew, log, uptime, shakeAge, rxAge>>
    BY DEF facets
  <2>2. status' \in [state : States, proxy : Run \cup {NoRun}]
    BY DEF Told, States
  <2>3. elapsed' \in 0 .. HANDSHAKE_TIMEOUT + 1
    BY LimitsAssumption DEF Return
  <2>4. /\ pc' = "idle" /\ cur' \in Run \cup {NoRun}
        /\ then' = "idle" /\ result' \in Results
    BY ResultTypes DEF Return
  <2> QED
    BY <2>1, <2>2, <2>3, <2>4, Zenon DEF IInv, TypeOK
<1>2. CallInv'
  BY DEF CallInv, Return
<1>3. HonestStatus' /\ StatusOwned'
  BY DEF HonestStatus, StatusOwned, IsActive, ActiveStates, Told, Return
<1> QED
  BY <1>1, <1>2, <1>3 DEF IInv

LEMMA StopIInv == IInv /\ Stop => IInv'
<1> SUFFICES ASSUME IInv, Stop PROVE IInv'
  OBVIOUS
<1>1. CASE BeginStop("idle")
  BY <1>1, BeginStopIInv DEF Stop
<1>2. CASE /\ runtime = NoRun
           /\ status' = Told("idle")
           /\ Return("ok")
           /\ UNCHANGED <<owned, facets>>
  BY <1>2, SettleIInv DEF Stop, owned, IInv, TypeOK
<1> QED
  BY <1>1, <1>2 DEF Stop

LEMMA FinishStopIInv ==
  ASSUME IInv, pc \in {"term", "kill"}, FinishStop
  PROVE  IInv'
<1>1. then \in {"idle", "failed"} /\ files' \subseteq Run /\ runtime = NoRun
  BY DEF IInv, TypeOK, CallInv, FinishStop
<1> QED
  BY <1>1, SettleIInv DEF FinishStop

LEMMA EscalateIInv == IInv /\ Escalate => IInv'
<1> SUFFICES ASSUME IInv, Escalate PROVE IInv'
  OBVIOUS
<1>1. cur \in Run /\ runtime = NoRun /\ pc = "term"
  BY DEF IInv, CallInv, Escalate
<1>2. TypeOK'
  <2>1. proc' \in [Run -> {"alive", "dying", "exited"}]
    BY DEF Escalate, IInv, TypeOK
  <2>2. UNCHANGED <<runtime, status, files, cur, then, result, elapsed,
                    link, rxNew, log, uptime, shakeAge, rxAge>> /\ pc' = "kill"
    BY DEF Escalate, facets
  <2> QED
    BY <2>1, <2>2, Zenon DEF IInv, TypeOK
<1>3. CallInv'
  BY <1>1 DEF CallInv, Escalate
<1>4. HonestStatus' /\ StatusOwned'
  BY <1>1 DEF IInv, HonestStatus, StatusOwned, Escalate, facets, Told
<1> QED
  BY <1>2, <1>3, <1>4 DEF IInv

-----------------------------------------------------------------------------
(* poll() up to the metrics *)

LEMMA PollExitedIInv == IInv /\ PollExited => IInv'
<1> SUFFICES ASSUME IInv, PollExited PROVE IInv'
  OBVIOUS
<1>1. TypeOK'
  <2>1. FacetsOK'
    BY ResetFacetsTypes DEF PollExited
  <2>2. status' \in [state : States, proxy : Run \cup {NoRun}]
    BY DEF PollExited, Told, States
  <2>3. /\ runtime' \in Run \cup {NoRun}
        /\ files' \subseteq Run
        /\ proc' \in [Run -> {"alive", "dying", "exited"}]
        /\ pc' = "idle"
        /\ cur' \in Run \cup {NoRun}
        /\ then' = "idle"
        /\ result' \in Results
        /\ elapsed' \in 0 .. HANDSHAKE_TIMEOUT + 1
    BY LimitsAssumption, ResultTypes DEF IInv, TypeOK, PollExited, Return
  <2> QED
    BY <2>1, <2>2, <2>3 DEF TypeOK, FacetsOK
<1>2. CallInv' /\ HonestStatus'
  BY DEF CallInv, HonestStatus, PollExited, Return, Told
<1>3. StatusOwned'
  BY DEF StatusOwned, PollExited, Return, Told, IsActive, ActiveStates
<1> QED
  BY <1>1, <1>2, <1>3 DEF IInv

LEMMA PollBeginIInv == IInv /\ PollBegin => IInv'
<1> SUFFICES ASSUME IInv, PollBegin PROVE IInv'
  OBVIOUS
<1>1. TypeOK'
  <2>1. UNCHANGED <<runtime, status, files, proc, link, rxNew, log, uptime, shakeAge, rxAge>>
    BY DEF PollBegin, owned, facets
  <2>2. /\ pc' = "metrics" /\ cur' = runtime /\ then' = "idle"
        /\ elapsed' = uptime /\ result' = result
    BY DEF PollBegin, Block
  <2> QED
    BY <2>1, <2>2, Zenon DEF IInv, TypeOK
<1>2. CallInv'
  BY DEF IInv, TypeOK, CallInv, PollBegin, Block, IsRunning, owned
<1>3. HonestStatus'
  BY DEF IInv, HonestStatus, PollBegin, Block, owned, facets
<1>4. StatusOwned'
  BY DEF IInv, StatusOwned, PollBegin, Block, owned, IsActive
<1> QED
  BY <1>1, <1>2, <1>3, <1>4 DEF IInv

LEMMA PollIInv == IInv /\ Poll => IInv'
<1> SUFFICES ASSUME IInv, Poll PROVE IInv'
  OBVIOUS
<1>1. CASE PollNone
  BY <1>1, SettleIInv DEF PollNone, owned, IInv, TypeOK
<1> QED
  BY <1>1, PollExitedIInv, PollBeginIInv DEF Poll

-----------------------------------------------------------------------------
(* What moves while a call waits, or between calls *)

LEMMA ExitIInv ==
  ASSUME IInv, NEW r \in Run, Exit(r)
  PROVE  IInv'
<1>1. TypeOK'
  <2>1. proc' \in [Run -> {"alive", "dying", "exited"}]
    BY DEF Exit, IInv, TypeOK
  <2>2. UNCHANGED <<runtime, status, files, pc, cur, then, result, elapsed,
                    link, rxNew, log, uptime, shakeAge, rxAge>>
    BY DEF Exit, call, facets
  <2> QED
    BY <2>1, <2>2, Zenon DEF IInv, TypeOK
<1>2. \A q \in Run : proc'[q] = "alive" => proc[q] = "alive"
  BY DEF IInv, TypeOK, Exit
<1>3. CallInv'
  BY <1>2 DEF IInv, TypeOK, CallInv, IsRunning, Exit, call
<1>4. HonestStatus' /\ StatusOwned'
  BY DEF IInv, HonestStatus, StatusOwned, IsActive, Exit, call, facets
<1> QED
  BY <1>1, <1>3, <1>4 DEF IInv

LEMMA FacetIInv ==
  ASSUME IInv, UNCHANGED <<owned, status, call>>, FacetsOK',
         link' = link \/ link' = "shaken" \/ link = "down"
  PROVE  IInv'
<1>1. UNCHANGED <<runtime, files, proc, status, pc, cur, then, result, elapsed>>
  BY DEF owned, call
<1>2. TypeOK'
  BY <1>1, Zenon DEF IInv, TypeOK, FacetsOK
<1>3. CallInv' /\ StatusOwned'
  BY <1>1 DEF IInv, CallInv, StatusOwned, IsRunning, IsActive
<1>4. HonestStatus'
  BY <1>1 DEF IInv, HonestStatus
<1> QED
  BY <1>2, <1>3, <1>4 DEF IInv

LEMMA OlderTypes ==
  ASSUME NEW cap \in Nat, NEW age \in 0 .. cap
  PROVE  Older(age, cap) \in 0 .. cap
BY DEF Older

LEMMA WorldIInv == IInv /\ World => IInv'
<1> SUFFICES ASSUME IInv, World PROVE IInv'
  OBVIOUS
<1>0. FacetsOK
  BY Zenon DEF IInv, TypeOK, FacetsOK
<1>1. CASE Serve
  <2>1. FacetsOK'
    BY <1>0, <1>1, Zenon DEF Serve, FacetsOK, clocks
  <2> QED
    BY <1>1, <2>1, FacetIInv DEF Serve
<1>2. CASE Handshake
  <2>1. 0 \in 0 .. STALE_HANDSHAKE_AGE + 1
    BY LimitsAssumption
  <2>2. FacetsOK'
    BY <1>0, <1>2, <2>1, Zenon DEF Handshake, FacetsOK
  <2> QED
    BY <1>2, <2>2, FacetIInv DEF Handshake
<1>3. CASE Receive
  <2>1. FacetsOK'
    BY <1>0, <1>3, Zenon DEF Receive, FacetsOK, clocks
  <2> QED
    BY <1>3, <2>1, FacetIInv DEF Receive
<1>4. CASE DrainOutput
  <2>1. log' \in 0 .. MaxLines
    BY <1>0, <1>4, MaxLinesAssumption DEF DrainOutput, FacetsOK
  <2>2. FacetsOK'
    BY <1>0, <1>4, <2>1, Zenon DEF DrainOutput, FacetsOK, clocks
  <2> QED
    BY <1>4, <2>2, FacetIInv DEF DrainOutput
<1>5. CASE Tick
  <2>1. uptime' \in 0 .. HANDSHAKE_TIMEOUT + 1
    BY <1>0, <1>5, LimitsAssumption, OlderTypes DEF Tick, FacetsOK
  <2>2. shakeAge' \in 0 .. STALE_HANDSHAKE_AGE + 1
    BY <1>0, <1>5, LimitsAssumption, OlderTypes DEF Tick, FacetsOK
  <2>3. rxAge' \in 0 .. RECENT_TRAFFIC_WINDOW
    BY <1>0, <1>5, LimitsAssumption, OlderTypes DEF Tick, FacetsOK
  <2>4. FacetsOK'
    BY <1>0, <1>5, <2>1, <2>2, <2>3, Zenon DEF Tick, FacetsOK
  <2> QED
    BY <1>5, <2>4, FacetIInv DEF Tick
<1>6. CASE ClockStep
  <2>1. FacetsOK'
    BY <1>0, <1>6, Zenon DEF ClockStep, FacetsOK
  <2> QED
    BY <1>6, <2>1, FacetIInv DEF ClockStep
<1>7. CASE \E r \in Run : Exit(r)
  BY <1>7, ExitIInv
<1> QED
  BY <1>1, <1>2, <1>3, <1>4, <1>5, <1>6, <1>7 DEF World

-----------------------------------------------------------------------------
LEMMA CallStepIInv == IInv /\ CallStep => IInv'
<1> SUFFICES ASSUME IInv, CallStep PROVE IInv'
  OBVIOUS
<1>1. CASE Reaped
  BY <1>1, FinishStopIInv DEF Reaped
<1>2. CASE GiveUp
  BY <1>2, FinishStopIInv DEF GiveUp
<1> QED
  BY <1>1, <1>2, ValidateReturnIInv, SpawnIInv, EscalateIInv, PollReplyIInv DEF CallStep

LEMMA NextIInv == IInv /\ [Next]_vars => IInv'
<1> SUFFICES ASSUME IInv, [Next]_vars PROVE IInv'
  OBVIOUS
<1>1. CASE UNCHANGED vars
  <2>1. UNCHANGED <<owned, status, call>> /\ link' = link
    BY <1>1 DEF vars, owned, call
  <2>2. FacetsOK'
    BY <1>1, Zenon DEF vars, IInv, TypeOK, FacetsOK
  <2> QED
    BY <2>1, <2>2, FacetIInv
<1>2. CASE \E r \in Run : Validate(r) \/ Start(r)
  BY <1>2, ValidateIInv, StartIInv
<1> QED
  BY <1>1, <1>2, StopIInv, PollIInv, CallStepIInv, WorldIInv DEF Next

(* The owned run is given up as it ends or is told to, and a child appears only
   where no other is alive. *)
LEMMA NextOneEngine == IInv /\ OneEngine /\ [Next]_vars => OneEngine'
<1> SUFFICES ASSUME IInv, OneEngine, [Next]_vars PROVE OneEngine'
  OBVIOUS
<1> USE NoRunAssumption
<1>1. ASSUME proc' = proc, runtime' = runtime, pc # "term" PROVE OneEngine'
  BY <1>1 DEF OneEngine
<1>2. ASSUME NEW t, pc # "term", BeginStop(t) PROVE OneEngine'
  BY <1>2 DEF OneEngine, BeginStop, Return, Block
<1>3. CASE UNCHANGED vars
  BY <1>3 DEF vars, OneEngine
<1>4. CASE Stop \/ Poll \/ \E r \in Run : Validate(r) \/ Start(r)
  <2>1. CASE PollExited
    BY <2>1 DEF PollExited, OneEngine
  <2> QED
    BY <1>1, <1>2, <1>4, <2>1 DEF Stop, Poll, PollNone, PollBegin, Validate, Start, owned
<1>5. CASE World
  <2>1. ASSUME NEW r \in Run, Exit(r) PROVE OneEngine'
    BY <2>1 DEF Exit, OneEngine, call, IInv, TypeOK
  <2>2. World => UNCHANGED <<runtime, proc, pc, cur>> \/ \E r \in Run : Exit(r)
    BY DEF World, Serve, Handshake, Receive, DrainOutput, Tick, ClockStep, owned, call
  <2> QED
    BY <1>5, <2>1, <2>2 DEF OneEngine
<1>6. CASE Spawn
  <2>1. \A r \in Run : proc[r] # "alive"
    BY <1>6 DEF IInv, CallInv, OneEngine, Spawn, IsRunning
  <2>2. proc' = proc \/ (proc' = [proc EXCEPT ![cur] = "alive"] /\ runtime' = cur)
    BY <1>6 DEF Spawn
  <2> QED
    BY <2>1, <2>2 DEF OneEngine, IInv, TypeOK
<1>7. CASE Reaped \/ GiveUp
  <2>1. \A r \in Run : proc[r] # "alive"
    BY <1>7 DEF IInv, CallInv, OneEngine, Reaped, GiveUp
  <2> QED
    BY <1>7, <2>1 DEF OneEngine, Reaped, GiveUp, FinishStop
<1>8. CASE Escalate
  <2>1. proc' = [proc EXCEPT ![cur] = "dying"] /\ runtime = NoRun /\ cur \in Run
    BY <1>8 DEF Escalate, IInv, CallInv
  <2>2. \A r \in Run : proc'[r] # "alive"
    BY <2>1 DEF OneEngine, IInv, TypeOK
  <2> QED
    BY <2>2 DEF OneEngine
<1>9. CASE ValidateReturn
  BY <1>1, <1>9 DEF ValidateReturn
<1>10. CASE PollReply
  BY <1>1, <1>2, <1>10 DEF PollReply, NoReply, NoHandshake, HasHandshake, MalformedReply,
     Report, owned
<1> QED
  BY <1>3, <1>4, <1>5, <1>6, <1>7, <1>8, <1>9, <1>10 DEF Next, CallStep

THEOREM InvariantHolds == Spec => []IInv
<1>1. Init => IInv
  BY InitIInv
<1>2. IInv /\ [Next]_vars => IInv'
  BY NextIInv
<1> QED
  BY <1>1, <1>2, PTL DEF Spec

(* The variables of the supervisor keep their types in every instance. *)
THEOREM TypeCorrect == Spec => []TypeOK
<1>1. IInv => TypeOK
  BY DEF IInv
<1> QED
  BY <1>1, InvariantHolds, PTL

(* The object owns at most one live engine, whatever the calls, the exits
   and the time they take: class Engine, _terminate(). *)
THEOREM AtMostOneEngine == Spec => []OneEngine
<1>1. Init => OneEngine
  BY DEF Init, OneEngine
<1> QED
  BY <1>1, NextOneEngine, InvariantHolds, PTL DEF Spec

(* A status that says connected is about the owned run, whose peer has
   completed a handshake: poll(). *)
THEOREM ConnectedIsEarned == Spec => []HonestStatus
<1>1. IInv => HonestStatus
  BY DEF IInv
<1> QED
  BY <1>1, InvariantHolds, PTL

(* Between calls the status is active, and offers a proxy, exactly while the
   object owns a run: start(), stop(), poll(). *)
THEOREM StatusIsTrue == Spec => []StatusTracksRuntime
<1>1. IInv => StatusTracksRuntime
  BY DEF IInv, StatusOwned, StatusTracksRuntime
<1> QED
  BY <1>1, InvariantHolds, PTL

-----------------------------------------------------------------------------
(* Only the end of a poll leaves pc = "metrics". *)
LEMMA MetricsStep ==
  ASSUME [Next]_vars, pc = "metrics"
  PROVE  PollReply \/ UNCHANGED <<status, call>>
<1>1. CASE UNCHANGED vars
  BY <1>1 DEF vars, call
<1>2. CASE World
  BY <1>2 DEF World, Serve, Handshake, Receive, DrainOutput, Tick, ClockStep, Exit
<1>3. CASE CallStep
  BY <1>3 DEF CallStep, ValidateReturn, Spawn, Reaped, Escalate, GiveUp
<1> QED
  BY <1>1, <1>2, <1>3 DEF Next, Validate, Start, Stop, Poll, PollNone, PollExited, PollBegin

(* A poll that began after the handshake deadline ends with the tunnel up
   only if the peer has completed a handshake: both branches of poll() that
   have none stop the engine, for every deadline. *)
THEOREM DeadlineHolds == Spec => OverdueNeedsHandshake
<1> DEFINE A == pc = "metrics" /\ Overdue /\ pc' = "idle" /\ result' = "ok" /\ runtime' # NoRun
                => link = "shaken"
<1>1. [Next]_vars => [A]_vars
  <2> SUFFICES ASSUME [Next]_vars, pc = "metrics", Overdue, pc' = "idle", result' = "ok",
                      runtime' # NoRun
               PROVE  link = "shaken"
    OBVIOUS
  <2>1. PollReply
    BY MetricsStep DEF call
  <2>2. ~BeginStop("failed")
    BY DEF BeginStop
  <2> QED
    BY <2>1, <2>2 DEF PollReply, NoReply, NoHandshake, HasHandshake, MalformedReply, Return
<1> QED
  BY <1>1, PTL DEF Spec, OverdueNeedsHandshake

(* Bytes that no poll had seen make the poll that sees them report anything
   but an idle tunnel, however old the handshake: the window of recent
   traffic is at least one tick. *)
THEOREM TrafficCounts == Spec => TrafficIsNotIdle
<1> DEFINE A == pc = "metrics" /\ rxNew /\ status' # status => status'.state # "degraded"
<1>1. [Next]_vars => [A]_vars
  <2> SUFFICES ASSUME [Next]_vars, pc = "metrics", rxNew, status' # status
               PROVE  status'.state # "degraded"
    OBVIOUS
  <2>1. PollReply
    BY MetricsStep
  <2>2. ASSUME NEW t \in {"failed"}, BeginStop(t) PROVE status'.state # "degraded"
    BY <2>2 DEF BeginStop, Told
  <2>3. CASE NoReply
    BY <2>2, <2>3 DEF NoReply, Report, Advertising
  <2>4. CASE NoHandshake
    BY <2>2, <2>4 DEF NoHandshake, Report, Advertising
  <2>5. CASE HasHandshake
    <3>1. rxAge' = 0
      BY <2>5 DEF HasHandshake, SeeTraffic
    <3>2. ~(rxAge' >= RECENT_TRAFFIC_WINDOW)
      BY <3>1, LimitsAssumption
    <3> QED
      BY <2>5, <3>2 DEF HasHandshake, Report, Advertising
  <2>6. CASE MalformedReply
    BY <2>6 DEF MalformedReply
  <2> QED
    BY <2>1, <2>3, <2>4, <2>5, <2>6 DEF PollReply
<1> QED
  BY <1>1, PTL DEF Spec, TrafficIsNotIdle
=============================================================================
