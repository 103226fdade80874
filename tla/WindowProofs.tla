---------------------------- MODULE WindowProofs ----------------------------
(***************************************************************************)
(* Proofs about the window and the application on top of the supervisor,   *)
(* for every set of runs and profiles and every choice of the limits.      *)
(*                                                                         *)
(* What the properties say of the main loop is kept through the handlers:  *)
(* each waits for some calls only (Waits), and changes the switch, the     *)
(* timeout and the selection before or after them (InHandler).  A process  *)
(* that is killed leaves its files and child to orphans.                   *)
(***************************************************************************)
EXTENDS Window, EngineProofs

(* Where a call of each handler may be. *)
Waits ==
    /\ ui \in {"loop", "gone", "select_last", "removing"} => pc = "idle"
    /\ ui = "validating" => pc \in {"idle", "testing"}
    /\ ui = "starting" => pc \in {"idle", "spawning"}
    /\ ui \in {"disconnecting", "disconnect_update", "changing", "change_update", "quitting"} =>
           pc \in {"idle", "term", "kill"}
    /\ ui \in {"connect_update", "tick_update"} => pc \in {"idle", "metrics", "term", "kill"}

(* What a handler has done before its call, and how the call ends. *)
InHandler ==
    /\ ui \in {"gone", "validating", "disconnecting", "disconnect_update", "changing",
               "change_update", "quitting"} => runtime = NoRun
    /\ ui = "starting" /\ runtime # NoRun => pc = "idle" /\ result = "ok"
    /\ ui = "removing" => ~IsRunning
    /\ ui \in {"validating", "starting"} /\ pc = "idle" =>
           result \in {"ok", "EngineError"} \cup (Escapes \cap {"OSError"})
    /\ ui \in {"connect_update", "tick_update"} /\ pc = "idle" =>
           \/ result = "ok"
           \/ result = "HTTPException" /\ "HTTPException" \in Escapes /\ runtime # NoRun
    /\ ui \in {"gone", "quitting"} => ~switch
    /\ ui \in {"validating", "starting", "connect_update"} => switch

(* An owned run has the switch on, in the middle of a handler too. *)
OwnedIsOn == runtime # NoRun => switch

(* The files of this process are the owned run's and that of the call in progress. *)
Using == {runtime} \cup IF pc \in {"testing", "spawning", "term", "kill"} THEN {cur} ELSE {}

FilesInv ==
    /\ orphans \subseteq files
    /\ files \ orphans = Using \ {NoRun}

(* OneEngine, but for the children of processes that were killed. *)
ChildrenInv ==
    \A r \in Run \ orphans : proc[r] = "alive" => r = runtime \/ (pc = "term" /\ r = cur)

(* The list is what was saved, or could not be read; a run in the making or
   in progress is that of the selected row. *)
SelectionInv ==
    /\ list \in {saved, << >>}
    /\ IsRunning \/ ui \in {"validating", "starting"} =>
           selected # 0 /\ list[selected] = tunnelOf

UiTypes ==
    /\ ui \in {"gone", "loop", "validating", "starting", "connect_update",
               "disconnecting", "disconnect_update", "changing", "change_update",
               "select_last", "removing", "tick_update", "quitting"}
    /\ after \in {"loop", "select_last", "removing"}
    /\ switch \in BOOLEAN /\ source \in BOOLEAN /\ armed \in BOOLEAN /\ opened \in BOOLEAN
    /\ shown \in States
    /\ logview \in 0 .. MaxLines
    /\ IsList(saved) /\ IsList(list)
    /\ selected \in 0 .. Len(list)
    /\ tunnelOf \in Profile \cup {NoProfile} /\ dialog \in Profile \cup {NoProfile}
    /\ orphans \subseteq Run

EngineInv == IInv /\ FilesInv /\ ChildrenInv
UiInv == UiTypes /\ Waits /\ InHandler /\ OwnedIsOn

WInv == EngineInv /\ UiInv

-----------------------------------------------------------------------------
(* The calls of the supervisor, as its caller sees them *)

LEMMA StopCall ==
  ASSUME IInv, Stop
  PROVE  /\ pc = "idle" /\ runtime' = NoRun /\ proc' = proc
         /\ pc' \in {"idle", "term"}
         /\ runtime = NoRun => pc' = "idle"
         /\ pc' = "idle" => result' = "ok" /\ files' = files \ {runtime}
         /\ pc' = "idle" /\ runtime # NoRun => proc[runtime] = "exited"
         /\ pc' = "term" => files' = files /\ cur' = runtime
<1>1. runtime = NoRun => files \ {runtime} = files
  BY NoRunAssumption DEF IInv, TypeOK
<1> QED
  BY <1>1 DEF Stop, BeginStop, Return, Block, owned

LEMMA PollCall ==
  ASSUME IInv, Poll
  PROVE  /\ pc = "idle" /\ proc' = proc
         /\ pc' \in {"idle", "metrics"}
         /\ runtime' \in {runtime, NoRun}
         /\ pc' = "metrics" => runtime' = runtime /\ files' = files
         /\ pc' = "idle" => result' = "ok" /\ runtime' = NoRun /\ files' = files \ {runtime}
         /\ pc' = "idle" /\ runtime # NoRun => proc[runtime] = "exited"
<1>1. runtime = NoRun => files \ {runtime} = files
  BY NoRunAssumption DEF IInv, TypeOK
<1> QED
  BY <1>1 DEF Poll, PollNone, PollExited, PollBegin, Return, Block, owned

LEMMA BeginStopCall ==
  ASSUME NEW t, BeginStop(t)
  PROVE  /\ runtime # NoRun /\ runtime' = NoRun /\ proc' = proc
         /\ pc' \in {"idle", "term"}
         /\ pc' = "idle" => result' = "ok" /\ files' = files \ {runtime} /\ proc[runtime] = "exited"
         /\ pc' = "term" => files' = files /\ cur' = runtime
BY DEF BeginStop, Return, Block

LEMMA ValidateCall ==
  ASSUME NEW r \in Run, Validate(r)
  PROVE  /\ pc = "idle" /\ runtime' = runtime /\ proc' = proc
         /\ pc' \in {"idle", "testing"}
         /\ pc' = "idle" => files' = files
                            /\ result' \in {"ok", "EngineError"} \cup (Escapes \cap {"OSError"})
         /\ pc' = "testing" => files' = files \cup {r} /\ cur' = r
         /\ r \notin files
BY DEF Validate, WriteConfig, Return, Block, Fresh

LEMMA StartCall ==
  ASSUME NEW r \in Run, Start(r)
  PROVE  /\ pc = "idle" /\ runtime' = runtime /\ proc' = proc
         /\ pc' \in {"idle", "spawning"}
         /\ pc' = "idle" => /\ files' = files
                            /\ result' \in {"EngineError"} \cup (Escapes \cap {"OSError"})
         /\ pc' = "spawning" => files' = files \cup {r} /\ cur' = r
         /\ r \notin files
BY DEF Start, WriteConfig, Return, Block, Fresh

-----------------------------------------------------------------------------
(* Files and children, through every step of the supervisor *)

(* A run is made and started only when none is owned: the window's doing. *)
NoneBefore == pc \in {"testing", "spawning", "term", "kill"} => runtime = NoRun

LEMMA WaitsNone == IInv /\ UiInv => NoneBefore
BY DEF IInv, TypeOK, CallInv, UiInv, UiTypes, Waits, InHandler, NoneBefore

(* The last file in use goes. *)
LEMMA FilesDropped ==
  ASSUME IInv, FilesInv, orphans' = orphans, NEW q, Using \ {NoRun} = {q} \ {NoRun},
         Using' = {NoRun}, files' = files \ {q}
  PROVE  FilesInv'
<1>1. q \notin orphans
  BY NoRunAssumption DEF FilesInv, IInv, TypeOK
<1>2. files \ orphans = {q} \ {NoRun}
  BY DEF FilesInv
<1>3. orphans' \subseteq files'
  BY <1>1 DEF FilesInv
<1>4. files' \ orphans' = {}
  BY <1>2, NoRunAssumption DEF IInv, TypeOK
<1> QED
  BY <1>3, <1>4 DEF FilesInv

LEMMA FilesKept ==
  ASSUME FilesInv, UNCHANGED <<files, orphans>>, Using' \ {NoRun} = Using \ {NoRun}
  PROVE  FilesInv'
BY DEF FilesInv

LEMMA StopEngine ==
  ASSUME EngineInv, orphans' = orphans, Stop
  PROVE  EngineInv'
<1>1. IInv'
  BY StopIInv DEF EngineInv
<1>2. FilesInv'
  <2>1. Using = {runtime}
    BY StopCall DEF EngineInv, Using
  <2>2. CASE pc' = "idle"
    BY <2>1, <2>2, StopCall, FilesDropped DEF EngineInv, Using
  <2>3. CASE pc' = "term"
    BY <2>1, <2>3, StopCall, FilesKept DEF EngineInv, Using
  <2> QED
    BY <2>2, <2>3, StopCall DEF EngineInv
<1>3. ChildrenInv'
  BY StopCall DEF EngineInv, ChildrenInv
<1> QED
  BY <1>1, <1>2, <1>3 DEF EngineInv

LEMMA PollEngine ==
  ASSUME EngineInv, orphans' = orphans, Poll
  PROVE  EngineInv'
<1>1. IInv'
  BY PollIInv DEF EngineInv
<1>2. FilesInv'
  <2>1. Using = {runtime}
    BY PollCall DEF EngineInv, Using
  <2>2. CASE pc' = "idle"
    BY <2>1, <2>2, PollCall, FilesDropped DEF EngineInv, Using
  <2>3. CASE pc' = "metrics"
    BY <2>1, <2>3, PollCall, FilesKept DEF EngineInv, Using
  <2> QED
    BY <2>2, <2>3, PollCall DEF EngineInv
<1>3. ChildrenInv'
  BY PollCall DEF EngineInv, ChildrenInv
<1> QED
  BY <1>1, <1>2, <1>3 DEF EngineInv

LEMMA MakeEngine ==
  ASSUME EngineInv, orphans' = orphans, runtime = NoRun, NEW r \in Run, Validate(r) \/ Start(r)
  PROVE  EngineInv'
<1>1. IInv'
  BY ValidateIInv, StartIInv DEF EngineInv
<1>2. FilesInv'
  BY ValidateCall, StartCall, NoRunAssumption DEF EngineInv, FilesInv, Using
<1>3. ChildrenInv'
  BY ValidateCall, StartCall DEF EngineInv, ChildrenInv
<1> QED
  BY <1>1, <1>2, <1>3 DEF EngineInv

LEMMA CallStepEngine ==
  ASSUME EngineInv, NoneBefore, orphans' = orphans, CallStep
  PROVE  EngineInv'
<1> USE NoRunAssumption
<1>1. IInv'
  BY CallStepIInv DEF EngineInv
<1>2. CASE ValidateReturn
  <2>1. runtime = NoRun /\ runtime' = NoRun /\ pc' = "idle" /\ files' = files \ {cur}
    BY <1>2 DEF ValidateReturn, Return, NoneBefore
  <2>3. FilesInv'
    BY <1>2, <2>1, FilesDropped DEF ValidateReturn, EngineInv, Using
  <2>2. ChildrenInv'
    BY <1>2 DEF ValidateReturn, EngineInv, ChildrenInv
  <2> QED
    BY <1>1, <2>2, <2>3 DEF EngineInv
<1>3. CASE Spawn
  <2>1. cur \in Run /\ runtime = NoRun /\ pc = "spawning"
    BY <1>3 DEF Spawn, EngineInv, IInv, CallInv, NoneBefore
  <2>2. FilesInv'
    <3>1. CASE runtime' = NoRun
      BY <1>3, <2>1, <3>1, FilesDropped DEF Spawn, Return, EngineInv, Using
    <3>2. CASE runtime' # NoRun
      BY <1>3, <2>1, <3>2, FilesKept DEF Spawn, Return, EngineInv, Using
    <3> QED
      BY <3>1, <3>2
  <2>3. ChildrenInv'
    BY <1>3, <2>1 DEF Spawn, Return, EngineInv, IInv, TypeOK, ChildrenInv
  <2> QED
    BY <1>1, <2>2, <2>3 DEF EngineInv
<1>4. CASE Reaped \/ GiveUp
  <2>1. runtime = NoRun /\ runtime' = NoRun /\ pc' = "idle" /\ files' = files \ {cur}
    BY <1>4 DEF Reaped, GiveUp, FinishStop, Return, NoneBefore
  <2>3. FilesInv'
    BY <1>4, <2>1, FilesDropped DEF Reaped, GiveUp, EngineInv, Using
  <2>2. ChildrenInv'
    BY <1>4 DEF Reaped, GiveUp, FinishStop, EngineInv, ChildrenInv
  <2> QED
    BY <1>1, <2>2, <2>3 DEF EngineInv
<1>5. CASE Escalate
  <2>1. FilesInv'
    BY <1>5 DEF Escalate, EngineInv, FilesInv, Using
  <2>2. ChildrenInv'
    BY <1>5 DEF Escalate, EngineInv, IInv, TypeOK, CallInv, ChildrenInv
  <2> QED
    BY <1>1, <2>1, <2>2 DEF EngineInv
<1>6. CASE PollReply
  <2>1. CASE BeginStop("failed")
    <3>1. FilesInv'
      <4>1. Using = {runtime}
        BY <1>6 DEF PollReply, Using
      <4>2. CASE pc' = "idle"
        BY <2>1, <4>1, <4>2, BeginStopCall, FilesDropped DEF EngineInv, Using
      <4>3. CASE pc' = "term"
        BY <2>1, <4>1, <4>3, BeginStopCall, FilesKept DEF EngineInv, Using
      <4> QED
        BY <2>1, <4>2, <4>3, BeginStopCall
    <3>2. ChildrenInv'
      BY <1>6, <2>1, BeginStopCall DEF PollReply, EngineInv, ChildrenInv
    <3> QED
      BY <1>1, <3>1, <3>2 DEF EngineInv
  <2>2. CASE ~BeginStop("failed")
    <3>1. pc = "metrics" /\ pc' = "idle" /\ UNCHANGED owned
      BY <1>6, <2>2 DEF PollReply, NoReply, NoHandshake, HasHandshake, MalformedReply, Report, Return
    <3>2. FilesInv' /\ ChildrenInv'
      BY <3>1 DEF owned, EngineInv, FilesInv, Using, ChildrenInv
    <3> QED
      BY <1>1, <3>2 DEF EngineInv
  <2> QED
    BY <2>1, <2>2
<1> QED
  BY <1>2, <1>3, <1>4, <1>5, <1>6 DEF CallStep, Reaped, GiveUp

LEMMA WorldCall ==
  ASSUME World
  PROVE  /\ UNCHANGED <<runtime, files, pc, cur, result, status>>
         /\ proc' = proc \/ \E r \in Run : Exit(r)
BY DEF World, Serve, Handshake, Receive, DrainOutput, Tick, ClockStep, Exit, owned, call

LEMMA WorldProc ==
  ASSUME IInv, World, NEW r \in Run, proc'[r] = "alive"
  PROVE  proc[r] = "alive"
BY WorldCall DEF Exit, IInv, TypeOK

LEMMA WorldEngine ==
  ASSUME EngineInv, orphans' = orphans, World
  PROVE  EngineInv'
<1>1. IInv'
  BY WorldIInv DEF EngineInv
<1>2. FilesInv'
  BY WorldCall DEF EngineInv, FilesInv, Using
<1>3. ChildrenInv'
  BY WorldCall, WorldProc DEF EngineInv, ChildrenInv
<1> QED
  BY <1>1, <1>2, <1>3 DEF EngineInv

LEMMA SameEngine ==
  ASSUME EngineInv, UNCHANGED <<vars, orphans>>
  PROVE  EngineInv'
<1>1. IInv'
  BY NextIInv DEF EngineInv
<1>2. FilesInv' /\ ChildrenInv'
  BY DEF vars, EngineInv, FilesInv, Using, ChildrenInv
<1> QED
  BY <1>1, <1>2 DEF EngineInv

(* What a killed process used becomes orphans, and its child with it. *)
LEMMA KilledEngine ==
  ASSUME EngineInv, Killed
  PROVE  EngineInv'
<1> USE NoRunAssumption, LimitsAssumption
<1>1. TypeOK'
  <2>1. FacetsOK'
    BY ResetFacetsTypes DEF Killed
  <2>2. status' \in [state : States, proxy : Run \cup {NoRun}]
    BY DEF Killed, Told, States
  <2>3. /\ runtime' \in Run \cup {NoRun}
        /\ files' \subseteq Run
        /\ proc' \in [Run -> {"alive", "dying", "exited"}]
        /\ pc' = "idle"
        /\ cur' \in Run \cup {NoRun}
        /\ then' = "idle"
        /\ result' \in Results
        /\ elapsed' \in 0 .. HANDSHAKE_TIMEOUT + 1
    BY ResultTypes DEF EngineInv, IInv, TypeOK, Killed, Return
  <2> QED
    BY <2>1, <2>2, <2>3 DEF TypeOK, FacetsOK
<1>2. CallInv' /\ HonestStatus'
  BY DEF Killed, Return, CallInv, HonestStatus, Told
<1>3. StatusOwned'
  BY DEF Killed, Return, StatusOwned, Told, IsActive, ActiveStates
<1>4. FilesInv'
  BY DEF Killed, Return, EngineInv, FilesInv, Using
<1>5. ChildrenInv'
  BY DEF Killed, Return, EngineInv, FilesInv, Using, ChildrenInv
<1> QED
  BY <1>1, <1>2, <1>3, <1>4, <1>5 DEF EngineInv, IInv

-----------------------------------------------------------------------------
(* The state of the window, through the steps of the supervisor *)

LEMMA CallStepCall ==
  ASSUME IInv, CallStep
  PROVE  \/ /\ pc = "testing" /\ pc' = "idle" /\ runtime' = runtime
            /\ result' \in {"ok", "EngineError"} \cup (Escapes \cap {"OSError"})
         \/ /\ pc = "spawning" /\ pc' = "idle"
            /\ \/ result' = "EngineError" /\ runtime' = runtime
               \/ result' = "ok" /\ runtime' = cur
         \/ /\ pc \in {"term", "kill"} /\ pc' \in {"idle", "kill"} /\ runtime' = NoRun
            /\ pc' = "idle" => result' = "ok"
         \/ /\ pc = "metrics" /\ pc' \in {"idle", "term"} /\ runtime' \in {runtime, NoRun}
            /\ pc' = "idle" => \/ result' = "ok"
                               \/ /\ result' = "HTTPException" /\ "HTTPException" \in Escapes
                                  /\ runtime' # NoRun
<1>1. CASE ValidateReturn
  BY <1>1 DEF ValidateReturn, Return
<1>2. CASE Spawn
  BY <1>2 DEF Spawn, Return
<1>3. CASE Reaped \/ GiveUp
  BY <1>3 DEF Reaped, GiveUp, FinishStop, Return, IInv, CallInv
<1>4. CASE Escalate
  BY <1>4 DEF Escalate, IInv, CallInv
<1>5. CASE PollReply
  <2>1. CASE BeginStop("failed")
    BY <1>5, <2>1, BeginStopCall DEF PollReply
  <2>2. CASE MalformedReply
    BY <1>5, <2>2, NoRunAssumption DEF PollReply, MalformedReply, Return, owned, IInv, CallInv
  <2>3. CASE ~BeginStop("failed") /\ ~MalformedReply
    BY <1>5, <2>3 DEF PollReply, NoReply, NoHandshake, HasHandshake, Report, Return, owned
  <2> QED
    BY <2>1, <2>2, <2>3
<1> QED
  BY <1>1, <1>2, <1>3, <1>4, <1>5 DEF CallStep

LEMMA SameUiTypes == UiTypes /\ UNCHANGED wui => UiTypes'
BY DEF UiTypes, wui, IsList

LEMMA EngineStepUi == WInv /\ EngineStep => UiInv'
<1> SUFFICES ASSUME WInv, EngineStep PROVE UiInv'
  OBVIOUS
<1> USE NoRunAssumption DEF WInv, UiInv
<1>0. IInv /\ CallStep /\ UNCHANGED <<ui, switch>>
  BY DEF EngineStep, EngineInv, wui
<1>1. UiTypes'
  BY SameUiTypes DEF EngineStep
<1>2. Waits'
  BY <1>0, CallStepCall DEF UiTypes, Waits
<1>3. pc # "idle" => ui \notin {"loop", "gone", "select_last", "removing"}
  BY DEF Waits
<1>4. InHandler'
  BY <1>0, <1>3, CallStepCall DEF UiTypes, Waits, InHandler
<1>5. OwnedIsOn'
  BY <1>0, <1>3, CallStepCall DEF UiTypes, Waits, InHandler, OwnedIsOn
<1> QED
  BY <1>1, <1>2, <1>4, <1>5

LEMMA WorldStepUi == WInv /\ WorldStep => UiInv'
<1> SUFFICES ASSUME WInv, WorldStep PROVE UiInv'
  OBVIOUS
<1>0. IInv /\ World /\ UiTypes /\ UNCHANGED <<ui, switch>>
  BY DEF WorldStep, EngineInv, wui, WInv, UiInv
<1>1. UiTypes'
  BY <1>0, SameUiTypes DEF WorldStep
<1>2. Waits' /\ OwnedIsOn'
  BY <1>0, WorldCall DEF Waits, OwnedIsOn, WInv, UiInv
<1>3. ~IsRunning => ~IsRunning'
  BY <1>0, WorldCall, WorldProc DEF IsRunning, IInv, TypeOK
<1>4. InHandler'
  BY <1>0, <1>3, WorldCall DEF InHandler, WInv, UiInv
<1> QED
  BY <1>1, <1>2, <1>4 DEF UiInv

LEMMA SameUi == WInv /\ UNCHANGED wvars => UiInv'
<1> SUFFICES ASSUME WInv, UNCHANGED wvars PROVE UiInv'
  OBVIOUS
<1>1. UiTypes'
  BY SameUiTypes DEF wvars, WInv, UiInv
<1>2. Waits' /\ InHandler' /\ OwnedIsOn'
  BY DEF wvars, vars, wui, WInv, UiInv, Waits, InHandler, OwnedIsOn, IsRunning
<1> QED
  BY <1>1, <1>2 DEF UiInv

-----------------------------------------------------------------------------
(* Lists of profiles *)

LEMMA EmptyList == IsList(<< >>) /\ Len(<< >>) = 0
BY DEF IsList, IsInjective

LEMMA ListAppend ==
  ASSUME NEW s, IsList(s), NEW p \in Profile, p \notin ToSet(s)
  PROVE  IsList(Append(s, p))
<1> DEFINE t == Append(s, p)
<1>1. s \in Seq(Profile) /\ Len(s) \in Nat /\ DOMAIN s = 1 .. Len(s)
  BY DEF IsList
<1>2. /\ t \in Seq(Profile) /\ DOMAIN t = 1 .. Len(s) + 1
      /\ t[Len(s) + 1] = p
      /\ \A i \in 1 .. Len(s) : t[i] = s[i]
  BY <1>1
<1>3. \A i \in 1 .. Len(s) : s[i] # p
  BY <1>1 DEF ToSet
<1>4. DOMAIN t = DOMAIN s \cup {Len(s) + 1}
  BY <1>1, <1>2
<1> HIDE DEF t
<1>5. \A i, j \in DOMAIN t : t[i] = t[j] => i = j
  BY <1>1, <1>2, <1>3, <1>4 DEF IsList, IsInjective
<1> QED
  BY <1>2, <1>5 DEF IsList, IsInjective, t

LEMMA ListRemoveAt ==
  ASSUME NEW s, IsList(s), NEW i \in DOMAIN s
  PROVE  IsList(RemoveAt(s, i))
<1> DEFINE t == RemoveAt(s, i)
           n == Len(s)
           a == SubSeq(s, 1, i - 1)
           b == SubSeq(s, i + 1, n)
           at(j) == IF j < i THEN j ELSE j + 1
<1>1. s \in Seq(Profile) /\ n \in Nat /\ DOMAIN s = 1 .. n /\ i \in 1 .. n
  BY DEF IsList
<1>2. a \in Seq(Profile) /\ Len(a) = i - 1 /\ \A j \in 1 .. i - 1 : a[j] = s[j]
  BY <1>1
<1>3. b \in Seq(Profile) /\ Len(b) = n - i /\ \A j \in 1 .. n - i : b[j] = s[i + j]
  BY <1>1
<1>4. t = a \o b
  BY DEF RemoveAt
<1> HIDE DEF a, b, t
<1>5. t \in Seq(Profile) /\ Len(t) = n - 1 /\ DOMAIN t = 1 .. n - 1
  <2>1. a \in Seq(Profile) /\ b \in Seq(Profile) /\ Len(a) + Len(b) = n - 1
    BY <1>1, <1>2, <1>3
  <2>2. t \in Seq(Profile) /\ Len(t) = Len(a) + Len(b) /\ DOMAIN t = 1 .. Len(t)
    BY <1>4, <2>1
  <2> QED
    BY <2>1, <2>2
<1>6. ASSUME NEW j \in 1 .. n - 1 PROVE at(j) \in 1 .. n /\ t[j] = s[at(j)]
  <2>1. CASE j < i
    <3>1. j \in 1 .. i - 1 /\ j \in 1 .. n
      BY <1>1, <2>1
    <3>2. t[j] = a[j]
      BY <1>1, <1>2, <1>3, <1>4, <3>1
    <3> QED
      BY <1>2, <2>1, <3>1, <3>2
  <2>2. CASE ~(j < i)
    <3>1. j - (i - 1) \in 1 .. n - i /\ i + (j - (i - 1)) = j + 1
      BY <1>1, <2>2
    <3>2. t[j] = b[j - (i - 1)]
      BY <1>1, <1>2, <1>3, <1>4, <2>2
    <3>3. b[j - (i - 1)] = s[i + (j - (i - 1))]
      BY <1>3, <3>1
    <3>4. t[j] = s[j + 1] /\ j + 1 \in 1 .. n
      BY <1>1, <2>2, <3>1, <3>2, <3>3
    <3> QED
      BY <2>2, <3>4
  <2> QED
    BY <2>1, <2>2
<1>7. ASSUME NEW j \in 1 .. n - 1, NEW k \in 1 .. n - 1, t[j] = t[k] PROVE j = k
  <2>1. at(j) = at(k)
    BY <1>1, <1>6, <1>7 DEF IsList, IsInjective
  <2> QED
    BY <1>1, <2>1
<1> QED
  BY <1>5, <1>7 DEF IsList, IsInjective, t

-----------------------------------------------------------------------------
(* The row is selected, or the list loaded. *)

LEMMA SelectRowStep ==
  ASSUME NEW i, NEW next, SelectRow(i, next)
  PROVE  /\ selected' = i /\ UNCHANGED <<switch, source, armed, shown, logview, tunnelOf, orphans>>
         /\ \/ IsRunning /\ Stop /\ ui' = "changing" /\ after' = next
            \/ /\ ~IsRunning \/ i = selected
               /\ UNCHANGED vars /\ ui' = next /\ after' = "loop"
BY DEF SelectRow, ProfileChanged, polling, display, history

(* What follows keeps the invariant if the switch is right and the list is one. *)
LEMMA SelectRowUi ==
  ASSUME WInv, NEW i, NEW next \in {"loop", "select_last"}, SelectRow(i, next), pc = "idle",
         opened' \in BOOLEAN, IsList(saved'), IsList(list'), i \in 0 .. Len(list'),
         dialog' \in Profile \cup {NoProfile}
  PROVE  UiInv'
<1> USE SelectRowStep DEF WInv, UiInv
<1>1. UiTypes'
  BY DEF UiTypes
<1>2. CASE UNCHANGED vars /\ ui' = next
  BY <1>1, <1>2 DEF vars, Waits, InHandler, OwnedIsOn, IsRunning
<1>3. CASE Stop /\ ui' = "changing"
  BY <1>1, <1>3, StopCall DEF EngineInv, Waits, InHandler, OwnedIsOn
<1> QED
  BY <1>2, <1>3

LEMMA LoadProfilesStep ==
  ASSUME NEW s, IsList(s), NEW next, LoadProfiles(s, next)
  PROVE  /\ list' \in {s, << >>} /\ IsList(list')
         /\ \E i \in 0 .. Len(list') :
                SelectRow(i, next) /\ (list' = << >> => i = 0) /\ (list' # << >> => i = 1)
<1>1. PICK l \in {s, << >>} : list' = l /\ SelectRow(IF l = << >> THEN 0 ELSE 1, next)
  BY DEF LoadProfiles
<1>2. IsList(l)
  BY <1>1, EmptyList
<1>3. Len(l) \in Nat /\ (l # << >> => Len(l) >= 1)
  BY <1>2 DEF IsList
<1> DEFINE i == IF l = << >> THEN 0 ELSE 1
<1>4. i \in 0 .. Len(list') /\ SelectRow(i, next)
  BY <1>1, <1>3
<1> QED
  BY <1>1, <1>2, <1>4

-----------------------------------------------------------------------------
(* Connecting *)

LEMMA ChosenProfile ==
  ASSUME UiTypes, selected # 0
  PROVE  list[selected] \in Profile
<1>1. list \in Seq(Profile) /\ selected \in 1 .. Len(list)
  BY DEF UiTypes, IsList
<1> QED
  BY <1>1

LEMMA ToggleOnUi == WInv /\ ToggleOn => UiInv' /\ runtime = NoRun
<1> SUFFICES ASSUME WInv, ToggleOn PROVE UiInv' /\ runtime = NoRun
  OBVIOUS
<1> USE DEF WInv, UiInv
<1>0. runtime = NoRun
  BY DEF ToggleOn, OwnedIsOn
<1>1. UiTypes'
  BY ChosenProfile DEF ToggleOn, UiTypes, Goto, polling, display, profiles
<1>2. PICK r \in Run : Validate(r)
  BY DEF ToggleOn
<1>3. ui' = "validating" /\ switch' = TRUE
  BY DEF ToggleOn, Goto
<1>4. Waits' /\ InHandler' /\ OwnedIsOn'
  BY <1>0, <1>2, <1>3, ValidateCall DEF Waits, InHandler, OwnedIsOn
<1> QED
  BY <1>0, <1>1, <1>4

LEMMA RefusedUi ==
  ASSUME WInv, ConnectRefused, ui \in {"validating", "starting"}, pc = "idle", result # "ok",
         UNCHANGED <<display, profiles, history, dialog>>
  PROVE  UiInv'
<1> USE DEF WInv, UiInv
<1>0. runtime = NoRun /\ ui' = "loop"
  BY DEF InHandler, ConnectRefused, Goto
<1>1. UiTypes'
  BY DEF ConnectRefused, UiTypes, Goto, polling, display, profiles, history
<1>2. Waits' /\ InHandler' /\ OwnedIsOn'
  BY <1>0 DEF ConnectRefused, vars, Waits, InHandler, OwnedIsOn
<1> QED
  BY <1>1, <1>2

LEMMA ValidatedUi == WInv /\ Validated => UiInv' /\ runtime = NoRun
<1> SUFFICES ASSUME WInv, Validated PROVE UiInv' /\ runtime = NoRun
  OBVIOUS
<1> USE DEF WInv, UiInv
<1>0. runtime = NoRun /\ switch /\ pc = "idle" /\ ui = "validating"
  BY DEF Validated, Resumed, InHandler
<1>1. CASE result # "ok"
  BY <1>0, <1>1, RefusedUi DEF Validated, Resumed
<1>2. CASE result = "ok"
  <2>1. PICK r \in Run : Start(r)
    BY <1>2 DEF Validated, ConnectRefused
  <2>2. UiTypes' /\ ui' = "starting" /\ switch' = switch
    BY <1>2 DEF Validated, UiTypes, Goto, polling, display, profiles, history
  <2>3. Waits' /\ InHandler' /\ OwnedIsOn'
    BY <1>0, <2>1, <2>2, StartCall DEF Waits, InHandler, OwnedIsOn
  <2> QED
    BY <1>0, <2>2, <2>3
<1> QED
  BY <1>1, <1>2

LEMMA StartedUi == WInv /\ Started => UiInv'
<1> SUFFICES ASSUME WInv, Started PROVE UiInv'
  OBVIOUS
<1> USE DEF WInv, UiInv
<1>1. CASE result # "ok"
  BY <1>1, RefusedUi DEF Started, Resumed
<1>2. CASE result = "ok"
  <2>1. StartPolling /\ Poll /\ ui' = "connect_update" /\ switch' = switch /\ switch
    BY <1>2 DEF Started, Resumed, Goto, InHandler
  <2>2. source' \in BOOLEAN /\ armed' \in BOOLEAN
    BY <2>1, Zenon DEF StartPolling
  <2>3. UiTypes'
    BY <1>2, <2>2 DEF Started, UiTypes, Goto, display, profiles, history
  <2>4. Waits' /\ InHandler' /\ OwnedIsOn'
    BY <2>1, PollCall DEF EngineInv, Waits, InHandler, OwnedIsOn
  <2> QED
    BY <2>3, <2>4
<1> QED
  BY <1>1, <1>2

(* The status row shows a status of the supervisor; the switch agrees. *)
LEMMA ShowStatusStep ==
  ASSUME EngineInv, ShowStatus, pc = "idle"
  PROVE  shown' \in States /\ switch' \in BOOLEAN /\ (switch' <=> runtime # NoRun)
<1>1. switch' = IsActive(status) /\ (IsActive(status) <=> runtime # NoRun)
  BY DEF ShowStatus, EngineInv, IInv, StatusOwned
<1>2. IsActive(status) \in BOOLEAN
  BY DEF IsActive
<1>3. shown' \in States
  BY DEF ShowStatus, EngineInv, IInv, TypeOK
<1> QED
  BY <1>1, <1>2, <1>3

LEMMA ConnectUpdatedUi == WInv /\ ConnectUpdated => UiInv'
<1> SUFFICES ASSUME WInv, ConnectUpdated PROVE UiInv'
  OBVIOUS
<1> USE DEF WInv, UiInv
<1>0. ui = "connect_update" /\ pc = "idle" /\ ui' = "loop" /\ UNCHANGED vars /\ switch
  BY DEF ConnectUpdated, Resumed, Goto, InHandler
<1>1. shown' \in States /\ switch' \in BOOLEAN /\ (runtime # NoRun => switch')
  <2>1. CASE ShowStatus
    BY <1>0, <2>1, ShowStatusStep
  <2>2. CASE UNCHANGED <<switch, shown>>
    BY <1>0, <2>2 DEF UiTypes
  <2> QED
    BY <2>1, <2>2 DEF ConnectUpdated
<1>2. UiTypes'
  BY <1>0, <1>1 DEF ConnectUpdated, UiTypes, Goto, polling, profiles, history
<1>3. Waits' /\ InHandler' /\ OwnedIsOn'
  BY <1>0, <1>1 DEF vars, Waits, InHandler, OwnedIsOn
<1> QED
  BY <1>2, <1>3

-----------------------------------------------------------------------------
(* Disconnecting, and a change of the selection *)

LEMMA ToggleOffUi == WInv /\ ToggleOff => UiInv'
<1> SUFFICES ASSUME WInv, ToggleOff PROVE UiInv'
  OBVIOUS
<1> USE DEF WInv, UiInv
<1>1. UiTypes' /\ Stop /\ ui' = "disconnecting"
  BY DEF ToggleOff, Disconnect, UiTypes, polling, display, profiles, history
<1>2. Waits' /\ InHandler' /\ OwnedIsOn'
  BY <1>1, StopCall DEF EngineInv, Waits, InHandler, OwnedIsOn
<1> QED
  BY <1>1, <1>2

LEMMA DisconnectedUi == WInv /\ Disconnected => UiInv'
<1> SUFFICES ASSUME WInv, Disconnected PROVE UiInv'
  OBVIOUS
<1> USE DEF WInv, UiInv
<1>1. UiTypes'
  BY DEF Disconnected, StopPolling, Goto, UiTypes, display, profiles, history
<1>2. Poll /\ runtime = NoRun /\ ui' = "disconnect_update"
  BY DEF Disconnected, Resumed, InHandler, Goto
<1>3. PollNone
  BY <1>2 DEF Poll, PollExited, PollBegin, IsRunning
<1>4. Waits' /\ InHandler' /\ OwnedIsOn'
  BY <1>2, <1>3, PollCall DEF PollNone, Return, owned, EngineInv, Waits, InHandler, OwnedIsOn
<1> QED
  BY <1>1, <1>4

LEMMA DisconnectUpdatedUi == WInv /\ DisconnectUpdated => UiInv'
<1> SUFFICES ASSUME WInv, DisconnectUpdated PROVE UiInv'
  OBVIOUS
<1> USE DEF WInv, UiInv
<1>0. pc = "idle" /\ runtime = NoRun /\ ui' = after /\ after' = "loop" /\ UNCHANGED vars
  BY DEF DisconnectUpdated, Resumed, InHandler
<1>1. shown' \in States /\ switch' \in BOOLEAN
  BY <1>0, ShowStatusStep DEF DisconnectUpdated
<1>2. logview' \in 0 .. MaxLines
  BY DEF DisconnectUpdated, RefreshLog, EngineInv, IInv, TypeOK
<1>3. UiTypes'
  BY <1>0, <1>1, <1>2 DEF DisconnectUpdated, UiTypes, polling, profiles, history
<1>4. Waits' /\ InHandler' /\ OwnedIsOn'
  BY <1>0 DEF vars, UiTypes, Waits, InHandler, OwnedIsOn, IsRunning
<1> QED
  BY <1>3, <1>4

LEMMA ChangeStoppedUi == WInv /\ ChangeStopped => UiInv'
<1> SUFFICES ASSUME WInv, ChangeStopped PROVE UiInv'
  OBVIOUS
<1> USE DEF WInv, UiInv
<1>1. UiTypes'
  BY DEF ChangeStopped, Goto, UiTypes, polling, display, profiles, history
<1>2. Poll /\ runtime = NoRun /\ ui' = "change_update"
  BY DEF ChangeStopped, Resumed, InHandler, Goto
<1>3. PollNone
  BY <1>2 DEF Poll, PollExited, PollBegin, IsRunning
<1>4. Waits' /\ InHandler' /\ OwnedIsOn'
  BY <1>2, <1>3, PollCall DEF PollNone, Return, owned, EngineInv, Waits, InHandler, OwnedIsOn
<1> QED
  BY <1>1, <1>4

LEMMA ChangeUpdatedUi == WInv /\ ChangeUpdated => UiInv'
<1> SUFFICES ASSUME WInv, ChangeUpdated PROVE UiInv'
  OBVIOUS
<1> USE DEF WInv, UiInv
<1>0. pc = "idle" /\ runtime = NoRun /\ ui' = after /\ after' = "loop" /\ UNCHANGED vars
  BY DEF ChangeUpdated, Resumed, InHandler
<1>1. shown' \in States /\ switch' \in BOOLEAN
  BY <1>0, ShowStatusStep DEF ChangeUpdated
<1>2. UiTypes'
  BY <1>0, <1>1 DEF ChangeUpdated, UiTypes, polling, profiles, history
<1>3. Waits' /\ InHandler' /\ OwnedIsOn'
  BY <1>0 DEF vars, UiTypes, Waits, InHandler, OwnedIsOn, IsRunning
<1> QED
  BY <1>2, <1>3

LEMMA ChooseProfileUi == WInv /\ ChooseProfile => UiInv'
<1> SUFFICES ASSUME WInv, ChooseProfile PROVE UiInv'
  OBVIOUS
<1>1. PICK i \in DOMAIN list : SelectRow(i, "loop")
  BY DEF ChooseProfile
<1>2. UNCHANGED <<opened, saved, list, dialog>> /\ pc = "idle"
  BY DEF ChooseProfile, UserFree, AtLoop
<1>3. i \in 0 .. Len(list)
  BY DEF WInv, UiInv, UiTypes, IsList
<1>4. opened' \in BOOLEAN /\ IsList(saved') /\ IsList(list') /\ i \in 0 .. Len(list')
      /\ dialog' \in Profile \cup {NoProfile}
  BY <1>2, <1>3 DEF WInv, UiInv, UiTypes
<1> QED
  BY <1>1, <1>2, <1>4, SelectRowUi

LEMMA SelectLastUi == WInv /\ SelectLast => UiInv'
<1> SUFFICES ASSUME WInv, SelectLast PROVE UiInv'
  OBVIOUS
<1>1. UNCHANGED <<opened, saved, list, dialog>> /\ pc = "idle" /\ SelectRow(Len(list), "loop")
  BY DEF SelectLast, Resumed
<1>2. Len(list) \in 0 .. Len(list)
  BY DEF WInv, UiInv, UiTypes, IsList
<1>3. opened' \in BOOLEAN /\ IsList(saved') /\ IsList(list') /\ Len(list) \in 0 .. Len(list')
      /\ dialog' \in Profile \cup {NoProfile}
  BY <1>1, <1>2 DEF WInv, UiInv, UiTypes
<1> QED
  BY <1>1, <1>3, SelectRowUi

-----------------------------------------------------------------------------
(* Importing and removing *)

LEMMA LoadProfilesUi ==
  ASSUME WInv, NEW s, IsList(s), NEW next \in {"loop", "select_last"}, LoadProfiles(s, next),
         pc = "idle", saved' = s, opened' = opened, dialog' \in {dialog, NoProfile}
  PROVE  UiInv'
<1>1. PICK i \in 0 .. Len(list') : SelectRow(i, next)
  BY LoadProfilesStep
<1>2. opened' \in BOOLEAN /\ IsList(saved') /\ IsList(list') /\ dialog' \in Profile \cup {NoProfile}
  BY LoadProfilesStep DEF WInv, UiInv, UiTypes
<1> QED
  BY <1>1, <1>2, SelectRowUi

LEMMA ImportUi ==
  ASSUME WInv, NEW p \in Profile, Import(p)
  PROVE  UiInv'
<1>1. IsList(Append(saved, p))
  BY ListAppend DEF Import, WInv, UiInv, UiTypes
<1>2. LoadProfiles(Append(saved, p), "select_last")
  BY DEF Import
<1> QED
  BY <1>1, <1>2, LoadProfilesUi DEF Import, AtLoop

LEMMA DialogUi == WInv /\ (OpenRemove \/ CancelRemove) => UiInv'
<1> SUFFICES ASSUME WInv, OpenRemove \/ CancelRemove PROVE UiInv'
  OBVIOUS
<1> USE DEF WInv, UiInv
<1>1. dialog' \in Profile \cup {NoProfile}
  BY ChosenProfile DEF OpenRemove, CancelRemove
<1>2. UNCHANGED <<vars, ui, after, switch, polling, display, profiles, history>>
  BY DEF OpenRemove, CancelRemove
<1>3. UiTypes'
  BY <1>1, <1>2 DEF UiTypes, polling, display, profiles, history
<1>4. Waits' /\ InHandler' /\ OwnedIsOn'
  BY <1>2 DEF vars, Waits, InHandler, OwnedIsOn, IsRunning
<1> QED
  BY <1>3, <1>4

LEMMA ConfirmRemoveUi == WInv /\ ConfirmRemove => UiInv'
<1> SUFFICES ASSUME WInv, ConfirmRemove PROVE UiInv'
  OBVIOUS
<1> USE DEF WInv, UiInv
<1>1. UiTypes'
  BY DEF ConfirmRemove, Disconnect, Goto, UiTypes, polling, display, profiles, history
<1>2. switch' = switch
  BY DEF ConfirmRemove
<1>3. CASE Disconnect
  BY <1>1, <1>2, <1>3, StopCall DEF Disconnect, EngineInv, Waits, InHandler, OwnedIsOn
<1>4. CASE ~Disconnect
  <2>1. ~IsRunning /\ UNCHANGED vars /\ ui' = "removing" /\ pc = "idle"
    BY <1>4 DEF ConfirmRemove, Goto, AtLoop
  <2>2. ~IsRunning'
    BY <2>1 DEF vars, IsRunning
  <2>3. Waits' /\ InHandler' /\ OwnedIsOn'
    BY <1>2, <2>1, <2>2 DEF vars, Waits, InHandler, OwnedIsOn
  <2> QED
    BY <1>1, <2>3
<1> QED
  BY <1>3, <1>4

LEMMA RemoveConfirmedUi == WInv /\ RemoveConfirmed => UiInv'
<1> SUFFICES ASSUME WInv, RemoveConfirmed PROVE UiInv'
  OBVIOUS
<1>0. pc = "idle" /\ ui = "removing" /\ dialog' = NoProfile
  BY DEF RemoveConfirmed, Resumed
<1>1. CASE Goto("loop") /\ UNCHANGED <<vars, switch, polling, display, profiles, history>>
  <2> USE DEF WInv, UiInv
  <2>1. UiTypes'
    BY <1>0, <1>1 DEF Goto, UiTypes, polling, display, profiles, history
  <2>2. Waits' /\ InHandler' /\ OwnedIsOn'
    BY <1>0, <1>1 DEF Goto, vars, Waits, InHandler, OwnedIsOn
  <2> QED
    BY <2>1, <2>2
<1>2. ASSUME NEW i \in DOMAIN saved, saved' = RemoveAt(saved, i), LoadProfiles(saved', "loop"),
             opened' = opened
      PROVE  UiInv'
  <2>1. IsList(RemoveAt(saved, i))
    BY ListRemoveAt DEF WInv, UiInv, UiTypes
  <2> QED
    BY <1>0, <1>2, <2>1, LoadProfilesUi
<1> QED
  BY <1>1, <1>2 DEF RemoveConfirmed

-----------------------------------------------------------------------------
(* The timeout *)

LEMMA OnPollUi == WInv /\ OnPoll => UiInv'
<1> SUFFICES ASSUME WInv, OnPoll PROVE UiInv'
  OBVIOUS
<1> USE DEF WInv, UiInv
<1>1. UiTypes' /\ Poll /\ ui' = "tick_update" /\ switch' = switch
  BY DEF OnPoll, Goto, UiTypes, polling, display, profiles, history
<1>2. Waits' /\ InHandler' /\ OwnedIsOn'
  BY <1>1, PollCall DEF EngineInv, Waits, InHandler, OwnedIsOn
<1> QED
  BY <1>1, <1>2

LEMMA PolledUi == WInv /\ Polled => UiInv'
<1> SUFFICES ASSUME WInv, Polled PROVE UiInv'
  OBVIOUS
<1> USE DEF WInv, UiInv
<1>0. pc = "idle" /\ ui' = "loop" /\ UNCHANGED vars
  BY DEF Polled, Resumed, Goto
<1>1. shown' \in States /\ switch' \in BOOLEAN /\ (runtime # NoRun => switch')
  <2>1. CASE ShowStatus
    BY <1>0, <2>1, ShowStatusStep
  <2>2. CASE UNCHANGED <<switch, display>>
    BY <1>0, <2>2 DEF UiTypes, display, OwnedIsOn
  <2> QED
    BY <2>1, <2>2 DEF Polled
<1>2. logview' \in 0 .. MaxLines /\ source' \in BOOLEAN /\ armed' \in BOOLEAN
  BY DEF Polled, RefreshLog, StopPolling, display, polling, UiTypes, EngineInv, IInv, TypeOK
<1>3. UiTypes'
  BY <1>1, <1>2 DEF Polled, UiTypes, Goto, profiles, history
<1>4. Waits' /\ InHandler' /\ OwnedIsOn'
  BY <1>0, <1>1 DEF vars, Waits, InHandler, OwnedIsOn
<1> QED
  BY <1>3, <1>4

-----------------------------------------------------------------------------
(* The process *)

LEMMA LaunchUi == WInv /\ Launch => UiInv'
<1> SUFFICES ASSUME WInv, Launch PROVE UiInv'
  OBVIOUS
<1> USE DEF WInv, UiInv
<1>1. opened' \in BOOLEAN /\ IsList(list')
  BY EmptyList DEF Launch, UiTypes
<1>2. selected' \in 0 .. Len(list')
  BY <1>1 DEF Launch, IsList
<1>3. UiTypes'
  BY <1>1, <1>2 DEF Launch, UiTypes, polling, display, history
<1>4. Waits' /\ InHandler' /\ OwnedIsOn'
  BY DEF Launch, vars, Waits, InHandler, OwnedIsOn
<1> QED
  BY <1>3, <1>4

LEMMA WindowLostTypes ==
  ASSUME UiTypes, WindowLost, ui' \in {"gone", "quitting"}, orphans' \subseteq Run
  PROVE  UiTypes'
<1>1. IsList(list') /\ selected' \in 0 .. Len(list')
  BY EmptyList DEF WindowLost
<1>2. shown' \in States /\ logview' \in 0 .. MaxLines
  BY MaxLinesAssumption DEF WindowLost, States
<1> QED
  BY <1>1, <1>2 DEF WindowLost, UiTypes

LEMMA QuitUi == WInv /\ Quit => UiInv'
<1> SUFFICES ASSUME WInv, Quit PROVE UiInv'
  OBVIOUS
<1> USE DEF WInv, UiInv
<1>1. UiTypes'
  BY WindowLostTypes DEF Quit, UiTypes
<1>2. Stop /\ ui' = "quitting" /\ ~switch'
  BY DEF Quit, WindowLost
<1>3. Waits' /\ InHandler' /\ OwnedIsOn'
  BY <1>2, StopCall DEF EngineInv, Waits, InHandler, OwnedIsOn
<1> QED
  BY <1>1, <1>3

LEMMA QuitStoppedUi == WInv /\ QuitStopped => UiInv'
<1> SUFFICES ASSUME WInv, QuitStopped PROVE UiInv'
  OBVIOUS
<1> USE DEF WInv, UiInv
<1>1. UiTypes'
  BY DEF QuitStopped, UiTypes, polling, display, profiles, history
<1>2. Waits' /\ InHandler' /\ OwnedIsOn'
  BY DEF QuitStopped, Resumed, vars, Waits, InHandler, OwnedIsOn
<1> QED
  BY <1>1, <1>2

LEMMA KilledUi == WInv /\ Killed => UiInv'
<1> SUFFICES ASSUME WInv, Killed PROVE UiInv'
  OBVIOUS
<1> USE DEF WInv, UiInv
<1>1. UiTypes'
  BY WindowLostTypes DEF Killed, UiTypes, EngineInv, IInv, TypeOK
<1>2. Waits' /\ InHandler' /\ OwnedIsOn'
  BY DEF Killed, WindowLost, Return, Waits, InHandler, OwnedIsOn
<1> QED
  BY <1>1, <1>2

-----------------------------------------------------------------------------
(* The invariant *)

(* What a step of the window is to the supervisor. *)
LEMMA UserStepEngine == WInv /\ UserStep => EngineInv'
<1> SUFFICES ASSUME WInv, UserStep PROVE EngineInv'
  OBVIOUS
<1>1. CASE ToggleOn
  <2>1. orphans' = orphans /\ \E r \in Run : Validate(r)
    BY <1>1 DEF ToggleOn
  <2>2. runtime = NoRun
    BY <1>1, ToggleOnUi
  <2> QED
    BY <2>1, <2>2, MakeEngine DEF WInv
<1>2. CASE ToggleOff \/ Quit
  BY <1>2, StopEngine DEF ToggleOff, Disconnect, Quit, history, WInv
<1>3. ASSUME NEW i, NEW next, SelectRow(i, next) PROVE EngineInv'
  BY <1>3, SelectRowStep, StopEngine, SameEngine DEF WInv
<1>4. CASE ChooseProfile
  BY <1>3, <1>4 DEF ChooseProfile
<1>5. ASSUME NEW p \in Profile, Import(p) PROVE EngineInv'
  BY <1>3, <1>5 DEF Import, LoadProfiles
<1>6. CASE OpenRemove \/ CancelRemove
  BY <1>6, SameEngine DEF OpenRemove, CancelRemove, history, WInv
<1>7. CASE ConfirmRemove
  BY <1>7, StopEngine, SameEngine DEF ConfirmRemove, Disconnect, history, WInv
<1>8. CASE Launch
  BY <1>8, SameEngine DEF Launch, history, WInv
<1> QED
  BY <1>1, <1>2, <1>4, <1>5, <1>6, <1>7, <1>8 DEF UserStep

LEMMA HandlerStepEngine == WInv /\ HandlerStep => EngineInv'
<1> SUFFICES ASSUME WInv, HandlerStep PROVE EngineInv'
  OBVIOUS
<1>1. CASE Validated
  <2>1. orphans' = orphans /\ (UNCHANGED vars \/ \E r \in Run : Start(r))
    BY <1>1 DEF Validated, ConnectRefused, history
  <2>2. runtime = NoRun
    BY <1>1, ValidatedUi
  <2> QED
    BY <2>1, <2>2, MakeEngine, SameEngine DEF WInv
<1>2. CASE Started
  BY <1>2, PollEngine, SameEngine DEF Started, ConnectRefused, history, WInv
<1>3. CASE ConnectUpdated \/ DisconnectUpdated \/ ChangeUpdated \/ Polled \/ QuitStopped
  BY <1>3, SameEngine DEF ConnectUpdated, DisconnectUpdated, ChangeUpdated, Polled, QuitStopped,
     history, WInv
<1>4. CASE Disconnected \/ ChangeStopped
  BY <1>4, PollEngine DEF Disconnected, ChangeStopped, history, WInv
<1>5. ASSUME NEW i, NEW next, SelectRow(i, next) PROVE EngineInv'
  BY <1>5, SelectRowStep, StopEngine, SameEngine DEF WInv
<1>6. CASE SelectLast
  BY <1>5, <1>6 DEF SelectLast
<1>7. CASE RemoveConfirmed
  BY <1>5, <1>7, SameEngine DEF RemoveConfirmed, LoadProfiles, history, WInv
<1> QED
  BY <1>1, <1>2, <1>3, <1>4, <1>6, <1>7 DEF HandlerStep

LEMMA NextEngineInv == WInv /\ [WNext]_wvars => EngineInv'
<1> SUFFICES ASSUME WInv, [WNext]_wvars PROVE EngineInv'
  OBVIOUS
<1>1. CASE UNCHANGED wvars
  BY <1>1, SameEngine DEF wvars, wui, WInv
<1>2. CASE OnPoll
  BY <1>2, PollEngine DEF OnPoll, history, WInv
<1>3. CASE EngineStep
  BY <1>3, WaitsNone, CallStepEngine DEF EngineStep, wui, WInv, EngineInv
<1>4. CASE WorldStep
  BY <1>4, WorldEngine DEF WorldStep, wui, WInv
<1>5. CASE Killed
  BY <1>5, KilledEngine DEF WInv
<1> QED
  BY <1>1, <1>2, <1>3, <1>4, <1>5, UserStepEngine, HandlerStepEngine DEF WNext

LEMMA NextWInv == WInv /\ [WNext]_wvars => WInv'
<1> SUFFICES ASSUME WInv, [WNext]_wvars PROVE UiInv'
  BY NextEngineInv DEF WInv
<1>1. CASE UserStep
  BY <1>1, ToggleOnUi, ToggleOffUi, ChooseProfileUi, ImportUi, DialogUi, ConfirmRemoveUi,
     LaunchUi, QuitUi DEF UserStep
<1>2. CASE HandlerStep
  BY <1>2, ValidatedUi, StartedUi, ConnectUpdatedUi, DisconnectedUi, DisconnectUpdatedUi,
     ChangeStoppedUi, ChangeUpdatedUi, SelectLastUi, RemoveConfirmedUi, PolledUi, QuitStoppedUi
     DEF HandlerStep
<1> QED
  BY <1>1, <1>2, SameUi, EngineStepUi, WorldStepUi, OnPollUi, KilledUi DEF WNext

LEMMA InitWInv == WInit => WInv
<1> SUFFICES ASSUME WInit PROVE WInv
  OBVIOUS
<1> USE NoRunAssumption
<1>1. IInv
  BY InitIInv DEF WInit
<1>2. FilesInv /\ ChildrenInv
  BY DEF WInit, Init, FilesInv, Using, ChildrenInv
<1>3. UiTypes
  <2>1. IsList(saved) /\ IsList(list) /\ selected \in 0 .. Len(list)
    BY EmptyList DEF WInit
  <2>2. shown \in States /\ logview \in 0 .. MaxLines
    BY MaxLinesAssumption DEF WInit, States
  <2>3. switch \in BOOLEAN /\ source \in BOOLEAN /\ armed \in BOOLEAN /\ opened \in BOOLEAN
    BY Zenon DEF WInit
  <2> QED
    BY <2>1, <2>2, <2>3 DEF WInit, UiTypes
<1>4. Waits /\ InHandler /\ OwnedIsOn
  BY DEF WInit, Init, Waits, InHandler, OwnedIsOn
<1> QED
  BY <1>1, <1>2, <1>3, <1>4 DEF WInv, EngineInv, UiInv

THEOREM WInvHolds == WSpec => []WInv
<1> QED
  BY InitWInv, NextWInv, PTL DEF WSpec

(* The variables of the window keep their types, and no profile is listed
   twice, through imports and removals that fail or not. *)
THEOREM WTypeCorrect == WSpec => []WTypeOK
<1>1. WInv => WTypeOK
  BY DEF WInv, EngineInv, IInv, UiInv, UiTypes, WTypeOK
<1> QED
  BY <1>1, WInvHolds, PTL

(* The configuration with the private key is on disk exactly while a run is
   owned, whatever handler ended and however; and nothing deletes what a
   killed process left: Engine.validate(), start(), stop(), poll(). *)
THEOREM ConfigIsRemoved == WSpec => []ConfigLifetime
<1>1. WInv => ConfigLifetime
  <2> SUFFICES ASSUME WInv, ui \in {"loop", "gone"} PROVE files \ orphans = {runtime} \ {NoRun}
    BY DEF ConfigLifetime
  <2>1. Using = {runtime}
    BY DEF WInv, UiInv, Waits, Using
  <2> QED
    BY <2>1 DEF WInv, EngineInv, FilesInv
<1> QED
  BY <1>1, WInvHolds, PTL

(* "make sure it never outlives the UI": without a UI process no child is
   alive, but those of processes that were killed: do_shutdown(). *)
THEOREM EngineEndsWithUi == WSpec => []NothingOutlives
<1>1. WInv => NothingOutlives
  <2> SUFFICES ASSUME WInv, ui = "gone", NEW r \in Run \ orphans PROVE proc[r] # "alive"
    BY DEF NothingOutlives
  <2>1. runtime = NoRun /\ pc = "idle"
    BY DEF WInv, UiInv, Waits, InHandler
  <2> QED
    BY <2>1, NoRunAssumption DEF WInv, EngineInv, ChildrenInv
<1> QED
  BY <1>1, WInvHolds, PTL

-----------------------------------------------------------------------------
(* The selected profile *)

LEMMA CallRuns ==
  ASSUME IInv, CallStep, IsRunning'
  PROVE  IsRunning \/ pc = "spawning"
<1>1. CASE ValidateReturn
  BY <1>1 DEF ValidateReturn, IsRunning
<1>2. CASE Spawn
  BY <1>2 DEF Spawn
<1>3. CASE Reaped \/ GiveUp \/ Escalate
  BY <1>3 DEF Reaped, GiveUp, FinishStop, Escalate, IInv, CallInv, IsRunning
<1>4. CASE PollReply
  BY <1>4, BeginStopCall DEF PollReply, NoReply, NoHandshake, HasHandshake, MalformedReply,
     Report, owned, IsRunning
<1> QED
  BY <1>1, <1>2, <1>3, <1>4 DEF CallStep

LEMMA WorldRuns ==
  ASSUME IInv, World, IsRunning'
  PROVE  IsRunning
BY WorldCall, WorldProc DEF IInv, TypeOK, IsRunning

LEMMA KeepsSelection ==
  ASSUME SelectionInv, UNCHANGED <<saved, list, selected, tunnelOf>>,
         IsRunning' => IsRunning \/ ui \in {"validating", "starting"},
         ui' \in {"validating", "starting"} => ui \in {"validating", "starting"}
  PROVE  SelectionInv'
BY DEF SelectionInv

(* A stop, a poll or nothing at all starts no child. *)
LEMMA QuietRuns ==
  ASSUME IInv, Stop \/ Poll \/ UNCHANGED vars, IsRunning'
  PROVE  IsRunning
BY StopCall, PollCall DEF vars, IsRunning

LEMMA SelectRowSelection ==
  ASSUME WInv, SelectionInv, NEW i, NEW next \in {"loop", "select_last"}, SelectRow(i, next),
         list' \in {saved', << >>},
         i = selected /\ IsRunning => selected # 0 /\ list'[selected] = list[selected]
  PROVE  SelectionInv'
<1> USE SelectRowStep
<1>1. CASE Stop /\ ui' = "changing"
  BY <1>1, StopCall DEF WInv, EngineInv, IsRunning, SelectionInv
<1>2. CASE (~IsRunning \/ i = selected) /\ UNCHANGED vars /\ ui' = next
  BY <1>2 DEF vars, IsRunning, SelectionInv
<1> QED
  BY <1>1, <1>2

LEMMA ImportSelection ==
  ASSUME WInv, SelectionInv, NEW p \in Profile, Import(p)
  PROVE  SelectionInv'
<1> DEFINE s == Append(saved, p)
<1>1. IsList(s) /\ saved' = s /\ LoadProfiles(s, "select_last")
  BY ListAppend DEF Import, WInv, UiInv, UiTypes
<1>2. PICK i \in 0 .. Len(list') :
          SelectRow(i, "select_last") /\ (list' = << >> => i = 0) /\ (list' # << >> => i = 1)
  BY <1>1, LoadProfilesStep
<1>3. list' \in {saved', << >>}
  BY <1>1, LoadProfilesStep
<1>4. ASSUME i = selected, IsRunning PROVE selected # 0 /\ list'[selected] = list[selected]
  <2>1. selected # 0 /\ selected = 1 /\ list' = s
    BY <1>1, <1>2, <1>3, <1>4 DEF SelectionInv
  <2>2. list \in Seq(Profile) /\ 1 <= Len(list)
    BY <2>1 DEF WInv, UiInv, UiTypes, IsList
  <2>3. list = saved
    BY <2>2, EmptyList DEF SelectionInv
  <2> QED
    BY <2>1, <2>2, <2>3
<1> QED
  BY <1>2, <1>3, <1>4, SelectRowSelection

LEMMA NextSelection == WInv /\ SelectionInv /\ [WNext]_wvars => SelectionInv'
<1> SUFFICES ASSUME WInv, SelectionInv, [WNext]_wvars PROVE SelectionInv'
  OBVIOUS
<1>0. IInv
  BY DEF WInv, EngineInv
<1>1. CASE UNCHANGED wvars
  BY <1>1 DEF wvars, vars, wui, SelectionInv, IsRunning
<1>2. CASE EngineStep
  <2>1. pc = "spawning" => ui = "starting"
    BY DEF WInv, UiInv, UiTypes, Waits
  <2> QED
    BY <1>0, <1>2, <2>1, CallRuns, KeepsSelection DEF EngineStep, wui
<1>3. CASE WorldStep
  BY <1>0, <1>3, WorldRuns, KeepsSelection DEF WorldStep, wui
<1>4. CASE ToggleOn
  BY <1>4 DEF ToggleOn, profiles, SelectionInv
<1>5. CASE Validated
  <2>1. IsRunning' => IsRunning
    <3>1. \A r \in Run : Start(r) => runtime' = runtime /\ proc' = proc
      BY StartCall
    <3> QED
      BY <1>5, <3>1 DEF Validated, ConnectRefused, vars, IsRunning
  <2> QED
    BY <1>5, <2>1, KeepsSelection DEF Validated, Resumed, ConnectRefused, Goto, profiles, history
<1>6. CASE Started \/ ConnectUpdated \/ Disconnected \/ ChangeStopped \/ Polled \/ OnPoll
  BY <1>0, <1>6, QuietRuns, KeepsSelection DEF Started, ConnectRefused, ConnectUpdated,
     Disconnected, ChangeStopped, Polled, OnPoll, Goto, profiles, history
<1>7. CASE DisconnectUpdated \/ ChangeUpdated
  BY <1>0, <1>7, QuietRuns, KeepsSelection DEF DisconnectUpdated, ChangeUpdated,
     profiles, history, WInv, UiInv, UiTypes
<1>8. CASE ToggleOff \/ OpenRemove \/ CancelRemove \/ ConfirmRemove \/ QuitStopped
  BY <1>0, <1>8, QuietRuns, KeepsSelection DEF ToggleOff, OpenRemove, CancelRemove,
     ConfirmRemove, Disconnect, QuitStopped, Goto, profiles, history
<1>9. CASE Quit \/ Killed
  <2>1. runtime' = NoRun /\ ui' \in {"quitting", "gone"} /\ list' = << >>
    BY <1>0, <1>9, StopCall DEF Quit, Killed, WindowLost
  <2> QED
    BY <2>1 DEF SelectionInv, IsRunning
<1>10. CASE Launch
  <2>1. ~IsRunning' /\ ui' = "loop" /\ saved' = saved /\ list' \in {saved, << >>}
    BY <1>10 DEF Launch, vars, IsRunning, WInv, UiInv, InHandler
  <2> QED
    BY <2>1 DEF SelectionInv
<1>11. CASE ChooseProfile
  BY <1>11, SelectRowSelection DEF ChooseProfile, SelectionInv
<1>12. CASE SelectLast
  BY <1>12, SelectRowSelection DEF SelectLast, SelectionInv
<1>13. CASE RemoveConfirmed
  <2>1. ~IsRunning
    BY <1>13 DEF RemoveConfirmed, Resumed, WInv, UiInv, InHandler
  <2>2. CASE UNCHANGED <<vars, switch, polling, display, profiles, history>> /\ Goto("loop")
    BY <1>0, <2>2, QuietRuns, KeepsSelection DEF Goto, profiles, history
  <2>3. CASE LoadProfiles(saved', "loop")
    BY <2>1, <2>3, SelectRowSelection DEF LoadProfiles
  <2> QED
    BY <1>13, <2>2, <2>3 DEF RemoveConfirmed
<1> QED
  BY <1>1, <1>2, <1>3, <1>4, <1>5, <1>6, <1>7, <1>8, <1>9, <1>10, <1>11, <1>12, <1>13,
     ImportSelection DEF WNext, UserStep, HandlerStep

(* What runs is the profile that is selected, through imports, removals and
   lists that could not be read: _on_profile_changed(), _load_profiles(). *)
THEOREM RunsWhatIsSelected == WSpec => []TunnelOfSelected
<1>1. WInit => SelectionInv
  BY DEF WInit, Init, SelectionInv, IsRunning
<1>2. SelectionInv => TunnelOfSelected
  BY DEF SelectionInv, TunnelOfSelected
<1> QED
  BY <1>1, <1>2, NextSelection, WInvHolds, PTL DEF WSpec

-----------------------------------------------------------------------------
(* The switch *)

(* The other half of SwitchMatches, and of what follows a handler's call. *)
OnIsOwned == switch /\ ui \in {"loop", "select_last", "removing"} => runtime # NoRun

LEMMA SelectRowSwitch ==
  ASSUME WInv, ui \in {"loop", "select_last", "removing"}, OnIsOwned,
         NEW i, NEW next, SelectRow(i, next)
  PROVE  OnIsOwned'
<1>1. UNCHANGED <<runtime, switch>> \/ ui' = "changing"
  BY SelectRowStep DEF vars
<1> QED
  BY <1>1, SelectRowStep DEF OnIsOwned

LEMMA NextOnIsOwned ==
  ASSUME "OSError" \notin Escapes
  PROVE  WInv /\ OnIsOwned /\ [WNext]_wvars => OnIsOwned'
<1> SUFFICES ASSUME WInv, OnIsOwned, [WNext]_wvars PROVE OnIsOwned'
  OBVIOUS
<1>0. IInv /\ EngineInv
  BY DEF WInv, EngineInv
<1>1. CASE UNCHANGED wvars
  BY <1>1 DEF wvars, vars, wui, OnIsOwned
<1>2. CASE EngineStep
  <2>1. ui \notin {"loop", "select_last", "removing"}
    BY <1>0, <1>2, CallStepCall DEF EngineStep, WInv, UiInv, Waits
  <2> QED
    BY <1>2, <2>1 DEF EngineStep, wui, OnIsOwned
<1>3. CASE WorldStep
  BY <1>3, WorldCall DEF WorldStep, wui, OnIsOwned
<1>4. CASE ToggleOn \/ ToggleOff \/ OnPoll \/ Disconnected \/ ChangeStopped
  BY <1>4 DEF ToggleOn, ToggleOff, Disconnect, OnPoll, Disconnected, ChangeStopped, Goto, OnIsOwned
<1>5. CASE Validated \/ Started
  <2>1. ~Raised \/ result = "ok"
    BY <1>5 DEF Validated, Started, Resumed, Raised, WInv, UiInv, InHandler
  <2>2. ui' # "loop" \/ ~switch'
    BY <1>5, <2>1 DEF Validated, Started, ConnectRefused, Goto, Raised
  <2>3. ui' \in {"starting", "connect_update", "loop"}
    BY <1>5 DEF Validated, Started, ConnectRefused, Goto
  <2> QED
    BY <2>2, <2>3 DEF OnIsOwned
<1>6. CASE ConnectUpdated \/ Polled
  <2>1. pc = "idle" /\ runtime' = runtime
    BY <1>6 DEF ConnectUpdated, Polled, Resumed, vars
  <2>2. CASE ShowStatus
    BY <1>0, <2>1, <2>2, ShowStatusStep DEF OnIsOwned
  <2>3. CASE Raised
    <3>1. runtime # NoRun
      BY <1>6, <2>3 DEF ConnectUpdated, Polled, Resumed, Raised, WInv, UiInv, InHandler
    <3> QED
      BY <2>1, <3>1 DEF OnIsOwned
  <2> QED
    BY <1>6, <2>2, <2>3 DEF ConnectUpdated, Polled
<1>7. CASE DisconnectUpdated \/ ChangeUpdated
  <2>1. pc = "idle" /\ runtime' = runtime /\ ShowStatus
    BY <1>7 DEF DisconnectUpdated, ChangeUpdated, Resumed, vars
  <2> QED
    BY <1>0, <2>1, ShowStatusStep DEF OnIsOwned
<1>8. CASE OpenRemove \/ CancelRemove
  BY <1>8 DEF OpenRemove, CancelRemove, vars, OnIsOwned
<1>9. CASE ConfirmRemove
  BY <1>9 DEF ConfirmRemove, Disconnect, AtLoop, Goto, vars, OnIsOwned
<1>10. CASE Quit \/ Killed
  BY <1>10 DEF Quit, Killed, WindowLost, OnIsOwned
<1>11. CASE Launch \/ QuitStopped
  BY <1>11 DEF Launch, QuitStopped, Resumed, WInv, UiInv, InHandler, OnIsOwned
<1>12. CASE ChooseProfile \/ \E p \in Profile : Import(p)
  BY <1>12, SelectRowSwitch DEF ChooseProfile, Import, LoadProfiles, UserFree, AtLoop
<1>13. CASE SelectLast
  BY <1>13, SelectRowSwitch DEF SelectLast, Resumed
<1>14. CASE RemoveConfirmed
  <2>1. CASE UNCHANGED <<vars, switch, polling, display, profiles, history>>
    BY <1>14, <2>1 DEF RemoveConfirmed, Resumed, vars, OnIsOwned
  <2>2. CASE LoadProfiles(saved', "loop")
    BY <1>14, <2>2, SelectRowSwitch DEF RemoveConfirmed, Resumed, LoadProfiles
  <2> QED
    BY <1>14, <2>1, <2>2 DEF RemoveConfirmed
<1> QED
  BY <1>1, <1>2, <1>3, <1>4, <1>5, <1>6, <1>7, <1>8, <1>9, <1>10, <1>11, <1>12, <1>13, <1>14
     DEF WNext, UserStep, HandlerStep

(* In the main loop the switch is on exactly while a run is owned, when no
   OSError escapes from validate() or start(): _on_switch_toggled() does not
   set the switch back on one. *)
THEOREM SwitchIsTrue ==
  ASSUME "OSError" \notin Escapes
  PROVE  WSpec => []SwitchMatches
<1>1. WInit => OnIsOwned
  BY DEF WInit, OnIsOwned
<1>2. WInv /\ OnIsOwned => SwitchMatches
  BY DEF WInv, UiInv, UiTypes, OwnedIsOn, OnIsOwned, SwitchMatches
<1>3. WInv /\ OnIsOwned /\ [WNext]_wvars => OnIsOwned'
  BY NextOnIsOwned
<1> QED
  BY <1>1, <1>2, <1>3, WInvHolds, PTL DEF WSpec

-----------------------------------------------------------------------------
(* The timeout *)

(* A timeout that the window remembers exists; only the handler that starts
   a run may find none. *)
WatchInv ==
    /\ source => armed
    /\ runtime # NoRun /\ ui # "starting" => armed

LEMMA SelectRowWatch ==
  ASSUME WatchInv, ui # "starting", NEW i, NEW next, SelectRow(i, next)
  PROVE  WatchInv'
<1>1. UNCHANGED runtime \/ runtime' = NoRun
  BY SelectRowStep DEF vars, owned, Stop, BeginStop
<1> QED
  BY <1>1, SelectRowStep DEF WatchInv

LEMMA NextWatch ==
  ASSUME "HTTPException" \notin Escapes
  PROVE  WInv /\ WatchInv /\ [WNext]_wvars => WatchInv'
<1> SUFFICES ASSUME WInv, WatchInv, [WNext]_wvars PROVE WatchInv'
  OBVIOUS
<1>0. IInv /\ EngineInv
  BY DEF WInv, EngineInv
<1>1. CASE UNCHANGED wvars
  BY <1>1 DEF wvars, vars, wui, WatchInv
<1>2. CASE EngineStep
  <2>1. pc = "spawning" => ui = "starting"
    BY DEF WInv, UiInv, UiTypes, Waits
  <2>2. runtime' \in {runtime, NoRun} \/ pc = "spawning"
    BY <1>0, <1>2, CallStepCall DEF EngineStep
  <2>3. UNCHANGED <<ui, source, armed>>
    BY <1>2 DEF EngineStep, wui
  <2>4. CASE ui = "starting"
    BY <2>3, <2>4 DEF WatchInv
  <2>5. CASE ui # "starting"
    BY <2>1, <2>2, <2>3, <2>5 DEF WatchInv
  <2> QED
    BY <2>4, <2>5
<1>3. CASE WorldStep
  BY <1>3, WorldCall DEF WorldStep, wui, WatchInv
<1>4. ASSUME UNCHANGED polling, runtime' \in {runtime, NoRun}, ui # "starting" PROVE WatchInv'
  BY <1>4 DEF polling, WatchInv
<1>5. CASE ToggleOn \/ Validated
  <2>1. runtime' = runtime
    BY <1>5, ValidateCall, StartCall DEF ToggleOn, Validated, ConnectRefused, vars
  <2>2. UNCHANGED polling /\ ui # "starting"
    BY <1>5 DEF ToggleOn, Validated, ConnectRefused, UserFree, AtLoop, Resumed
  <2> QED
    BY <1>4, <2>1, <2>2
<1>6. CASE Started
  <2>1. CASE result = "ok"
    BY <1>6, <2>1 DEF Started, StartPolling, WatchInv
  <2>2. CASE result # "ok"
    <3>1. runtime = NoRun /\ UNCHANGED <<runtime, source, armed>>
      BY <1>6, <2>2 DEF Started, Resumed, ConnectRefused, vars, polling, WInv, UiInv, InHandler
    <3> QED
      BY <3>1 DEF WatchInv
  <2> QED
    BY <2>1, <2>2
<1>7. CASE ConnectUpdated \/ ChangeUpdated \/ DisconnectUpdated \/ OnPoll \/ ChangeStopped
  <2>1. runtime' \in {runtime, NoRun}
    BY <1>0, <1>7, PollCall DEF ConnectUpdated, ChangeUpdated, DisconnectUpdated, OnPoll,
       ChangeStopped, vars
  <2> QED
    BY <1>4, <1>7, <2>1 DEF ConnectUpdated, ChangeUpdated, DisconnectUpdated, OnPoll, AtLoop,
       ChangeStopped, Resumed
<1>8. CASE Disconnected
  <2>1. runtime = NoRun /\ runtime' \in {runtime, NoRun}
    BY <1>0, <1>8, PollCall DEF Disconnected, Resumed, WInv, UiInv, InHandler
  <2> QED
    BY <1>8, <2>1 DEF Disconnected, StopPolling, WatchInv
<1>9. CASE Polled
  <2>1. ui = "tick_update" /\ pc = "idle" /\ runtime' = runtime /\ ~Raised
    BY <1>9 DEF Polled, Resumed, Raised, vars, WInv, UiInv, InHandler
  <2>2. IsActive(status) <=> runtime # NoRun
    BY <1>0, <2>1 DEF IInv, StatusOwned
  <2>3. IF IsActive(status) THEN UNCHANGED polling ELSE StopPolling
    BY <1>9, <2>1 DEF Polled
  <2> QED
    BY <2>1, <2>2, <2>3 DEF polling, StopPolling, WatchInv
<1>10. CASE ToggleOff \/ ConfirmRemove
  <2>1. runtime' \in {runtime, NoRun}
    BY <1>0, <1>10, StopCall DEF ToggleOff, ConfirmRemove, Disconnect, vars
  <2> QED
    BY <1>4, <1>10, <2>1 DEF ToggleOff, ConfirmRemove, Disconnect, UserFree, AtLoop
<1>11. CASE OpenRemove \/ CancelRemove \/ Launch \/ QuitStopped
  BY <1>4, <1>11 DEF OpenRemove, CancelRemove, Launch, QuitStopped, UserFree, AtLoop, Resumed, vars
<1>12. CASE Quit \/ Killed
  <2>1. runtime' = NoRun
    BY <1>0, <1>12, StopCall DEF Quit, Killed
  <2> QED
    BY <1>12, <2>1 DEF Quit, Killed, WindowLost, WatchInv
<1>13. CASE ChooseProfile \/ \E p \in Profile : Import(p)
  BY <1>13, SelectRowWatch DEF ChooseProfile, Import, LoadProfiles, UserFree, AtLoop
<1>14. CASE SelectLast
  BY <1>14, SelectRowWatch DEF SelectLast, Resumed
<1>15. CASE RemoveConfirmed
  <2>1. CASE UNCHANGED <<vars, switch, polling, display, profiles, history>>
    BY <1>4, <1>15, <2>1 DEF RemoveConfirmed, Resumed, vars
  <2>2. CASE LoadProfiles(saved', "loop")
    BY <1>15, <2>2, SelectRowWatch DEF RemoveConfirmed, Resumed, LoadProfiles
  <2> QED
    BY <1>15, <2>1, <2>2 DEF RemoveConfirmed
<1> QED
  BY <1>1, <1>2, <1>3, <1>5, <1>6, <1>7, <1>8, <1>9, <1>10, <1>11, <1>12, <1>13, <1>14, <1>15
     DEF WNext, UserStep, HandlerStep

(* An owned run is polled for ever, when no exception of http.client escapes
   from poll(): GLib drops the timeout whose callback raised, and _poll_source
   still names it. *)
THEOREM OwnedIsWatched ==
  ASSUME "HTTPException" \notin Escapes
  PROVE  WSpec => []Watched
<1>1. WInit => WatchInv
  BY DEF WInit, Init, WatchInv
<1>2. WatchInv => Watched
  BY DEF WatchInv, Watched
<1>3. WInv /\ WatchInv /\ [WNext]_wvars => WatchInv'
  BY NextWatch
<1> QED
  BY <1>1, <1>2, <1>3, WInvHolds, PTL DEF WSpec
=============================================================================
