------------------------------- MODULE Window -------------------------------
(***************************************************************************)
(* The window and the application (window.py, application.py) driving the  *)
(* supervisor of module Engine.                                            *)
(*                                                                         *)
(* Handlers run one at a time on the GTK main thread.  ui says which       *)
(* handler is in progress and what it waits for: an engine call, whose     *)
(* steps are those of module Engine.  An exception that a handler does not *)
(* catch abandons the handler where it is; PyGObject prints it, returns to *)
(* the main loop, and removes a timeout whose callback raised.             *)
(***************************************************************************)
EXTENDS Engine, Sequences, SequencesExt

CONSTANTS
    Profile,        \* identities of stored profiles
    NoProfile       \* no dialog, no tunnel yet

ASSUME NoProfileAssumption == NoProfile \notin Profile

VARIABLES
    ui,         \* the handler in progress; "loop" in the main loop, "gone" without a process
    after,      \* what an interrupted handler does when a nested one returns
    switch,     \* the Connect switch
    source,     \* _poll_source is not None
    armed,      \* the GLib timeout exists
    shown,      \* the state in the status row
    logview,    \* lines in the log pane
    opened,     \* _store is not None
    saved,      \* profiles in the store
    list,       \* _profiles, the model of the profile row
    selected,   \* the row selected, 0 when there is none
    tunnelOf,   \* the profile that was connected last
    dialog,     \* the profile a Remove dialog is open for
    orphans     \* files, and children, left by UI processes that were killed

wui == <<ui, after, switch, source, armed, shown, logview, opened, saved, list,
         selected, tunnelOf, dialog, orphans>>
polling == <<source, armed>>
display == <<shown, logview>>
history == <<tunnelOf, orphans>>
profiles == <<opened, saved, list, selected>>
wvars == <<vars, wui>>

WInit ==
    /\ Init
    /\ ui = "gone" /\ after = "loop"
    /\ switch = FALSE /\ source = FALSE /\ armed = FALSE
    /\ shown = "idle" /\ logview = 0
    /\ opened = FALSE /\ saved = << >> /\ list = << >> /\ selected = 0
    /\ tunnelOf = NoProfile /\ dialog = NoProfile /\ orphans = {}

AtLoop == ui = "loop" /\ pc = "idle"
UserFree == AtLoop /\ dialog = NoProfile        \* the dialog is modal
Resumed(handler) == ui = handler /\ pc = "idle"
Goto(next) == ui' = next /\ UNCHANGED after

-----------------------------------------------------------------------------
(* What handlers share *)

(* _update_status(), once its poll() has returned. *)
ShowStatus ==
    /\ shown' = status.state
    /\ switch' = IsActive(status)

(* _refresh_log() *)
RefreshLog == logview' = log

StartPolling ==
    /\ source' = TRUE
    /\ armed' = (armed \/ ~source)

StopPolling == source' = FALSE /\ armed' = FALSE

(* Of the handlers' calls, only _update_status() can raise here: the handler
   is abandoned before it has shown anything. *)
Raised == result \in {"OSError", "HTTPException"}

-----------------------------------------------------------------------------
(* _on_switch_toggled(), _connect() *)

(* A profile that cannot be resolved turns the switch back: nothing changes. *)
ToggleOn ==
    /\ UserFree /\ ~switch
    /\ opened /\ selected # 0
    /\ switch' = TRUE
    /\ tunnelOf' = list[selected]
    /\ \E r \in Run : Validate(r)
    /\ Goto("validating")
    /\ UNCHANGED <<polling, display, profiles, dialog, orphans>>

(* Mutant of ConnectRefused: the switch stays on. *)
ConnectRefusedOn == Goto("loop") /\ UNCHANGED <<vars, switch, polling>>

ConnectRefused ==
    /\ switch' = IF Raised THEN switch ELSE FALSE
    /\ Goto("loop")
    /\ UNCHANGED <<vars, polling>>

Validated ==
    /\ Resumed("validating")
    /\ \/ /\ result = "ok"
          /\ \E r \in Run : Start(r)
          /\ Goto("starting")
          /\ UNCHANGED <<switch, polling>>
       \/ result # "ok" /\ ConnectRefused
    /\ UNCHANGED <<display, profiles, history, dialog>>

Started ==
    /\ Resumed("starting")
    /\ \/ /\ result = "ok"
          /\ StartPolling
          /\ Poll
          /\ Goto("connect_update")
          /\ UNCHANGED switch
       \/ result # "ok" /\ ConnectRefused
    /\ UNCHANGED <<display, profiles, history, dialog>>

ConnectUpdated ==
    /\ Resumed("connect_update")
    /\ \/ ~Raised /\ ShowStatus
       \/ Raised /\ UNCHANGED <<switch, shown>>
    /\ Goto("loop")
    /\ UNCHANGED <<vars, polling, logview, profiles, history, dialog>>

-----------------------------------------------------------------------------
(* _disconnect(), from the switch or from the removal of a profile *)

Disconnect ==
    /\ Stop
    /\ ui' = "disconnecting"
    /\ UNCHANGED <<polling, display, profiles, history>>

ToggleOff ==
    /\ UserFree /\ switch
    /\ switch' = FALSE
    /\ Disconnect
    /\ UNCHANGED <<after, dialog>>

Disconnected ==
    /\ Resumed("disconnecting")
    /\ StopPolling
    /\ Poll
    /\ Goto("disconnect_update")
    /\ UNCHANGED <<switch, display, profiles, history, dialog>>

DisconnectUpdated ==
    /\ Resumed("disconnect_update")
    /\ ShowStatus
    /\ RefreshLog
    /\ ui' = after /\ after' = "loop"
    /\ UNCHANGED <<vars, polling, profiles, history, dialog>>

-----------------------------------------------------------------------------
(* _on_profile_changed(), on notify::selected *)

(* Mutant of ProfileChanged: the running engine is left alone. *)
ProfileChangedIgnored(next) ==
    ui' = next /\ after' = "loop" /\ UNCHANGED <<vars, switch, polling, display, history>>

(* The handler starts by stopping a running engine, or returns; then runs next. *)
ProfileChanged(next) ==
    /\ \/ IsRunning /\ Stop /\ ui' = "changing" /\ after' = next
       \/ ~IsRunning /\ ui' = next /\ after' = "loop" /\ UNCHANGED vars
    /\ UNCHANGED <<switch, polling, display, history>>

(* GTK notifies of every change of the row; it may notify when a new model
   leaves the same row selected. *)
SelectRow(i, next) ==
    /\ selected' = i
    /\ \/ ProfileChanged(next)
       \/ /\ i = selected
          /\ ui' = next /\ after' = "loop"
          /\ UNCHANGED <<vars, switch, polling, display, history>>

ChooseProfile ==
    /\ UserFree
    /\ \E i \in DOMAIN list \ {selected} : SelectRow(i, "loop")
    /\ UNCHANGED <<opened, saved, list, dialog>>

ChangeStopped ==
    /\ Resumed("changing")
    /\ Poll
    /\ Goto("change_update")
    /\ UNCHANGED <<switch, polling, display, profiles, history, dialog>>

ChangeUpdated ==
    /\ Resumed("change_update")
    /\ ShowStatus
    /\ ui' = after /\ after' = "loop"
    /\ UNCHANGED <<vars, polling, logview, profiles, history, dialog>>

-----------------------------------------------------------------------------
(* _load_profiles(), _import_text(), _on_remove() and its response *)

(* Mutant of LoadProfiles: the selected row is kept. *)
LoadProfilesSameRow(s, next) ==
    \E l \in {s, << >>} : list' = l /\ SelectRow(selected, next)

(* The list becomes what the store reads back, or empty if it cannot; the
   row goes to the first entry. *)
LoadProfiles(s, next) ==
    \E l \in {s, << >>} :
        /\ list' = l
        /\ SelectRow(IF l = << >> THEN 0 ELSE 1, next)

(* A profile that is refused, or cannot be saved, leaves the window alone. *)
Import(p) ==
    /\ AtLoop /\ opened
    /\ p \notin ToSet(saved)
    /\ saved' = Append(saved, p)
    /\ LoadProfiles(saved', "select_last")
    /\ UNCHANGED <<opened, dialog>>

(* set_selected(len - 1); for an empty list that is -1, which raises. *)
SelectLast ==
    /\ Resumed("select_last")
    /\ SelectRow(Len(list), "loop")
    /\ UNCHANGED <<opened, saved, list, dialog>>

OpenRemove ==
    /\ UserFree
    /\ opened /\ selected # 0
    /\ dialog' = list[selected]
    /\ UNCHANGED <<vars, ui, after, switch, polling, display, profiles, history>>

CancelRemove ==
    /\ AtLoop /\ dialog # NoProfile
    /\ dialog' = NoProfile
    /\ UNCHANGED <<vars, ui, after, switch, polling, display, profiles, history>>

ConfirmRemove ==
    /\ AtLoop /\ dialog # NoProfile
    /\ \/ IsRunning /\ Disconnect /\ after' = "removing"
       \/ /\ ~IsRunning
          /\ Goto("removing")
          /\ UNCHANGED <<vars, polling, display, profiles, history>>
    /\ UNCHANGED <<switch, dialog>>

RemoveConfirmed ==
    /\ Resumed("removing")
    /\ dialog' = NoProfile
    /\ \/ /\ Goto("loop")                      \* StorageError: reported
          /\ UNCHANGED <<vars, switch, polling, display, profiles, history>>
       \/ /\ \E i \in DOMAIN saved : saved[i] = dialog /\ saved' = RemoveAt(saved, i)
          /\ LoadProfiles(saved', "loop")
          /\ UNCHANGED opened

-----------------------------------------------------------------------------
(* _on_poll(), once a second while the timeout exists *)

OnPoll ==
    /\ AtLoop /\ armed
    /\ Poll
    /\ Goto("tick_update")
    /\ UNCHANGED <<switch, polling, display, profiles, history, dialog>>

(* Mutant of Polled: _poll_source is not reset when the timeout ends. *)
PolledKeepsSource ==
    /\ Resumed("tick_update")
    /\ ~Raised
    /\ ShowStatus
    /\ RefreshLog
    /\ armed' = IsActive(status)
    /\ Goto("loop")
    /\ UNCHANGED <<vars, source, profiles, history, dialog>>

(* Mutant of Polled: no value returned, so GLib calls it once only. *)
PolledOnce ==
    /\ Resumed("tick_update")
    /\ ~Raised
    /\ ShowStatus
    /\ RefreshLog
    /\ armed' = FALSE
    /\ Goto("loop")
    /\ UNCHANGED <<vars, source, profiles, history, dialog>>

Polled ==
    /\ Resumed("tick_update")
    /\ \/ /\ ~Raised
          /\ ShowStatus
          /\ RefreshLog
          /\ IF IsActive(status) THEN UNCHANGED polling ELSE StopPolling
       \/ /\ Raised                             \* GLib drops the timeout
          /\ armed' = FALSE
          /\ UNCHANGED <<source, switch, display>>
    /\ Goto("loop")
    /\ UNCHANGED <<vars, profiles, history, dialog>>

-----------------------------------------------------------------------------
(* do_activate(), do_shutdown(), and the end of the process *)

Launch ==
    /\ ui = "gone"
    /\ ui' = "loop"
    /\ \/ opened' = TRUE /\ list' = saved
       \/ opened' = FALSE /\ list' = << >>      \* the store cannot be read
    /\ selected' = IF list' = << >> THEN 0 ELSE 1
    /\ UNCHANGED <<vars, after, switch, polling, display, saved, history, dialog>>

(* Nothing of the window outlives the process. *)
WindowLost ==
    /\ switch' = FALSE /\ source' = FALSE /\ armed' = FALSE
    /\ shown' = "idle" /\ logview' = 0
    /\ opened' = FALSE /\ list' = << >> /\ selected' = 0
    /\ tunnelOf' = NoProfile /\ dialog' = NoProfile
    /\ after' = "loop"
    /\ UNCHANGED saved

(* Mutant of Quit: do_shutdown() without the stop. *)
QuitRunning ==
    /\ AtLoop
    /\ runtime' = NoRun
    /\ UNCHANGED <<status, files, proc, call, facets>>
    /\ ui' = "quitting"
    /\ WindowLost
    /\ UNCHANGED orphans

Quit ==
    /\ AtLoop
    /\ Stop
    /\ ui' = "quitting"
    /\ WindowLost
    /\ UNCHANGED orphans

QuitStopped ==
    /\ Resumed("quitting")
    /\ ui' = "gone"
    /\ UNCHANGED <<vars, after, switch, polling, display, profiles, history, dialog>>

(* The process is killed: the engine has its own session and stays. *)
Killed ==
    /\ ui # "gone"
    /\ ui' = "gone"
    /\ WindowLost
    /\ orphans' = orphans \cup files
    /\ runtime' = NoRun
    /\ status' = Told("idle")
    /\ ResetFacets
    /\ Return("ok")
    /\ UNCHANGED <<files, proc>>

-----------------------------------------------------------------------------
UserStep ==
    \/ ToggleOn \/ ToggleOff \/ ChooseProfile
    \/ \E p \in Profile : Import(p)
    \/ OpenRemove \/ CancelRemove \/ ConfirmRemove
    \/ Launch \/ Quit

HandlerStep ==
    \/ Validated \/ Started \/ ConnectUpdated
    \/ Disconnected \/ DisconnectUpdated
    \/ ChangeStopped \/ ChangeUpdated
    \/ SelectLast \/ RemoveConfirmed \/ Polled \/ QuitStopped

EngineStep == CallStep /\ UNCHANGED wui
WorldStep == World /\ UNCHANGED wui

WNext == UserStep \/ HandlerStep \/ OnPoll \/ EngineStep \/ WorldStep \/ Killed

(* The main thread runs its handlers to their end, through waits that all
   have timeouts; the main loop dispatches a timeout that is due between any
   two handlers; and time passes. *)
WFairness ==
    /\ WF_wvars(HandlerStep)
    /\ WF_wvars(EngineStep)
    /\ SF_wvars(OnPoll)
    /\ WF_wvars(Tick /\ UNCHANGED wui)

WSpec == WInit /\ [][WNext]_wvars /\ WFairness

-----------------------------------------------------------------------------
(* The variables keep their types; no profile is listed twice. *)
IsList(s) == s \in Seq(Profile) /\ IsInjective(s)

WTypeOK ==
    /\ TypeOK
    /\ ui \in {"gone", "loop", "validating", "starting", "connect_update",
               "disconnecting", "disconnect_update", "changing", "change_update",
               "select_last", "removing", "tick_update", "quitting"}
    /\ after \in {"loop", "select_last", "removing"}
    /\ switch \in BOOLEAN /\ source \in BOOLEAN /\ armed \in BOOLEAN /\ opened \in BOOLEAN
    /\ shown \in States
    /\ logview \in 0 .. MaxLines
    /\ IsList(saved) /\ IsList(list)
    /\ selected \in 0 .. Len(list)
    /\ tunnelOf \in Profile \cup {NoProfile} /\ dialog \in Profile \cup {NoProfile}
    /\ orphans \subseteq Run

(* In the main loop the switch is on exactly while the supervisor owns a
   run: a user who sees it off has no engine, one who sees it on has one. *)
SwitchMatches == ui = "loop" => (switch <=> runtime # NoRun)

(* An owned run is watched: the one second timeout exists, so a dead engine
   and a stalled handshake are noticed. *)
Watched == ui = "loop" /\ runtime # NoRun => armed

(* The generated configuration, with the private key, is on disk exactly
   while a run is owned: it goes on disconnect, on a failure, on a refusal,
   on a change of profile, and never while the engine needs it.  What killed
   processes left behind is not touched. *)
ConfigLifetime == ui \in {"loop", "gone"} => files \ orphans = {runtime} \ {NoRun}

(* A running tunnel is the selected profile's, through imports, removals and
   changes of the selection made while it runs. *)
TunnelOfSelected ==
    ui = "loop" /\ IsRunning => selected # 0 /\ list[selected] = tunnelOf

(* "make sure it never outlives the UI": the engines that live on after the
   UI are those of processes that were killed. *)
NothingOutlives == ui = "gone" => \A r \in Run \ orphans : proc[r] # "alive"

(* "Failed: see the reason and the engine log": the poll that shows a failure
   does not empty the log pane. *)
FailureKeepsLog == [][shown' = "failed" /\ shown # "failed" => logview' >= logview]_wvars

(* A handler always gives control back to the main loop. *)
HandlersReturn == ui \notin {"loop", "gone"} ~> ui \in {"loop", "gone"}

(* "you never get a proxy that accepts connections and quietly discards
   them": a run whose peer does not shake hands is stopped. *)
StalledTunnelIsStopped ==
    runtime # NoRun /\ link # "shaken" ~> runtime = NoRun \/ link = "shaken"

(* A run whose engine has died is noticed, and the switch goes off. *)
DeadEngineIsNoticed ==
    runtime # NoRun /\ proc[runtime] = "exited" ~> ~switch
=============================================================================
