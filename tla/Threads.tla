------------------------------- MODULE Threads -------------------------------
(***************************************************************************)
(* The threads that the UI process runs beside its main thread, and the    *)
(* tunnel that comes and goes under them.                                  *)
(*                                                                         *)
(* A log reader per engine (engine.py) empties the child's pipe into the   *)
(* log of its run; it outlives the tunnel when the child does.  A worker   *)
(* per click on Test (window.py) talks to the proxy of the tunnel of that  *)
(* moment and reports to the main thread, whichever tunnel is up by then.  *)
(*                                                                         *)
(* The tunnel is that of module Tunnel.  While its face is closing the     *)
(* main thread waits in stop() and dispatches nothing.                     *)
(***************************************************************************)
EXTENDS Tunnel, Naturals, Sequences, SequencesExt

CONSTANTS
    Worker,         \* threads named connectivity-test
    MaxLines,       \* _LOG_LINES
    PipeCapacity,   \* lines that fit into the pipe
    MaxOutput,      \* bound: lines that one engine writes
    Blank           \* the n-th line of an engine is n; these are blank

ASSUME ThreadsAssumption ==
    /\ MaxLines \in Nat \ {0}
    /\ PipeCapacity \in Nat \ {0}
    /\ MaxOutput \in Nat

VARIABLES
    pipe,       \* lines that an engine has written and its reader has not read
    writing,    \* runs whose engine holds the write end of its pipe
    reading,    \* runs whose reader thread is in its loop
    lines,      \* _Runtime.log of each run
    got,        \* history: how many lines were read from a run's pipe
    sensitive,  \* the Test button can be clicked
    label,      \* and what it says
    test,       \* where each worker is
    idle        \* workers whose _on_test_done is in the main loop's queue

output == <<pipe, writing, reading, lines, got>>
button == <<sensitive, label>>
tests == <<button, test, idle>>
thvars == <<tvars, output, tests>>

Line == 1 .. MaxOutput
Shown(line) == line \notin Blank

Init ==
    /\ TInit
    /\ pipe = [r \in Run |-> << >>]
    /\ writing = {}
    /\ reading = {}
    /\ lines = [r \in Run |-> << >>]
    /\ got = [r \in Run |-> 0]
    /\ sensitive = TRUE
    /\ label = "Test"
    /\ test = [w \in Worker |-> "none"]
    /\ idle = << >>

Dispatching == face # "closing"

-----------------------------------------------------------------------------
(* The main thread: a new status is followed by _update_status() *)

UpdateButton == sensitive' = (face' = "open") /\ UNCHANGED label

(* start(): the pipe, the log and the reader are the run's own. *)
Start(r) ==
    /\ Open(r)
    /\ r \notin writing \cup reading
    /\ pipe' = [pipe EXCEPT ![r] = << >>]
    /\ lines' = [lines EXCEPT ![r] = << >>]
    /\ got' = [got EXCEPT ![r] = 0]
    /\ writing' = writing \cup {r}
    /\ reading' = reading \cup {r}
    /\ UpdateButton
    /\ UNCHANGED <<test, idle>>

(* A tick, or the end of a stop: the handler shows what poll() returned. *)
Update ==
    /\ Show \/ Forget \/ Closed \/ (Close /\ face' # "closing")
    /\ UpdateButton
    /\ UNCHANGED <<output, test, idle>>

BeginStop ==
    /\ Close /\ face' = "closing"
    /\ UNCHANGED <<output, tests>>

-----------------------------------------------------------------------------
(* The child *)

Handshake == Answer /\ UNCHANGED <<output, tests>>

Written(r) == got[r] + Len(pipe[r])

(* A full pipe blocks the engine. *)
Write(r) ==
    /\ r \in writing
    /\ Len(pipe[r]) < PipeCapacity
    /\ Written(r) < MaxOutput
    /\ pipe' = [pipe EXCEPT ![r] = Append(@, Written(r) + 1)]
    /\ UNCHANGED <<tvars, writing, reading, lines, got, tests>>

(* The engine exits, its run being owned, or dropped and waited for. *)
Exit(r) ==
    /\ r \in writing
    /\ writing' = writing \ {r}
    /\ IF r = tunnel THEN Break ELSE UNCHANGED tvars
    /\ UNCHANGED <<pipe, reading, lines, got, tests>>

-----------------------------------------------------------------------------
(* The reader thread, _drain_output() *)

(* Mutant of Push: a deque without maxlen. *)
PushUnbounded(log, line) == Append(log, line)

(* deque(maxlen): the oldest line makes room. *)
Push(log, line) ==
    IF Len(log) < MaxLines THEN Append(log, line) ELSE Append(Tail(log), line)

ReadLine(r) ==
    /\ r \in reading
    /\ pipe[r] # << >>
    /\ pipe' = [pipe EXCEPT ![r] = Tail(@)]
    /\ got' = [got EXCEPT ![r] = @ + 1]
    /\ UNCHANGED <<tvars, writing, reading, tests>>

(* Mutant of Drain: lines go to the log of the tunnel that is up now. *)
DrainToCurrent(r) ==
    /\ ReadLine(r)
    /\ lines' = IF Shown(Head(pipe[r])) /\ tunnel # NoRun
                THEN [lines EXCEPT ![tunnel] = Push(@, Head(pipe[r]))]
                ELSE lines

(* Mutant of Drain: the reader leaves an engine that is being stopped alone. *)
DrainWhileOwned(r) ==
    /\ r = tunnel
    /\ ReadLine(r)
    /\ lines' = IF Shown(Head(pipe[r])) THEN [lines EXCEPT ![r] = Push(@, Head(pipe[r]))]
                                        ELSE lines

Drain(r) ==
    /\ ReadLine(r)
    /\ lines' = IF Shown(Head(pipe[r])) THEN [lines EXCEPT ![r] = Push(@, Head(pipe[r]))]
                                        ELSE lines

(* Mutant of EndOfOutput: the loop waits for "", which bytes never equal. *)
EndOfOutputNever(r) == r \in reading /\ FALSE /\ UNCHANGED thvars

EndOfOutput(r) ==
    /\ r \in reading
    /\ pipe[r] = << >> /\ r \notin writing
    /\ reading' = reading \ {r}
    /\ UNCHANGED <<tvars, pipe, writing, lines, got, tests>>

-----------------------------------------------------------------------------
(* The connectivity test: _on_test_connection(), its worker, _on_test_done() *)

(* Mutant of Click: the label changes before the tunnel is looked at. *)
ClickEarly(w) ==
    /\ Dispatching /\ sensitive
    /\ test[w] = "none"
    /\ label' = "Testing"
    /\ IF alive THEN sensitive' = FALSE /\ test' = [test EXCEPT ![w] = "running"]
                ELSE UNCHANGED <<sensitive, test>>
    /\ UNCHANGED <<tvars, output, idle>>

(* Without a live tunnel there is a toast only, and nothing changes. *)
Click(w) ==
    /\ Dispatching /\ sensitive
    /\ test[w] = "none"
    /\ alive
    /\ sensitive' = FALSE
    /\ label' = "Testing"
    /\ test' = [test EXCEPT ![w] = "running"]
    /\ UNCHANGED <<tvars, output, idle>>

(* Mutant of Report: an exception that is no SocksError ends the thread. *)
ReportOrDie(w) ==
    /\ test[w] = "running"
    /\ \/ test' = [test EXCEPT ![w] = "reported"] /\ idle' = Append(idle, w)
       \/ test' = [test EXCEPT ![w] = "none"] /\ UNCHANGED idle
    /\ UNCHANGED <<tvars, output, button>>

(* https_get() has returned or raised: either way the main loop is told. *)
Report(w) ==
    /\ test[w] = "running"
    /\ test' = [test EXCEPT ![w] = "reported"]
    /\ idle' = Append(idle, w)
    /\ UNCHANGED <<tvars, output, button>>

TestDone ==
    /\ Dispatching /\ idle # << >>
    /\ sensitive' = TRUE
    /\ label' = "Test"
    /\ test' = [test EXCEPT ![Head(idle)] = "none"]
    /\ idle' = Tail(idle)
    /\ UNCHANGED <<tvars, output>>

-----------------------------------------------------------------------------
Next ==
    \/ Update \/ BeginStop \/ Handshake
    \/ \E r \in Run : Start(r) \/ Write(r) \/ Exit(r) \/ Drain(r) \/ EndOfOutput(r)
    \/ \E w \in Worker : Click(w) \/ Report(w)
    \/ TestDone

(* The threads run; stop() ends; the sockets of a test have timeouts; the
   main loop gets to its idle callbacks between the handlers it is busy with. *)
Fairness ==
    /\ \A r \in Run : WF_thvars(Drain(r)) /\ WF_thvars(EndOfOutput(r))
    /\ \A w \in Worker : WF_thvars(Report(w))
    /\ WF_thvars(Update /\ face = "closing")
    /\ SF_thvars(TestDone)

Spec == Init /\ [][Next]_thvars /\ Fairness

-----------------------------------------------------------------------------
(* The variables keep their types. *)
TypeOK ==
    /\ tunnel \in Run \cup {NoRun}
    /\ face \in {"off", "opening", "open", "closing", "failed"}
    /\ {answered, alive, sensitive} \subseteq BOOLEAN
    /\ pipe \in [Run -> Seq(Line)] /\ \A r \in Run : Len(pipe[r]) <= PipeCapacity
    /\ lines \in [Run -> Seq(Line)] /\ \A r \in Run : Len(lines[r]) <= MaxLines
    /\ got \in [Run -> 0 .. MaxOutput]
    /\ writing \cup reading \subseteq Run
    /\ label \in {"Test", "Testing"}
    /\ test \in [Worker -> {"none", "running", "reported"}]
    /\ idle \in Seq(Worker) /\ IsInjective(idle)

(* The log that a failure quotes and the pane shows is the tail of what that
   engine wrote: the last lines that are not blank, in order, none of them
   from an earlier engine whose reader still runs.  What may be missing is
   what is still in the pipe. *)
LogIsTail ==
    \A r \in reading \cup ({tunnel} \ {NoRun}) :
        LET log == lines[r]
            read == {n \in 1 .. got[r] : Shown(n)}
        IN  /\ \A i, j \in DOMAIN log : i < j => log[i] < log[j]
            /\ ToSet(log) \subseteq read
            /\ \A n \in read \ ToSet(log) : Len(log) = MaxLines /\ n < log[1]

(* "Testing..." is on the button only while some test is on its way, however
   clicks, ticks, disconnects and the results of two tests interleave. *)
TestingIsTrue == label = "Testing" => \E w \in Worker : test[w] # "none"

(* An engine never stays blocked on its output: a full pipe is read, also
   while the engine is being stopped, and after another has been started. *)
OutputFlows ==
    \A r \in Run : Len(pipe[r]) = PipeCapacity ~> Len(pipe[r]) < PipeCapacity

(* The reader of an engine that is gone comes to its end. *)
ReadersEnd == \A r \in Run : r \in reading /\ r \notin writing ~> r \notin reading

(* Every test is reported, and the button then says "Test" again: whether it
   succeeded or raised, and whichever tunnel is up by then. *)
TestsAreReported ==
    /\ \A w \in Worker : test[w] # "none" ~> test[w] = "none"
    /\ label = "Testing" ~> label = "Test"
=============================================================================
