---------------------------- MODULE ThreadsProofs ----------------------------
(***************************************************************************)
(* Proofs about the threads beside the main thread, for any number of      *)
(* runs, workers and lines: a log is the tail of what its engine wrote,    *)
(* and the Test button says what is so.                                    *)
(***************************************************************************)
EXTENDS Threads, TLAPS

(* The lines a log may have when n were read. *)
Unblank(n) == {k \in 1 .. n : Shown(k)}

(* LogIsTail of one run, whoever owns it. *)
IsLatest(log, n) ==
    /\ \A i, j \in DOMAIN log : i < j => log[i] < log[j]
    /\ \A i \in DOMAIN log : log[i] \in Unblank(n)
    /\ \A k \in Unblank(n) :
           \/ \E i \in DOMAIN log : log[i] = k
           \/ Len(log) = MaxLines /\ k < log[1]

Logs == \A r \in Run : IsLatest(lines[r], got[r])

(* What is in a pipe follows what was read from it. *)
Pipes ==
    \A r \in Run :
        /\ Written(r) <= MaxOutput
        /\ \A i \in 1 .. Len(pipe[r]) : pipe[r][i] = got[r] + i

(* A result waits once, and for a worker that has reported. *)
Queue ==
    /\ \A i \in 1 .. Len(idle) : test[idle[i]] = "reported"
    /\ \A i, j \in 1 .. Len(idle) : idle[i] = idle[j] => i = j

TunnelTypes ==
    /\ tunnel \in Run \cup {NoRun}
    /\ face \in {"off", "opening", "open", "closing", "failed"}
    /\ answered \in BOOLEAN /\ alive \in BOOLEAN

OutputTypes ==
    /\ pipe \in [Run -> Seq(Line)] /\ \A r \in Run : Len(pipe[r]) <= PipeCapacity
    /\ lines \in [Run -> Seq(Line)] /\ \A r \in Run : Len(lines[r]) <= MaxLines
    /\ got \in [Run -> 0 .. MaxOutput]
    /\ writing \cup reading \subseteq Run

ButtonTypes ==
    /\ sensitive \in BOOLEAN
    /\ label \in {"Test", "Testing"}
    /\ test \in [Worker -> {"none", "running", "reported"}]
    /\ idle \in Seq(Worker)

OutputInv == OutputTypes /\ Pipes /\ Logs
ButtonInv == ButtonTypes /\ Queue /\ TestingIsTrue

ThInv == TunnelTypes /\ OutputInv /\ ButtonInv

-----------------------------------------------------------------------------
(* The log *)

LEMMA Lists ==
  ASSUME NEW S, NEW s \in Seq(S), NEW x \in S
  PROVE  /\ Len(s) \in Nat /\ DOMAIN s = 1 .. Len(s)
         /\ Append(s, x) \in Seq(S) /\ Len(Append(s, x)) = Len(s) + 1
         /\ \A i \in 1 .. Len(s) : Append(s, x)[i] = s[i] /\ s[i] \in S
         /\ Append(s, x)[Len(s) + 1] = x
         /\ DOMAIN Append(s, x) = 1 .. Len(s) + 1
OBVIOUS

LEMMA Tails ==
  ASSUME NEW S, NEW s \in Seq(S), s # << >>
  PROVE  /\ Len(s) \in Nat /\ Len(s) >= 1
         /\ Head(s) = s[1] /\ Head(s) \in S
         /\ Tail(s) \in Seq(S) /\ Len(Tail(s)) = Len(s) - 1
         /\ \A i \in 1 .. Len(s) - 1 : Tail(s)[i] = s[i + 1]
OBVIOUS

(* A line that is not shown leaves the log as it is. *)
LEMMA LatestSkips ==
  ASSUME NEW log, NEW n \in Nat, IsLatest(log, n), ~Shown(n + 1)
  PROVE  IsLatest(log, n + 1)
<1>1. Unblank(n + 1) = Unblank(n)
  BY DEF Unblank
<1> QED
  BY <1>1 DEF IsLatest

(* The next line goes to the end, and the first makes room for it. *)
LEMMA LatestGrows ==
  ASSUME NEW log \in Seq(Line), NEW n \in Nat, n + 1 \in Line,
         Len(log) <= MaxLines, IsLatest(log, n), Shown(n + 1)
  PROVE  /\ Push(log, n + 1) \in Seq(Line) /\ Len(Push(log, n + 1)) <= MaxLines
         /\ IsLatest(Push(log, n + 1), n + 1)
<1> DEFINE m == n + 1
           new == Push(log, m)
<1>1. MaxLines \in Nat /\ MaxLines >= 1
  BY ThreadsAssumption
<1>2. /\ Len(log) \in Nat /\ DOMAIN log = 1 .. Len(log)
      /\ \A i \in 1 .. Len(log) : log[i] \in Nat /\ log[i] <= n /\ log[i] \in Unblank(n)
  BY Lists DEF IsLatest, Unblank
<1>3. Len(log) \in Nat
  BY <1>2
<1>4. \A i, j \in 1 .. Len(log) : i < j => log[i] < log[j]
  BY <1>2 DEF IsLatest
<1>5. \A k \in Unblank(n) :
          (\E i \in 1 .. Len(log) : log[i] = k) \/ (Len(log) = MaxLines /\ k < log[1])
  BY <1>2 DEF IsLatest
<1>6. /\ \A k \in Unblank(m) : k = m \/ k \in Unblank(n)
      /\ \A k \in Unblank(n) : k \in Unblank(m) /\ k \in Nat /\ k < m
      /\ m \in Unblank(m) /\ m \in Nat
  BY DEF Unblank
<1>7. CASE Len(log) < MaxLines
  <2>1. new = Append(log, m)
    BY <1>7 DEF Push
  <2>2. /\ new \in Seq(Line) /\ Len(new) = Len(log) + 1 /\ DOMAIN new = 1 .. Len(log) + 1
        /\ \A i \in 1 .. Len(log) : new[i] = log[i]
        /\ new[Len(log) + 1] = m
    BY <2>1, Lists
  <2> HIDE DEF new
  <2>3. \A i, j \in DOMAIN new : i < j => new[i] < new[j]
    <3> SUFFICES ASSUME NEW i \in 1 .. Len(log) + 1, NEW j \in 1 .. Len(log) + 1, i < j
                 PROVE  new[i] < new[j]
      BY <2>2
    <3>1. i \in 1 .. Len(log) /\ new[i] = log[i] /\ log[i] < m
      BY <1>2, <2>2
    <3>2. CASE j = Len(log) + 1
      BY <2>2, <3>1, <3>2
    <3>3. CASE j \in 1 .. Len(log)
      BY <1>4, <2>2, <3>1, <3>3
    <3> QED
      BY <1>2, <3>2, <3>3
  <2>4. \A i \in DOMAIN new : new[i] \in Unblank(m)
    <3> SUFFICES ASSUME NEW i \in 1 .. Len(log) + 1 PROVE new[i] \in Unblank(m)
      BY <2>2
    <3>1. CASE i = Len(log) + 1
      BY <1>6, <2>2, <3>1
    <3>2. CASE i \in 1 .. Len(log)
      BY <1>2, <1>6, <2>2, <3>2
    <3> QED
      BY <1>2, <3>1, <3>2
  <2>5. ASSUME NEW k \in Unblank(m)
        PROVE  (\E i \in DOMAIN new : new[i] = k) \/ (Len(new) = MaxLines /\ k < new[1])
    <3>1. CASE k = m
      <4>1. Len(log) + 1 \in DOMAIN new /\ new[Len(log) + 1] = k
        BY <1>2, <2>2, <3>1
      <4> QED
        BY <4>1
    <3>2. CASE k \in Unblank(n)
      <4>1. PICK i \in 1 .. Len(log) : log[i] = k
        BY <1>1, <1>7, <1>5, <1>3, <3>2
      <4>2. i \in DOMAIN new /\ new[i] = k
        BY <1>2, <2>2, <4>1
      <4> QED
        BY <4>2
    <3> QED
      BY <1>6, <3>1, <3>2
  <2>6. Len(new) <= MaxLines
    BY <1>1, <1>7, <1>3, <2>2
  <2>7. IsLatest(new, m)
    BY <2>3, <2>4, <2>5 DEF IsLatest
  <2> QED
    BY <2>2, <2>6, <2>7 DEF new
<1>8. CASE ~(Len(log) < MaxLines)
  <2>0. Len(log) = MaxLines
    BY <1>1, <1>8, <1>3
  <2>1. Len(log) = MaxLines /\ log # << >>
    BY <1>1, <2>0
  <2>2. new = Append(Tail(log), m)
    BY <1>8 DEF Push
  <2>3. /\ Tail(log) \in Seq(Line) /\ Len(Tail(log)) = Len(log) - 1
        /\ \A i \in 1 .. Len(log) - 1 : Tail(log)[i] = log[i + 1]
        /\ Len(log) >= 1
    BY <2>1, Tails
  <2>4. /\ new \in Seq(Line) /\ Len(new) = Len(log) /\ DOMAIN new = 1 .. Len(log)
        /\ \A i \in 1 .. Len(log) - 1 : new[i] = log[i + 1]
        /\ new[Len(log)] = m
    <3>1. /\ Append(Tail(log), m) \in Seq(Line)
          /\ Len(Append(Tail(log), m)) = Len(Tail(log)) + 1
          /\ \A i \in 1 .. Len(Tail(log)) : Append(Tail(log), m)[i] = Tail(log)[i]
          /\ Append(Tail(log), m)[Len(Tail(log)) + 1] = m
          /\ DOMAIN Append(Tail(log), m) = 1 .. Len(Tail(log)) + 1
      BY <2>3, Lists
    <3> HIDE DEF new, m
    <3> QED
      BY <1>2, <2>2, <2>3, <3>1
  <2> HIDE DEF new
  <2>5. \A i, j \in DOMAIN new : i < j => new[i] < new[j]
    <3> SUFFICES ASSUME NEW i \in 1 .. Len(log), NEW j \in 1 .. Len(log), i < j
                 PROVE  new[i] < new[j]
      BY <2>4
    <3>1. i \in 1 .. Len(log) - 1 /\ i + 1 \in 1 .. Len(log) /\ new[i] = log[i + 1] /\ log[i + 1] < m
      BY <1>2, <2>4
    <3>2. CASE j = Len(log)
      BY <2>4, <3>1, <3>2
    <3>3. CASE j \in 1 .. Len(log) - 1
      <4>1. j + 1 \in 1 .. Len(log) /\ i + 1 < j + 1 /\ new[j] = log[j + 1]
        BY <1>2, <2>4, <3>3
      <4> QED
        BY <1>4, <3>1, <4>1
    <3>4. j = Len(log) \/ j \in 1 .. Len(log) - 1
      BY <1>3
    <3> QED
      BY <3>2, <3>3, <3>4
  <2>6. \A i \in DOMAIN new : new[i] \in Unblank(m)
    <3> SUFFICES ASSUME NEW i \in 1 .. Len(log) PROVE new[i] \in Unblank(m)
      BY <2>4
    <3>1. CASE i = Len(log)
      BY <1>6, <2>4, <3>1
    <3>2. CASE i \in 1 .. Len(log) - 1
      <4>1. i + 1 \in 1 .. Len(log) /\ new[i] = log[i + 1]
        BY <1>2, <2>4, <3>2
      <4> QED
        BY <1>2, <1>6, <4>1
    <3>3. i = Len(log) \/ i \in 1 .. Len(log) - 1
      BY <1>3
    <3> QED
      BY <3>1, <3>2, <3>3
  <2>7. log[1] < new[1]
    <3>1. CASE Len(log) = 1
      BY <1>2, <1>6, <2>3, <2>4, <3>1
    <3>2. CASE Len(log) > 1
      <4>1. 1 \in 1 .. Len(log) /\ 2 \in 1 .. Len(log) /\ new[1] = log[2]
        BY <1>2, <2>4, <3>2
      <4> QED
        BY <1>4, <4>1
    <3> QED
      BY <1>2, <2>3, <3>1, <3>2
  <2>8. new[1] \in Nat /\ log[1] \in Nat
    <3>1. 1 \in DOMAIN new /\ 1 \in 1 .. Len(log)
      BY <1>2, <2>3, <2>4
    <3> QED
      BY <1>2, <2>6, <3>1 DEF Unblank
  <2>9. ASSUME NEW k \in Unblank(m)
        PROVE  (\E i \in DOMAIN new : new[i] = k) \/ (Len(new) = MaxLines /\ k < new[1])
    <3>1. CASE k = m
      <4>1. Len(log) \in DOMAIN new /\ new[Len(log)] = k
        BY <1>2, <2>3, <2>4, <3>1
      <4> QED
        BY <4>1
    <3>2. CASE k \in Unblank(n) /\ k < log[1]
      <4>1. k \in Nat
        BY <1>6, <3>2
      <4>2. k < new[1]
        BY <2>7, <2>8, <3>2, <4>1
      <4> QED
        BY <2>1, <2>4, <4>2
    <3>3. ASSUME k \in Unblank(n), NEW i \in DOMAIN log, log[i] = k
          PROVE  (\E l \in DOMAIN new : new[l] = k) \/ (Len(new) = MaxLines /\ k < new[1])
      <4>1. CASE i = 1
        BY <2>1, <2>4, <2>7, <3>3, <4>1
      <4>2. CASE i # 1
        <5>1. i - 1 \in 1 .. Len(log) - 1 /\ (i - 1) + 1 = i
          BY <1>2, <4>2
        <5>2. i - 1 \in DOMAIN new /\ new[i - 1] = k
          BY <1>2, <2>4, <3>3, <5>1
        <5> QED
          BY <5>2
      <4> QED
        BY <4>1, <4>2
    <3> QED
      BY <1>2, <1>6, <1>5, <3>1, <3>2, <3>3
  <2> QED
    BY <1>2, <2>1, <2>4, <2>5, <2>6, <2>9 DEF IsLatest, new
<1> QED
  BY <1>7, <1>8

-----------------------------------------------------------------------------
(* The output of the engines *)

LEMMA NoneIsLatest == IsLatest(<< >>, 0)
BY DEF IsLatest, Unblank

LEMMA InitOutput == Init => OutputInv
<1> SUFFICES ASSUME Init PROVE OutputInv
  OBVIOUS
<1>1. OutputTypes
  BY ThreadsAssumption DEF Init, OutputTypes
<1>2. \A r \in Run : pipe[r] = << >> /\ lines[r] = << >> /\ got[r] = 0
  BY DEF Init
<1>3. Pipes
  <2>1. Len(<< >>) = 0 /\ 0 + 0 <= MaxOutput /\ 1 .. 0 = {}
    BY ThreadsAssumption
  <2> QED
    BY <1>2, <2>1 DEF Pipes, Written
<1>4. Logs
  BY <1>2, NoneIsLatest DEF Logs
<1> QED
  BY <1>1, <1>3, <1>4 DEF OutputInv

LEMMA SameOutput ==
  ASSUME OutputInv, UNCHANGED <<pipe, lines, got>>, writing' \cup reading' \subseteq Run
  PROVE  OutputInv'
BY DEF OutputInv, OutputTypes, Pipes, Written, Logs, IsLatest, Unblank

LEMMA StartOutput ==
  ASSUME OutputInv, NEW r \in Run, Start(r)
  PROVE  OutputInv'
<1>1. /\ pipe' = [pipe EXCEPT ![r] = << >>] /\ lines' = [lines EXCEPT ![r] = << >>]
      /\ got' = [got EXCEPT ![r] = 0]
      /\ writing' = writing \cup {r} /\ reading' = reading \cup {r}
  BY DEF Start
<1>2. /\ pipe'[r] = << >> /\ lines'[r] = << >> /\ got'[r] = 0
      /\ \A q \in Run \ {r} : pipe'[q] = pipe[q] /\ lines'[q] = lines[q] /\ got'[q] = got[q]
  BY <1>1 DEF OutputInv, OutputTypes
<1>3. OutputTypes'
  <2>1. /\ pipe' \in [Run -> Seq(Line)] /\ lines' \in [Run -> Seq(Line)]
        /\ got' \in [Run -> 0 .. MaxOutput] /\ writing' \cup reading' \subseteq Run
    BY <1>1, ThreadsAssumption DEF OutputInv, OutputTypes
  <2>2. \A q \in Run : Len(pipe'[q]) <= PipeCapacity /\ Len(lines'[q]) <= MaxLines
    <3>1. Len(<< >>) <= PipeCapacity /\ Len(<< >>) <= MaxLines
      BY ThreadsAssumption
    <3> QED
      BY <1>2, <3>1 DEF OutputInv, OutputTypes
  <2> QED
    BY <2>1, <2>2 DEF OutputTypes
<1>4. Pipes'
  BY <1>2, ThreadsAssumption DEF OutputInv, Pipes, Written
<1>5. Logs'
  <2>1. IsLatest(lines[r], got[r])'
    BY <1>2, NoneIsLatest DEF IsLatest, Unblank
  <2>2. ASSUME NEW q \in Run \ {r} PROVE IsLatest(lines[q], got[q])'
    BY <1>2 DEF OutputInv, Logs, IsLatest, Unblank
  <2> QED
    BY <2>1, <2>2 DEF Logs
<1> QED
  BY <1>3, <1>4, <1>5 DEF OutputInv

LEMMA WriteOutput ==
  ASSUME OutputInv, NEW r \in Run, Write(r)
  PROVE  OutputInv'
<1> DEFINE n == Written(r) + 1
<1>1. /\ pipe' = [pipe EXCEPT ![r] = Append(@, n)]
      /\ Len(pipe[r]) < PipeCapacity /\ Written(r) < MaxOutput
      /\ UNCHANGED <<writing, reading, lines, got>>
  BY DEF Write
<1>2. /\ pipe \in [Run -> Seq(Line)] /\ pipe[r] \in Seq(Line) /\ Len(pipe[r]) \in Nat
      /\ got[r] \in 0 .. MaxOutput /\ Written(r) = got[r] + Len(pipe[r])
  BY DEF OutputInv, OutputTypes, Written
<1>3. n \in Line /\ n = got[r] + (Len(pipe[r]) + 1) /\ n <= MaxOutput
  <2>1. MaxOutput \in Nat /\ Written(r) \in Nat
    BY <1>2, ThreadsAssumption
  <2>2. n <= MaxOutput /\ n \in Nat /\ n >= 1
    BY <1>1, <2>1
  <2>3. n = got[r] + (Len(pipe[r]) + 1)
    BY <1>2, <2>1
  <2> QED
    BY <2>1, <2>2, <2>3 DEF Line
<1> HIDE DEF n
<1>4. /\ pipe'[r] = Append(pipe[r], n)
      /\ \A q \in Run \ {r} : pipe'[q] = pipe[q]
  BY <1>1, <1>2
<1>5. /\ Append(pipe[r], n) \in Seq(Line) /\ Len(Append(pipe[r], n)) = Len(pipe[r]) + 1
      /\ \A i \in 1 .. Len(pipe[r]) : Append(pipe[r], n)[i] = pipe[r][i]
      /\ Append(pipe[r], n)[Len(pipe[r]) + 1] = n
  BY <1>2, <1>3, Lists
<1>6. OutputTypes'
  <2>1. pipe' \in [Run -> Seq(Line)]
    BY <1>1, <1>2, <1>5
  <2>2. \A q \in Run : Len(pipe'[q]) <= PipeCapacity
    <3>1. PipeCapacity \in Nat
      BY ThreadsAssumption
    <3>2. Len(pipe'[r]) <= PipeCapacity
      BY <1>1, <1>2, <1>4, <1>5, <3>1
    <3> QED
      BY <1>4, <3>2 DEF OutputInv, OutputTypes
  <2> QED
    BY <1>1, <2>1, <2>2 DEF OutputInv, OutputTypes
<1>7. Pipes'
  <2>1. ASSUME NEW q \in Run \ {r}
        PROVE  /\ Written(q)' <= MaxOutput
               /\ \A i \in 1 .. Len(pipe'[q]) : pipe'[q][i] = got'[q] + i
    BY <1>1, <1>4 DEF OutputInv, Pipes, Written
  <2>2. Written(r)' = n
    BY <1>1, <1>2, <1>3, <1>4, <1>5 DEF Written
  <2>3. ASSUME NEW i \in 1 .. Len(pipe'[r]) PROVE pipe'[r][i] = got'[r] + i
    <3>1. i = Len(pipe[r]) + 1 \/ i \in 1 .. Len(pipe[r])
      BY <1>2, <1>4, <1>5
    <3>2. \A j \in 1 .. Len(pipe[r]) : pipe[r][j] = got[r] + j
      BY DEF OutputInv, Pipes
    <3> QED
      BY <1>1, <1>3, <1>4, <1>5, <3>1, <3>2
  <2> QED
    BY <1>3, <2>1, <2>2, <2>3 DEF Pipes
<1>8. Logs'
  BY <1>1 DEF OutputInv, Logs, IsLatest, Unblank
<1> QED
  BY <1>6, <1>7, <1>8 DEF OutputInv

LEMMA DrainOutput ==
  ASSUME OutputInv, NEW r \in Run, Drain(r)
  PROVE  OutputInv'
<1> DEFINE n == got[r] + 1
<1>1. /\ pipe[r] # << >>
      /\ pipe' = [pipe EXCEPT ![r] = Tail(@)]
      /\ got' = [got EXCEPT ![r] = n]
      /\ UNCHANGED <<writing, reading>>
      /\ lines' = IF Shown(Head(pipe[r])) THEN [lines EXCEPT ![r] = Push(@, Head(pipe[r]))]
                                          ELSE lines
  BY DEF Drain, ReadLine
<1>2. /\ pipe \in [Run -> Seq(Line)] /\ pipe[r] \in Seq(Line)
      /\ lines \in [Run -> Seq(Line)] /\ lines[r] \in Seq(Line) /\ Len(lines[r]) <= MaxLines
      /\ got \in [Run -> 0 .. MaxOutput] /\ got[r] \in Nat
      /\ Len(pipe[r]) <= PipeCapacity
  BY DEF OutputInv, OutputTypes
<1>3. /\ Len(pipe[r]) \in Nat /\ Len(pipe[r]) >= 1
      /\ Head(pipe[r]) = pipe[r][1]
      /\ Tail(pipe[r]) \in Seq(Line) /\ Len(Tail(pipe[r])) = Len(pipe[r]) - 1
      /\ \A i \in 1 .. Len(pipe[r]) - 1 : Tail(pipe[r])[i] = pipe[r][i + 1]
  BY <1>1, <1>2, Tails
<1>4. /\ Written(r) <= MaxOutput /\ Written(r) = got[r] + Len(pipe[r])
      /\ \A i \in 1 .. Len(pipe[r]) : pipe[r][i] = got[r] + i
  BY DEF OutputInv, Pipes, Written
<1>5. Head(pipe[r]) = n /\ n \in Line /\ n \in 0 .. MaxOutput
  BY <1>2, <1>3, <1>4, ThreadsAssumption DEF Line
<1> HIDE DEF n
<1>6. /\ pipe'[r] = Tail(pipe[r]) /\ got'[r] = n
      /\ \A q \in Run \ {r} : pipe'[q] = pipe[q] /\ got'[q] = got[q]
  BY <1>1, <1>2
<1>7. Pipes'
  <2>1. ASSUME NEW q \in Run \ {r}
        PROVE  /\ Written(q)' <= MaxOutput
               /\ \A i \in 1 .. Len(pipe'[q]) : pipe'[q][i] = got'[q] + i
    BY <1>6 DEF OutputInv, Pipes, Written
  <2>2. Written(r)' = Written(r)
    BY <1>2, <1>3, <1>4, <1>6 DEF Written, n
  <2>3. ASSUME NEW i \in 1 .. Len(pipe'[r]) PROVE pipe'[r][i] = got'[r] + i
    <3>1. i \in 1 .. Len(pipe[r]) - 1 /\ i + 1 \in 1 .. Len(pipe[r])
      BY <1>3, <1>6
    <3>2. pipe'[r][i] = got[r] + (i + 1)
      BY <1>3, <1>4, <1>6, <3>1
    <3> QED
      BY <1>2, <1>6, <3>1, <3>2 DEF n
  <2> QED
    BY <1>4, <2>1, <2>2, <2>3 DEF Pipes
<1>8. /\ lines' \in [Run -> Seq(Line)]
      /\ \A q \in Run : Len(lines'[q]) <= MaxLines
      /\ \A q \in Run \ {r} : lines'[q] = lines[q]
      /\ IsLatest(lines'[r], n)
  <2>1. IsLatest(lines[r], got[r])
    BY DEF OutputInv, Logs
  <2>2. CASE Shown(n)
    <3>1. /\ Push(lines[r], n) \in Seq(Line) /\ Len(Push(lines[r], n)) <= MaxLines
          /\ IsLatest(Push(lines[r], n), n)
      BY <1>2, <1>5, <2>1, <2>2, LatestGrows DEF n
    <3>2. lines' = [lines EXCEPT ![r] = Push(lines[r], n)]
      BY <1>1, <1>5, <2>2
    <3>3. lines'[r] = Push(lines[r], n) /\ \A q \in Run \ {r} : lines'[q] = lines[q]
      BY <1>2, <3>2
    <3>4. lines' \in [Run -> Seq(Line)]
      BY <1>2, <3>1, <3>2
    <3>5. \A q \in Run : Len(lines'[q]) <= MaxLines
      BY <3>1, <3>3 DEF OutputInv, OutputTypes
    <3> QED
      BY <3>1, <3>3, <3>4, <3>5
  <2>3. CASE ~Shown(n)
    <3>1. lines' = lines
      BY <1>1, <1>5, <2>3
    <3>2. IsLatest(lines[r], n)
      BY <1>2, <2>1, <2>3, LatestSkips DEF n
    <3> QED
      BY <3>1, <3>2 DEF OutputInv, OutputTypes
  <2> QED
    BY <2>2, <2>3
<1>9. OutputTypes'
  <2>1. pipe' \in [Run -> Seq(Line)] /\ got' \in [Run -> 0 .. MaxOutput]
    BY <1>1, <1>2, <1>3, <1>5
  <2>2. \A q \in Run : Len(pipe'[q]) <= PipeCapacity
    BY <1>2, <1>3, <1>6, ThreadsAssumption DEF OutputInv, OutputTypes
  <2>3. writing' \cup reading' \subseteq Run
    BY <1>1 DEF OutputInv, OutputTypes
  <2> QED
    BY <1>8, <2>1, <2>2, <2>3 DEF OutputTypes
<1>10. Logs'
  <2>1. ASSUME NEW q \in Run \ {r} PROVE IsLatest(lines[q], got[q])'
    <3>1. IsLatest(lines[q], got[q]) /\ lines'[q] = lines[q] /\ got'[q] = got[q]
      BY <1>6, <1>8 DEF OutputInv, Logs
    <3> QED
      BY <3>1 DEF IsLatest, Unblank
  <2>2. IsLatest(lines[r], got[r])'
    BY <1>6, <1>8 DEF IsLatest, Unblank
  <2> QED
    BY <2>1, <2>2 DEF Logs
<1> QED
  BY <1>7, <1>9, <1>10 DEF OutputInv

LEMMA NextOutput == TunnelTypes /\ OutputInv /\ [Next]_thvars => OutputInv'
<1> SUFFICES ASSUME TunnelTypes, OutputInv, [Next]_thvars PROVE OutputInv'
  OBVIOUS
<1>1. writing \subseteq Run /\ reading \subseteq Run
  BY DEF OutputInv, OutputTypes
<1>2. CASE UNCHANGED output
  BY <1>1, <1>2, SameOutput DEF output
<1>3. ASSUME NEW r \in Run, Start(r) PROVE OutputInv'
  BY <1>3, StartOutput
<1>4. ASSUME NEW r \in Run, Write(r) PROVE OutputInv'
  BY <1>4, WriteOutput
<1>5. ASSUME NEW r \in Run, Exit(r) PROVE OutputInv'
  BY <1>1, <1>5, SameOutput DEF Exit
<1>6. ASSUME NEW r \in Run, Drain(r) PROVE OutputInv'
  BY <1>6, DrainOutput
<1>7. ASSUME NEW r \in Run, EndOfOutput(r) PROVE OutputInv'
  BY <1>1, <1>7, SameOutput DEF EndOfOutput
<1>8. Update \/ BeginStop \/ Handshake \/ TestDone => UNCHANGED output
  BY DEF Update, BeginStop, Handshake, TestDone
<1>9. ASSUME NEW w \in Worker, Click(w) \/ Report(w) PROVE UNCHANGED output
  BY <1>9 DEF Click, Report
<1>10. UNCHANGED thvars => UNCHANGED output
  BY DEF thvars
<1> QED
  BY <1>2, <1>3, <1>4, <1>5, <1>6, <1>7, <1>8, <1>9, <1>10 DEF Next

-----------------------------------------------------------------------------
(* The tunnel *)

LEMMA NextTunnel == TunnelTypes /\ [Next]_thvars => TunnelTypes'
<1> SUFFICES ASSUME TunnelTypes, [Next]_thvars PROVE TunnelTypes'
  OBVIOUS
<1>1. CASE UNCHANGED tvars
  BY <1>1 DEF tvars, TunnelTypes
<1>2. ASSUME NEW r \in Run, Start(r) PROVE TunnelTypes'
  BY <1>2 DEF Start, Open, TunnelTypes
<1>3. ASSUME NEW r \in Run, Exit(r) PROVE TunnelTypes'
  BY <1>1, <1>3 DEF Exit, Break, TunnelTypes
<1>4. CASE Update \/ BeginStop
  BY <1>4 DEF Update, BeginStop, Show, Forget, Closed, Close, TunnelTypes
<1>5. CASE Handshake
  BY <1>5 DEF Handshake, Answer, TunnelTypes
<1>6. ASSUME NEW r \in Run, Write(r) \/ Drain(r) \/ EndOfOutput(r) PROVE UNCHANGED tvars
  BY <1>6 DEF Write, Drain, ReadLine, EndOfOutput
<1>7. ASSUME NEW w \in Worker, Click(w) \/ Report(w) PROVE UNCHANGED tvars
  BY <1>7 DEF Click, Report
<1>8. TestDone \/ UNCHANGED thvars => UNCHANGED tvars
  BY DEF TestDone, thvars
<1> QED
  BY <1>1, <1>2, <1>3, <1>4, <1>5, <1>6, <1>7, <1>8 DEF Next

-----------------------------------------------------------------------------
(* The Test button *)

LEMMA SameTests ==
  ASSUME ButtonInv, UNCHANGED <<label, test, idle>>, sensitive' \in BOOLEAN
  PROVE  ButtonInv'
BY DEF ButtonInv, ButtonTypes, Queue, TestingIsTrue

LEMMA ClickButton ==
  ASSUME ButtonInv, NEW w \in Worker, Click(w)
  PROVE  ButtonInv'
<1>1. /\ test[w] = "none" /\ test' = [test EXCEPT ![w] = "running"]
      /\ sensitive' = FALSE /\ label' = "Testing" /\ idle' = idle
  BY DEF Click
<1>2. /\ test' \in [Worker -> {"none", "running", "reported"}] /\ test'[w] = "running"
      /\ \A v \in Worker : v # w => test'[v] = test[v]
  BY <1>1 DEF ButtonInv, ButtonTypes
<1>3. \A i \in 1 .. Len(idle) : test'[idle[i]] = "reported"
  <2> SUFFICES ASSUME NEW i \in 1 .. Len(idle) PROVE test'[idle[i]] = "reported"
    OBVIOUS
  <2>1. idle[i] \in Worker /\ test[idle[i]] = "reported"
    BY DEF ButtonInv, ButtonTypes, Queue
  <2> QED
    BY <1>1, <1>2, <2>1
<1>4. TestingIsTrue'
  BY <1>2 DEF TestingIsTrue
<1>5. Queue'
  BY <1>1, <1>3 DEF ButtonInv, Queue
<1> QED
  BY <1>1, <1>2, <1>4, <1>5 DEF ButtonInv, ButtonTypes

LEMMA ReportButton ==
  ASSUME ButtonInv, NEW w \in Worker, Report(w)
  PROVE  ButtonInv'
<1>1. /\ test[w] = "running" /\ test' = [test EXCEPT ![w] = "reported"]
      /\ idle' = Append(idle, w) /\ UNCHANGED <<sensitive, label>>
  BY DEF Report, button
<1>2. /\ test' \in [Worker -> {"none", "running", "reported"}] /\ test'[w] = "reported"
      /\ \A v \in Worker : v # w => test'[v] = test[v]
  BY <1>1 DEF ButtonInv, ButtonTypes
<1>3. idle \in Seq(Worker)
  BY DEF ButtonInv, ButtonTypes
<1>4. /\ Len(idle) \in Nat /\ idle' \in Seq(Worker) /\ Len(idle') = Len(idle) + 1
      /\ \A i \in 1 .. Len(idle) : idle'[i] = idle[i] /\ idle[i] \in Worker
      /\ idle'[Len(idle) + 1] = w
  BY <1>1, <1>3, Lists
<1>5. \A i \in 1 .. Len(idle) : test[idle[i]] = "reported" /\ idle[i] # w
  BY <1>1 DEF ButtonInv, Queue
<1>6. \A i \in 1 .. Len(idle') : i \in 1 .. Len(idle) \/ i = Len(idle) + 1
  BY <1>4
<1>7. Queue'
  <2>1. \A i \in 1 .. Len(idle') : test'[idle'[i]] = "reported"
    BY <1>2, <1>4, <1>5, <1>6
  <2>2. \A i, j \in 1 .. Len(idle') : idle'[i] = idle'[j] => i = j
    BY <1>4, <1>5, <1>6 DEF ButtonInv, Queue
  <2> QED
    BY <2>1, <2>2 DEF Queue
<1>8. TestingIsTrue'
  BY <1>2 DEF TestingIsTrue
<1> QED
  BY <1>1, <1>2, <1>4, <1>7, <1>8 DEF ButtonInv, ButtonTypes

LEMMA TestDoneButton ==
  ASSUME ButtonInv, TestDone
  PROVE  ButtonInv'
<1> DEFINE w == Head(idle)
<1>1. /\ idle # << >> /\ idle' = Tail(idle) /\ test' = [test EXCEPT ![w] = "none"]
      /\ sensitive' = TRUE /\ label' = "Test"
  BY DEF TestDone
<1>2. idle \in Seq(Worker)
  BY DEF ButtonInv, ButtonTypes
<1>3. /\ Len(idle) \in Nat /\ Len(idle) >= 1 /\ w = idle[1] /\ w \in Worker
      /\ idle' \in Seq(Worker) /\ Len(idle') = Len(idle) - 1
      /\ \A i \in 1 .. Len(idle) - 1 : idle'[i] = idle[i + 1]
  BY <1>1, <1>2, Tails
<1> HIDE DEF w
<1>4. /\ test' \in [Worker -> {"none", "running", "reported"}]
      /\ \A v \in Worker : v # w => test'[v] = test[v]
  BY <1>1 DEF ButtonInv, ButtonTypes
<1>5. \A i \in 1 .. Len(idle') :
          /\ i \in 1 .. Len(idle) - 1 /\ i + 1 \in 1 .. Len(idle) /\ 1 \in 1 .. Len(idle)
          /\ idle'[i] = idle[i + 1] /\ i + 1 # 1
  BY <1>3
<1>6. \A i \in 1 .. Len(idle) : idle[i] \in Worker
  BY <1>2
<1>7. Queue'
  <2>1. ASSUME NEW i \in 1 .. Len(idle') PROVE test'[idle'[i]] = "reported"
    <3>1. idle[i + 1] # w /\ test[idle[i + 1]] = "reported"
      BY <1>3, <1>5 DEF ButtonInv, Queue
    <3> QED
      BY <1>4, <1>5, <1>6, <3>1
  <2>2. ASSUME NEW i \in 1 .. Len(idle'), NEW j \in 1 .. Len(idle'), idle'[i] = idle'[j]
        PROVE  i = j
    <3>1. i + 1 = j + 1
      BY <1>5, <2>2 DEF ButtonInv, Queue
    <3> QED
      BY <3>1
  <2> QED
    BY <2>1, <2>2 DEF Queue
<1> QED
  BY <1>1, <1>3, <1>4, <1>7 DEF ButtonInv, ButtonTypes, TestingIsTrue

LEMMA NextButton == ButtonInv /\ [Next]_thvars => ButtonInv'
<1> SUFFICES ASSUME ButtonInv, [Next]_thvars PROVE ButtonInv'
  OBVIOUS
<1>1. CASE UNCHANGED tests
  BY <1>1, SameTests DEF tests, button, ButtonInv, ButtonTypes
<1>2. ASSUME UpdateButton, UNCHANGED <<test, idle>> PROVE ButtonInv'
  <2>1. sensitive' \in BOOLEAN /\ label' = label
    BY <1>2, Zenon DEF UpdateButton
  <2> QED
    BY <1>2, <2>1, SameTests
<1>3. ASSUME NEW r \in Run, Start(r) PROVE ButtonInv'
  BY <1>2, <1>3 DEF Start
<1>4. CASE Update
  BY <1>2, <1>4 DEF Update
<1>5. ASSUME NEW r \in Run, Write(r) \/ Exit(r) \/ Drain(r) \/ EndOfOutput(r)
      PROVE  UNCHANGED tests
  BY <1>5 DEF Write, Exit, Drain, ReadLine, EndOfOutput
<1>6. BeginStop \/ Handshake \/ UNCHANGED thvars => UNCHANGED tests
  BY DEF BeginStop, Handshake, thvars
<1>7. ASSUME NEW w \in Worker, Click(w) PROVE ButtonInv'
  BY <1>7, ClickButton
<1>8. ASSUME NEW w \in Worker, Report(w) PROVE ButtonInv'
  BY <1>8, ReportButton
<1> QED
  BY <1>1, <1>3, <1>4, <1>5, <1>6, <1>7, <1>8, TestDoneButton DEF Next

-----------------------------------------------------------------------------
LEMMA InitThInv == Init => ThInv
<1> SUFFICES ASSUME Init PROVE ThInv
  OBVIOUS
<1>1. TunnelTypes
  BY DEF Init, TInit, TunnelTypes
<1>2. ButtonInv
  <2>1. ButtonTypes /\ TestingIsTrue
    BY DEF Init, ButtonTypes, TestingIsTrue
  <2>2. Queue
    BY DEF Init, Queue
  <2> QED
    BY <2>1, <2>2 DEF ButtonInv
<1> QED
  BY <1>1, <1>2, InitOutput DEF ThInv

THEOREM ThInvHolds == Spec => []ThInv
<1>1. ThInv /\ [Next]_thvars => ThInv'
  BY NextTunnel, NextOutput, NextButton DEF ThInv
<1> QED
  BY <1>1, InitThInv, PTL DEF Spec

(* The variables keep their types: a log and a pipe stay within their limits,
   and a result is queued once. *)
THEOREM TypeCorrect == Spec => []TypeOK
<1>1. ThInv => TypeOK
  <2> SUFFICES ASSUME ThInv PROVE TypeOK
    OBVIOUS
  <2>1. DOMAIN idle = 1 .. Len(idle)
    BY DEF ThInv, ButtonInv, ButtonTypes
  <2>2. IsInjective(idle)
    BY <2>1 DEF ThInv, ButtonInv, Queue, IsInjective
  <2>3. {answered, alive, sensitive} \subseteq BOOLEAN
    BY DEF ThInv, TunnelTypes, ButtonInv, ButtonTypes
  <2> QED
    BY <2>2, <2>3 DEF ThInv, TunnelTypes, OutputInv, OutputTypes, ButtonInv, ButtonTypes, TypeOK
<1> QED
  BY <1>1, ThInvHolds, PTL

(* A log is the tail of what its own engine wrote and was read, for logs,
   pipes and outputs of any length and any number of readers: _drain_output(). *)
THEOREM LogsAreTails == Spec => []LogIsTail
<1>1. ThInv => LogIsTail
  <2> SUFFICES ASSUME ThInv, NEW r \in Run, IsLatest(lines[r], got[r])
               PROVE  LET log == lines[r]
                          read == {n \in 1 .. got[r] : Shown(n)}
                      IN  /\ \A i, j \in DOMAIN log : i < j => log[i] < log[j]
                          /\ ToSet(log) \subseteq read
                          /\ \A n \in read \ ToSet(log) : Len(log) = MaxLines /\ n < log[1]
    BY DEF ThInv, TunnelTypes, OutputInv, OutputTypes, Logs, LogIsTail
  <2>1. lines[r] \in Seq(Line)
    BY DEF ThInv, OutputInv, OutputTypes
  <2>2. ToSet(lines[r]) = {lines[r][i] : i \in DOMAIN lines[r]}
    BY DEF ToSet
  <2> QED
    BY <2>1, <2>2 DEF IsLatest, Unblank
<1> QED
  BY <1>1, ThInvHolds, PTL

(* "Testing..." means that a test is on its way, for any number of workers. *)
THEOREM TestingIsSo == Spec => []TestingIsTrue
<1>1. ThInv => TestingIsTrue
  BY DEF ThInv, ButtonInv
<1> QED
  BY <1>1, ThInvHolds, PTL
=============================================================================
