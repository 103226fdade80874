---------------------------- MODULE ProfileLemmas ----------------------------
(***************************************************************************)
(* What the operators of ProfileText compute, for every text: where the    *)
(* pattern of the key matches, what the loop over the lines collects, what *)
(* parse() makes of a rendered profile, which checks of validate() fail.   *)
(***************************************************************************)
EXTENDS ProfileText, WellFoundedInduction, FiniteSetTheorems, TLAPS

(* Searches end at the first place. *)
LEMMA MinIsLeast ==
  ASSUME NEW S \in SUBSET Nat, S # {}
  PROVE  Min(S) \in S /\ \A y \in S : Min(S) <= y
<1>1. PICK m \in S : \A k \in S : <<k, m>> \notin OpToRel(<, Nat)
  BY WFMin, NatLessThanWellFounded, Zenon
<1>2. \A k \in S : ~(k < m)
  BY <1>1, Zenon DEF OpToRel
<1>3. \A k \in S : m <= k
  BY <1>2
<1> QED
  BY <1>3 DEF Min

LEMMA LeastIsMin ==
  ASSUME NEW S \in SUBSET Nat, NEW m \in S, \A y \in S : m <= y
  PROVE  Min(S) = m
<1>1. Min(S) \in S /\ Min(S) <= m
  BY MinIsLeast
<1>2. Min(S) \in Nat /\ m \in Nat /\ m <= Min(S)
  BY <1>1
<1> QED
  BY <1>1, <1>2

(* What holds at 0 and goes from each number to the next holds up to m. *)
LEMMA Climb ==
  ASSUME NEW m \in Nat, NEW S, 0 \in S, \A n \in 0 .. m - 1 : n \in S => n + 1 \in S
  PROVE  \A n \in 0 .. m : n \in S
<1> DEFINE Out == {n \in 0 .. m : n \notin S}
<1> SUFFICES ASSUME Out # {} PROVE FALSE
  OBVIOUS
<1>1. Out \in SUBSET Nat
  OBVIOUS
<1>2. Min(Out) \in Out /\ \A y \in Out : Min(Out) <= y
  BY <1>1, MinIsLeast
<1> DEFINE n == Min(Out)
<1>3. n \in 0 .. m /\ n \notin S /\ n # 0
  BY <1>2
<1> HIDE DEF n
<1>4. n - 1 \in 0 .. m - 1 /\ n - 1 \in 0 .. m /\ ~(n <= n - 1) /\ (n - 1) + 1 = n
  BY <1>3
<1>5. n - 1 \notin Out
  BY <1>2, <1>4 DEF n
<1>6. n - 1 \in S
  BY <1>4, <1>5
<1>7. (n - 1) + 1 \in S
  BY <1>4, <1>6
<1> QED
  BY <1>3, <1>4, <1>7

-----------------------------------------------------------------------------
(* The loop over the lines *)

IsLoop(t, n, g) == g = [k \in 0 .. n |-> IF k = 0 THEN << >> ELSE AddLine(g[k - 1], t[k])]

LEMMA LoopExists ==
  ASSUME NEW t, NEW m \in Nat
  PROVE  \E g : IsLoop(t, m, g)
<1> DEFINE S == {n \in Nat : \E g : IsLoop(t, n, g)}
<1>1. 0 \in S
  <2> DEFINE g == [k \in 0 .. 0 |-> << >>]
  <2>1. IsLoop(t, 0, g)
    BY DEF IsLoop
  <2> QED
    BY <2>1
<1>2. ASSUME NEW n \in 0 .. m - 1, n \in S PROVE n + 1 \in S
  <2>1. PICK g : IsLoop(t, n, g)
    BY <1>2
  <2> DEFINE h == [k \in 0 .. n + 1 |-> IF k = n + 1 THEN AddLine(g[n], t[n + 1]) ELSE g[k]]
  <2>2. n \in Nat
    OBVIOUS
  <2>3. ASSUME NEW k \in 0 .. n + 1
        PROVE  h[k] = IF k = 0 THEN << >> ELSE AddLine(h[k - 1], t[k])
    <3>1. CASE k = n + 1
      <4>1. k - 1 = n /\ n \in 0 .. n + 1 /\ n # n + 1 /\ k # 0
        BY <2>2, <3>1
      <4>2. h[n] = g[n]
        BY <4>1
      <4>3. h[k] = AddLine(g[n], t[k])
        BY <3>1
      <4> QED
        BY <4>1, <4>2, <4>3
    <3>2. CASE k # n + 1
      <4>1. k \in 0 .. n
        BY <2>2, <3>2
      <4>2. h[k] = g[k] /\ g[k] = IF k = 0 THEN << >> ELSE AddLine(g[k - 1], t[k])
        BY <2>1, <3>2, <4>1 DEF IsLoop
      <4>3. k # 0 => k - 1 \in 0 .. n + 1 /\ k - 1 # n + 1
        BY <2>2, <4>1
      <4>4. k # 0 => h[k - 1] = g[k - 1]
        BY <4>3
      <4> QED
        BY <4>2, <4>4
    <3> QED
      BY <3>1, <3>2
  <2>4. h = [k \in 0 .. n + 1 |-> h[k]]
    OBVIOUS
  <2> HIDE DEF h
  <2>5. IsLoop(t, n + 1, h)
    BY <2>3, <2>4 DEF IsLoop
  <2> QED
    BY <2>2, <2>5
<1> HIDE DEF S
<1>3. m \in S
  <2>1. m \in 0 .. m
    OBVIOUS
  <2> QED
    BY <1>1, <1>2, <2>1, Climb
<1> QED
  BY <1>3 DEF S

LEMMA SectionsLoop ==
  ASSUME NEW t, Len(t) \in Nat
  PROVE  \E g : IsLoop(t, Len(t), g) /\ Sections(t) = g[Len(t)]
<1> DEFINE g == CHOOSE h : IsLoop(t, Len(t), h)
<1>1. IsLoop(t, Len(t), g)
  BY LoopExists, Zenon
<1>2. Sections(t) = g[Len(t)]
  BY Zenon DEF Sections, IsLoop
<1> QED
  BY <1>1, <1>2, Zenon

LEMMA LoopsAgree ==
  ASSUME NEW t, NEW u, NEW n \in Nat, NEW m \in Nat, n <= m, NEW g, NEW h,
         IsLoop(t, n, g), IsLoop(u, m, h), \A k \in 1 .. n : t[k] = u[k]
  PROVE  g[n] = h[n]
<1> DEFINE S == {k \in Nat : g[k] = h[k]}
<1>1. 0 \in S
  <2>1. 0 \in 0 .. n /\ 0 \in 0 .. m
    OBVIOUS
  <2> QED
    BY <2>1 DEF IsLoop
<1>2. ASSUME NEW k \in 0 .. n - 1, k \in S PROVE k + 1 \in S
  <2>1. k + 1 \in 0 .. n /\ k + 1 \in 0 .. m /\ k + 1 \in 1 .. n /\ k + 1 # 0 /\ (k + 1) - 1 = k
    OBVIOUS
  <2>2. g[k + 1] = AddLine(g[k], t[k + 1]) /\ h[k + 1] = AddLine(h[k], u[k + 1])
    BY <2>1 DEF IsLoop
  <2> QED
    BY <1>2, <2>1, <2>2
<1> HIDE DEF S
<1>3. n \in 0 .. n
  OBVIOUS
<1>4. n \in S
  BY <1>1, <1>2, <1>3, Climb
<1> QED
  BY <1>4 DEF S

LEMMA SectionsOfNothing == Sections(<< >>) = << >>
<1>1. Len(<< >>) = 0
  OBVIOUS
<1>2. PICK g : IsLoop(<< >>, 0, g) /\ Sections(<< >>) = g[0]
  BY <1>1, SectionsLoop
<1>3. 0 \in 0 .. 0
  OBVIOUS
<1> QED
  BY <1>2, <1>3 DEF IsLoop

LEMMA SectionsOfAppend ==
  ASSUME NEW A, NEW t \in Seq(A), NEW l \in A
  PROVE  Sections(Append(t, l)) = AddLine(Sections(t), l)
<1> DEFINE u == Append(t, l)
           n == Len(t)
<1>1. n \in Nat /\ Len(u) = n + 1 /\ u[n + 1] = l /\ \A k \in 1 .. n : t[k] = u[k]
  OBVIOUS
<1> HIDE DEF u, n
<1>2. PICK g : IsLoop(t, n, g) /\ Sections(t) = g[n]
  BY <1>1, SectionsLoop DEF n
<1>3. PICK h : IsLoop(u, n + 1, h) /\ Sections(u) = h[n + 1]
  <2>1. Len(u) \in Nat
    BY <1>1
  <2> QED
    BY <1>1, <2>1, SectionsLoop
<1>4. n + 1 \in Nat /\ n <= n + 1 /\ n + 1 \in 0 .. n + 1 /\ n + 1 # 0 /\ (n + 1) - 1 = n
  BY <1>1
<1>5. g[n] = h[n]
  <2>1. IsLoop(t, n, g) /\ IsLoop(u, n + 1, h)
    BY <1>2, <1>3
  <2> QED
    BY <1>1, <1>4, <2>1, LoopsAgree
<1>6. h[n + 1] = AddLine(h[n], u[n + 1])
  BY <1>3, <1>4 DEF IsLoop
<1> QED
  BY <1>1, <1>2, <1>3, <1>5, <1>6 DEF u

(* What the sections of a text over some lines are. *)
SettingsOf(A) == {l \in A : l.is = "setting"}
SectionsOver(A) == Seq([name : {l.name : l \in A}, entries : Seq(SettingsOf(A))])

LEMMA AddLineType ==
  ASSUME NEW A, NEW ss \in SectionsOver(A), NEW l \in A
  PROVE  AddLine(ss, l) \in SectionsOver(A)
<1> DEFINE Sec == [name : {m.name : m \in A}, entries : Seq(SettingsOf(A))]
<1>1. ss \in Seq(Sec) /\ Len(ss) \in Nat
  BY DEF SectionsOver
<1>2. CASE l.is = "section"
  <2>1. [name |-> l.name, entries |-> << >>] \in Sec
    OBVIOUS
  <2> HIDE DEF Sec
  <2>2. Append(ss, [name |-> l.name, entries |-> << >>]) \in Seq(Sec)
    BY <1>1, <2>1
  <2>3. AddLine(ss, l) = Append(ss, [name |-> l.name, entries |-> << >>])
    BY <1>2 DEF AddLine
  <2> QED
    BY <2>2, <2>3 DEF Sec, SectionsOver
<1>3. CASE l.is = "setting"
  <2> DEFINE new == [ss EXCEPT ![Len(ss)].entries = Append(@, l)]
  <2>1. AddLine(ss, l) = new
    BY <1>3 DEF AddLine
  <2>2. l \in SettingsOf(A)
    BY <1>3 DEF SettingsOf
  <2>3. ASSUME NEW s \in Sec PROVE [s EXCEPT !.entries = Append(@, l)] \in Sec
    <3>1. Append(s.entries, l) \in Seq(SettingsOf(A))
      BY <2>2
    <3> QED
      BY <3>1
  <2> HIDE DEF Sec
  <2>4. ss \in [1 .. Len(ss) -> Sec]
    BY <1>1
  <2>5. new \in [1 .. Len(ss) -> Sec]
    BY <2>3, <2>4
  <2>6. new \in Seq(Sec)
    BY <1>1, <2>5
  <2> QED
    BY <2>1, <2>6 DEF Sec, SectionsOver
<1>4. CASE l.is \notin {"section", "setting"}
  BY <1>4 DEF AddLine
<1> QED
  BY <1>2, <1>3, <1>4

LEMMA SectionsType ==
  ASSUME NEW A, NEW t \in Seq(A)
  PROVE  Sections(t) \in SectionsOver(A)
<1> DEFINE n == Len(t)
<1>1. n \in Nat /\ \A k \in 1 .. n : t[k] \in A
  OBVIOUS
<1> HIDE DEF n
<1>2. PICK g : IsLoop(t, n, g) /\ Sections(t) = g[n]
  BY <1>1, SectionsLoop DEF n
<1> DEFINE S == {k \in Nat : g[k] \in SectionsOver(A)}
<1>3. 0 \in S
  <2>1. 0 \in 0 .. n /\ << >> \in SectionsOver(A)
    BY <1>1 DEF SectionsOver
  <2> QED
    BY <1>2, <2>1 DEF IsLoop
<1>4. ASSUME NEW k \in 0 .. n - 1, k \in S PROVE k + 1 \in S
  <2>1. k + 1 \in 0 .. n /\ k + 1 \in 1 .. n /\ k + 1 # 0 /\ (k + 1) - 1 = k /\ k + 1 \in Nat
    BY <1>1
  <2>2. g[k + 1] = AddLine(g[k], t[k + 1])
    BY <1>2, <2>1 DEF IsLoop
  <2>3. t[k + 1] \in A /\ g[k] \in SectionsOver(A)
    BY <1>1, <1>4, <2>1
  <2> QED
    BY <2>1, <2>2, <2>3, AddLineType
<1> HIDE DEF S
<1>5. n \in 0 .. n
  BY <1>1
<1>6. n \in S
  BY <1>1, <1>3, <1>4, <1>5, Climb
<1> QED
  BY <1>2, <1>6 DEF S

-----------------------------------------------------------------------------
(* What parse() makes of what to_engine_config() wrote *)

LEMMA SeqWiden ==
  ASSUME NEW A, NEW B, A \subseteq B, NEW s \in Seq(A)
  PROVE  s \in Seq(B)
OBVIOUS

LEMMA AppendOne ==
  ASSUME NEW A, NEW s \in Seq(A), NEW x \in A
  PROVE  s \o <<x>> = Append(s, x) /\ Append(s, x) \in Seq(A)
OBVIOUS

LEMMA SeqFunction ==
  ASSUME NEW A, NEW s \in Seq(A), NEW n, Len(s) = n
  PROVE  s \in [1 .. n -> A]
OBVIOUS

LEMMA SeqEqual ==
  ASSUME NEW A, NEW s \in Seq(A), NEW t \in Seq(A), Len(s) = Len(t),
         \A i \in 1 .. Len(s) : s[i] = t[i]
  PROVE  s = t
OBVIOUS

LEMMA AppendExcept ==
  ASSUME NEW A, NEW s \in Seq(A), NEW x, NEW y
  PROVE  [Append(s, x) EXCEPT ![Len(s) + 1] = y] = Append(s, y)
<1> DEFINE n == Len(s)
           a == Append(s, x)
           b == Append(s, y)
           e == [a EXCEPT ![n + 1] = y]
<1>1. n \in Nat /\ s \in [1 .. n -> A \cup {x, y}] /\ n + 1 \in 1 .. n + 1
  OBVIOUS
<1>2. /\ a \in [1 .. n + 1 -> A \cup {x, y}] /\ b \in [1 .. n + 1 -> A \cup {x, y}]
      /\ a[n + 1] = x /\ b[n + 1] = y
      /\ \A i \in 1 .. n + 1 : i # n + 1 => a[i] = s[i] /\ b[i] = s[i]
  <2> DEFINE B == A \cup {x, y}
  <2>1. s \in Seq(B) /\ x \in B /\ y \in B
    OBVIOUS
  <2> HIDE DEF B
  <2>2. a \in Seq(B) /\ b \in Seq(B) /\ Len(a) = n + 1 /\ Len(b) = n + 1
    BY <2>1
  <2>3. a \in [1 .. n + 1 -> B] /\ b \in [1 .. n + 1 -> B]
    BY <2>2, SeqFunction
  <2>4. a[n + 1] = x /\ b[n + 1] = y /\ \A i \in 1 .. n + 1 : i # n + 1 => a[i] = s[i] /\ b[i] = s[i]
    BY <2>1
  <2> QED
    BY <2>3, <2>4 DEF B
<1> HIDE DEF a, b
<1>3. e \in [1 .. n + 1 -> A \cup {x, y}]
  BY <1>2
<1>4. \A i \in 1 .. n + 1 : e[i] = b[i]
  BY <1>2
<1>5. e = b
  BY <1>2, <1>3, <1>4
<1> QED
  BY <1>5 DEF a, b

(* A head and its settings become one more section. *)
LEMMA ReadSection ==
  ASSUME NEW X, NEW c \in Seq(X), NEW e \in Seq(SettingsOf(X)), NEW name, Section(name) \in X
  PROVE  Sections(c \o <<Section(name)>> \o e) = Append(Sections(c), [name |-> name, entries |-> e])
<1> DEFINE head == c \o <<Section(name)>>
           upTo(n) == head \o SubSeq(e, 1, n)
           read(n) == Append(Sections(c), [name |-> name, entries |-> SubSeq(e, 1, n)])
           S == {n \in Nat : Sections(upTo(n)) = read(n)}
<1>1. head \in Seq(X) /\ Sections(head) = AddLine(Sections(c), Section(name))
  <2>1. head = Append(c, Section(name)) /\ head \in Seq(X)
    BY AppendOne
  <2> QED
    BY <2>1, SectionsOfAppend
<1>2. Sections(c) \in SectionsOver(X) /\ Len(Sections(c)) \in Nat
  <2>1. Sections(c) \in SectionsOver(X)
    BY SectionsType
  <2> QED
    BY <2>1 DEF SectionsOver
<1>3. Len(e) \in Nat /\ \A k \in 1 .. Len(e) : e[k] \in X /\ e[k].is = "setting"
  BY DEF SettingsOf
<1> HIDE DEF head
<1>4. 0 \in S
  <2>1. SubSeq(e, 1, 0) = << >> /\ head \o << >> = head
    BY <1>1
  <2>2. AddLine(Sections(c), Section(name)) = Append(Sections(c), [name |-> name, entries |-> << >>])
    BY DEF AddLine, Section
  <2> QED
    BY <1>1, <2>1, <2>2
<1>5. ASSUME NEW n \in 0 .. Len(e) - 1, n \in S PROVE n + 1 \in S
  <2>1. n \in Nat /\ n + 1 \in Nat /\ n + 1 \in 1 .. Len(e)
    BY <1>3
  <2> DEFINE x == e[n + 1]
             s == SubSeq(e, 1, n)
  <2>2. x \in X /\ x.is = "setting" /\ s \in Seq(X) /\ SubSeq(e, 1, n + 1) = Append(s, x)
    <3>1. e \in Seq(X)
      BY DEF SettingsOf
    <3> QED
      BY <1>3, <2>1, <3>1
  <2> HIDE DEF x, s
  <2>3. upTo(n) \in Seq(X) /\ upTo(n + 1) = Append(upTo(n), x)
    BY <1>1, <2>2 DEF s
  <2> HIDE DEF upTo
  <2>4. Sections(upTo(n + 1)) = AddLine(Sections(upTo(n)), x)
    BY <2>2, <2>3, SectionsOfAppend
  <2>5. AddLine(read(n), x) = read(n + 1)
    <3> DEFINE ss == Sections(c)
               r == [name |-> name, entries |-> s]
    <3>1. \E Y : ss \in Seq(Y) /\ r \in Y
      <4> DEFINE Z == [name : {l.name : l \in X}, entries : Seq(SettingsOf(X))]
                 Y == Z \cup {r}
      <4>1. ss \in Seq(Y)
        <5>1. ss \in Seq(Z)
          BY <1>2 DEF SectionsOver
        <5> HIDE DEF Z, ss, r
        <5> QED
          BY <5>1, SeqWiden
      <4> QED
        BY <4>1
    <3> HIDE DEF ss
    <3>2. PICK Y : ss \in Seq(Y) /\ r \in Y
      BY <3>1
    <3>3. Len(Append(ss, r)) = Len(ss) + 1 /\ Len(ss) \in Nat
      BY <3>2
    <3>4. [Append(ss, r) EXCEPT ![Len(ss) + 1].entries = Append(s, x)]
          = Append(ss, [name |-> name, entries |-> Append(s, x)])
      <4>1. Append(ss, r)[Len(ss) + 1] = r
        BY <3>2
      <4>2. \A z : [r EXCEPT !.entries = z] = [name |-> name, entries |-> z]
        BY DEF r
      <4> HIDE DEF r
      <4>3. [Append(ss, r) EXCEPT ![Len(ss) + 1] = [r EXCEPT !.entries = Append(s, x)]]
            = Append(ss, [r EXCEPT !.entries = Append(s, x)])
        BY <3>2, AppendExcept
      <4> QED
        BY <4>1, <4>2, <4>3
    <3>5. Append(ss, r)[Len(ss) + 1].entries = s
      BY <3>2
    <3>6. AddLine(Append(ss, r), x) = [Append(ss, r) EXCEPT ![Len(ss) + 1].entries = Append(s, x)]
      BY <2>2, <3>3, <3>5 DEF AddLine
    <3> QED
      BY <2>2, <3>4, <3>6 DEF s, ss
  <2> QED
    BY <1>5, <2>1, <2>4, <2>5
<1> HIDE DEF S
<1>6. Len(e) \in 0 .. Len(e)
  BY <1>3
<1>7. Len(e) \in S
  BY <1>3, <1>4, <1>5, <1>6, Climb
<1>8. SubSeq(e, 1, Len(e)) = e
  BY <1>3
<1> QED
  BY <1>7, <1>8 DEF S, head

IsRendering(p, n, g) ==
  g = [k \in 0 .. n |-> IF k = 0 THEN << >>
                        ELSE g[k - 1] \o <<Section(p[k].name)>> \o p[k].entries \o <<Blank>>]

LEMMA RenderingExists ==
  ASSUME NEW p, NEW m \in Nat
  PROVE  \E g : IsRendering(p, m, g)
<1> DEFINE Rendered(s, k) == s \o <<Section(p[k].name)>> \o p[k].entries \o <<Blank>>
           S == {n \in Nat : \E g : IsRendering(p, n, g)}
<1>1. 0 \in S
  <2> DEFINE g == [k \in 0 .. 0 |-> << >>]
  <2>1. IsRendering(p, 0, g)
    BY DEF IsRendering
  <2> QED
    BY <2>1
<1>2. ASSUME NEW n \in 0 .. m - 1, n \in S PROVE n + 1 \in S
  <2>1. PICK g : IsRendering(p, n, g)
    BY <1>2
  <2> DEFINE h == [k \in 0 .. n + 1 |-> IF k = n + 1 THEN Rendered(g[n], n + 1) ELSE g[k]]
  <2>2. n \in Nat
    OBVIOUS
  <2>3. ASSUME NEW k \in 0 .. n + 1
        PROVE  h[k] = IF k = 0 THEN << >> ELSE Rendered(h[k - 1], k)
    <3>1. CASE k = n + 1
      <4>1. k - 1 = n /\ n \in 0 .. n + 1 /\ n # n + 1 /\ k # 0
        BY <2>2, <3>1
      <4>2. h[n] = g[n]
        BY <4>1
      <4>3. h[k] = Rendered(g[n], k)
        BY <3>1
      <4> QED
        BY <4>1, <4>2, <4>3
    <3>2. CASE k # n + 1
      <4>1. k \in 0 .. n
        BY <2>2, <3>2
      <4>2. h[k] = g[k] /\ g[k] = IF k = 0 THEN << >> ELSE Rendered(g[k - 1], k)
        BY <2>1, <3>2, <4>1 DEF IsRendering
      <4>3. k # 0 => k - 1 \in 0 .. n + 1 /\ k - 1 # n + 1
        BY <2>2, <4>1
      <4>4. k # 0 => h[k - 1] = g[k - 1]
        BY <4>3
      <4> QED
        BY <4>2, <4>4
    <3> QED
      BY <3>1, <3>2
  <2>4. h = [k \in 0 .. n + 1 |-> h[k]]
    OBVIOUS
  <2> HIDE DEF h
  <2>5. IsRendering(p, n + 1, h)
    BY <2>3, <2>4 DEF IsRendering
  <2> QED
    BY <2>2, <2>5
<1> HIDE DEF S
<1>3. m \in S
  <2>1. m \in 0 .. m
    OBVIOUS
  <2> QED
    BY <1>1, <1>2, <2>1, Climb
<1> QED
  BY <1>3 DEF S

LEMMA ToTextLoop ==
  ASSUME NEW p, Len(p) \in Nat
  PROVE  \E g : IsRendering(p, Len(p), g) /\ ToText(p) = g[Len(p)]
<1> DEFINE g == CHOOSE h : IsRendering(p, Len(p), h)
<1>1. IsRendering(p, Len(p), g)
  BY RenderingExists, Zenon
<1>2. ToText(p) = g[Len(p)]
  BY Zenon DEF ToText, IsRendering
<1> QED
  BY <1>1, <1>2, Zenon

TextOver(A) == A \cup {Section(l.name) : l \in A} \cup {Blank}

(* parse() reads back what to_text() writes: repeated sections and repeated
   settings included, in their order.  A is any set of lines whose sections and
   settings the profile has. *)
THEOREM ReadBack ==
  ASSUME NEW A, NEW p \in SectionsOver(A)
  PROVE  ToText(p) \in Seq(TextOver(A)) /\ Sections(ToText(p)) = p
<1> DEFINE X == TextOver(A)
           m == Len(p)
<1>1. /\ m \in Nat /\ SubSeq(p, 1, m) = p /\ SubSeq(p, 1, 0) = << >>
      /\ \A n \in 1 .. m : p[n] \in [name : {l.name : l \in A}, entries : Seq(SettingsOf(A))]
      /\ \A n \in 0 .. m - 1 : SubSeq(p, 1, n + 1) = Append(SubSeq(p, 1, n), p[n + 1])
  <2> DEFINE Sec == [name : {l.name : l \in A}, entries : Seq(SettingsOf(A))]
  <2>1. p \in Seq(Sec)
    BY DEF SectionsOver
  <2> HIDE DEF Sec
  <2>2. m \in Nat /\ SubSeq(p, 1, m) = p /\ SubSeq(p, 1, 0) = << >> /\ \A n \in 1 .. m : p[n] \in Sec
    BY <2>1
  <2>3. \A n \in 0 .. m - 1 : SubSeq(p, 1, n + 1) = Append(SubSeq(p, 1, n), p[n + 1])
    BY <2>1
  <2> QED
    BY <2>2, <2>3 DEF Sec
<1>2. PICK g : IsRendering(p, m, g) /\ ToText(p) = g[m]
  BY <1>1, ToTextLoop
<1> HIDE DEF m
<1> DEFINE S == {n \in Nat : g[n] \in Seq(X) /\ Sections(g[n]) = SubSeq(p, 1, n)}
<1>3. 0 \in S
  <2>1. 0 \in 0 .. m /\ << >> \in Seq(X)
    BY <1>1
  <2> QED
    BY <1>1, <1>2, <2>1, SectionsOfNothing DEF IsRendering
<1>4. ASSUME NEW n \in 0 .. m - 1, n \in S PROVE n + 1 \in S
  <2>1. n + 1 \in 0 .. m /\ n + 1 \in 1 .. m /\ n + 1 # 0 /\ (n + 1) - 1 = n /\ n + 1 \in Nat
    BY <1>1
  <2> DEFINE c == g[n]
             s == p[n + 1]
             d == c \o <<Section(s.name)>> \o s.entries
  <2>2. g[n + 1] = d \o <<Blank>>
    BY <1>2, <2>1 DEF IsRendering
  <2>3. c \in Seq(X) /\ Sections(c) = SubSeq(p, 1, n)
    BY <1>4
  <2>4. /\ s.name \in {l.name : l \in A} /\ s.entries \in Seq(SettingsOf(A))
        /\ s = [name |-> s.name, entries |-> s.entries]
    BY <1>1, <2>1
  <2>5. Section(s.name) \in X /\ Blank \in X /\ s.entries \in Seq(SettingsOf(X)) /\ s.entries \in Seq(X)
    BY <2>4 DEF TextOver, SettingsOf
  <2> HIDE DEF s, c, X
  <2>6. Sections(d) = Append(Sections(c), s)
    BY <2>3, <2>4, <2>5, ReadSection
  <2>7. d \in Seq(X) /\ g[n + 1] = Append(d, Blank) /\ g[n + 1] \in Seq(X)
    <3>1. c \o <<Section(s.name)>> \in Seq(X)
      BY <2>3, <2>5, AppendOne
    <3>2. d \in Seq(X)
      BY <2>5, <3>1
    <3> HIDE DEF d
    <3> QED
      BY <2>2, <2>5, <3>2, AppendOne
  <2> HIDE DEF d
  <2>8. Sections(g[n + 1]) = AddLine(Sections(d), Blank) /\ g[n + 1] \in Seq(X)
    BY <2>5, <2>7, SectionsOfAppend
  <2>9. Sections(g[n + 1]) = Append(SubSeq(p, 1, n), s)
    BY <2>3, <2>6, <2>8 DEF AddLine, Blank
  <2> QED
    BY <1>1, <2>1, <2>8, <2>9 DEF s
<1> HIDE DEF S
<1>5. m \in 0 .. m
  BY <1>1
<1>6. m \in S
  BY <1>1, <1>3, <1>4, <1>5, Climb
<1> QED
  BY <1>1, <1>2, <1>6 DEF S, m

LEMMA ConfigReadBack ==
  ASSUME NEW A, NEW p \in SectionsOver(A)
  PROVE  Sections(EngineConfig(p)) = p \o Sections(Socks5)
<1> DEFINE X == TextOver(A) \cup ToSet(Socks5)
           a == Section("Socks5")
           b == Setting("BindAddress", <<"127.0.0.1">>)
           r == [name |-> "Socks5", entries |-> <<b>>]
           c == ToText(p)
<1>1. c \in Seq(X) /\ Sections(c) = p
  <2>1. TextOver(A) \subseteq X
    OBVIOUS
  <2> HIDE DEF X
  <2> QED
    BY <2>1, ReadBack
<1>2. a \in X /\ b \in X /\ b \in SettingsOf(X) /\ <<b>> \in Seq(SettingsOf(X))
  <2>1. a \in ToSet(Socks5) /\ b \in ToSet(Socks5)
    BY DEF Socks5, ToSet
  <2>2. b.is = "setting"
    BY DEF Setting
  <2> QED
    BY <2>1, <2>2 DEF SettingsOf
<1> HIDE DEF X, a, b, c
<1>3. Sections(c \o <<a>> \o <<b>>) = Append(Sections(c), r)
  BY <1>1, <1>2, ReadSection DEF a
<1>4. Sections(<< >> \o <<a>> \o <<b>>) = Append(Sections(<< >>), r)
  <2>1. << >> \in Seq(X)
    OBVIOUS
  <2> QED
    BY <1>2, <2>1, ReadSection DEF a
<1>5. Socks5 = <<a, b>>
  BY DEF Socks5, a, b
<1>6. EngineConfig(p) = c \o <<a>> \o <<b>> /\ Socks5 = << >> \o <<a>> \o <<b>>
  <2>1. \A s \in Seq(X) : s \o <<a, b>> = s \o <<a>> \o <<b>>
    <3> TAKE s \in Seq(X)
    <3> DEFINE v == s \o <<a, b>>
               w == s \o <<a>> \o <<b>>
    <3>1. v \in Seq(X) /\ w \in Seq(X) /\ Len(v) = Len(s) + 2 /\ Len(w) = Len(s) + 2
      BY <1>2
    <3>2. \A i \in 1 .. Len(s) + 2 : v[i] = w[i]
      BY <1>2
    <3> HIDE DEF v, w
    <3>3. v = w
      BY <3>1, <3>2, SeqEqual
    <3> QED
      BY <3>3 DEF v, w
  <2>2. << >> \in Seq(X) /\ << >> \o <<a, b>> = <<a, b>>
    BY <1>2
  <2> QED
    BY <1>1, <1>5, <2>1, <2>2 DEF EngineConfig, c
<1>7. Sections(Socks5) = <<r>>
  BY <1>4, <1>6, SectionsOfNothing
<1>8. p \o <<r>> = Append(p, r)
  BY DEF SectionsOver
<1> QED
  BY <1>1, <1>3, <1>6, <1>7, <1>8

-----------------------------------------------------------------------------
(* Where the pattern matches *)

IsKey(l) == l.is = "setting" /\ l.key = "PrivateKey"
IsFirst(t, k) == k \in 1 .. Len(t) /\ IsKey(t[k]) /\ \A i \in 1 .. k - 1 : ~IsKey(t[i])

LEMMA FirstKeyLineFound ==
  ASSUME NEW t, Len(t) \in Nat, FirstKeyLine(t) # 0
  PROVE  IsFirst(t, FirstKeyLine(t))
<1> DEFINE I == {i \in 1 .. Len(t) : IsKey(t[i])}
<1>1. FirstKeyLine(t) = IF I # {} THEN Min(I) ELSE 0
  BY DEF FirstKeyLine, SelectInSeq, IsKey
<1>2. I \in SUBSET Nat /\ I # {}
  BY <1>1
<1>3. Min(I) \in I /\ \A y \in I : Min(I) <= y
  BY <1>2, MinIsLeast
<1>4. \A i \in 1 .. Min(I) - 1 : i \in 1 .. Len(t) /\ ~(Min(I) <= i)
  BY <1>3
<1> QED
  BY <1>1, <1>2, <1>3, <1>4 DEF IsFirst

LEMMA FirstKeyLineIs ==
  ASSUME NEW t, Len(t) \in Nat, NEW k, IsFirst(t, k)
  PROVE  FirstKeyLine(t) = k
<1> DEFINE I == {i \in 1 .. Len(t) : IsKey(t[i])}
<1>1. FirstKeyLine(t) = IF I # {} THEN Min(I) ELSE 0
  BY DEF FirstKeyLine, SelectInSeq, IsKey
<1>2. I \in SUBSET Nat /\ k \in I
  BY DEF IsFirst
<1>3. \A i \in I : k <= i
  <2> TAKE i \in I
  <2> SUFFICES ASSUME ~(k <= i) PROVE FALSE
    OBVIOUS
  <2>1. i \in 1 .. k - 1
    BY <1>2
  <2> QED
    BY <2>1 DEF IsFirst
<1>4. Min(I) = k
  BY <1>2, <1>3, LeastIsMin
<1> QED
  BY <1>1, <1>2, <1>4

IsNext(t, k, m) == m \in k + 1 .. Len(t) /\ t[m].is # "blank" /\ \A i \in k + 1 .. m - 1 : t[i].is = "blank"
NextLine(t, k) == SelectInSubSeq(t, k + 1, Len(t), LAMBDA l : l.is # "blank")

LEMMA NextLineFound ==
  ASSUME NEW t, Len(t) \in Nat, NEW k \in Nat, NextLine(t, k) # 0
  PROVE  IsNext(t, k, NextLine(t, k))
<1> DEFINE I == {i \in k + 1 .. Len(t) : t[i].is # "blank"}
<1>1. NextLine(t, k) = IF I # {} THEN Min(I) ELSE 0
  BY DEF NextLine, SelectInSubSeq
<1>2. I \in SUBSET Nat /\ I # {}
  BY <1>1
<1>3. Min(I) \in I /\ \A y \in I : Min(I) <= y
  BY <1>2, MinIsLeast
<1>4. \A i \in k + 1 .. Min(I) - 1 : i \in k + 1 .. Len(t) /\ ~(Min(I) <= i)
  BY <1>3
<1> QED
  BY <1>1, <1>2, <1>3, <1>4 DEF IsNext

LEMMA NextLineIs ==
  ASSUME NEW t, Len(t) \in Nat, NEW k \in Nat, NEW m, IsNext(t, k, m)
  PROVE  NextLine(t, k) = m
<1> DEFINE I == {i \in k + 1 .. Len(t) : t[i].is # "blank"}
<1>1. NextLine(t, k) = IF I # {} THEN Min(I) ELSE 0
  BY DEF NextLine, SelectInSubSeq
<1>2. I \in SUBSET Nat /\ m \in I
  BY DEF IsNext
<1>3. \A i \in I : m <= i
  <2> TAKE i \in I
  <2> SUFFICES ASSUME ~(m <= i) PROVE FALSE
    OBVIOUS
  <2>1. i \in k + 1 .. m - 1
    BY <1>2
  <2> QED
    BY <2>1 DEF IsNext
<1>4. Min(I) = m
  BY <1>2, <1>3, LeastIsMin
<1> QED
  BY <1>1, <1>2, <1>4

-----------------------------------------------------------------------------
(* The key comes back. *)

IsText(t) == t \in Seq(Alphabet)

LEMMA TextLines ==
  ASSUME NEW t, IsText(t)
  PROVE  /\ Len(t) \in Nat /\ DOMAIN t = 1 .. Len(t)
         /\ \A i \in 1 .. Len(t) :
                /\ t[i].is \in {"section", "setting", "blank", "comment", "junk"}
                /\ t[i].is = "setting" => t[i] = Setting(t[i].key, t[i].value)
<1>1. t \in Seq(Alphabet) /\ Len(t) \in Nat /\ DOMAIN t = 1 .. Len(t)
  BY DEF IsText
<1>2. \A i \in 1 .. Len(t) : t[i] \in Alphabet
  BY <1>1
<1> QED
  BY <1>1, <1>2, TextAssumption

(* A line replaced by itself, by way of another. *)
LEMMA PutBack ==
  ASSUME NEW t, IsText(t), NEW m \in 1 .. Len(t), NEW x
  PROVE  LET u == [t EXCEPT ![m] = x]
         IN  /\ [u EXCEPT ![m] = t[m]] = t
             /\ Len(u) = Len(t) /\ u[m] = x
             /\ \A i \in 1 .. Len(t) : i # m => u[i] = t[i]
<1>1. DOMAIN t = 1 .. Len(t) /\ Len(t) \in Nat
  BY TextLines
<1> DEFINE u == [t EXCEPT ![m] = x]
           w == [u EXCEPT ![m] = t[m]]
<1>2. DOMAIN u = 1 .. Len(t) /\ DOMAIN w = 1 .. Len(t)
  BY <1>1
<1>3. Len(u) = Len(t)
  BY <1>1, <1>2
<1>4. \A i \in 1 .. Len(t) : w[i] = t[i]
  BY <1>1
<1>5. t \in [1 .. Len(t) -> Alphabet \cup {x}]
  BY DEF IsText
<1>6. u \in [1 .. Len(t) -> Alphabet \cup {x}]
  BY <1>5
<1>7. w \in [1 .. Len(t) -> Alphabet \cup {x}]
  BY <1>5, <1>6
<1>8. w = t
  BY <1>4, <1>5, <1>7
<1> QED
  BY <1>1, <1>3, <1>8

(* The key is on the line that has the setting. *)
LEMMA SameLineComesBack ==
  ASSUME NEW t, IsText(t), FirstKeyLine(t) # 0, ~FromNextLine(t)
  PROVE  Inject(Redact(t), KeyOf(t)) = t
<1> DEFINE k == FirstKeyLine(t)
           x == Setting("PrivateKey", <<Placeholder>>)
           u == [t EXCEPT ![k] = x]
<1>1. Len(t) \in Nat /\ IsFirst(t, k)
  BY TextLines, FirstKeyLineFound
<1>2. k \in 1 .. Len(t) /\ k # 0 /\ t[k] = Setting("PrivateKey", t[k].value)
  BY <1>1, TextLines DEF IsFirst, IsKey
<1>3. KeyLine(t) = k /\ Redact(t) = u /\ KeyOf(t) = t[k].value
  BY DEF KeyLine, Redact, KeyOf
<1>4. /\ [u EXCEPT ![k] = t[k]] = t
      /\ Len(u) = Len(t) /\ u[k] = x
      /\ \A i \in 1 .. Len(t) : i # k => u[i] = t[i]
  BY <1>2, PutBack
<1>5. IsFirst(u, k)
  <2>1. IsKey(x)
    BY DEF x, IsKey, Setting
  <2>2. \A i \in 1 .. k - 1 : u[i] = t[i]
    BY <1>1, <1>2, <1>4
  <2> QED
    BY <1>1, <1>4, <2>1, <2>2 DEF IsFirst
<1> HIDE DEF u
<1>6. FirstKeyLine(u) = k
  BY <1>1, <1>4, <1>5, FirstKeyLineIs
<1>7. ~FromNextLine(u)
  <2>1. u[k].value = <<Placeholder>>
    BY <1>4 DEF x, Setting
  <2>2. <<Placeholder>> # <<Empty>>
    BY PlaceholderAssumption
  <2> QED
    BY <1>6, <2>1, <2>2 DEF FromNextLine
<1>8. KeyLine(u) = k
  BY <1>6, <1>7 DEF KeyLine
<1>9. Inject(u, KeyOf(t)) = [u EXCEPT ![k] = t[k]]
  BY <1>2, <1>3, <1>7, <1>8 DEF Inject
<1> QED
  BY <1>3, <1>4, <1>9

(* The pattern went on to the first line that is not blank. *)
LEMMA NextLineComesBack ==
  ASSUME NEW t, IsText(t), FirstKeyLine(t) # 0, FromNextLine(t), KeyLine(t) # 0
  PROVE  Inject(Redact(t), KeyOf(t)) = t
<1> DEFINE k == FirstKeyLine(t)
           m == KeyLine(t)
           u == [t EXCEPT ![m] = Junk]
<1>1. Len(t) \in Nat /\ IsFirst(t, k) /\ k \in Nat
  BY TextLines, FirstKeyLineFound DEF IsFirst
<1>2. m = NextLine(t, k)
  BY DEF KeyLine, NextLine
<1>3. IsNext(t, k, m)
  BY <1>1, <1>2, NextLineFound
<1>4. k \in 1 .. Len(t) /\ m \in 1 .. Len(t) /\ k < m
  BY <1>1, <1>3 DEF IsFirst, IsNext
<1>5. Redact(t) = u /\ KeyOf(t) = <<t[m]>>
  BY DEF Redact, KeyOf
<1> HIDE DEF m
<1>6. /\ [u EXCEPT ![m] = t[m]] = t
      /\ Len(u) = Len(t) /\ u[m] = Junk
      /\ \A i \in 1 .. Len(t) : i # m => u[i] = t[i]
  BY <1>4, PutBack
<1> HIDE DEF u
<1>7. IsFirst(u, k)
  <2>1. \A i \in 1 .. k : i \in 1 .. Len(t) /\ i # m
    BY <1>1, <1>4
  <2> QED
    BY <1>1, <1>4, <1>6, <2>1 DEF IsFirst
<1>8. IsNext(u, k, m)
  <2>1. \A i \in k + 1 .. m - 1 : i \in 1 .. Len(t) /\ i # m
    BY <1>1, <1>4
  <2>2. Junk.is # "blank"
    BY DEF Junk
  <2> QED
    BY <1>3, <1>6, <2>1, <2>2 DEF IsNext
<1>9. FirstKeyLine(u) = k /\ NextLine(u, k) = m
  BY <1>1, <1>6, <1>7, <1>8, FirstKeyLineIs, NextLineIs
<1>10. FromNextLine(u)
  BY <1>4, <1>6, <1>9 DEF FromNextLine
<1>11. KeyLine(u) = m
  BY <1>1, <1>4, <1>9, <1>10 DEF KeyLine, NextLine
<1>12. Inject(u, KeyOf(t)) = [u EXCEPT ![m] = t[m]]
  BY <1>5, <1>10, <1>11 DEF Inject
<1> QED
  BY <1>5, <1>6, <1>12

(* _inject_private_key() undoes _split_private_key(), wherever the pattern matched. *)
LEMMA RoundTrip ==
  ASSUME NEW t, IsText(t), HasKey(t)
  PROVE  Inject(Redact(t), KeyOf(t)) = t
<1>1. KeyLine(t) # 0
  BY DEF HasKey
<1>2. FirstKeyLine(t) # 0
  BY <1>1 DEF KeyLine
<1> QED
  BY <1>1, <1>2, SameLineComesBack, NextLineComesBack

-----------------------------------------------------------------------------
(* The comparison of two headers finds what they have in common, wherever the
   limit of a header is: the loop over pairs in _validate_obfuscation(). *)
THEOREM OverlapIsSharing ==
  ASSUME NEW S, NEW f, NEW i, NEW j, MaxHeader \in Nat,
         Interval(f, i) \in Seq(S), Interval(f, j) \in Seq(S)
  PROVE  OverlapCheck(f, i, j).fails
         <=> \E header \in 0 .. MaxHeader : Covers(f, i, header) /\ Covers(f, j, header)
<1> DEFINE a == Interval(f, i)
           b == Interval(f, j)
<1>1. OverlapCheck(f, i, j).fails
      <=> IsRange(a) /\ IsRange(b) /\ a[1] <= Last(b) /\ b[1] <= Last(a)
  BY DEF OverlapCheck, Check
<1>2. ASSUME NEW v \in Seq(S), IsRange(v)
      PROVE  v[1] \in Nat /\ Last(v) \in Nat /\ v[1] <= Last(v) /\ Last(v) <= MaxHeader
  BY <1>2 DEF IsRange, Last
<1> HIDE DEF a, b
<1>3. ASSUME IsRange(a), IsRange(b), a[1] <= Last(b), b[1] <= Last(a)
      PROVE  \E header \in 0 .. MaxHeader :
                 a[1] <= header /\ header <= Last(a) /\ b[1] <= header /\ header <= Last(b)
  <2>1. /\ a[1] \in Nat /\ Last(a) \in Nat /\ a[1] <= Last(a) /\ Last(a) <= MaxHeader
        /\ b[1] \in Nat /\ Last(b) \in Nat /\ b[1] <= Last(b) /\ Last(b) <= MaxHeader
    BY <1>2, <1>3 DEF a, b
  <2>2. CASE a[1] <= b[1]
    <3>1. /\ b[1] \in 0 .. MaxHeader
          /\ a[1] <= b[1] /\ b[1] <= Last(a) /\ b[1] <= b[1] /\ b[1] <= Last(b)
      BY <1>3, <2>1, <2>2
    <3> QED
      BY <3>1
  <2>3. CASE ~(a[1] <= b[1])
    <3>1. /\ a[1] \in 0 .. MaxHeader
          /\ a[1] <= a[1] /\ a[1] <= Last(a) /\ b[1] <= a[1] /\ a[1] <= Last(b)
      BY <1>3, <2>1, <2>3
    <3> QED
      BY <3>1
  <2> QED
    BY <2>2, <2>3
<1>4. ASSUME IsRange(a), IsRange(b), NEW header \in 0 .. MaxHeader,
             a[1] <= header, header <= Last(a), b[1] <= header, header <= Last(b)
      PROVE  a[1] <= Last(b) /\ b[1] <= Last(a)
  <2>1. a[1] \in Nat /\ Last(a) \in Nat /\ b[1] \in Nat /\ Last(b) \in Nat
    BY <1>2, <1>4 DEF a, b
  <2> QED
    BY <1>4, <2>1
<1> QED
  BY <1>1, <1>3, <1>4 DEF Covers, a, b

-----------------------------------------------------------------------------
(* Which checks of validate() fail *)

IsSeq(cs) == \E A : cs \in Seq(A)
Failing(cs) == {cs[k].names : k \in {j \in DOMAIN cs : cs[j].fails}}

LEMMA FailingConcat ==
  ASSUME NEW cs, NEW ds, IsSeq(cs), IsSeq(ds)
  PROVE  IsSeq(cs \o ds) /\ Failing(cs \o ds) = Failing(cs) \cup Failing(ds)
<1>1. PICK A : cs \in Seq(A)
  BY DEF IsSeq
<1>2. PICK B : ds \in Seq(B)
  BY DEF IsSeq
<1> DEFINE C == A \cup B
           es == cs \o ds
           n == Len(cs)
           m == Len(ds)
<1>3. cs \in Seq(C) /\ ds \in Seq(C)
  <2>1. A \subseteq C /\ B \subseteq C
    OBVIOUS
  <2> HIDE DEF C
  <2> QED
    BY <1>1, <1>2, <2>1, SeqWiden
<1> HIDE DEF C
<1>4. es \in Seq(C) /\ n \in Nat /\ m \in Nat /\ Len(es) = n + m
  BY <1>3
<1>5. DOMAIN cs = 1 .. n /\ DOMAIN ds = 1 .. m /\ DOMAIN es = 1 .. n + m
  BY <1>3, <1>4
<1>6. \A k \in 1 .. n : es[k] = cs[k]
  BY <1>3
<1>7. \A k \in 1 .. m : es[n + k] = ds[k]
  BY <1>3
<1> HIDE DEF es, n, m
<1>8. \A k \in 1 .. n : k \in 1 .. n + m
  BY <1>4
<1>9. \A k \in 1 .. m : n + k \in 1 .. n + m
  BY <1>4
<1>10. \A k \in 1 .. n + m : k \in 1 .. n \/ (k - n \in 1 .. m /\ n + (k - n) = k)
  BY <1>4
<1>11. Failing(cs) \subseteq Failing(es)
  BY <1>5, <1>6, <1>8 DEF Failing
<1>12. Failing(ds) \subseteq Failing(es)
  BY <1>5, <1>7, <1>9 DEF Failing
<1>13. Failing(es) \subseteq Failing(cs) \cup Failing(ds)
  <2> SUFFICES ASSUME NEW k \in 1 .. n + m, es[k].fails
               PROVE  es[k].names \in Failing(cs) \cup Failing(ds)
    BY <1>5 DEF Failing
  <2>1. CASE k \in 1 .. n
    BY <1>5, <1>6, <2>1 DEF Failing
  <2>2. CASE k - n \in 1 .. m /\ n + (k - n) = k
    <3>1. es[k] = ds[k - n]
      BY <1>7, <2>2
    <3> QED
      BY <1>5, <2>2, <3>1 DEF Failing
  <2> QED
    BY <1>10, <2>1, <2>2
<1>14. IsSeq(es)
  BY <1>4 DEF IsSeq
<1> QED
  BY <1>11, <1>12, <1>13, <1>14 DEF es

IsFamily(cs, n) == cs = [k \in 1 .. n |-> cs[k]]

LEMMA FailingFamily ==
  ASSUME NEW n \in Nat, NEW cs, IsFamily(cs, n)
  PROVE  /\ IsSeq(cs)
         /\ \A N : N \in Failing(cs) <=> \E k \in 1 .. n : cs[k].fails /\ N = cs[k].names
<1>1. DOMAIN cs = 1 .. n
  BY DEF IsFamily
<1>2. cs \in Seq({cs[k] : k \in 1 .. n})
  BY DEF IsFamily
<1> QED
  BY <1>1, <1>2 DEF IsSeq, Failing

(* What is wrong with one setting, or with two. *)
NoInt(f, k) == Get(f, k) # Unset /\ ~IsInt(Get(f, k))
NoRange(f, k) == Get(f, k) # Unset /\ ~IsRange(Get(f, k))
Negative(f, k) == IsGiven(f, k) /\ Number(f, k) < 0
JcOut(f) == IsGiven(f, "Jc") /\ Number(f, "Jc") \notin 1 .. 128
JmaxOut(f) == IsGiven(f, "Jmax") /\ Number(f, "Jmax") > 1280
JunkOrder(f) == IsGiven(f, "Jmin") /\ IsGiven(f, "Jmax") /\ Number(f, "Jmin") > Number(f, "Jmax")
SameSize(f, j, i) == IsGiven(f, Padding[j]) /\ IsGiven(f, Padding[i]) /\ Total(f, j) = Total(f, i)
Shared(f, i, j) == \E header \in 0 .. MaxHeader : Covers(f, i, header) /\ Covers(f, j, header)
NoNonce(f, k) == /\ Get(f, "HeaderProtectionKey") # Unset
                 /\ IsGiven(f, k) => Number(f, k) < NonceSize

LEMMA JunkFailing ==
  ASSUME NEW f
  PROVE  /\ IsSeq(JunkPacketChecks(f))
         /\ \A N : N \in Failing(JunkPacketChecks(f))
                   <=> \/ \E k \in {"Jc", "Jmin", "Jmax"} : N = {k} /\ NoInt(f, k)
                       \/ N = {"Jc"} /\ JcOut(f)
                       \/ N = {"Jmin", "Jmax"} /\ JunkOrder(f)
                       \/ N = {"Jmax"} /\ JmaxOut(f)
<1> DEFINE cs == JunkPacketChecks(f)
<1>1. IsFamily(cs, 6) /\ 6 \in Nat
  BY DEF JunkPacketChecks, IsFamily
<1>2. /\ cs[1] = IntCheck(f, "Jc") /\ cs[3] = IntCheck(f, "Jmin") /\ cs[4] = IntCheck(f, "Jmax")
      /\ cs[2] = Check({"Jc"}, JcOut(f))
      /\ cs[5] = Check({"Jmin", "Jmax"}, JunkOrder(f))
      /\ cs[6] = Check({"Jmax"}, JmaxOut(f))
  BY DEF JunkPacketChecks, JcOut, JunkOrder, JmaxOut
<1> HIDE DEF cs
<1>3. /\ cs[1].names = {"Jc"} /\ (cs[1].fails <=> NoInt(f, "Jc"))
      /\ cs[3].names = {"Jmin"} /\ (cs[3].fails <=> NoInt(f, "Jmin"))
      /\ cs[4].names = {"Jmax"} /\ (cs[4].fails <=> NoInt(f, "Jmax"))
  <2>1. \A k : IntCheck(f, k) = Check({k}, NoInt(f, k))
    BY DEF IntCheck, NoInt, IsGiven
  <2>2. /\ cs[1] = Check({"Jc"}, NoInt(f, "Jc")) /\ cs[3] = Check({"Jmin"}, NoInt(f, "Jmin"))
        /\ cs[4] = Check({"Jmax"}, NoInt(f, "Jmax"))
    BY <1>2, <2>1
  <2> QED
    BY <2>2 DEF Check
<1>4. /\ cs[2].names = {"Jc"} /\ (cs[2].fails <=> JcOut(f))
      /\ cs[5].names = {"Jmin", "Jmax"} /\ (cs[5].fails <=> JunkOrder(f))
      /\ cs[6].names = {"Jmax"} /\ (cs[6].fails <=> JmaxOut(f))
  BY <1>2 DEF Check
<1>5. IsSeq(cs) /\ \A N : N \in Failing(cs) <=> \E k \in 1 .. 6 : cs[k].fails /\ N = cs[k].names
  BY <1>1, FailingFamily
<1>6. 1 .. 6 = {1, 2, 3, 4, 5, 6}
  OBVIOUS
<1>7. ASSUME NEW N
      PROVE  (\E k \in 1 .. 6 : cs[k].fails /\ N = cs[k].names)
             <=> \/ \E k \in {"Jc", "Jmin", "Jmax"} : N = {k} /\ NoInt(f, k)
                 \/ N = {"Jc"} /\ JcOut(f)
                 \/ N = {"Jmin", "Jmax"} /\ JunkOrder(f)
                 \/ N = {"Jmax"} /\ JmaxOut(f)
  <2> DEFINE P(k) == cs[k].fails /\ N = cs[k].names
             Q(k) == N = {k} /\ NoInt(f, k)
  <2>1. P(1) <=> Q("Jc")
    BY <1>3
  <2>2. P(3) <=> Q("Jmin")
    BY <1>3
  <2>3. P(4) <=> Q("Jmax")
    BY <1>3
  <2>4. /\ P(2) <=> N = {"Jc"} /\ JcOut(f)
        /\ P(5) <=> N = {"Jmin", "Jmax"} /\ JunkOrder(f)
        /\ P(6) <=> N = {"Jmax"} /\ JmaxOut(f)
    BY <1>4
  <2>5. (\E k \in {"Jc", "Jmin", "Jmax"} : Q(k)) <=> Q("Jc") \/ Q("Jmin") \/ Q("Jmax")
    OBVIOUS
  <2> HIDE DEF P, Q
  <2>6. (\E k \in 1 .. 6 : P(k)) <=> P(1) \/ P(2) \/ P(3) \/ P(4) \/ P(5) \/ P(6)
    BY <1>6
  <2>7. (\E k \in 1 .. 6 : P(k))
        <=> \/ \E k \in {"Jc", "Jmin", "Jmax"} : Q(k)
            \/ N = {"Jc"} /\ JcOut(f)
            \/ N = {"Jmin", "Jmax"} /\ JunkOrder(f)
            \/ N = {"Jmax"} /\ JmaxOut(f)
    BY <2>1, <2>2, <2>3, <2>4, <2>5, <2>6
  <2> QED
    BY <2>7 DEF P, Q
<1> QED
  BY <1>5, <1>7 DEF cs

LEMMA PaddingFailing ==
  ASSUME NEW f
  PROVE  /\ IsSeq(PaddingChecks(f))
         /\ \A N : N \in Failing(PaddingChecks(f)) <=> \E k \in ToSet(Padding) : N = {k} /\ NoInt(f, k)
<1> DEFINE cs == PaddingChecks(f)
           Fails(N) == \E k \in 1 .. 4 : cs[k].fails /\ N = cs[k].names
           Wrong(N) == \E k \in ToSet(Padding) : N = {k} /\ NoInt(f, k)
<1>1. IsFamily(cs, 4) /\ 4 \in Nat /\ \A k \in 1 .. 4 : cs[k] = IntCheck(f, Padding[k])
  BY DEF PaddingChecks, IsFamily
<1> HIDE DEF cs
<1>2. \A k \in 1 .. 4 : cs[k] = Check({Padding[k]}, NoInt(f, Padding[k]))
  BY <1>1 DEF IntCheck, NoInt, IsGiven
<1>3. \A k \in 1 .. 4 : cs[k].names = {Padding[k]} /\ (cs[k].fails <=> NoInt(f, Padding[k]))
  BY <1>2 DEF Check
<1>4. IsSeq(cs) /\ \A N : N \in Failing(cs) <=> Fails(N)
  BY <1>1, FailingFamily
<1>5. ToSet(Padding) = {Padding[k] : k \in 1 .. 4}
  BY DEF ToSet, Padding
<1>6. \A N : Fails(N) <=> Wrong(N)
  BY <1>3, <1>5
<1> HIDE DEF Fails, Wrong
<1>7. \A N : N \in Failing(cs) <=> Wrong(N)
  BY <1>4, <1>6
<1> QED
  BY <1>4, <1>7 DEF cs, Wrong

LEMMA HeaderFailing ==
  ASSUME NEW f
  PROVE  /\ IsSeq(HeaderChecks(f))
         /\ \A N : N \in Failing(HeaderChecks(f)) <=> \E k \in ToSet(Header) : N = {k} /\ NoRange(f, k)
<1> DEFINE cs == HeaderChecks(f)
           Fails(N) == \E k \in 1 .. 4 : cs[k].fails /\ N = cs[k].names
           Wrong(N) == \E k \in ToSet(Header) : N = {k} /\ NoRange(f, k)
<1>1. IsFamily(cs, 4) /\ 4 \in Nat /\ \A k \in 1 .. 4 : cs[k] = RangeCheck(f, Header[k])
  BY DEF HeaderChecks, IsFamily
<1> HIDE DEF cs
<1>2. \A k \in 1 .. 4 : cs[k] = Check({Header[k]}, NoRange(f, Header[k]))
  BY <1>1 DEF RangeCheck, NoRange
<1>3. \A k \in 1 .. 4 : cs[k].names = {Header[k]} /\ (cs[k].fails <=> NoRange(f, Header[k]))
  BY <1>2 DEF Check
<1>4. IsSeq(cs) /\ \A N : N \in Failing(cs) <=> Fails(N)
  BY <1>1, FailingFamily
<1>5. ToSet(Header) = {Header[k] : k \in 1 .. 4}
  BY DEF ToSet, Header
<1>6. \A N : Fails(N) <=> Wrong(N)
  BY <1>3, <1>5
<1> HIDE DEF Fails, Wrong
<1>7. \A N : N \in Failing(cs) <=> Wrong(N)
  BY <1>4, <1>6
<1> QED
  BY <1>4, <1>7 DEF cs, Wrong

LEMMA OtherFailing ==
  ASSUME NEW f
  PROVE  /\ IsSeq(OtherChecks(f))
         /\ \A N : N \in Failing(OtherChecks(f)) <=> \E k \in ToSet(OtherRanges) : N = {k} /\ NoRange(f, k)
<1> DEFINE cs == OtherChecks(f)
           Fails(N) == \E k \in 1 .. 6 : cs[k].fails /\ N = cs[k].names
           Wrong(N) == \E k \in ToSet(OtherRanges) : N = {k} /\ NoRange(f, k)
<1>1. IsFamily(cs, 6) /\ 6 \in Nat /\ \A k \in 1 .. 6 : cs[k] = RangeCheck(f, OtherRanges[k])
  BY DEF OtherChecks, IsFamily
<1> HIDE DEF cs
<1>2. \A k \in 1 .. 6 : cs[k] = Check({OtherRanges[k]}, NoRange(f, OtherRanges[k]))
  BY <1>1 DEF RangeCheck, NoRange
<1>3. \A k \in 1 .. 6 : cs[k].names = {OtherRanges[k]} /\ (cs[k].fails <=> NoRange(f, OtherRanges[k]))
  BY <1>2 DEF Check
<1>4. IsSeq(cs) /\ \A N : N \in Failing(cs) <=> Fails(N)
  BY <1>1, FailingFamily
<1>5. ToSet(OtherRanges) = {OtherRanges[k] : k \in 1 .. 6}
  BY DEF ToSet, OtherRanges
<1>6. \A N : Fails(N) <=> Wrong(N)
  BY <1>3, <1>5
<1> HIDE DEF Fails, Wrong
<1>7. \A N : N \in Failing(cs) <=> Wrong(N)
  BY <1>4, <1>6
<1> QED
  BY <1>4, <1>7 DEF cs, Wrong

LEMMA ProtectionFailing ==
  ASSUME NEW f
  PROVE  /\ IsSeq(ProtectionChecks(f))
         /\ \A N : N \in Failing(ProtectionChecks(f)) <=>
                    \E k \in ToSet(Padding) : N = {"HeaderProtectionKey", k} /\ NoNonce(f, k)
<1> DEFINE cs == ProtectionChecks(f)
           Fails(N) == \E k \in 1 .. 4 : cs[k].fails /\ N = cs[k].names
           Wrong(N) == \E k \in ToSet(Padding) : N = {"HeaderProtectionKey", k} /\ NoNonce(f, k)
<1>1. IsFamily(cs, 4) /\ 4 \in Nat /\ \A k \in 1 .. 4 : cs[k] = NonceCheck(f, Padding[k])
  BY DEF ProtectionChecks, IsFamily
<1> HIDE DEF cs
<1>2. \A k \in 1 .. 4 : cs[k] = Check({"HeaderProtectionKey", Padding[k]}, NoNonce(f, Padding[k]))
  BY <1>1 DEF NonceCheck, NoNonce
<1>3. \A k \in 1 .. 4 : /\ cs[k].names = {"HeaderProtectionKey", Padding[k]}
                        /\ cs[k].fails <=> NoNonce(f, Padding[k])
  BY <1>2 DEF Check
<1>4. IsSeq(cs) /\ \A N : N \in Failing(cs) <=> Fails(N)
  BY <1>1, FailingFamily
<1>5. ToSet(Padding) = {Padding[k] : k \in 1 .. 4}
  BY DEF ToSet, Padding
<1>6. \A N : Fails(N) <=> Wrong(N)
  BY <1>3, <1>5
<1> HIDE DEF Fails, Wrong
<1>7. \A N : N \in Failing(cs) <=> Wrong(N)
  BY <1>4, <1>6
<1> QED
  BY <1>4, <1>7 DEF cs, Wrong

LEMMA SizeFailing ==
  ASSUME NEW f, NEW i \in 1 .. 4
  PROVE  /\ IsSeq(SizeChecks(f, i))
         /\ \A N : N \in Failing(SizeChecks(f, i))
                   <=> \/ N = {Padding[i]} /\ Negative(f, Padding[i])
                       \/ \E j \in 1 .. i - 1 : N = {Padding[j], Padding[i]} /\ SameSize(f, j, i)
<1> DEFINE cs == <<Check({Padding[i]}, Negative(f, Padding[i]))>>
           ds == [j \in 1 .. i - 1 |-> SizeCheck(f, j, i)]
<1>1. SizeChecks(f, i) = cs \o ds
  BY DEF SizeChecks, Negative
<1>2. IsFamily(cs, 1) /\ 1 \in Nat /\ cs[1] = Check({Padding[i]}, Negative(f, Padding[i]))
  BY DEF IsFamily
<1>3. /\ IsFamily(ds, i - 1) /\ i - 1 \in Nat
      /\ \A j \in 1 .. i - 1 : ds[j] = Check({Padding[j], Padding[i]}, SameSize(f, j, i))
  BY DEF IsFamily, SizeCheck, SameSize
<1> HIDE DEF cs, ds
<1>4. cs[1].names = {Padding[i]} /\ (cs[1].fails <=> Negative(f, Padding[i]))
  BY <1>2 DEF Check
<1>5. \A j \in 1 .. i - 1 : ds[j].names = {Padding[j], Padding[i]} /\ (ds[j].fails <=> SameSize(f, j, i))
  <2> TAKE j \in 1 .. i - 1
  <2>1. ds[j] = Check({Padding[j], Padding[i]}, SameSize(f, j, i))
    BY <1>3
  <2> QED
    BY <2>1 DEF Check
<1>6. IsSeq(cs) /\ \A N : N \in Failing(cs) <=> \E k \in 1 .. 1 : cs[k].fails /\ N = cs[k].names
  BY <1>2, FailingFamily
<1>7. IsSeq(ds) /\ \A N : N \in Failing(ds) <=> \E k \in 1 .. i - 1 : ds[k].fails /\ N = ds[k].names
  BY <1>3, FailingFamily
<1>8. \A N : N \in Failing(cs) <=> N = {Padding[i]} /\ Negative(f, Padding[i])
  BY <1>4, <1>6
<1>9. \A N : N \in Failing(ds)
            <=> \E j \in 1 .. i - 1 : N = {Padding[j], Padding[i]} /\ SameSize(f, j, i)
  BY <1>5, <1>7
<1>10. IsSeq(cs \o ds) /\ Failing(cs \o ds) = Failing(cs) \cup Failing(ds)
  BY <1>6, <1>7, FailingConcat
<1> QED
  BY <1>1, <1>8, <1>9, <1>10

LEMMA PacketFailing ==
  ASSUME NEW f
  PROVE  /\ IsSeq(PacketChecks(f))
         /\ \A N : N \in Failing(PacketChecks(f))
                   <=> \E i \in 1 .. 4 :
                           \/ N = {Padding[i]} /\ Negative(f, Padding[i])
                           \/ \E j \in 1 .. i - 1 : N = {Padding[j], Padding[i]} /\ SameSize(f, j, i)
<1> DEFINE C(i) == SizeChecks(f, i)
           Q(N, i) == \/ N = {Padding[i]} /\ Negative(f, Padding[i])
                      \/ \E j \in 1 .. i - 1 : N = {Padding[j], Padding[i]} /\ SameSize(f, j, i)
<1>1. \A i \in 1 .. 4 : IsSeq(C(i)) /\ \A N : N \in Failing(C(i)) <=> Q(N, i)
  BY SizeFailing
<1>2. PacketChecks(f) = C(1) \o C(2) \o C(3) \o C(4)
  BY DEF PacketChecks
<1> HIDE DEF C, Q
<1>3. 1 .. 4 = {1, 2, 3, 4}
  OBVIOUS
<1>4. IsSeq(C(1)) /\ IsSeq(C(2)) /\ IsSeq(C(3)) /\ IsSeq(C(4))
  BY <1>1, <1>3
<1>5. IsSeq(C(1) \o C(2)) /\ Failing(C(1) \o C(2)) = Failing(C(1)) \cup Failing(C(2))
  BY <1>4, FailingConcat
<1>6. /\ IsSeq(C(1) \o C(2) \o C(3))
      /\ Failing(C(1) \o C(2) \o C(3)) = Failing(C(1) \o C(2)) \cup Failing(C(3))
  BY <1>4, <1>5, FailingConcat
<1>7. /\ IsSeq(C(1) \o C(2) \o C(3) \o C(4))
      /\ Failing(C(1) \o C(2) \o C(3) \o C(4)) = Failing(C(1) \o C(2) \o C(3)) \cup Failing(C(4))
  BY <1>4, <1>6, FailingConcat
<1>8. \A N : N \in Failing(PacketChecks(f)) <=> Q(N, 1) \/ Q(N, 2) \/ Q(N, 3) \/ Q(N, 4)
  BY <1>1, <1>2, <1>3, <1>5, <1>6, <1>7
<1>9. \A N : N \in Failing(PacketChecks(f)) <=> \E i \in 1 .. 4 : Q(N, i)
  BY <1>3, <1>8
<1> QED
  BY <1>2, <1>7, <1>9 DEF Q

Touching(f, i, j) ==
  LET a == Interval(f, i)
      b == Interval(f, j)
  IN  IsRange(a) /\ IsRange(b) /\ a[1] <= Last(b) /\ b[1] <= Last(a)

LEMMA OverlapFailing ==
  ASSUME NEW f, NEW S, \A i \in 1 .. 4 : Interval(f, i) \in Seq(S)
  PROVE  /\ IsSeq(OverlapChecks(f))
         /\ \A N : N \in Failing(OverlapChecks(f))
                   <=> \E i \in 1 .. 4, j \in 1 .. 4 : i < j /\ N = {Header[i], Header[j]} /\ Shared(f, i, j)
<1> DEFINE cs == OverlapChecks(f)
           Q(N, i, j) == N = {Header[i], Header[j]} /\ Shared(f, i, j)
<1>1. IsFamily(cs, 6) /\ 6 \in Nat
  BY DEF OverlapChecks, IsFamily
<1>2. /\ cs[1] = OverlapCheck(f, 1, 2) /\ cs[2] = OverlapCheck(f, 1, 3) /\ cs[3] = OverlapCheck(f, 1, 4)
      /\ cs[4] = OverlapCheck(f, 2, 3) /\ cs[5] = OverlapCheck(f, 2, 4) /\ cs[6] = OverlapCheck(f, 3, 4)
  BY DEF OverlapChecks, Pairs
<1>3. ASSUME NEW i \in 1 .. 4, NEW j \in 1 .. 4
      PROVE  Touching(f, i, j) <=> Shared(f, i, j)
  <2>1. Interval(f, i) \in Seq(S) /\ Interval(f, j) \in Seq(S) /\ MaxHeader \in Nat
    BY BoundsAssumption
  <2>2. OverlapCheck(f, i, j).fails <=> Shared(f, i, j)
    BY <2>1, OverlapIsSharing DEF Shared
  <2> QED
    BY <2>2 DEF OverlapCheck, Touching, Check
<1> HIDE DEF cs
<1>4. ASSUME NEW N, NEW n, NEW i \in 1 .. 4, NEW j \in 1 .. 4, cs[n] = OverlapCheck(f, i, j)
      PROVE  (cs[n].fails /\ N = cs[n].names) <=> Q(N, i, j)
  <2>1. cs[n] = Check({Header[i], Header[j]}, Touching(f, i, j))
    BY <1>4 DEF OverlapCheck, Touching
  <2>2. cs[n].names = {Header[i], Header[j]} /\ (cs[n].fails <=> Touching(f, i, j))
    BY <2>1 DEF Check
  <2> QED
    BY <1>3, <2>2
<1>5. IsSeq(cs) /\ \A N : N \in Failing(cs) <=> \E k \in 1 .. 6 : cs[k].fails /\ N = cs[k].names
  BY <1>1, FailingFamily
<1> HIDE DEF Q
<1>6. \A N : N \in Failing(cs) <=> \/ Q(N, 1, 2) \/ Q(N, 1, 3) \/ Q(N, 1, 4)
                                   \/ Q(N, 2, 3) \/ Q(N, 2, 4) \/ Q(N, 3, 4)
  <2> TAKE N
  <2> DEFINE F(n) == cs[n].fails /\ N = cs[n].names
  <2>0. 1 \in 1 .. 4 /\ 2 \in 1 .. 4 /\ 3 \in 1 .. 4 /\ 4 \in 1 .. 4
    OBVIOUS
  <2>1. ASSUME NEW n, NEW i \in 1 .. 4, NEW j \in 1 .. 4, cs[n] = OverlapCheck(f, i, j)
        PROVE  F(n) <=> Q(N, i, j)
    BY <1>4, <2>1
  <2>2. N \in Failing(cs) <=> \E n \in 1 .. 6 : F(n)
    BY <1>5
  <2> HIDE DEF F
  <2>3. (F(1) <=> Q(N, 1, 2)) /\ (F(2) <=> Q(N, 1, 3)) /\ (F(3) <=> Q(N, 1, 4))
    BY <1>2, <2>0, <2>1
  <2>4. (F(4) <=> Q(N, 2, 3)) /\ (F(5) <=> Q(N, 2, 4)) /\ (F(6) <=> Q(N, 3, 4))
    BY <1>2, <2>0, <2>1
  <2>5. 1 .. 6 = {1, 2, 3, 4, 5, 6}
    OBVIOUS
  <2> QED
    BY <2>2, <2>3, <2>4, <2>5
<1>7. ASSUME NEW N
      PROVE  (\E i \in 1 .. 4, j \in 1 .. 4 : i < j /\ Q(N, i, j))
             <=> \/ Q(N, 1, 2) \/ Q(N, 1, 3) \/ Q(N, 1, 4)
                 \/ Q(N, 2, 3) \/ Q(N, 2, 4) \/ Q(N, 3, 4)
  <2>1. 1 .. 4 = {1, 2, 3, 4}
    OBVIOUS
  <2> QED
    BY <2>1
<1>8. \A N : N \in Failing(cs) <=> \E i \in 1 .. 4, j \in 1 .. 4 : i < j /\ Q(N, i, j)
  BY <1>6, <1>7
<1> QED
  BY <1>5, <1>8 DEF cs, Q

LEMMA PeerFailing ==
  ASSUME NEW p, Len(p) \in Nat
  PROVE  /\ IsSeq(PeerChecks(p))
         /\ \A N : N \in Failing(PeerChecks(p))
                   <=> \E i \in 1 .. Len(p), k \in {"PublicKey", "Endpoint"} :
                           N = {k} /\ IsPeer(p[i]) /\ Missing(p[i], k)
<1> DEFINE cs == PeerChecks(p)
           n == Len(p)
           Lacks(i, k) == IsPeer(p[i]) /\ Missing(p[i], k)
<1>1. IsFamily(cs, 2 * n) /\ n \in Nat /\ 2 * n \in Nat
  BY DEF PeerChecks, IsFamily
<1>2. /\ \A i \in 1 .. n : 2 * i - 1 \in 1 .. 2 * n /\ 2 * i \in 1 .. 2 * n
      /\ \A m \in 1 .. 2 * n : \E i \in 1 .. n : m = 2 * i - 1 \/ m = 2 * i
  <2>1. \A i \in 1 .. n : 2 * i - 1 \in 1 .. 2 * n /\ 2 * i \in 1 .. 2 * n
    BY <1>1
  <2>2. ASSUME NEW m \in 1 .. 2 * n PROVE \E i \in 1 .. n : m = 2 * i - 1 \/ m = 2 * i
    <3>1. (m + 1) \div 2 \in 1 .. n /\ (m = 2 * ((m + 1) \div 2) - 1 \/ m = 2 * ((m + 1) \div 2))
      BY <1>1
    <3> QED
      BY <3>1
  <2> QED
    BY <2>1, <2>2
<1>3. ASSUME NEW i \in 1 .. n
      PROVE  cs[2 * i - 1] = PeerCheck(p[i], "PublicKey") /\ cs[2 * i] = PeerCheck(p[i], "Endpoint")
  <2>1. /\ (2 * i - 1) % 2 = 1 /\ ((2 * i - 1) + 1) \div 2 = i
        /\ (2 * i) % 2 = 0 /\ (2 * i) \div 2 = i
    BY <1>1
  <2> QED
    BY <1>2, <2>1 DEF PeerChecks
<1> HIDE DEF cs, n
<1>4. ASSUME NEW i \in 1 .. n
      PROVE  /\ cs[2 * i - 1].names = {"PublicKey"} /\ (cs[2 * i - 1].fails <=> Lacks(i, "PublicKey"))
             /\ cs[2 * i].names = {"Endpoint"} /\ (cs[2 * i].fails <=> Lacks(i, "Endpoint"))
  <2>1. \A k : PeerCheck(p[i], k) = Check({k}, Lacks(i, k))
    BY DEF PeerCheck
  <2>2. /\ cs[2 * i - 1] = Check({"PublicKey"}, Lacks(i, "PublicKey"))
        /\ cs[2 * i] = Check({"Endpoint"}, Lacks(i, "Endpoint"))
    BY <1>3, <2>1
  <2> HIDE DEF Lacks
  <2> QED
    BY <2>2 DEF Check
<1> HIDE DEF Lacks
<1>5. IsSeq(cs) /\ \A N : N \in Failing(cs) <=> \E m \in 1 .. 2 * n : cs[m].fails /\ N = cs[m].names
  BY <1>1, FailingFamily
<1>6. ASSUME NEW N, N \in Failing(cs)
      PROVE  \E i \in 1 .. n, k \in {"PublicKey", "Endpoint"} : N = {k} /\ Lacks(i, k)
  <2>1. PICK m \in 1 .. 2 * n : cs[m].fails /\ N = cs[m].names
    BY <1>5, <1>6
  <2>2. PICK i \in 1 .. n : m = 2 * i - 1 \/ m = 2 * i
    BY <1>2
  <2> QED
    BY <1>4, <2>1, <2>2
<1>7. ASSUME NEW N, NEW i \in 1 .. n, NEW k \in {"PublicKey", "Endpoint"}, N = {k}, Lacks(i, k)
      PROVE  N \in Failing(cs)
  <2>1. CASE k = "PublicKey"
    BY <1>2, <1>4, <1>5, <1>7, <2>1
  <2>2. CASE k = "Endpoint"
    BY <1>2, <1>4, <1>5, <1>7, <2>2
  <2> QED
    BY <2>1, <2>2
<1>8. \A N : N \in Failing(cs) <=> \E i \in 1 .. n, k \in {"PublicKey", "Endpoint"} : N = {k} /\ Lacks(i, k)
  BY <1>6, <1>7
<1> QED
  BY <1>5, <1>8 DEF cs, n, Lacks
LEMMA KeySets ==
  /\ ToSet(IntKeys) = {"Jc", "Jmin", "Jmax"} \cup ToSet(Padding)
  /\ ToSet(Padding) = {Padding[i] : i \in 1 .. 4}
<1>1. ToSet(Padding) = {"S1", "S2", "S3", "S4"}
  BY DEF ToSet, Padding
<1>2. ToSet(IntKeys) = {"Jc", "Jmin", "Jmax", "S1", "S2", "S3", "S4"}
  BY DEF ToSet, IntKeys
<1>3. ToSet(Padding) = {Padding[i] : i \in 1 .. 4}
  BY DEF ToSet, Padding
<1> QED
  BY <1>1, <1>2, <1>3

LEMMA UnreadableNames ==
  ASSUME NEW f, NEW N
  PROVE  N \in Unreadable(f)
         <=> \/ \E k \in {"Jc", "Jmin", "Jmax"} : N = {k} /\ NoInt(f, k)
             \/ \E k \in ToSet(Padding) : N = {k} /\ NoInt(f, k)
             \/ \E k \in ToSet(Header) : N = {k} /\ NoRange(f, k)
             \/ \E k \in ToSet(OtherRanges) : N = {k} /\ NoRange(f, k)
<1>1. N \in Unreadable(f)
      <=> \/ \E k \in ToSet(IntKeys) : N = {k} /\ NoInt(f, k)
          \/ \E k \in ToSet(Header) \cup ToSet(OtherRanges) : N = {k} /\ NoRange(f, k)
  BY DEF Unreadable, NoInt, NoRange
<1> QED
  BY <1>1, KeySets

LEMMA OutOfBoundsNames ==
  ASSUME NEW f, NEW N
  PROVE  N \in OutOfBounds(f)
         <=> \/ N = {"Jc"} /\ JcOut(f)
             \/ N = {"Jmax"} /\ JmaxOut(f)
             \/ \E k \in ToSet(Padding) : N = {k} /\ Negative(f, k)
             \/ N = {"Jmin", "Jmax"} /\ JunkOrder(f)
             \/ \E k \in ToSet(Padding) : N = {"HeaderProtectionKey", k} /\ NoNonce(f, k)
<1> DEFINE A == {{key} : key \in
                   {k \in Given(f) : \/ k = "Jc" /\ Number(f, k) \notin 1 .. 128
                                     \/ k = "Jmax" /\ Number(f, k) > 1280
                                     \/ k \in ToSet(Padding) /\ Number(f, k) < 0}}
           B == {pair \in {{"Jmin", "Jmax"}} :
                   pair \subseteq Given(f) /\ Number(f, "Jmin") > Number(f, "Jmax")}
           C == {{"HeaderProtectionKey", key} : key \in
                   {k \in ToSet(Padding) : /\ Get(f, "HeaderProtectionKey") # Unset
                                           /\ k \notin Given(f) \/ Number(f, k) < NonceSize}}
<1>1. OutOfBounds(f) = A \cup B \cup C
  BY DEF OutOfBounds
<1>2. \A k : k \in Given(f) <=> (k \in {"Jc", "Jmin", "Jmax"} \/ k \in ToSet(Padding)) /\ IsGiven(f, k)
  BY KeySets DEF Given
<1>3. N \in A <=> \/ N = {"Jc"} /\ JcOut(f)
                  \/ N = {"Jmax"} /\ JmaxOut(f)
                  \/ \E k \in ToSet(Padding) : N = {k} /\ Negative(f, k)
  BY <1>2 DEF JcOut, JmaxOut, Negative
<1>4. N \in B <=> N = {"Jmin", "Jmax"} /\ JunkOrder(f)
  BY <1>2 DEF JunkOrder
<1>5. N \in C <=> \E k \in ToSet(Padding) : N = {"HeaderProtectionKey", k} /\ NoNonce(f, k)
  BY <1>2 DEF NoNonce
<1> HIDE DEF A, B, C
<1> QED
  BY <1>1, <1>3, <1>4, <1>5

LEMMA AmbiguousNames ==
  ASSUME NEW f, NEW N
  PROVE  N \in Ambiguous(f)
         <=> \/ \E i \in 1 .. 4 : \E j \in 1 .. i - 1 : N = {Padding[j], Padding[i]} /\ SameSize(f, j, i)
             \/ \E i \in 1 .. 4, j \in 1 .. 4 : i < j /\ N = {Header[i], Header[j]} /\ Shared(f, i, j)
<1> DEFINE pairs == {q \in (1 .. 4) \X (1 .. 4) : q[1] < q[2]}
           A == {{Padding[q[1]], Padding[q[2]]} : q \in {r \in pairs : Alike(f, r[1], r[2])}}
           B == {{Header[q[1]], Header[q[2]]} : q \in {r \in pairs : Shared(f, r[1], r[2])}}
<1>0. /\ \A q \in pairs : q[1] \in 1 .. 4 /\ q[2] \in 1 .. 4 /\ q[1] < q[2]
      /\ \A i \in 1 .. 4, j \in 1 .. 4 :
             i < j => <<i, j>> \in pairs /\ <<i, j>>[1] = i /\ <<i, j>>[2] = j
  OBVIOUS
<1>1. Ambiguous(f) = A \cup B
  BY DEF Ambiguous, Shared
<1>2. \A k \in ToSet(Padding) : k \in Given(f) <=> IsGiven(f, k)
  BY KeySets DEF Given
<1>3. ASSUME NEW i \in 1 .. 4, NEW j \in 1 .. 4 PROVE Alike(f, i, j) <=> SameSize(f, i, j)
  BY <1>2, KeySets DEF Alike, SameSize
<1>4. N \in A <=> \E i \in 1 .. 4, j \in 1 .. 4 : i < j /\ N = {Padding[i], Padding[j]} /\ SameSize(f, i, j)
  <2>1. N \in A <=> \E q \in pairs : SameSize(f, q[1], q[2]) /\ N = {Padding[q[1]], Padding[q[2]]}
    BY <1>3
  <2> HIDE DEF pairs
  <2> QED
    BY <1>0, <2>1
<1>5. N \in B <=> \E i \in 1 .. 4, j \in 1 .. 4 : i < j /\ N = {Header[i], Header[j]} /\ Shared(f, i, j)
  <2>1. N \in B <=> \E q \in pairs : Shared(f, q[1], q[2]) /\ N = {Header[q[1]], Header[q[2]]}
    OBVIOUS
  <2> HIDE DEF pairs
  <2> QED
    BY <1>0, <2>1
<1>6. (\E i \in 1 .. 4, j \in 1 .. 4 : i < j /\ N = {Padding[i], Padding[j]} /\ SameSize(f, i, j))
      <=> \E i \in 1 .. 4 : \E j \in 1 .. i - 1 : N = {Padding[j], Padding[i]} /\ SameSize(f, j, i)
  <2>1. \A i \in 1 .. 4, j \in 1 .. 4 : i < j => i \in 1 .. j - 1
    OBVIOUS
  <2>2. \A i \in 1 .. 4 : \A j \in 1 .. i - 1 : j \in 1 .. 4 /\ j < i
    OBVIOUS
  <2> QED
    BY <2>1, <2>2
<1> HIDE DEF A, B
<1> QED
  BY <1>1, <1>4, <1>5, <1>6

(* The checks on the obfuscation parameters are exact: what fails is wrong,
   and what is wrong fails. *)
LEMMA ObfuscationFailing ==
  ASSUME NEW f, NEW S, \A i \in 1 .. 4 : Interval(f, i) \in Seq(S)
  PROVE  /\ IsSeq(ObfuscationChecks(f))
         /\ Failing(ObfuscationChecks(f)) = Unreadable(f) \cup OutOfBounds(f) \cup Ambiguous(f)
<1> DEFINE c1 == JunkPacketChecks(f)
           c2 == c1 \o PaddingChecks(f)
           c3 == c2 \o PacketChecks(f)
           c4 == c3 \o HeaderChecks(f)
           c5 == c4 \o OverlapChecks(f)
           c6 == c5 \o OtherChecks(f)
           c7 == c6 \o ProtectionChecks(f)
<1>1. c7 = ObfuscationChecks(f)
  BY DEF ObfuscationChecks
<1>2. IsSeq(c1)
  BY JunkFailing
<1>3. IsSeq(c2) /\ Failing(c2) = Failing(c1) \cup Failing(PaddingChecks(f))
  BY <1>2, PaddingFailing, FailingConcat
<1>4. IsSeq(c3) /\ Failing(c3) = Failing(c2) \cup Failing(PacketChecks(f))
  BY <1>3, PacketFailing, FailingConcat
<1>5. IsSeq(c4) /\ Failing(c4) = Failing(c3) \cup Failing(HeaderChecks(f))
  BY <1>4, HeaderFailing, FailingConcat
<1>6. IsSeq(c5) /\ Failing(c5) = Failing(c4) \cup Failing(OverlapChecks(f))
  <2>1. IsSeq(OverlapChecks(f))
    BY OverlapFailing
  <2> QED
    BY <1>5, <2>1, FailingConcat
<1>7. IsSeq(c6) /\ Failing(c6) = Failing(c5) \cup Failing(OtherChecks(f))
  BY <1>6, OtherFailing, FailingConcat
<1>8. IsSeq(c7) /\ Failing(c7) = Failing(c6) \cup Failing(ProtectionChecks(f))
  BY <1>7, ProtectionFailing, FailingConcat
<1>9. ASSUME NEW N
      PROVE  N \in Failing(c7) <=> N \in Unreadable(f) \cup OutOfBounds(f) \cup Ambiguous(f)
  <2> DEFINE Junk3 == \E k \in {"Jc", "Jmin", "Jmax"} : N = {k} /\ NoInt(f, k)
             Ints == \E k \in ToSet(Padding) : N = {k} /\ NoInt(f, k)
             Low == \E k \in ToSet(Padding) : N = {k} /\ Negative(f, k)
             Same == \E i \in 1 .. 4 : \E j \in 1 .. i - 1 : N = {Padding[j], Padding[i]} /\ SameSize(f, j, i)
             Heads == \E k \in ToSet(Header) : N = {k} /\ NoRange(f, k)
             Shares == \E i \in 1 .. 4, j \in 1 .. 4 : i < j /\ N = {Header[i], Header[j]} /\ Shared(f, i, j)
             Others == \E k \in ToSet(OtherRanges) : N = {k} /\ NoRange(f, k)
             Nonces == \E k \in ToSet(Padding) : N = {"HeaderProtectionKey", k} /\ NoNonce(f, k)
             Jc == N = {"Jc"} /\ JcOut(f)
             Order == N = {"Jmin", "Jmax"} /\ JunkOrder(f)
             Jmax == N = {"Jmax"} /\ JmaxOut(f)
  <2>1. N \in Failing(c1) <=> Junk3 \/ Jc \/ Order \/ Jmax
    BY JunkFailing
  <2>2. N \in Failing(PaddingChecks(f)) <=> Ints
    BY PaddingFailing
  <2>3. N \in Failing(PacketChecks(f)) <=> Low \/ Same
    <3>1. N \in Failing(PacketChecks(f))
          <=> \E i \in 1 .. 4 :
                  \/ N = {Padding[i]} /\ Negative(f, Padding[i])
                  \/ \E j \in 1 .. i - 1 : N = {Padding[j], Padding[i]} /\ SameSize(f, j, i)
      BY PacketFailing
    <3>2. Low <=> \E i \in 1 .. 4 : N = {Padding[i]} /\ Negative(f, Padding[i])
      BY KeySets
    <3> QED
      BY <3>1, <3>2
  <2>4. N \in Failing(HeaderChecks(f)) <=> Heads
    BY HeaderFailing
  <2>5. N \in Failing(OverlapChecks(f)) <=> Shares
    BY OverlapFailing
  <2>6. N \in Failing(OtherChecks(f)) <=> Others
    BY OtherFailing
  <2>7. N \in Failing(ProtectionChecks(f)) <=> Nonces
    BY ProtectionFailing
  <2>8. N \in Unreadable(f) <=> Junk3 \/ Ints \/ Heads \/ Others
    BY UnreadableNames
  <2>9. N \in OutOfBounds(f) <=> Jc \/ Jmax \/ Low \/ Order \/ Nonces
    BY OutOfBoundsNames
  <2>10. N \in Ambiguous(f) <=> Same \/ Shares
    BY AmbiguousNames
  <2> HIDE DEF Junk3, Ints, Low, Same, Heads, Shares, Others, Nonces, Jc, Order, Jmax,
               c1, c2, c3, c4, c5, c6, c7
  <2> QED
    BY <1>3, <1>4, <1>5, <1>6, <1>7, <1>8,
       <2>1, <2>2, <2>3, <2>4, <2>5, <2>6, <2>7, <2>8, <2>9, <2>10
<1> HIDE DEF c7
<1> QED
  BY <1>1, <1>8, <1>9

(* The settings of a text, as validate() reads them *)

LEMMA GetFinds ==
  ASSUME NEW section, NEW key, Len(section.entries) \in Nat
  PROVE  \/ Get(section, key) = Unset /\ \A i \in 1 .. Len(section.entries) : section.entries[i].key # key
         \/ \E i \in 1 .. Len(section.entries) :
               section.entries[i].key = key /\ Get(section, key) = section.entries[i].value
<1> DEFINE e == section.entries
           I == {i \in 1 .. Len(e) : e[i].key = key}
           m == IF I # {} THEN Min(I) ELSE 0
<1>1. Get(section, key) = IF m = 0 THEN Unset ELSE e[m].value
  BY DEF Get, SelectInSeq
<1>2. CASE I = {}
  BY <1>1, <1>2
<1>3. CASE I # {}
  <2>1. I \in SUBSET Nat /\ Len(e) \in Nat
    OBVIOUS
  <2>2. m \in I
    BY <1>3, <2>1, MinIsLeast
  <2>3. m \in 1 .. Len(e) /\ e[m].key = key /\ m # 0
    BY <2>1, <2>2
  <2> HIDE DEF m
  <2> QED
    BY <1>1, <2>3
<1> QED
  BY <1>2, <1>3

LEMMA InterfaceFound ==
  ASSUME NEW p, Len(p) \in Nat, DOMAIN p = 1 .. Len(p), HasInterface(p)
  PROVE  \E i \in 1 .. Len(p) : Interface(p) = p[i] /\ p[i].name = "Interface"
<1> DEFINE I == {i \in 1 .. Len(p) : p[i].name = "Interface"}
           m == IF I # {} THEN Min(I) ELSE 0
<1>1. Interface(p) = p[m]
  BY DEF Interface, SelectInSeq
<1>2. I \in SUBSET Nat /\ I # {}
  BY DEF HasInterface
<1>3. m \in I
  BY <1>2, MinIsLeast
<1> HIDE DEF m
<1> QED
  BY <1>1, <1>3

(* A section over some lines *)
LEMMA SectionsAre ==
  ASSUME NEW A, NEW p \in SectionsOver(A)
  PROVE  /\ Len(p) \in Nat /\ DOMAIN p = 1 .. Len(p)
         /\ \A i \in 1 .. Len(p) : p[i].entries \in Seq(SettingsOf(A))
<1> DEFINE Sec == [name : {l.name : l \in A}, entries : Seq(SettingsOf(A))]
<1>1. p \in Seq(Sec)
  BY DEF SectionsOver
<1>2. \A s \in Sec : s.entries \in Seq(SettingsOf(A))
  OBVIOUS
<1> HIDE DEF Sec
<1> QED
  BY <1>1, <1>2

LEMMA HeadersTyped ==
  ASSUME NEW t, IsText(t), HasInterface(Sections(t))
  PROVE  \A i \in 1 .. 4 : Interval(Interface(Sections(t)), i) \in Seq(Parts \cup Nat)
<1> DEFINE f == Interface(Sections(t))
<1>1. Sections(t) \in SectionsOver(Alphabet)
  BY SectionsType DEF IsText
<1>2. f.entries \in Seq(SettingsOf(Alphabet))
  BY <1>1, SectionsAre, InterfaceFound
<1> HIDE DEF f
<1>3. ASSUME NEW key PROVE Get(f, key) = Unset \/ Get(f, key) \in Seq(Parts)
  <2>1. \A i \in 1 .. Len(f.entries) : f.entries[i].value \in Seq(Parts)
    <3>1. \A i \in 1 .. Len(f.entries) : f.entries[i] \in SettingsOf(Alphabet)
      BY <1>2
    <3> QED
      BY <3>1, TextAssumption DEF SettingsOf
  <2>2. \/ Get(f, key) = Unset
        \/ \E i \in 1 .. Len(f.entries) : Get(f, key) = f.entries[i].value
    <3>1. Len(f.entries) \in Nat
      BY <1>2
    <3> QED
      BY <3>1, GetFinds
  <2> QED
    BY <2>1, <2>2
<1>4. ASSUME NEW i \in 1 .. 4 PROVE Interval(f, i) \in Seq(Parts \cup Nat)
  <2>1. CASE Get(f, Header[i]) = Unset
    <3>1. i \in Parts \cup Nat
      OBVIOUS
    <3> QED
      BY <2>1, <3>1 DEF Interval
  <2>2. CASE Get(f, Header[i]) # Unset
    <3>1. Get(f, Header[i]) \in Seq(Parts)
      BY <1>3, <2>2
    <3>2. Get(f, Header[i]) \in Seq(Parts \cup Nat)
      <4>1. Parts \subseteq Parts \cup Nat
        OBVIOUS
      <4> QED
        BY <3>1, <4>1, SeqWiden
    <3> QED
      BY <2>2, <3>2 DEF Interval
  <2> QED
    BY <2>1, <2>2
<1> QED
  BY <1>4 DEF f

(* validate() as a whole, but for the key: that add() finds none is Refusal's. *)
LEMMA ChecksFailing ==
  ASSUME NEW t, IsText(t), HasInterface(Sections(t))
  PROVE  /\ IsSeq(Checks(Sections(t)))
         /\ \A N : N \in Contradictions(t)
                   <=> N \in Failing(Checks(Sections(t))) \/ (~HasKey(t) /\ N = {"PrivateKey"})
<1> DEFINE p == Sections(t)
           f == Interface(p)
           cs == <<Require(f, "PrivateKey"), Require(f, "Address"),
                   Check({"[Peer]"}, \A i \in DOMAIN p : ~IsPeer(p[i]))>>
           NoPeer == \A i \in DOMAIN p : ~IsPeer(p[i])
           O == ObfuscationChecks(f)
           W == Unreadable(f) \cup OutOfBounds(f) \cup Ambiguous(f)
<1>1. Len(p) \in Nat /\ DOMAIN p = 1 .. Len(p)
  <2>1. p \in SectionsOver(Alphabet)
    BY SectionsType DEF IsText
  <2> HIDE DEF p
  <2> QED
    BY <2>1, SectionsAre
<1>2. IsSeq(O) /\ Failing(O) = W
  BY HeadersTyped, ObfuscationFailing
<1>3. Checks(p) = cs \o PeerChecks(p) \o O
  BY DEF Checks
<1>4. Contradictions(t) = Absent(t, p) \cup W
  BY DEF Contradictions
<1> HIDE DEF p, f, O, W
<1>5. IsFamily(cs, 3) /\ 3 \in Nat /\ 1 .. 3 = {1, 2, 3}
  BY DEF IsFamily
<1>6. /\ cs[1] = Check({"PrivateKey"}, Missing(f, "PrivateKey"))
      /\ cs[2] = Check({"Address"}, Missing(f, "Address"))
      /\ cs[3] = Check({"[Peer]"}, NoPeer)
  BY DEF Require
<1> HIDE DEF cs, NoPeer
<1>7. /\ cs[1].names = {"PrivateKey"} /\ (cs[1].fails <=> Missing(f, "PrivateKey"))
      /\ cs[2].names = {"Address"} /\ (cs[2].fails <=> Missing(f, "Address"))
      /\ cs[3].names = {"[Peer]"} /\ (cs[3].fails <=> NoPeer)
  BY <1>6 DEF Check
<1>8. IsSeq(cs) /\ \A N : N \in Failing(cs) <=> \E k \in 1 .. 3 : cs[k].fails /\ N = cs[k].names
  BY <1>5, FailingFamily
<1>9. IsSeq(PeerChecks(p))
  BY <1>1, PeerFailing
<1>10. IsSeq(cs \o PeerChecks(p)) /\ Failing(cs \o PeerChecks(p)) = Failing(cs) \cup Failing(PeerChecks(p))
  BY <1>8, <1>9, FailingConcat
<1>11. /\ IsSeq(cs \o PeerChecks(p) \o O)
       /\ Failing(cs \o PeerChecks(p) \o O) = Failing(cs \o PeerChecks(p)) \cup Failing(O)
  BY <1>2, <1>10, FailingConcat
<1>12. ASSUME NEW N
       PROVE  N \in Absent(t, p) <=> \/ N \in Failing(cs) \cup Failing(PeerChecks(p))
                                     \/ ~HasKey(t) /\ N = {"PrivateKey"}
  <2> DEFINE Lack == \E i \in 1 .. Len(p), k \in {"PublicKey", "Endpoint"} :
                         N = {k} /\ IsPeer(p[i]) /\ Missing(p[i], k)
  <2>1. N \in Absent(t, p)
        <=> \/ N = {"PrivateKey"} /\ Missing(f, "PrivateKey")
            \/ N = {"Address"} /\ Missing(f, "Address")
            \/ N = {"PrivateKey"} /\ ~HasKey(t)
            \/ N = {"[Peer]"} /\ NoPeer
            \/ Lack
    BY <1>1 DEF Absent, f, NoPeer
  <2>2. N \in Failing(PeerChecks(p)) <=> Lack
    BY <1>1, PeerFailing
  <2> HIDE DEF Lack
  <2>3. N \in Failing(cs)
        <=> \/ N = {"PrivateKey"} /\ Missing(f, "PrivateKey")
            \/ N = {"Address"} /\ Missing(f, "Address")
            \/ N = {"[Peer]"} /\ NoPeer
    <3> DEFINE F(k) == cs[k].fails /\ N = cs[k].names
    <3>1. N \in Failing(cs) <=> \E k \in 1 .. 3 : F(k)
      BY <1>8
    <3>2. /\ F(1) <=> (N = {"PrivateKey"} /\ Missing(f, "PrivateKey"))
          /\ F(2) <=> (N = {"Address"} /\ Missing(f, "Address"))
          /\ F(3) <=> (N = {"[Peer]"} /\ NoPeer)
      BY <1>7
    <3> HIDE DEF F
    <3>3. (\E k \in 1 .. 3 : F(k)) <=> F(1) \/ F(2) \/ F(3)
      BY <1>5
    <3> QED
      BY <3>1, <3>2, <3>3
  <2> QED
    BY <2>1, <2>2, <2>3
<1>13. \A N : N \in Contradictions(t)
             <=> N \in Failing(Checks(p)) \/ (~HasKey(t) /\ N = {"PrivateKey"})
  BY <1>2, <1>3, <1>4, <1>10, <1>11, <1>12
<1> QED
  BY <1>3, <1>11, <1>13 DEF p

(* Every contradiction names a setting. *)
LEMMA NoneNameless ==
  ASSUME NEW t
  PROVE  {} \notin Contradictions(t)
<1> DEFINE f == Interface(Sections(t))
<1>1. {} \notin Absent(t, Sections(t))
  BY DEF Absent
<1>2. {} \notin Unreadable(f) \cup OutOfBounds(f) \cup Ambiguous(f)
  <2> HIDE DEF f
  <2>1. {} \notin Unreadable(f)
    BY DEF Unreadable
  <2>2. {} \notin OutOfBounds(f)
    BY DEF OutOfBounds
  <2>3. {} \notin Ambiguous(f)
    BY DEF Ambiguous
  <2> QED
    BY <2>1, <2>2, <2>3
<1> QED
  BY <1>1, <1>2 DEF Contradictions

LEMMA FirstFailing ==
  ASSUME NEW cs, IsSeq(cs)
  PROVE  LET i == SelectInSeq(cs, LAMBDA c : c.fails)
         IN  IF i = 0 THEN Failing(cs) = {} ELSE cs[i].names \in Failing(cs)
<1> DEFINE I == {i \in 1 .. Len(cs) : cs[i].fails}
           m == IF I # {} THEN Min(I) ELSE 0
<1>1. Len(cs) \in Nat /\ DOMAIN cs = 1 .. Len(cs)
  BY DEF IsSeq
<1>2. SelectInSeq(cs, LAMBDA c : c.fails) = m
  BY DEF SelectInSeq
<1>3. CASE I = {}
  BY <1>1, <1>2, <1>3 DEF Failing
<1>4. CASE I # {}
  <2>1. I \in SUBSET Nat
    BY <1>1
  <2>2. m \in I /\ m # 0
    BY <1>4, <2>1, MinIsLeast
  <2> HIDE DEF m
  <2>3. cs[m].names \in Failing(cs)
    BY <1>1, <2>2 DEF Failing
  <2> QED
    BY <1>2, <2>2, <2>3
<1> QED
  BY <1>3, <1>4

(* parse() accepts exactly the texts without a contradiction, but for the key. *)
LEMMA ComplaintFails ==
  ASSUME NEW t, IsText(t), ~HasLineError(t), HasInterface(Sections(t))
  PROVE  IF Complaint(t) = {} THEN Failing(Checks(Sections(t))) = {}
         ELSE Complaint(t) \in Failing(Checks(Sections(t)))
<1> DEFINE cs == Checks(Sections(t))
           i == SelectInSeq(cs, LAMBDA c : c.fails)
<1>1. IsSeq(cs)
  BY ChecksFailing
<1>2. IF i = 0 THEN Failing(cs) = {} ELSE cs[i].names \in Failing(cs)
  BY <1>1, FirstFailing
<1>3. Complaint(t) = IF i = 0 THEN {} ELSE cs[i].names
  BY DEF Complaint
<1>4. {} \notin Failing(cs)
  BY ChecksFailing, NoneNameless
<1> HIDE DEF cs, i
<1> QED
  BY <1>2, <1>3, <1>4 DEF cs

Accepted(t) == Complaint(t) = {} /\ HasKey(t)

LEMMA AcceptedIsFaultless ==
  ASSUME NEW t, IsText(t), Accepted(t)
  PROVE  /\ ~HasLineError(t) /\ HasInterface(Sections(t))
         /\ Contradictions(t) = {}
<1>1. ~HasLineError(t) /\ HasInterface(Sections(t))
  BY DEF Accepted, Complaint
<1>2. Failing(Checks(Sections(t))) = {}
  BY <1>1, ComplaintFails DEF Accepted
<1>3. \A N : N \notin Contradictions(t)
  BY <1>1, <1>2, ChecksFailing DEF Accepted
<1> QED
  BY <1>1, <1>3

(* The key that was split off is the one of the [Interface] section. *)
LEMMA OnlyKey ==
  ASSUME NEW t, IsText(t), Accepted(t), Cardinality({i \in DOMAIN t : IsKey(t[i])}) = 1
  PROVE  /\ FirstKeyLine(t) \in 1 .. Len(t) /\ ~FromNextLine(t)
         /\ \A i \in 1 .. Len(t) : IsKey(t[i]) => i = FirstKeyLine(t)
         /\ KeyOf(t) = Get(Interface(Sections(t)), "PrivateKey")
<1> DEFINE k == FirstKeyLine(t)
           p == Sections(t)
           f == Interface(p)
           K == {i \in DOMAIN t : IsKey(t[i])}
<1>1. Len(t) \in Nat /\ DOMAIN t = 1 .. Len(t) /\ t \in Seq(ToSet(t))
  BY TextLines DEF IsText, ToSet
<1>2. k \in 1 .. Len(t) /\ IsKey(t[k])
  <2>1. k # 0
    BY DEF Accepted, HasKey, KeyLine
  <2> QED
    BY <1>1, <2>1, FirstKeyLineFound DEF IsFirst
<1>3. \A i \in 1 .. Len(t) : IsKey(t[i]) => i = k
  <2>1. IsFiniteSet(K)
    <3>1. K \subseteq 1 .. Len(t) /\ IsFiniteSet(1 .. Len(t))
      BY <1>1, FS_Interval
    <3> QED
      BY <3>1, FS_Subset
  <2>2. PICK x : K = {x}
    BY <2>1, FS_Singleton
  <2> QED
    BY <1>1, <1>2, <2>2
<1>4. HasInterface(p) /\ Get(f, "PrivateKey") \notin {Unset, <<Empty>>}
  <2>1. HasInterface(p) /\ Absent(t, p) = {}
    BY AcceptedIsFaultless DEF Contradictions
  <2>2. Missing(f, "PrivateKey") => {"PrivateKey"} \in Absent(t, p)
    BY DEF Absent
  <2> QED
    BY <2>1, <2>2 DEF Missing
<1>5. f.entries \in Seq(SettingsOf(ToSet(t)))
  <2>1. p \in SectionsOver(ToSet(t))
    BY <1>1, SectionsType
  <2> HIDE DEF p
  <2>2. \E i \in 1 .. Len(p) : f = p[i]
    BY <1>4, <2>1, SectionsAre, InterfaceFound
  <2> QED
    BY <2>1, <2>2, SectionsAre
<1> HIDE DEF f
<1>6. PICK i \in 1 .. Len(f.entries) :
        f.entries[i].key = "PrivateKey" /\ Get(f, "PrivateKey") = f.entries[i].value
  <2>1. Len(f.entries) \in Nat
    BY <1>5
  <2> QED
    BY <1>4, <2>1, GetFinds
<1>7. PICK j \in 1 .. Len(t) : f.entries[i] = t[j]
  <2>1. f.entries[i] \in SettingsOf(ToSet(t))
    BY <1>5
  <2> QED
    BY <1>1, <2>1 DEF SettingsOf, ToSet
<1>8. IsKey(t[j])
  <2>1. f.entries[i].is = "setting"
    BY <1>5 DEF SettingsOf
  <2> QED
    BY <1>6, <1>7, <2>1 DEF IsKey
<1>9. j = k
  BY <1>3, <1>8
<1>10. Get(f, "PrivateKey") = t[k].value
  BY <1>6, <1>7, <1>9
<1>11. ~FromNextLine(t)
  BY <1>4, <1>10 DEF FromNextLine
<1>12. KeyOf(t) = t[k].value
  BY <1>11 DEF KeyOf, KeyLine
<1> QED
  BY <1>2, <1>3, <1>10, <1>11, <1>12 DEF f

(* Where the stored text still has its value, it is not the key's line. *)
LEMMA RedactedLines ==
  ASSUME NEW t, IsText(t), Accepted(t), Cardinality({i \in DOMAIN t : IsKey(t[i])}) = 1
  PROVE  \A i \in DOMAIN Redact(t) :
             Redact(t)[i].is = "setting" /\ Redact(t)[i].value = KeyOf(t) => Redact(t)[i].key # "PrivateKey"
<1> DEFINE k == FirstKeyLine(t)
           x == Setting("PrivateKey", <<Placeholder>>)
           u == [t EXCEPT ![k] = x]
<1>1. k \in 1 .. Len(t) /\ ~FromNextLine(t) /\ \A i \in 1 .. Len(t) : IsKey(t[i]) => i = k
  BY OnlyKey
<1>2. Redact(t) = u
  BY <1>1 DEF Redact, KeyLine
<1>3. DOMAIN t = 1 .. Len(t) /\ DOMAIN u = 1 .. Len(t)
  BY TextLines
<1>4. x.value = <<Placeholder>> /\ <<Placeholder>> # KeyOf(t)
  BY DEF Setting, Accepted, HasKey
<1> HIDE DEF x, k
<1>5. u[k] = x /\ \A i \in 1 .. Len(t) : i # k => u[i] = t[i]
  BY <1>1, <1>3
<1> HIDE DEF u
<1>6. ASSUME NEW i \in 1 .. Len(t), u[i].is = "setting", u[i].value = KeyOf(t), u[i].key = "PrivateKey"
      PROVE  FALSE
  <2>1. i # k
    BY <1>4, <1>5, <1>6
  <2>2. IsKey(t[i])
    BY <1>5, <1>6, <2>1 DEF IsKey
  <2> QED
    BY <1>1, <2>1, <2>2
<1> QED
  BY <1>2, <1>3, <1>6
=============================================================================
