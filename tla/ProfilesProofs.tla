---------------------------- MODULE ProfilesProofs ----------------------------
(***************************************************************************)
(* Proofs about the profile store, for every set of profiles.  Types, the  *)
(* banner and a file that can be read hold whatever fails.  The other      *)
(* claims are made of a keyring that deletes (GoneInv) or of writes that   *)
(* succeed (AheadInv); the process may end between any two steps.          *)
(***************************************************************************)
EXTENDS Profiles, TLAPS

(* In the middle of an operation there is one; what add() appends is new, and
   what is renamed has been written to its end. *)
Steps ==
    /\ pc \notin {"gone", "loop"} => op \in [kind : {"add", "remove"}, entry : Entry]
    /\ pc = "append" =>
           /\ op.kind = "add"
           /\ op.entry.id \notin Ids(disk) \cup Ids(entries) \cup Ids(view) \cup asked
    /\ pc = "clear" => op.kind = "remove"
    /\ pc = "replace" => temporary = entries

PInv == TypeOK /\ DiskIsWhole /\ Steps

Quiet == pc \notin {"gone", "loop"} => told[op.entry.id] = "nothing"

(* Nothing brings back what was removed: neither the object nor the keyring. *)
GoneInv ==
    /\ \A p \in Profile : told[p] = "removed" => p \notin Ids(disk) \cup Ids(entries) \cup keyring
    /\ pc = "clear" => op.entry.id \notin Ids(entries)
    /\ pc \in {"write", "fill", "replace", "reload"} /\ op.kind = "remove" =>
           op.entry.id \notin Ids(entries) \cup keyring

All == Range(disk) \cup Range(entries) \cup Range(view)

(* An entry is the same wherever it is. *)
Same == \A e, f \in All : e.id = f.id => e = f

(* A row whose key is on disk is found by resolve(), or was told already; so
   was one that the user is asked about. *)
BannerInv ==
    /\ \A i \in DOMAIN view :
           ~view[i].ring => view[i] \in Range(entries) \/ banner = "key on disk"
    /\ selected # 0 /\ ~view[selected].ring => banner = "key on disk"
    /\ \A e \in All : e.id \in asked /\ ~e.ring => banner = "key on disk"

(* How far the object is ahead of the file. *)
AheadInv ==
    /\ pc = "gone" => ~opened
    /\ pc = "loop" /\ opened => entries = disk
    /\ pc = "append" => entries = disk
    /\ pc \in {"write", "fill", "replace"} /\ op.kind = "add" =>
           Range(entries) = Range(disk) \cup {op.entry} /\ op.entry.id \notin Ids(disk)
    /\ pc \in {"clear", "write", "fill", "replace"} /\ op.kind = "remove" =>
           Range(entries) = {e \in Range(disk) : e.id # op.entry.id}
    /\ pc \in {"append", "write", "fill", "replace", "reload"} /\ op.kind = "add" =>
           (op.entry.ring => op.entry.id \in keyring)
    /\ pc = "reload" /\ op.kind = "add" => op.entry \in Range(disk)

-----------------------------------------------------------------------------
(* Lists of entries with distinct ids, and what add() and remove() make of
   them. *)

LEMMA ListAppend ==
  ASSUME NEW s, IsList(s), NEW e \in Entry, e.id \notin Ids(s)
  PROVE  /\ IsList(Append(s, e))
         /\ Range(Append(s, e)) = Range(s) \cup {e}
         /\ Ids(Append(s, e)) = Ids(s) \cup {e.id}
<1> DEFINE t == Append(s, e)
<1>1. s \in Seq(Entry) /\ Len(s) \in Nat /\ DOMAIN s = 1 .. Len(s)
  BY DEF IsList
<1>2. /\ t \in Seq(Entry) /\ DOMAIN t = 1 .. Len(s) + 1
      /\ t[Len(s) + 1] = e
      /\ \A i \in 1 .. Len(s) : t[i] = s[i]
  BY <1>1
<1>3. DOMAIN t = DOMAIN s \cup {Len(s) + 1} /\ Len(s) + 1 \notin DOMAIN s
  BY <1>1, <1>2
<1> HIDE DEF t
<1>4. Range(t) = Range(s) \cup {e} /\ Ids(t) = Ids(s) \cup {e.id}
  BY <1>1, <1>2, <1>3 DEF Range, Ids
<1>5. \A i, j \in DOMAIN t : t[i].id = t[j].id => i = j
  BY <1>1, <1>2, <1>3 DEF IsList, Ids
<1> QED
  BY <1>2, <1>4, <1>5 DEF IsList, t

LEMMA ListRemoveAt ==
  ASSUME NEW s, IsList(s), NEW i \in DOMAIN s
  PROVE  /\ IsList(RemoveAt(s, i))
         /\ Range(RemoveAt(s, i)) = {e \in Range(s) : e.id # s[i].id}
         /\ Ids(RemoveAt(s, i)) = Ids(s) \ {s[i].id}
<1> DEFINE t == RemoveAt(s, i)
           n == Len(s)
<1>1. s \in Seq(Entry) /\ n \in Nat /\ DOMAIN s = 1 .. n /\ i \in 1 .. n
  BY DEF IsList
<1>2. /\ t \in Seq(Entry) /\ DOMAIN t = 1 .. n - 1
      /\ \A j \in 1 .. n - 1 : t[j] = IF j < i THEN s[j] ELSE s[j + 1]
  <2> DEFINE a == SubSeq(s, 1, i - 1)
             b == SubSeq(s, i + 1, n)
  <2>1. a \in Seq(Entry) /\ Len(a) = i - 1 /\ \A j \in 1 .. i - 1 : a[j] = s[j]
    BY <1>1
  <2>2. b \in Seq(Entry) /\ Len(b) = n - i /\ \A j \in 1 .. n - i : b[j] = s[i + j]
    BY <1>1
  <2>3. t = a \o b
    BY DEF RemoveAt
  <2> HIDE DEF a, b, t
  <2>4. t \in Seq(Entry) /\ Len(t) = n - 1 /\ DOMAIN t = 1 .. Len(t)
    <3>1. a \in Seq(Entry) /\ b \in Seq(Entry) /\ Len(a) + Len(b) = n - 1
      BY <1>1, <2>1, <2>2
    <3>2. t \in Seq(Entry) /\ Len(t) = Len(a) + Len(b)
      BY <2>3, <3>1
    <3> QED
      BY <3>1, <3>2
  <2>5. ASSUME NEW j \in 1 .. n - 1 PROVE t[j] = IF j < i THEN s[j] ELSE s[j + 1]
    <3>1. CASE j < i
      BY <1>1, <2>1, <2>2, <2>3, <3>1
    <3>2. CASE ~(j < i)
      <4>1. j - (i - 1) \in 1 .. n - i /\ i + (j - (i - 1)) = j + 1
        BY <1>1, <3>2
      <4>2. t[j] = b[j - (i - 1)]
        BY <1>1, <2>1, <2>2, <2>3, <3>2
      <4> QED
        BY <2>2, <3>2, <4>1, <4>2
    <3> QED
      BY <3>1, <3>2
  <2> QED
    BY <2>4, <2>5
<1> HIDE DEF t
<1>3. \A j \in DOMAIN t : \E k \in DOMAIN s : k # i /\ t[j] = s[k]
  <2> TAKE j \in DOMAIN t
  <2>1. CASE j < i
    BY <1>1, <1>2, <2>1
  <2>2. CASE ~(j < i)
    BY <1>1, <1>2, <2>2
  <2> QED
    BY <2>1, <2>2
<1>4. \A k \in DOMAIN s : k # i => \E j \in DOMAIN t : t[j] = s[k]
  <2> SUFFICES ASSUME NEW k \in DOMAIN s, k # i PROVE \E j \in DOMAIN t : t[j] = s[k]
    OBVIOUS
  <2>1. CASE k < i
    BY <1>1, <1>2, <2>1
  <2>2. CASE k > i
    <3>1. k - 1 \in DOMAIN t /\ ~(k - 1 < i) /\ (k - 1) + 1 = k
      BY <1>1, <1>2, <2>2
    <3> QED
      BY <1>1, <1>2, <3>1
  <2> QED
    BY <1>1, <2>1, <2>2
<1>5. ASSUME NEW j \in DOMAIN t, NEW k \in DOMAIN t, t[j].id = t[k].id PROVE j = k
  <2> DEFINE at(m) == IF m < i THEN m ELSE m + 1
  <2>1. at(j) \in DOMAIN s /\ at(k) \in DOMAIN s /\ t[j] = s[at(j)] /\ t[k] = s[at(k)]
    BY <1>1, <1>2
  <2>2. at(j) = at(k)
    BY <1>5, <2>1 DEF IsList
  <2>3. j \in Nat /\ k \in Nat
    BY <1>2
  <2> QED
    BY <1>1, <2>2, <2>3
<1>6. \A k \in DOMAIN s : s[k].id # s[i].id <=> k # i
  BY DEF IsList
<1>7. Range(t) = {e \in Range(s) : e.id # s[i].id}
  BY <1>3, <1>4, <1>6 DEF Range
<1>8. Ids(t) = Ids(s) \ {s[i].id}
  BY <1>3, <1>4, <1>6 DEF Ids
<1> QED
  BY <1>2, <1>5, <1>7, <1>8 DEF IsList, t

LEMMA ListType ==
  ASSUME NEW s, IsList(s)
  PROVE  /\ Len(s) \in Nat /\ DOMAIN s = 1 .. Len(s)
         /\ \A i \in DOMAIN s : s[i] \in Entry /\ s[i].id \in Profile /\ s[i].ring \in BOOLEAN
<1>1. s \in Seq(Entry)
  BY DEF IsList
<1>2. Len(s) \in Nat /\ DOMAIN s = 1 .. Len(s) /\ \A i \in DOMAIN s : s[i] \in Entry
  BY <1>1
<1> QED
  BY <1>2 DEF Entry

LEMMA EmptyList ==
  /\ IsList(<< >>) /\ Len(<< >>) = 0 /\ DOMAIN << >> = {}
  /\ Range(<< >>) = {} /\ Ids(<< >>) = {}
BY DEF IsList, Range, Ids

LEMMA ListIsNotTorn == \A s : IsList(s) => s # Torn
BY TornAssumption DEF IsList, Entry

-----------------------------------------------------------------------------
(* _load_profiles(): what is listed, and the row that is selected. *)
LEMMA Loaded ==
  ASSUME PInv, LoadProfiles,
         NEW rows, rows \in {<<First(view')>>, <<First(view'), Len(view')>>}, Show(rows)
  PROVE  /\ IsList(entries') /\ IsList(view')
         /\ entries' = disk \/ entries' = entries
         /\ view' = << >> \/ (view' = disk /\ entries' = disk)
         /\ selected' \in Range(rows) /\ selected' \in 0 .. Len(view')
         /\ opened' \in BOOLEAN /\ banner' \in {"proxy", "key on disk"}
<1>1. IsList(disk) /\ IsList(entries)
  BY DEF PInv, TypeOK, DiskIsWhole
<1>2. /\ IsList(entries') /\ IsList(view')
      /\ entries' = disk \/ entries' = entries
      /\ view' = << >> \/ (view' = disk /\ entries' = disk)
      /\ opened' \in BOOLEAN
  BY <1>1, EmptyList DEF LoadProfiles, PInv, TypeOK
<1>3. Len(view') \in Nat /\ (view' = << >> <=> Len(view') = 0)
  <2>1. view' \in Seq(Entry)
    BY <1>2 DEF IsList
  <2> QED
    BY <2>1
<1>4. First(view') \in 0 .. Len(view')
  BY <1>3 DEF First
<1>5. Last(rows) \in {First(view'), Len(view')} /\ Last(rows) \in Range(rows)
  <2>1. CASE rows = <<First(view')>>
    BY <2>1 DEF Last, Range
  <2>2. CASE rows = <<First(view'), Len(view')>>
    BY <2>2 DEF Last, Range
  <2> QED
    BY <2>1, <2>2
<1>6. selected' \in Range(rows) /\ selected' \in 0 .. Len(view')
  <2>1. selected' = Last(rows)
    BY DEF Show
  <2>2. Last(rows) \in 0 .. Len(view')
    BY <1>3, <1>4, <1>5
  <2> QED
    BY <1>5, <2>1, <2>2
<1>7. banner' \in {"proxy", "key on disk"}
  BY DEF Show, PInv, TypeOK
<1> QED
  BY <1>2, <1>6, <1>7

LEMMA InitPInv == Init => PInv
<1> SUFFICES ASSUME Init PROVE PInv
  OBVIOUS
<1>1. IsList(disk) /\ IsList(entries) /\ IsList(view) /\ selected \in 0 .. Len(view)
  BY EmptyList DEF Init
<1>2. disk # Torn
  BY <1>1, ListIsNotTorn
<1>3. told \in [Profile -> {"nothing", "imported", "cannot be used", "removed", "could not remove"}]
  BY DEF Init
<1> QED
  BY <1>1, <1>2, <1>3 DEF Init, PInv, TypeOK, DiskIsWhole, Steps

LEMMA AddPInv == \A p \in Profile : PInv /\ Add(p) => PInv'
<1> SUFFICES ASSUME NEW p \in Profile, PInv, Add(p) PROVE PInv'
  OBVIOUS
<1>1. PICK ring \in BOOLEAN : /\ keyring' = IF ring THEN keyring \cup {p} ELSE keyring
                              /\ op' = [kind |-> "add", entry |-> [id |-> p, ring |-> ring]]
  BY DEF Add
<1>2. op' \in [kind : {"add", "remove"}, entry : Entry] /\ op'.entry.id = p
  BY <1>1 DEF Entry
<1>3. /\ keyring' \subseteq Profile /\ pc' = "append"
      /\ p \notin Ids(disk) \cup Ids(entries) \cup Ids(view) \cup asked
  BY <1>1 DEF Add, Fresh, PInv, TypeOK
<1> QED
  BY <1>1, <1>2, <1>3 DEF Add, window, PInv, TypeOK, DiskIsWhole, Steps, Ids

LEMMA AppendEntryPInv == PInv /\ AppendEntry => PInv'
<1> SUFFICES ASSUME PInv, AppendEntry PROVE PInv'
  OBVIOUS
<1>1. op.entry \in Entry /\ op.entry.id \notin Ids(entries) /\ IsList(entries)
  BY DEF AppendEntry, PInv, TypeOK, Steps
<1>2. IsList(entries')
  BY <1>1, ListAppend DEF AppendEntry
<1> QED
  BY <1>2 DEF AppendEntry, stored, window, PInv, TypeOK, DiskIsWhole, Steps

(* remove() is about the profile of the dialog, wherever it is listed. *)
LEMMA Removed ==
  ASSUME PInv, NEW p \in Profile, RemoveEntry(p)
  PROVE  /\ op' \in [kind : {"add", "remove"}, entry : Entry]
         /\ op'.kind = "remove" /\ op'.entry.id = p
         /\ p \in Ids(entries) /\ p \in asked
         /\ IsList(entries')
         /\ Range(entries') = {e \in Range(entries) : e.id # p}
         /\ Ids(entries') = Ids(entries) \ {p}
<1>1. IsList(entries)
  BY DEF PInv, TypeOK
<1>2. PICK i \in DOMAIN entries :
          /\ entries[i].id = p /\ entries' = RemoveAt(entries, i)
          /\ op' = [kind |-> "remove", entry |-> entries[i]]
  BY DEF RemoveEntry
<1>3. entries[i] \in Entry
  BY <1>1, ListType
<1>4. p \in Ids(entries) /\ p \in asked
  BY <1>2 DEF Ids, RemoveEntry
<1> QED
  BY <1>1, <1>2, <1>3, <1>4, ListRemoveAt

LEMMA RemoveEntryPInv == \A p \in Profile : PInv /\ RemoveEntry(p) => PInv'
<1> SUFFICES ASSUME NEW p \in Profile, PInv, RemoveEntry(p) PROVE PInv'
  OBVIOUS
<1>1. op' \in [kind : {"add", "remove"}, entry : Entry] /\ op'.kind = "remove"
  BY Removed
<1>2. IsList(entries')
  BY Removed
<1> QED
  BY <1>1, <1>2 DEF RemoveEntry, stored, PInv, TypeOK, DiskIsWhole, Steps

(* The dialog, and an answer that finds nothing to remove. *)
LEMMA DialogPInv ==
  PInv /\ (AskRemove \/ Cancel \/ \E p \in Profile : RemoveNothing(p)) => PInv'
<1> SUFFICES ASSUME PInv, AskRemove \/ Cancel \/ \E p \in Profile : RemoveNothing(p)
             PROVE  PInv'
  OBVIOUS
<1>1. CASE AskRemove
  <2>1. IsList(view) /\ selected \in 0 .. Len(view) /\ selected # 0
    BY <1>1 DEF AskRemove, PInv, TypeOK
  <2>2. view[selected].id \in Profile
    BY <2>1, ListType
  <2> QED
    BY <1>1, <2>2 DEF AskRemove, stored, PInv, TypeOK, DiskIsWhole, Steps
<1>2. CASE Cancel
  BY <1>2 DEF Cancel, stored, PInv, TypeOK, DiskIsWhole, Steps
<1>3. ASSUME NEW p \in Profile, RemoveNothing(p) PROVE PInv'
  BY <1>3 DEF RemoveNothing, stored, PInv, TypeOK, DiskIsWhole, Steps
<1> QED
  BY <1>1, <1>2, <1>3

LEMMA ClearKeyPInv == PInv /\ ClearKey => PInv'
BY DEF ClearKey, window, PInv, TypeOK, DiskIsWhole, Steps

LEMMA FlushFailsPInv ==
  ASSUME PInv, pc \in {"write", "fill", "replace"}, FlushFails \/ FlushEscapes,
         UNCHANGED <<keyring, entries, window>>
  PROVE  PInv'
<1>1. told' \in [Profile -> {"nothing", "imported", "cannot be used", "removed", "could not remove"}]
  BY DEF FlushFails, FlushEscapes, Tell, PInv, TypeOK
<1> QED
  BY <1>1 DEF FlushFails, FlushEscapes, window, PInv, TypeOK, DiskIsWhole, Steps

LEMMA OpenTemporaryPInv == PInv /\ OpenTemporary => PInv'
<1> SUFFICES ASSUME PInv, OpenTemporary PROVE PInv'
  OBVIOUS
<1>1. CASE FlushFails \/ FlushEscapes
  BY <1>1, FlushFailsPInv DEF OpenTemporary
<1>2. CASE ~(FlushFails \/ FlushEscapes)
  BY <1>2 DEF OpenTemporary, window, PInv, TypeOK, DiskIsWhole, Steps
<1> QED
  BY <1>1, <1>2

LEMMA FillTemporaryPInv == PInv /\ FillTemporary => PInv'
<1> SUFFICES ASSUME PInv, FillTemporary PROVE PInv'
  OBVIOUS
<1>1. CASE FlushFails
  BY <1>1, FlushFailsPInv DEF FillTemporary
<1>2. CASE ~FlushFails
  BY <1>2 DEF FillTemporary, window, PInv, TypeOK, DiskIsWhole, Steps
<1> QED
  BY <1>1, <1>2

(* What is renamed is whole. *)
LEMMA ReplacePInv == PInv /\ Replace => PInv'
<1> SUFFICES ASSUME PInv, Replace PROVE PInv'
  OBVIOUS
<1>1. CASE FlushFails
  BY <1>1, FlushFailsPInv DEF Replace
<1>2. CASE ~FlushFails
  <2>1. disk' = entries /\ IsList(disk') /\ disk' # Torn
    BY <1>2, ListIsNotTorn DEF Replace, PInv, TypeOK, Steps
  <2> QED
    BY <1>2, <2>1 DEF Replace, window, PInv, TypeOK, DiskIsWhole, Steps
<1> QED
  BY <1>1, <1>2

LEMMA ReloadPInv == PInv /\ Reload => PInv'
<1> SUFFICES ASSUME PInv, Reload PROVE PInv'
  OBVIOUS
<1> DEFINE rows == IF op.kind = "add" THEN <<First(view'), Len(view')>> ELSE <<First(view')>>
<1>1. LoadProfiles /\ Show(rows)
  BY DEF Reload
<1>2. /\ IsList(entries') /\ IsList(view') /\ selected' \in 0 .. Len(view')
      /\ opened' \in BOOLEAN /\ banner' \in {"proxy", "key on disk"}
  BY <1>1, Loaded
<1>3. told' \in [Profile -> {"nothing", "imported", "cannot be used", "removed", "could not remove"}]
  BY DEF Reload, Tell, PInv, TypeOK
<1> QED
  BY <1>2, <1>3 DEF Reload, stored, PInv, TypeOK, DiskIsWhole, Steps

LEMMA ReloadEscapesPInv == PInv /\ ReloadEscapes => PInv'
BY DEF ReloadEscapes, stored, window, PInv, TypeOK, DiskIsWhole, Steps

LEMMA LaunchPInv == PInv /\ Launch => PInv'
<1> SUFFICES ASSUME PInv, Launch PROVE PInv'
  OBVIOUS
<1>1. /\ IsList(entries') /\ IsList(view') /\ selected' \in 0 .. Len(view')
      /\ opened' \in BOOLEAN /\ banner' \in {"proxy", "key on disk"}
  BY Loaded DEF Launch
<1> QED
  BY <1>1 DEF Launch, stored, PInv, TypeOK, DiskIsWhole, Steps

LEMMA SelectPInv == PInv /\ Select => PInv'
<1> SUFFICES ASSUME PInv, Select PROVE PInv'
  OBVIOUS
<1>1. selected' \in 0 .. Len(view) /\ banner' \in {"proxy", "key on disk"}
  <2>1. IsList(view) /\ banner \in {"proxy", "key on disk"}
    BY DEF PInv, TypeOK
  <2>2. DOMAIN view = 1 .. Len(view) /\ Len(view) \in Nat
    BY <2>1, ListType
  <2>3. selected' \in DOMAIN view /\ banner' \in {banner, "key on disk"}
    BY DEF Select
  <2>4. selected' \in 1 .. Len(view)
    BY <2>2, <2>3
  <2>5. Len(view) \in Nat
    BY <2>2
  <2>6. selected' \in 0 .. Len(view)
    BY <2>4, <2>5
  <2>7. banner' \in {"proxy", "key on disk"}
    BY <2>1, <2>3
  <2> QED
    BY <2>6, <2>7
<1> QED
  BY <1>1 DEF Select, stored, PInv, TypeOK, DiskIsWhole, Steps

LEMMA EndPInv == PInv /\ End => PInv'
<1> SUFFICES ASSUME PInv, End PROVE PInv'
  OBVIOUS
<1>1. IsList(entries') /\ IsList(view') /\ selected' \in 0 .. Len(view')
  BY EmptyList DEF End
<1> QED
  BY <1>1 DEF End, stored, PInv, TypeOK, DiskIsWhole, Steps

LEMMA NextPInv == PInv /\ [Next]_vars => PInv'
<1>1. PInv /\ UNCHANGED vars => PInv'
  BY DEF vars, PInv, TypeOK, DiskIsWhole, Steps
<1> QED
  BY <1>1, AddPInv, AppendEntryPInv, RemoveEntryPInv, DialogPInv, ClearKeyPInv,
     OpenTemporaryPInv, FillTemporaryPInv, ReplacePInv, ReloadPInv, ReloadEscapesPInv,
     LaunchPInv, SelectPInv, EndPInv DEF Next

(* The types, the distinct ids of each list, and what each step of an
   operation knows, whatever fails. *)
THEOREM PInvHolds == Spec => []PInv
BY InitPInv, NextPInv, PTL DEF Spec

(* Types, for every set of profiles and of failures. *)
THEOREM TypeCorrect == Spec => []TypeOK
<1>1. PInv => TypeOK
  BY DEF PInv
<1> QED
  BY <1>1, PInvHolds, PTL

(* _flush() writes beside the file and renames what is written to its end:
   whatever fails and wherever the process ends, the file can be read, and a
   _flush() that returns leaves all of the object in it. *)
THEOREM FilesAreWhole == Spec => []DiskIsWhole
<1>1. PInv => DiskIsWhole
  BY DEF PInv
<1> QED
  BY <1>1, PInvHolds, PTL

-----------------------------------------------------------------------------
(* Of the profile that an operation is about, the user has been told nothing
   since it began. *)
LEMMA NextQuiet == PInv /\ Quiet /\ [Next]_vars => Quiet'
<1> SUFFICES ASSUME PInv, Quiet, [Next]_vars PROVE Quiet'
  OBVIOUS
<1> USE DEF Quiet
<1>1. ASSUME NEW p \in Profile, Add(p) PROVE Quiet'
  <2>1. op'.entry.id = p /\ told' = [told EXCEPT ![p] = "nothing"]
    BY <1>1 DEF Add
  <2> QED
    BY <2>1 DEF PInv, TypeOK
<1>2. ASSUME NEW p \in Profile, RemoveEntry(p) PROVE Quiet'
  <2>1. op'.entry.id = p /\ told' = [told EXCEPT ![p] = "nothing"]
    BY <1>2, Removed DEF RemoveEntry
  <2> QED
    BY <2>1 DEF PInv, TypeOK
<1>3. CASE AppendEntry \/ ClearKey \/ UNCHANGED vars
  BY <1>3 DEF AppendEntry, ClearKey, vars
<1>4. CASE OpenTemporary \/ FillTemporary \/ Replace \/ Reload \/ ReloadEscapes
  BY <1>4 DEF OpenTemporary, FillTemporary, Replace, FlushFails, FlushEscapes, Reload, ReloadEscapes
<1>5. CASE Select \/ Launch \/ End \/ AskRemove \/ Cancel
  BY <1>5 DEF Select, Launch, End, AskRemove, Cancel
<1>6. ASSUME NEW p \in Profile, RemoveNothing(p) PROVE Quiet'
  BY <1>6 DEF RemoveNothing
<1> QED
  BY <1>1, <1>2, <1>3, <1>4, <1>5, <1>6 DEF Next

-----------------------------------------------------------------------------
(* remove(), with a keyring that deletes *)

LEMMA AddGone ==
  ASSUME PInv, Quiet, GoneInv, NEW p \in Profile, Add(p)
  PROVE  GoneInv'
<1>1. UNCHANGED <<disk, entries>> /\ keyring' \subseteq keyring \cup {p} /\ pc' = "append"
  BY DEF Add
<1>2. told' = [told EXCEPT ![p] = "nothing"]
  BY DEF Add
<1>3. ASSUME NEW q \in Profile, told'[q] = "removed"
      PROVE  q \notin Ids(disk') \cup Ids(entries') \cup keyring'
  <2>1. q # p /\ told[q] = "removed"
    BY <1>2, <1>3 DEF PInv, TypeOK
  <2> QED
    BY <1>1, <2>1 DEF GoneInv, Ids
<1> QED
  BY <1>1, <1>3 DEF GoneInv

LEMMA AppendEntryGone == PInv /\ Quiet /\ GoneInv /\ AppendEntry => GoneInv'
<1> SUFFICES ASSUME PInv, Quiet, GoneInv, AppendEntry PROVE GoneInv'
  OBVIOUS
<1>1. op.entry \in Entry /\ op.entry.id \notin Ids(entries) /\ op.kind = "add"
  BY DEF AppendEntry, PInv, Steps
<1>2. Ids(entries') = Ids(entries) \cup {op.entry.id}
  BY <1>1, ListAppend DEF AppendEntry, PInv, TypeOK
<1>3. UNCHANGED <<disk, keyring, op, told>> /\ pc' = "write" /\ told[op.entry.id] = "nothing"
  BY DEF AppendEntry, stored, Quiet
<1>4. Ids(disk') = Ids(disk)
  BY <1>3 DEF Ids
<1> QED
  BY <1>1, <1>2, <1>3, <1>4 DEF GoneInv

LEMMA RemoveEntryGone == \A q \in Profile : PInv /\ GoneInv /\ RemoveEntry(q) => GoneInv'
<1> SUFFICES ASSUME NEW q \in Profile, PInv, GoneInv, RemoveEntry(q) PROVE GoneInv'
  OBVIOUS
<1>1. Ids(entries') = Ids(entries) \ {q} /\ op'.entry.id = q
  BY Removed
<1>2. UNCHANGED <<disk, keyring>> /\ pc' = "clear" /\ told' = [told EXCEPT ![q] = "nothing"]
  BY DEF RemoveEntry, stored
<1>3. \A p \in Profile : told'[p] = "removed" => told[p] = "removed"
  BY <1>2 DEF PInv, TypeOK
<1>4. Ids(disk') = Ids(disk)
  BY <1>2 DEF Ids
<1> QED
  BY <1>1, <1>2, <1>3, <1>4 DEF GoneInv

LEMMA ClearKeyGone ==
  ASSUME "clear" \notin Failures, PInv, GoneInv, ClearKey
  PROVE  GoneInv'
<1>1. keyring' = keyring \ {op.entry.id} /\ UNCHANGED <<disk, entries, op, told>> /\ pc' = "write"
  BY DEF ClearKey
<1>2. Ids(disk') = Ids(disk) /\ Ids(entries') = Ids(entries)
  BY <1>1 DEF Ids
<1> QED
  BY <1>1, <1>2 DEF GoneInv, ClearKey

LEMMA FlushGone ==
  PInv /\ Quiet /\ GoneInv /\ (OpenTemporary \/ FillTemporary \/ Replace) => GoneInv'
<1> SUFFICES ASSUME PInv, Quiet, GoneInv, OpenTemporary \/ FillTemporary \/ Replace PROVE GoneInv'
  OBVIOUS
<1>1. /\ UNCHANGED <<keyring, entries>> /\ (disk' = disk \/ disk' = entries)
      /\ pc' \in {"loop", "fill", "replace", "reload"} /\ pc \in {"write", "fill", "replace"}
      /\ pc' # "loop" => op' = op
  BY DEF OpenTemporary, FillTemporary, Replace, FlushFails, FlushEscapes, PInv, Steps
<1>2. \A p \in Profile : told'[p] = "removed" => told[p] = "removed"
  BY DEF OpenTemporary, FillTemporary, Replace, FlushFails, FlushEscapes, Tell, PInv, TypeOK
<1>3. Ids(disk') = Ids(disk) \/ Ids(disk') = Ids(entries)
  BY <1>1 DEF Ids
<1>4. Ids(entries') = Ids(entries)
  BY <1>1 DEF Ids
<1>5. \A p \in Profile : told'[p] = "removed" =>
          p \notin Ids(disk') \cup Ids(entries') \cup keyring'
  BY <1>1, <1>2, <1>3, <1>4 DEF GoneInv
<1>6. /\ pc' # "clear"
      /\ pc' \in {"fill", "replace", "reload"} /\ op'.kind = "remove" =>
             op'.entry.id \notin Ids(entries') \cup keyring'
  BY <1>1, <1>4 DEF GoneInv
<1>7. pc' # "write"
  BY <1>1
<1> QED
  BY <1>5, <1>6, <1>7 DEF GoneInv

LEMMA ReloadGone == PInv /\ Quiet /\ GoneInv /\ Reload => GoneInv'
<1> SUFFICES ASSUME PInv, Quiet, GoneInv, Reload PROVE GoneInv'
  OBVIOUS
<1>1. /\ UNCHANGED <<disk, keyring>> /\ pc' = "loop" /\ disk = entries /\ entries' = disk
  BY DEF Reload, stored, LoadProfiles, PInv, DiskIsWhole
<1>2. ASSUME NEW p \in Profile, told'[p] = "removed"
      PROVE  p \notin Ids(disk) \cup keyring
  <2>1. CASE told[p] = "removed"
    BY <2>1 DEF GoneInv
  <2>2. CASE told[p] # "removed"
    <3>1. p = op.entry.id /\ op.kind = "remove"
      BY <1>2, <2>2 DEF Reload, Tell, PInv, TypeOK, Steps
    <3> QED
      BY <1>1, <3>1 DEF GoneInv, Reload
  <2> QED
    BY <2>1, <2>2
<1>3. Ids(disk') = Ids(disk) /\ Ids(entries') = Ids(disk)
  BY <1>1 DEF Ids
<1> QED
  BY <1>1, <1>2, <1>3 DEF GoneInv

LEMMA NextGone ==
  ASSUME "clear" \notin Failures
  PROVE  PInv /\ Quiet /\ GoneInv /\ [Next]_vars => GoneInv'
<1> SUFFICES ASSUME PInv, Quiet, GoneInv, [Next]_vars PROVE GoneInv'
  OBVIOUS
<1>1. CASE UNCHANGED vars
  BY <1>1 DEF vars, GoneInv, Ids
<1>2. CASE Select \/ AskRemove \/ Cancel \/ ReloadEscapes
  BY <1>2 DEF Select, AskRemove, Cancel, ReloadEscapes, stored, GoneInv, Ids
<1>5. ASSUME NEW q \in Profile, RemoveNothing(q) PROVE GoneInv'
  <2>1. \A p \in Profile : told'[p] = "removed" => told[p] = "removed"
    BY <1>5 DEF RemoveNothing, PInv, TypeOK
  <2> QED
    BY <1>5, <2>1 DEF RemoveNothing, stored, GoneInv, Ids
<1>3. CASE Launch
  <2>1. UNCHANGED <<disk, keyring, told>> /\ pc' = "loop"
    BY <1>3 DEF Launch, stored
  <2>2. Ids(disk') = Ids(disk) /\ Ids(entries') \in {Ids(disk), Ids(entries)}
    BY <1>3, <2>1 DEF Launch, LoadProfiles, Ids
  <2> QED
    BY <2>1, <2>2 DEF GoneInv
<1>4. CASE End
  <2>1. UNCHANGED <<disk, keyring, told>> /\ pc' = "gone" /\ Ids(entries') = {}
    BY <1>4 DEF End, stored, Ids
  <2>2. Ids(disk') = Ids(disk)
    BY <2>1 DEF Ids
  <2> QED
    BY <2>1, <2>2 DEF GoneInv
<1> QED
  BY <1>1, <1>2, <1>3, <1>4, <1>5, AddGone, AppendEntryGone, RemoveEntryGone, ClearKeyGone,
     FlushGone, ReloadGone DEF Next

(* "The profile and its private key will be deleted from this device": what
   was reported as removed is in the file, the object and the keyring no
   more, and a later write does not bring it back. *)
THEOREM RemovedStaysGone ==
  ASSUME "clear" \notin Failures
  PROVE  Spec => []RemovedIsGone
<1>1. Init => Quiet /\ GoneInv
  BY DEF Init, Quiet, GoneInv
<1>2. PInv /\ Quiet /\ GoneInv /\ [Next]_vars => Quiet' /\ GoneInv'
  BY NextQuiet, NextGone
<1>3. GoneInv => RemovedIsGone
  BY DEF GoneInv, RemovedIsGone
<1> QED
  BY <1>1, <1>2, <1>3, PInvHolds, PTL DEF Spec

-----------------------------------------------------------------------------
(* _refresh_profile_details() *)

(* Where no step but AppendEntry leads to an entry that was nowhere before. *)
LEMMA AllStays ==
  ASSUME Same, All' \subseteq All
  PROVE  Same'
BY DEF Same

LEMMA AskedStays ==
  ASSUME BannerInv, All' \subseteq All, asked' \subseteq asked, banner' \in {banner, "key on disk"}
  PROVE  \A e \in All' : e.id \in asked' /\ ~e.ring => banner' = "key on disk"
BY DEF BannerInv

LEMMA LoadedAll ==
  ASSUME PInv, LoadProfiles, UNCHANGED disk
  PROVE  All' \subseteq All
<1>1. view' = << >> \/ view' = disk
  BY DEF LoadProfiles
<1>2. Range(view') \subseteq Range(disk)
  BY <1>1, EmptyList
<1>3. Range(entries') \subseteq Range(disk) \cup Range(entries)
  BY DEF LoadProfiles
<1> QED
  BY <1>2, <1>3 DEF All

(* A row that is listed from the file is found by resolve(). *)
LEMMA LoadedBanner ==
  ASSUME PInv, BannerInv, LoadProfiles, UNCHANGED <<disk, asked>>,
         NEW rows, rows \in {<<First(view')>>, <<First(view'), Len(view')>>}, Show(rows)
  PROVE  BannerInv'
<1>0. \A e \in All' : e.id \in asked' /\ ~e.ring => banner' = "key on disk"
  BY LoadedAll, AskedStays DEF Show
<1>1. /\ view' = << >> \/ (view' = disk /\ entries' = disk)
      /\ IsList(view') /\ selected' \in Range(rows) /\ selected' \in 0 .. Len(view')
  BY Loaded
<1>2. CASE view' = << >>
  <2>1. selected' = 0 /\ DOMAIN view' = {}
    BY <1>1, <1>2, EmptyList
  <2> QED
    BY <1>0, <2>1 DEF BannerInv
<1>3. CASE view' = disk /\ entries' = disk
  <2>1. \A i \in DOMAIN view' : view'[i] \in Range(entries')
    BY <1>3 DEF Range
  <2>2. ASSUME selected' # 0, ~view'[selected'].ring PROVE banner' = "key on disk"
    <3>1. selected' \in DOMAIN entries' /\ entries'[selected'] = view'[selected']
      BY <1>1, <1>3, <2>2, ListType
    <3>2. KeyOnDisk(view', selected', entries')
      BY <2>2, <3>1 DEF KeyOnDisk, Resolves
    <3> QED
      BY <1>1, <3>2 DEF Show
  <2> QED
    BY <1>0, <2>1, <2>2 DEF BannerInv
<1> QED
  BY <1>1, <1>2, <1>3

(* The profile of the dialog may be shown in any row, or in none. *)
LEMMA RemoveEntryBanner == \A p \in Profile : PInv /\ BannerInv /\ RemoveEntry(p) => BannerInv'
<1> SUFFICES ASSUME NEW p \in Profile, PInv, BannerInv, RemoveEntry(p) PROVE BannerInv'
  OBVIOUS
<1>1. p \in asked /\ Range(entries') = {e \in Range(entries) : e.id # p}
  BY Removed
<1>2. UNCHANGED <<view, selected, banner, disk>> /\ asked' = {}
  BY DEF RemoveEntry, stored
<1>3. ASSUME NEW i \in DOMAIN view, ~view[i].ring
      PROVE  view[i] \in Range(entries') \/ banner = "key on disk"
  <2>1. CASE view[i].id = p
    <3>1. view[i] \in All
      BY DEF All, Range
    <3> QED
      BY <1>1, <1>3, <2>1, <3>1 DEF BannerInv
  <2>2. CASE view[i].id # p
    BY <1>1, <1>3, <2>2 DEF BannerInv
  <2> QED
    BY <2>1, <2>2
<1> QED
  BY <1>2, <1>3 DEF BannerInv

(* The row that is selected has been told of when the user is asked about it. *)
LEMMA AskRemoveBanner == PInv /\ Same /\ BannerInv /\ AskRemove => BannerInv'
<1> SUFFICES ASSUME PInv, Same, BannerInv, AskRemove PROVE BannerInv'
  OBVIOUS
<1>1. UNCHANGED <<view, selected, banner, disk, entries>> /\ asked' = {view[selected].id}
  BY DEF AskRemove, stored
<1>2. view[selected] \in All
  <2>1. selected \in 0 .. Len(view) /\ selected # 0 /\ IsList(view)
    BY DEF AskRemove, PInv, TypeOK
  <2>2. selected \in DOMAIN view
    BY <2>1, ListType
  <2> QED
    BY <2>2 DEF All, Range
<1>3. All' = All
  BY <1>1 DEF All
<1>4. \A e \in All' : e.id \in asked' /\ ~e.ring => banner' = "key on disk"
  BY <1>1, <1>2, <1>3 DEF Same, BannerInv, AskRemove
<1> QED
  BY <1>1, <1>4 DEF BannerInv

LEMMA SelectBanner == PInv /\ BannerInv /\ Select => BannerInv'
<1> SUFFICES ASSUME PInv, BannerInv, Select PROVE BannerInv'
  OBVIOUS
<1>1. PICK i \in DOMAIN view :
          /\ selected' = i
          /\ banner' = IF KeyOnDisk(view, i, entries) THEN "key on disk" ELSE banner
  BY DEF Select
<1>2. UNCHANGED <<view, entries, disk, asked>>
  BY DEF Select, stored
<1>3. i # 0
  <2>1. DOMAIN view = 1 .. Len(view) /\ Len(view) \in Nat
    BY ListType DEF PInv, TypeOK
  <2>2. \A k \in 1 .. Len(view) : k # 0
    BY <2>1
  <2> QED
    BY <1>1, <2>1, <2>2
<1>4. ASSUME ~view[i].ring PROVE banner' = "key on disk"
  <2>1. CASE banner = "key on disk"
    BY <1>1, <2>1
  <2>2. CASE view[i] \in Range(entries)
    <3>1. PICK j \in DOMAIN entries : entries[j] = view[i]
      BY <2>2 DEF Range
    <3>2. KeyOnDisk(view, i, entries)
      BY <1>3, <1>4, <3>1 DEF KeyOnDisk, Resolves
    <3> QED
      BY <1>1, <3>2
  <2> QED
    BY <1>4, <2>1, <2>2 DEF BannerInv
<1>5. \A k \in DOMAIN view : ~view[k].ring => view[k] \in Range(entries) \/ banner' = "key on disk"
  BY <1>1 DEF BannerInv
<1>6. All' = All
  BY <1>2 DEF All
<1>7. \A e \in All' : e.id \in asked' /\ ~e.ring => banner' = "key on disk"
  BY <1>1, <1>2, <1>6, AskedStays
<1> QED
  BY <1>1, <1>2, <1>4, <1>5, <1>7 DEF BannerInv

LEMMA NextSame == PInv /\ Same /\ [Next]_vars => Same'
<1> SUFFICES ASSUME PInv, Same, [Next]_vars PROVE Same'
  OBVIOUS
<1>1. ASSUME UNCHANGED <<disk, entries, view>> PROVE Same'
  BY <1>1 DEF Same, All
<1>2. CASE UNCHANGED vars \/ Select \/ AskRemove \/ Cancel \/ ReloadEscapes \/ ClearKey
           \/ OpenTemporary \/ FillTemporary
  BY <1>1, <1>2 DEF vars, Select, AskRemove, Cancel, ReloadEscapes, ClearKey, OpenTemporary,
                    FillTemporary, FlushFails, FlushEscapes, stored, window
<1>3. ASSUME NEW p \in Profile, Add(p) \/ RemoveNothing(p) PROVE Same'
  BY <1>1, <1>3 DEF Add, RemoveNothing, stored, window
<1>4. ASSUME NEW p \in Profile, RemoveEntry(p) PROVE Same'
  <2>1. Range(entries') \subseteq Range(entries) /\ UNCHANGED <<disk, view>>
    BY <1>4, Removed DEF RemoveEntry, stored
  <2>2. All' \subseteq All
    BY <2>1 DEF All
  <2> QED
    BY <2>2, AllStays
<1>5. CASE AppendEntry
  <2>1. Range(entries') = Range(entries) \cup {op.entry} /\ UNCHANGED <<disk, view>>
    BY <1>5, ListAppend DEF AppendEntry, stored, window, PInv, TypeOK, Steps
  <2>2. \A e \in All : e.id # op.entry.id
    BY <1>5 DEF AppendEntry, PInv, Steps, All, Range, Ids
  <2>3. All' = All \cup {op.entry}
    BY <2>1 DEF All
  <2> QED
    BY <2>2, <2>3 DEF Same
<1>6. CASE Replace
  <2>1. UNCHANGED <<entries, view>> /\ (disk' = disk \/ disk' = entries)
    BY <1>6 DEF Replace, FlushFails, window, PInv, Steps
  <2>2. All' \subseteq All
    BY <2>1 DEF All
  <2> QED
    BY <2>2, AllStays
<1>7. CASE Reload \/ Launch
  <2>1. LoadProfiles /\ UNCHANGED disk
    BY <1>7 DEF Reload, Launch, stored
  <2> QED
    BY <2>1, LoadedAll, AllStays
<1>8. CASE End
  <2>1. Range(entries') = {} /\ Range(view') = {} /\ disk' = disk
    BY <1>8, EmptyList DEF End, stored
  <2>2. All' \subseteq All
    BY <2>1 DEF All
  <2> QED
    BY <2>2, AllStays
<1> QED
  BY <1>2, <1>3, <1>4, <1>5, <1>6, <1>7, <1>8 DEF Next

LEMMA NextBanner == PInv /\ Same /\ BannerInv /\ [Next]_vars => BannerInv'
<1> SUFFICES ASSUME PInv, Same, BannerInv, [Next]_vars PROVE BannerInv'
  OBVIOUS
<1>1. ASSUME UNCHANGED <<view, selected, banner, entries>>, asked' \subseteq asked,
             disk' = disk \/ disk' = entries
      PROVE BannerInv'
  <2>1. All' \subseteq All
    BY <1>1 DEF All
  <2>2. \A e \in All' : e.id \in asked' /\ ~e.ring => banner' = "key on disk"
    BY <1>1, <2>1, AskedStays
  <2> QED
    BY <1>1, <2>2 DEF BannerInv
<1>2. CASE UNCHANGED vars \/ Cancel \/ ReloadEscapes
  BY <1>1, <1>2 DEF vars, Cancel, ReloadEscapes, stored, window
<1>3. ASSUME NEW p \in Profile, Add(p) \/ RemoveNothing(p) PROVE BannerInv'
  BY <1>1, <1>3 DEF Add, RemoveNothing, stored, window
<1>4. CASE ClearKey \/ OpenTemporary \/ FillTemporary \/ Replace
  <2>1. UNCHANGED <<view, selected, banner, entries, asked>> /\ (disk' = disk \/ disk' = entries)
    BY <1>4 DEF ClearKey, OpenTemporary, FillTemporary, Replace, FlushFails, FlushEscapes,
                window, PInv, Steps
  <2> QED
    BY <1>1, <2>1
<1>5. CASE AppendEntry
  <2>1. /\ Range(entries') = Range(entries) \cup {op.entry}
        /\ UNCHANGED <<disk, view, selected, banner, asked>>
    BY <1>5, ListAppend DEF AppendEntry, stored, window, PInv, TypeOK, Steps
  <2>2. op.entry.id \notin asked
    BY <1>5 DEF AppendEntry, PInv, Steps
  <2>3. All' = All \cup {op.entry}
    BY <2>1 DEF All
  <2>4. \A e \in All' : e.id \in asked' /\ ~e.ring => banner' = "key on disk"
    BY <2>1, <2>2, <2>3 DEF BannerInv
  <2> QED
    BY <2>1, <2>4 DEF BannerInv
<1>6. CASE Reload
  <2> DEFINE rows == IF op.kind = "add" THEN <<First(view'), Len(view')>> ELSE <<First(view')>>
  <2>1. LoadProfiles /\ Show(rows) /\ UNCHANGED <<disk, asked>>
    BY <1>6 DEF Reload, stored
  <2> QED
    BY <2>1, LoadedBanner
<1>7. CASE Launch
  BY <1>7, LoadedBanner DEF Launch, stored
<1>8. CASE End
  <2>1. selected' = 0 /\ DOMAIN view' = {} /\ asked' = {}
    BY <1>8, EmptyList DEF End
  <2> QED
    BY <2>1 DEF BannerInv
<1> QED
  BY <1>2, <1>3, <1>4, <1>5, <1>6, <1>7, <1>8, RemoveEntryBanner, AskRemoveBanner,
     SelectBanner DEF Next

(* "the app says so in its banner rather than downgrading quietly", whatever
   fails: also while a list is shown that the object is ahead of, and after a
   removal that was asked for when another row was selected. *)
THEOREM NoQuietDowngrade == Spec => []DowngradeIsTold
<1>1. Init => Same /\ BannerInv
  BY EmptyList DEF Init, Same, BannerInv, All
<1>2. PInv /\ Same /\ BannerInv /\ [Next]_vars => Same' /\ BannerInv'
  BY NextSame, NextBanner
<1>3. BannerInv => DowngradeIsTold
  BY DEF BannerInv, DowngradeIsTold
<1> QED
  BY <1>1, <1>2, <1>3, PInvHolds, PTL DEF Spec

-----------------------------------------------------------------------------
(* With writes that succeed, the object is ahead of the file by the operation
   in progress and by nothing else. *)

LEMMA ReplaceAhead ==
  ASSUME "flush" \notin Failures, PInv, AheadInv, Replace
  PROVE  AheadInv'
<1>1. disk' = entries /\ pc' = "reload" /\ UNCHANGED <<keyring, entries, opened, op>>
  BY DEF Replace, FlushFails, window, PInv, Steps
<1>2. Range(disk') = Range(entries)
  BY <1>1
<1> QED
  BY <1>1, <1>2 DEF AheadInv, Replace

LEMMA NextAhead ==
  ASSUME "flush" \notin Failures
  PROVE  PInv /\ AheadInv /\ [Next]_vars => AheadInv'
<1> SUFFICES ASSUME PInv, AheadInv, [Next]_vars PROVE AheadInv'
  OBVIOUS
<1>1. CASE UNCHANGED vars
  BY <1>1 DEF vars, AheadInv, Range, Ids
<1>2. ASSUME NEW p \in Profile, Add(p) PROVE AheadInv'
  <2>1. entries = disk /\ UNCHANGED <<disk, entries>> /\ pc' = "append"
    BY <1>2 DEF Add, AheadInv
  <2>2. op'.entry.ring => op'.entry.id \in keyring'
    BY <1>2 DEF Add
  <2> QED
    BY <2>1, <2>2 DEF AheadInv
<1>3. CASE AppendEntry
  <2>1. entries = disk /\ UNCHANGED <<disk, keyring, op>> /\ pc' = "write"
    BY <1>3 DEF AppendEntry, stored, AheadInv
  <2>2. op.kind = "add" /\ op.entry.id \notin Ids(disk) /\ op.entry \in Entry
    BY <1>3, <2>1 DEF AppendEntry, PInv, Steps
  <2>3. Range(entries') = Range(disk) \cup {op.entry}
    BY <1>3, <2>1, <2>2, ListAppend DEF AppendEntry, PInv, TypeOK
  <2>4. Range(disk') = Range(disk) /\ Ids(disk') = Ids(disk)
    BY <2>1
  <2>5. op.entry.ring => op.entry.id \in keyring
    BY <1>3, <2>2 DEF AheadInv, AppendEntry
  <2> QED
    BY <2>1, <2>2, <2>3, <2>4, <2>5 DEF AheadInv
<1>4. ASSUME NEW p \in Profile, RemoveEntry(p) PROVE AheadInv'
  <2>1. entries = disk /\ disk' = disk /\ pc' = "clear" /\ op'.kind = "remove"
    BY <1>4 DEF RemoveEntry, stored, AheadInv
  <2>2. Range(entries') = {e \in Range(disk) : e.id # op'.entry.id}
    BY <1>4, <2>1, Removed
  <2> QED
    BY <2>1, <2>2 DEF AheadInv
<1>5. CASE ClearKey
  <2>1. UNCHANGED <<disk, entries, op>> /\ pc' = "write" /\ op.kind = "remove"
    BY <1>5 DEF ClearKey, PInv, Steps
  <2> QED
    BY <1>5, <2>1 DEF AheadInv, ClearKey
<1>6. CASE OpenTemporary \/ FillTemporary
  <2>1. /\ UNCHANGED <<disk, entries, keyring, op>>
        /\ pc \in {"write", "fill"} /\ pc' \in {"fill", "replace"}
    BY <1>6 DEF OpenTemporary, FillTemporary, FlushFails, FlushEscapes
  <2> QED
    BY <2>1 DEF AheadInv
<1>7. CASE Reload \/ ReloadEscapes
  <2>1. pc' = "loop" /\ entries' = disk' /\ disk' = disk
    BY <1>7 DEF Reload, ReloadEscapes, LoadProfiles, stored, PInv, DiskIsWhole
  <2> QED
    BY <2>1 DEF AheadInv
<1>8. CASE Launch
  <2>1. pc' = "loop" /\ disk' = disk /\ (opened' => entries' = disk')
    BY <1>8 DEF Launch, LoadProfiles, stored, AheadInv
  <2> QED
    BY <2>1 DEF AheadInv
<1>9. CASE Select \/ AskRemove \/ Cancel \/ \E p \in Profile : RemoveNothing(p)
  <2>1. pc' = "loop" /\ pc = "loop" /\ UNCHANGED <<disk, entries, opened>>
    BY <1>9 DEF Select, AskRemove, Cancel, RemoveNothing, stored
  <2> QED
    BY <2>1 DEF AheadInv
<1>10. CASE End
  BY <1>10 DEF End, AheadInv
<1> QED
  BY <1>1, <1>2, <1>3, <1>4, <1>5, <1>6, <1>7, <1>8, <1>9, <1>10, ReplaceAhead DEF Next

-----------------------------------------------------------------------------
(* What can be connected *)

LEMMA UsableRange ==
  \A p : Usable(p) <=> \E e \in Range(disk) : e.id = p /\ (e.ring => p \in keyring)
BY DEF Usable, Range

LEMMA IdsRange == \A s, p : p \in Ids(s) <=> \E e \in Range(s) : e.id = p
BY DEF Ids, Range

(* A step that leaves the file and the keyring alone leaves everything usable. *)
LEMMA StoredUsable == UNCHANGED stored => \A p : Usable(p)' <=> Usable(p)
BY DEF stored, Usable

(* What the rename makes usable, or not: the profile of the operation only. *)
LEMMA ReplaceUsable ==
  ASSUME "flush" \notin Failures, PInv, AheadInv, Replace
  PROVE  \A p : p # op.entry.id => (Usable(p)' <=> Usable(p))
<1>1. disk' = entries /\ keyring' = keyring /\ pc = "replace"
  BY DEF Replace, FlushFails, PInv, Steps
<1>2. \A p : Usable(p)' <=> \E e \in Range(entries) : e.id = p /\ (e.ring => p \in keyring)
  BY <1>1 DEF Usable, Range
<1>3. CASE op.kind = "add"
  <2>1. Range(entries) = Range(disk) \cup {op.entry}
    BY <1>1, <1>3 DEF AheadInv
  <2> QED
    BY <1>2, <2>1, UsableRange
<1>4. CASE op.kind = "remove"
  <2>1. Range(entries) = {e \in Range(disk) : e.id # op.entry.id}
    BY <1>1, <1>4 DEF AheadInv
  <2> QED
    BY <1>2, <2>1, UsableRange
<1> QED
  BY <1>1, <1>3, <1>4 DEF PInv, Steps

(* One profile at a time: the one of an operation that goes on. *)
LEMMA OneChanges ==
  ASSUME "flush" \notin Failures, PInv, AheadInv, [Next]_vars
  PROVE  \/ \A p : Usable(p)' <=> Usable(p)
         \/ /\ op.entry.id \in Profile /\ op' = op /\ pc' \notin {"gone", "loop"}
            /\ \A p : p # op.entry.id => (Usable(p)' <=> Usable(p))
<1>1. CASE \/ UNCHANGED vars \/ AppendEntry \/ Reload \/ ReloadEscapes \/ Launch \/ Select \/ End
           \/ AskRemove \/ Cancel \/ \E p \in Profile : RemoveEntry(p) \/ RemoveNothing(p)
  <2>1. UNCHANGED stored
    BY <1>1 DEF vars, stored, AppendEntry, RemoveEntry, Reload, ReloadEscapes, Launch, Select,
                End, AskRemove, Cancel, RemoveNothing
  <2> QED
    BY <2>1, StoredUsable
<1>2. CASE OpenTemporary \/ FillTemporary
  <2>1. UNCHANGED <<disk, keyring>>
    BY <1>2 DEF OpenTemporary, FillTemporary, FlushFails, FlushEscapes
  <2> QED
    BY <2>1 DEF Usable
<1>3. ASSUME NEW q \in Profile, Add(q)
      PROVE  \A p : Usable(p)' <=> Usable(p)
  <2>1. disk' = disk /\ q \notin Ids(disk) /\ (keyring' = keyring \/ keyring' = keyring \cup {q})
    BY <1>3 DEF Add, Fresh
  <2>2. \A p : p # q => (p \in keyring' <=> p \in keyring)
    BY <2>1
  <2> QED
    BY <2>1, <2>2 DEF Usable, Ids
<1>4. CASE ClearKey
  <2>1. op.entry.id \in Profile /\ op' = op /\ pc' = "write" /\ disk' = disk
    BY <1>4 DEF ClearKey, PInv, Steps, Entry
  <2>2. \A p : p # op.entry.id => (p \in keyring' <=> p \in keyring)
    BY <1>4 DEF ClearKey
  <2> QED
    BY <2>1, <2>2 DEF Usable
<1>5. CASE Replace
  <2>1. op.entry.id \in Profile /\ op' = op /\ pc' = "reload"
    BY <1>5 DEF Replace, FlushFails, PInv, Steps, Entry
  <2> QED
    BY <1>5, <2>1, ReplaceUsable
<1> QED
  BY <1>1, <1>2, <1>3, <1>4, <1>5 DEF Next

(* What "imported" is said of. *)
LEMMA ToldMore ==
  ASSUME PInv, [Next]_vars, NEW p \in Profile, told'[p] = "imported"
  PROVE  \/ told[p] = "imported"
         \/ Reload /\ op.kind = "add" /\ p = op.entry.id
<1>1. CASE \/ UNCHANGED vars \/ AppendEntry \/ ClearKey \/ ReloadEscapes \/ Launch
           \/ Select \/ End \/ AskRemove \/ Cancel
  BY <1>1 DEF vars, AppendEntry, ClearKey, ReloadEscapes, Launch, Select, End, AskRemove, Cancel
<1>2. CASE OpenTemporary \/ FillTemporary \/ Replace
  BY <1>2 DEF OpenTemporary, FillTemporary, Replace, FlushFails, FlushEscapes, Tell, PInv, TypeOK
<1>3. ASSUME NEW q \in Profile, Add(q) \/ RemoveEntry(q) \/ RemoveNothing(q)
      PROVE  told[p] = "imported"
  <2>1. \E what \in {"nothing", "could not remove"} : told' = [told EXCEPT ![q] = what]
    BY <1>3 DEF Add, RemoveEntry, RemoveNothing
  <2> QED
    BY <2>1 DEF PInv, TypeOK
<1>4. CASE Reload
  BY <1>4 DEF Reload, Tell, PInv, TypeOK, Steps
<1> QED
  BY <1>1, <1>2, <1>3, <1>4 DEF Next

LEMMA NextTold ==
  ASSUME "flush" \notin Failures
  PROVE  PInv /\ Quiet' /\ AheadInv /\ ToldIsUsable /\ [Next]_vars => ToldIsUsable'
<1> SUFFICES ASSUME PInv, Quiet', AheadInv, ToldIsUsable, [Next]_vars,
                    NEW p \in Profile, told'[p] = "imported"
             PROVE  Usable(p)'
  BY DEF ToldIsUsable
<1>1. CASE told[p] = "imported"
  <2>1. Usable(p)
    BY <1>1 DEF ToldIsUsable
  <2>2. op' = op /\ pc' \notin {"gone", "loop"} => p # op.entry.id
    BY DEF Quiet
  <2> QED
    BY <2>1, <2>2, OneChanges
<1>2. CASE Reload /\ op.kind = "add" /\ p = op.entry.id
  <2>1. op.entry \in Range(disk) /\ (op.entry.ring => p \in keyring)
    BY <1>2 DEF AheadInv, Reload
  <2>2. Usable(p)
    BY <1>2, <2>1, UsableRange
  <2>3. UNCHANGED stored
    BY <1>2 DEF Reload
  <2> QED
    BY <2>2, <2>3, StoredUsable
<1> QED
  BY <1>1, <1>2, ToldMore

LEMMA AheadHolds ==
  ASSUME "flush" \notin Failures
  PROVE  Spec => [](PInv /\ Quiet /\ AheadInv /\ ToldIsUsable)
<1>1. Init => Quiet /\ AheadInv /\ ToldIsUsable
  BY DEF Init, Quiet, AheadInv, ToldIsUsable
<1>2. PInv /\ Quiet /\ AheadInv /\ ToldIsUsable /\ [Next]_vars
          => Quiet' /\ AheadInv' /\ ToldIsUsable'
  BY NextQuiet, NextAhead, NextTold
<1> QED
  BY <1>1, <1>2, PInvHolds, PTL DEF Spec

(* A profile that the user was told is imported is on disk with its key at
   hand, however often the process ends in the middle of something. *)
THEOREM ImportsAreKept ==
  ASSUME "flush" \notin Failures
  PROVE  Spec => []ToldIsUsable
BY AheadHolds, PTL

-----------------------------------------------------------------------------
(* The store is a vault. *)

LEMMA NextVault ==
  ASSUME "flush" \notin Failures
  PROVE  PInv /\ AheadInv /\ [Next]_vars => [V!Next]_{p \in Profile : Usable(p)}
<1> DEFINE U == {p \in Profile : Usable(p)}
<1> SUFFICES ASSUME PInv, AheadInv, [Next]_vars PROVE [V!Next]_U
  OBVIOUS
<1>1. (\A p : Usable(p)' <=> Usable(p)) => [V!Next]_U
  OBVIOUS
<1>2. ASSUME NEW q \in Profile, \A p : p # q => (Usable(p)' <=> Usable(p))
      PROVE  [V!Next]_U
  <2>1. CASE Usable(q)' <=> Usable(q)
    <3>1. \A p : Usable(p)' <=> Usable(p)
      BY <1>2, <2>1
    <3> QED
      BY <3>1, <1>1
  <2>2. CASE ~Usable(q) /\ Usable(q)'
    <3>1. U' = U \cup {q} /\ q \notin U
      BY <1>2, <2>2
    <3> QED
      BY <3>1 DEF V!Import, V!Next
  <2>3. CASE Usable(q) /\ ~Usable(q)'
    <3>1. U' = U \ {q} /\ q \in U
      BY <1>2, <2>3
    <3> QED
      BY <3>1 DEF V!Delete, V!Next
  <2> QED
    BY <2>1, <2>2, <2>3
<1> QED
  BY <1>1, <1>2, OneChanges

(* Whatever step of an import or a removal the process ends in, the profiles
   that can be connected change by one, and by nothing but these. *)
THEOREM ImplementsVault ==
  ASSUME "flush" \notin Failures
  PROVE  Spec => IsVault
<1>1. Init => V!Init
  BY DEF Init, V!Init, Usable
<1>2. PInv /\ AheadInv /\ [Next]_vars => [V!Next]_{p \in Profile : Usable(p)}
  BY NextVault
<1> QED
  BY <1>1, <1>2, AheadHolds, PTL DEF Spec, IsVault, V!Spec
=============================================================================
