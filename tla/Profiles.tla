------------------------------ MODULE Profiles ------------------------------
(***************************************************************************)
(* The profile store (storage.py) and the half of the window that lists,   *)
(* imports and removes profiles and tells where their keys are             *)
(* (window.py).                                                            *)
(*                                                                         *)
(* A profile is in four places that are not written together: the JSON     *)
(* file, the system keyring, the ProfileStore object, and the window's     *)
(* list.  An operation is a sequence of steps; the file system, the        *)
(* keyring, and the end of the process come between any two of them.       *)
(*                                                                         *)
(* A profile's identity is a uuid drawn by add().  A name is drawn again   *)
(* once nothing holds it, so the number of imports is not bounded.         *)
(***************************************************************************)
EXTENDS Naturals, Sequences, SequencesExt

CONSTANTS
    Profile,        \* the identities that add() may draw
    Torn,           \* a file that is not written to its end, which json.loads() refuses
    NoFile,         \* there is no such file
    Failures        \* what may go wrong, see below

(* "store", "clear": the keyring refuses to keep, or to delete, a key;
   "flush": the file cannot be written or replaced;
   "load":  the file cannot be read;
   "kill":  the process ends in the middle of an operation. *)
ASSUME FailuresAssumption == Failures \subseteq {"store", "clear", "flush", "load", "kill"}

ASSUME TornAssumption ==
    /\ Torn \notin Seq([id : Profile, ring : BOOLEAN])
    /\ NoFile \notin Seq([id : Profile, ring : BOOLEAN])
    /\ Torn # NoFile

VARIABLES
    disk,       \* profiles.json: entries, in order; none when there is no file yet
    temporary,  \* profiles.json.tmp, which outlives the process that left it
    keyring,    \* profiles whose key the Secret Service holds
    entries,    \* ProfileStore._entries
    view,       \* the window's _profiles
    selected,   \* the row selected, 0 when there is none
    opened,     \* _store is not None
    banner,     \* "proxy", the permanent text, or "key on disk"
    asked,      \* the profile an open Remove dialog is about, if there is one
    pc,         \* the step of add() or remove() that comes next; "gone" without a process
    op,         \* the operation in progress: its kind and its entry
    told        \* the last thing the user was told of each profile

stored == <<disk, temporary, keyring>>
window == <<view, selected, opened, banner, asked>>
vars == <<disk, temporary, keyring, entries, view, selected, opened, banner, asked,
          pc, op, told>>

Entry == [id : Profile, ring : BOOLEAN]     \* ring: key_in_keyring
Ids(s) == {s[i].id : i \in DOMAIN s}
NoOp == [kind |-> "none"]

(* A temporary file that was left behind is never read. *)
Fresh(p) == p \notin Ids(disk) \cup Ids(entries) \cup Ids(view) \cup keyring \cup asked

Init ==
    /\ disk = << >> /\ temporary = NoFile /\ keyring = {}
    /\ entries = << >> /\ view = << >> /\ selected = 0
    /\ opened = FALSE /\ banner = "proxy" /\ asked = {}
    /\ pc = "gone" /\ op = NoOp
    /\ told = [p \in Profile |-> "nothing"]

-----------------------------------------------------------------------------
(* What the window shows *)

(* resolve(): the entry is known and its key can be had. *)
Resolves(id, es, ring) ==
    \E i \in DOMAIN es : es[i].id = id /\ (es[i].ring => id \in ring)

(* Mutant of KeyOnDisk: told for the keys that are in the keyring. *)
KeyInKeyring(v, i, es) == i # 0 /\ Resolves(v[i].id, es, keyring) /\ v[i].ring

(* What _refresh_profile_details() finds for row i. *)
KeyOnDisk(v, i, es) == i # 0 /\ Resolves(v[i].id, es, keyring) /\ ~v[i].ring

(* The file is read back into a new ProfileStore and listed, first row
   selected; if it cannot be read, the list is empty and the old object,
   if any, is kept. *)
LoadProfiles ==
    \/ /\ disk # Torn
       /\ entries' = disk /\ view' = disk /\ opened' = TRUE
    \/ /\ disk = Torn \/ "load" \in Failures
       /\ view' = << >> /\ UNCHANGED <<entries, opened>>

(* Mutant of Show: the selected row is kept. *)
ShowSameRow(rows) ==
    /\ UNCHANGED selected
    /\ banner' = IF \E i \in Range(rows) : KeyOnDisk(view', i, entries') THEN "key on disk"
                                                                      ELSE banner

First(v) == IF v = << >> THEN 0 ELSE 1

(* The rows are selected in turn.  The banner is set when a key is on disk,
   and is not set back. *)
Show(rows) ==
    /\ selected' = Last(rows)
    /\ banner' = IF \E i \in Range(rows) : KeyOnDisk(view', i, entries') THEN "key on disk"
                                                                      ELSE banner

(* The dialog takes the window's input. *)
Select ==
    /\ pc = "loop" /\ asked = {}
    /\ \E i \in DOMAIN view \ {selected} :
           /\ selected' = i
           /\ banner' = IF KeyOnDisk(view, i, entries) THEN "key on disk" ELSE banner
    /\ UNCHANGED <<stored, entries, view, opened, asked, pc, op, told>>

-----------------------------------------------------------------------------
(* add(): the keyring, the object, the file *)

(* Mutant of Add: what _keyring_store() returns is not looked at. *)
AddAssumingKeyring(p) ==
    /\ pc = "loop" /\ opened
    /\ Fresh(p)
    /\ keyring' \in {keyring, keyring \cup {p}}
    /\ op' = [kind |-> "add", entry |-> [id |-> p, ring |-> TRUE]]
    /\ pc' = "append"
    /\ told' = [told EXCEPT ![p] = "nothing"]
    /\ UNCHANGED <<disk, temporary, entries, window>>

Add(p) ==
    /\ pc = "loop" /\ opened
    /\ Fresh(p)
    /\ \E ring \in IF "store" \in Failures THEN BOOLEAN ELSE {TRUE} :
           /\ keyring' = IF ring THEN keyring \cup {p} ELSE keyring
           /\ op' = [kind |-> "add", entry |-> [id |-> p, ring |-> ring]]
    /\ pc' = "append"
    /\ told' = [told EXCEPT ![p] = "nothing"]
    /\ UNCHANGED <<disk, temporary, entries, window>>

AppendEntry ==
    /\ pc = "append"
    /\ entries' = Append(entries, op.entry)
    /\ pc' = "write"
    /\ UNCHANGED <<stored, window, op, told>>

-----------------------------------------------------------------------------
(* remove(): the dialog, the object, the keyring, the file *)

(* The dialog is about the profile that is selected when it opens. *)
AskRemove ==
    /\ pc = "loop" /\ opened /\ selected # 0 /\ asked = {}
    /\ asked' = {view[selected].id}
    /\ UNCHANGED <<stored, entries, view, selected, opened, banner, pc, op, told>>

Cancel ==
    /\ pc = "loop" /\ asked # {}
    /\ asked' = {}
    /\ UNCHANGED <<stored, entries, view, selected, opened, banner, pc, op, told>>

(* By then an import may have ended and selected another row; no two entries
   have one id. *)
RemoveEntry(p) ==
    /\ pc = "loop" /\ opened /\ p \in asked
    /\ \E i \in DOMAIN entries :
           /\ entries[i].id = p
           /\ entries' = RemoveAt(entries, i)
           /\ op' = [kind |-> "remove", entry |-> entries[i]]
    /\ asked' = {}
    /\ pc' = "clear"
    /\ told' = [told EXCEPT ![p] = "nothing"]
    /\ UNCHANGED <<stored, view, selected, opened, banner>>

(* "No such profile": the list is behind the object. *)
RemoveNothing(p) ==
    /\ pc = "loop" /\ opened /\ p \in asked
    /\ p \notin Ids(entries)
    /\ asked' = {}
    /\ told' = [told EXCEPT ![p] = "could not remove"]
    /\ UNCHANGED <<stored, entries, view, selected, opened, banner, pc, op>>

(* Mutant of ClearKey: the attributes that select the key are left out. *)
ClearAllKeys ==
    /\ pc = "clear"
    /\ keyring' = {}
    /\ pc' = "write"
    /\ UNCHANGED <<disk, temporary, entries, window, op, told>>

(* Mutant of ClearKey: the key is left in the keyring. *)
ClearNoKey ==
    /\ pc = "clear"
    /\ pc' = "write"
    /\ UNCHANGED <<stored, entries, window, op, told>>

(* An error of the keyring is suppressed. *)
ClearKey ==
    /\ pc = "clear"
    /\ \/ keyring' = keyring \ {op.entry.id}
       \/ "clear" \in Failures /\ UNCHANGED keyring
    /\ pc' = "write"
    /\ UNCHANGED <<disk, temporary, entries, window, op, told>>

-----------------------------------------------------------------------------
(* _flush(), and what the window says of the outcome *)

Tell(kind) == told' = [told EXCEPT ![op.entry.id] = kind]

(* StorageError: a dialog, and the list stays. *)
FlushFails ==
    /\ "flush" \in Failures
    /\ Tell(IF op.kind = "add" THEN "cannot be used" ELSE "could not remove")
    /\ pc' = "loop" /\ op' = NoOp
    /\ UNCHANGED <<disk, temporary>>

(* data_dir() is outside the try: its OSError ends the handler, and nobody is
   told. *)
FlushEscapes ==
    /\ "flush" \in Failures
    /\ pc' = "loop" /\ op' = NoOp
    /\ UNCHANGED <<disk, temporary, told>>

(* O_CREAT and O_TRUNC: what an earlier attempt left is gone. *)
OpenTemporary ==
    /\ pc = "write"
    /\ \/ FlushEscapes
       \/ FlushFails
       \/ temporary' = Torn /\ pc' = "fill" /\ UNCHANGED <<disk, op, told>>
    /\ UNCHANGED <<keyring, entries, window>>

(* Mutant of FillTemporary: the stream is not closed before the rename, and
   its buffer is still to be written. *)
FillUnclosed ==
    /\ pc = "fill"
    /\ FlushFails \/ (pc' = "replace" /\ UNCHANGED <<disk, temporary, op, told>>)
    /\ UNCHANGED <<keyring, entries, window>>

(* The stream is written and closed. *)
FillTemporary ==
    /\ pc = "fill"
    /\ \/ FlushFails
       \/ temporary' = entries /\ pc' = "replace" /\ UNCHANGED <<disk, op, told>>
    /\ UNCHANGED <<keyring, entries, window>>

Replace ==
    /\ pc = "replace"
    /\ \/ FlushFails
       \/ /\ disk' = temporary /\ temporary' = NoFile
          /\ pc' = "reload" /\ UNCHANGED <<op, told>>
    /\ UNCHANGED <<keyring, entries, window>>

(* _load_profiles(), then the imported profile, which is last, is selected;
   for an empty list set_selected(-1) raises, and nothing more is said. *)
Reload ==
    /\ pc = "reload"
    /\ LoadProfiles
    /\ Show(IF op.kind = "add" THEN <<First(view'), Len(view')>> ELSE <<First(view')>>)
    /\ Tell(CASE op.kind = "remove" -> "removed"
              [] op.kind = "add" /\ view' = << >> -> "nothing"
              [] OTHER -> "imported")
    /\ pc' = "loop" /\ op' = NoOp
    /\ UNCHANGED <<stored, asked>>

(* load() calls data_dir() outside its try as well: the list stays as it is. *)
ReloadEscapes ==
    /\ pc = "reload" /\ "load" \in Failures
    /\ pc' = "loop" /\ op' = NoOp
    /\ UNCHANGED <<stored, entries, window, told>>

-----------------------------------------------------------------------------
Launch ==
    /\ pc = "gone"
    /\ LoadProfiles
    /\ Show(<<First(view')>>)
    /\ pc' = "loop"
    /\ UNCHANGED <<stored, asked, op, told>>

End ==
    /\ pc = "loop" \/ (pc # "gone" /\ "kill" \in Failures)
    /\ pc' = "gone" /\ op' = NoOp
    /\ entries' = << >> /\ view' = << >> /\ selected' = 0
    /\ opened' = FALSE /\ banner' = "proxy" /\ asked' = {}
    /\ UNCHANGED <<stored, told>>

Next ==
    \/ \E p \in Profile : Add(p) \/ RemoveEntry(p) \/ RemoveNothing(p)
    \/ AppendEntry \/ AskRemove \/ Cancel \/ ClearKey
    \/ OpenTemporary \/ FillTemporary \/ Replace \/ Reload \/ ReloadEscapes
    \/ Select \/ Launch \/ End

Spec == Init /\ [][Next]_vars

-----------------------------------------------------------------------------
(* The variables keep their types; the profiles of a list are distinct. *)
IsList(s) ==
    /\ s \in Seq(Entry)
    /\ \A i, j \in DOMAIN s : s[i].id = s[j].id => i = j

TypeOK ==
    /\ disk = Torn \/ IsList(disk)
    /\ temporary \in {Torn, NoFile} \/ IsList(temporary)
    /\ keyring \subseteq Profile
    /\ IsList(entries) /\ IsList(view)
    /\ selected \in 0 .. Len(view)
    /\ opened \in BOOLEAN /\ banner \in {"proxy", "key on disk"}
    /\ asked \subseteq Profile
    /\ pc \in {"gone", "loop", "append", "clear", "write", "fill", "replace", "reload"}
    /\ op = NoOp \/ op \in [kind : {"add", "remove"}, entry : Entry]
    /\ told \in [Profile -> {"nothing", "imported", "cannot be used", "removed",
                             "could not remove"}]

Usable(p) == \E i \in DOMAIN disk : disk[i].id = p /\ (disk[i].ring => p \in keyring)

(* Whatever a failed write or a killed process left beside it, profiles.json
   is a file that can be read, and _flush() returns with all of the object
   in it. *)
DiskIsWhole ==
    /\ disk # Torn
    /\ pc = "reload" => disk = entries

(* A profile that the user was told is imported is on disk with its key at
   hand, across crashes. *)
ToldIsUsable ==
    \A p \in Profile : told[p] = "imported" => Usable(p)

(* "That profile cannot be used": it is not in the file. *)
RefusedStaysOut ==
    \A p \in Profile : told[p] = "cannot be used" => p \notin Ids(disk)

(* "The profile and its private key will be deleted from this device." *)
RemovedIsGone ==
    \A p \in Profile : told[p] = "removed" => p \notin Ids(disk) \cup keyring

(* "the app says so in its banner rather than downgrading quietly": while a
   profile whose key is on disk is selected, the banner says so. *)
DowngradeIsTold ==
    pc = "loop" /\ selected # 0 /\ ~view[selected].ring => banner = "key on disk"

(* The store is a vault: with writes that succeed, wherever the process ends
   and whatever the keyring refuses, one profile at a time becomes usable or
   stops being usable. *)
V == INSTANCE Vault WITH usable <- {p \in Profile : Usable(p)}
IsVault == V!Spec
=============================================================================
