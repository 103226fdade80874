----------------------------- MODULE ProfileText -----------------------------
(***************************************************************************)
(* What is done to the text of a profile: parsing and validation           *)
(* (profile.py), the split of the private key out of the text that is      *)
(* stored, and its way back (storage.py).                                  *)
(*                                                                         *)
(* A text is a sequence of lines.  A value is the sequence of parts that   *)
(* value.split("-") gives: "7" is <<7>>, "2-5" is <<2, 5>>, "-1" is        *)
(* <<Empty, 1>>, and "" is <<Empty>>.  Case and white space are left out.  *)
(***************************************************************************)
EXTENDS Integers, FiniteSets, Sequences, SequencesExt

CONSTANTS
    Drafts,         \* the texts a user begins with
    Lines,          \* the lines a user may put in
    MaxEdits,       \* bound: edits to a draft before it is imported
    MaxHeader,      \* stands for 0xFFFFFFFF
    Empty,          \* the part without characters
    Placeholder     \* "<stored-in-keyring>"

ASSUME BoundsAssumption == MaxEdits \in Nat /\ MaxHeader \in Nat

VARIABLES
    text,       \* the text in the user's hands
    edits,      \* the edits made to it
    answer,     \* what add() said: the settings at fault, {} for none, or NoAnswer
    saved,      \* the entry that was stored, and its key in the keyring
    imported    \* the profile that parse() made of the text the user imported

vars == <<text, edits, answer, saved, imported>>

NoAnswer == {"nothing said"}
NoEntry == [key |-> << >>]
NoProfile == << >>
Unset == << >>                  \* None

-----------------------------------------------------------------------------
(* The lines of a text *)

Section(name) == [is |-> "section", name |-> name]
Setting(key, value) == [is |-> "setting", key |-> key, value |-> value]
Blank == [is |-> "blank"]
Comment == [is |-> "comment"]
Junk == [is |-> "junk"]                 \* no "=", or nothing before it

Alphabet == Lines \cup UNION {ToSet(t) : t \in Drafts}
Parts == UNION {ToSet(l.value) : l \in {m \in Alphabet : m.is = "setting"}}

(* A value has at least one part, as split() returns. *)
ASSUME TextAssumption ==
    /\ Drafts \subseteq Seq(Alphabet)
    /\ \A l \in Alphabet :
           /\ l.is \in {"section", "setting", "blank", "comment", "junk"}
           /\ l.is = "setting" => /\ l = Setting(l.key, l.value)
                                 /\ l.value \in Seq(Parts) \ {<< >>}

ASSUME PlaceholderAssumption == Placeholder # Empty

-----------------------------------------------------------------------------
(* parse(), up to validate() *)

(* A line that is none, or a setting outside of any section. *)
HasLineError(t) ==
    \E i \in DOMAIN t :
        \/ t[i].is = "junk"
        \/ t[i].is = "setting" /\ \A j \in 1 .. i - 1 : t[j].is # "section"

(* The loop over the lines: what one line makes of the sections so far. *)
AddLine(ss, l) ==
    CASE l.is = "section" -> Append(ss, [name |-> l.name, entries |-> << >>])
      [] l.is = "setting" -> [ss EXCEPT ![Len(ss)].entries = Append(@, l)]
      [] OTHER -> ss

Sections(t) ==
    LET parsed[n \in 0 .. Len(t)] == IF n = 0 THEN << >> ELSE AddLine(parsed[n - 1], t[n])
    IN  parsed[Len(t)]

Interface(p) == p[SelectInSeq(p, LAMBDA s : s.name = "Interface")]
HasInterface(p) == \E i \in DOMAIN p : p[i].name = "Interface"
IsPeer(section) == section.name = "Peer"

Get(section, key) ==
    LET i == SelectInSeq(section.entries, LAMBDA e : e.key = key)
    IN  IF i = 0 THEN Unset ELSE section.entries[i].value

-----------------------------------------------------------------------------
(* Numbers *)

IsInt(v) ==
    \/ Len(v) = 1 /\ v[1] \in Nat
    \/ Len(v) = 2 /\ v[1] = Empty /\ v[2] \in Nat

AsInt(v) == IF Len(v) = 1 THEN v[1] ELSE -v[2]

(* parse_range() accepts it. *)
IsRange(v) ==
    /\ Len(v) \in {1, 2}
    /\ \A i \in DOMAIN v : v[i] \in Nat
    /\ v[1] <= Last(v) /\ Last(v) <= MaxHeader

-----------------------------------------------------------------------------
(* validate(): a sequence of checks, the first that fails is reported with
   the settings its message names *)

IntKeys == <<"Jc", "Jmin", "Jmax", "S1", "S2", "S3", "S4">>
Padding == <<"S1", "S2", "S3", "S4">>
Header == <<"H1", "H2", "H3", "H4">>
OtherRanges == <<"ContentPaddingAddition", "RekeyAfterTime", "RekeyTimeout",
                 "RejectAfterTime", "KeepaliveTimeout", "MaxHandshakeAttempts">>
Base == <<148, 92, 64, 32>>     \* the sizes of the four messages
NonceSize == 12

Check(names, fails) == [names |-> names, fails |-> fails]

Missing(section, key) == Get(section, key) \in {Unset, <<Empty>>}

Require(section, key) == Check({key}, Missing(section, key))

IsGiven(section, key) == IsInt(Get(section, key))
Number(section, key) == AsInt(Get(section, key))

IntCheck(f, key) == Check({key}, Get(f, key) # Unset /\ ~IsGiven(f, key))

JunkPacketChecks(f) ==
    <<IntCheck(f, "Jc"),
      Check({"Jc"}, IsGiven(f, "Jc") /\ Number(f, "Jc") \notin 1 .. 128),
      IntCheck(f, "Jmin"), IntCheck(f, "Jmax"),
      Check({"Jmin", "Jmax"}, /\ IsGiven(f, "Jmin") /\ IsGiven(f, "Jmax")
                              /\ Number(f, "Jmin") > Number(f, "Jmax")),
      Check({"Jmax"}, IsGiven(f, "Jmax") /\ Number(f, "Jmax") > 1280)>>

Total(f, i) == Base[i] + Number(f, Padding[i])

(* Mutant of SizeCheck: only neighbours are compared. *)
SizeCheckNeighbours(f, j, i) ==
    Check({Padding[j], Padding[i]},
          /\ i - j = 1
          /\ IsGiven(f, Padding[j]) /\ IsGiven(f, Padding[i]) /\ Total(f, j) = Total(f, i))

(* sizes[total] is the only earlier setting of this size, or the loop had ended. *)
SizeCheck(f, j, i) ==
    Check({Padding[j], Padding[i]},
          IsGiven(f, Padding[j]) /\ IsGiven(f, Padding[i]) /\ Total(f, j) = Total(f, i))

SizeChecks(f, i) ==
    <<Check({Padding[i]}, IsGiven(f, Padding[i]) /\ Number(f, Padding[i]) < 0)>>
    \o [j \in 1 .. i - 1 |-> SizeCheck(f, j, i)]

RangeCheck(f, key) == Check({key}, Get(f, key) # Unset /\ ~IsRange(Get(f, key)))

Interval(f, i) == IF Get(f, Header[i]) = Unset THEN <<i>> ELSE Get(f, Header[i])

OverlapCheck(f, i, j) ==
    LET a == Interval(f, i)
        b == Interval(f, j)
    IN  Check({Header[i], Header[j]},
              IsRange(a) /\ IsRange(b) /\ a[1] <= Last(b) /\ b[1] <= Last(a))

NonceCheck(f, key) ==
    Check({"HeaderProtectionKey", key},
          /\ Get(f, "HeaderProtectionKey") # Unset
          /\ IsGiven(f, key) => Number(f, key) < NonceSize)

Pairs == << <<1, 2>>, <<1, 3>>, <<1, 4>>, <<2, 3>>, <<2, 4>>, <<3, 4>> >>

PaddingChecks(f) == [i \in 1 .. 4 |-> IntCheck(f, Padding[i])]
PacketChecks(f) == SizeChecks(f, 1) \o SizeChecks(f, 2) \o SizeChecks(f, 3) \o SizeChecks(f, 4)
HeaderChecks(f) == [i \in 1 .. 4 |-> RangeCheck(f, Header[i])]
OverlapChecks(f) == [n \in 1 .. 6 |-> OverlapCheck(f, Pairs[n][1], Pairs[n][2])]
OtherChecks(f) == [i \in 1 .. 6 |-> RangeCheck(f, OtherRanges[i])]
ProtectionChecks(f) == [i \in 1 .. 4 |-> NonceCheck(f, Padding[i])]

ObfuscationChecks(f) ==
    JunkPacketChecks(f) \o PaddingChecks(f) \o PacketChecks(f)
    \o HeaderChecks(f) \o OverlapChecks(f) \o OtherChecks(f) \o ProtectionChecks(f)

(* A key, then an endpoint, of one peer after the other. *)
PeerCheck(section, key) == Check({key}, IsPeer(section) /\ Missing(section, key))
PeerChecks(p) ==
    [n \in 1 .. 2 * Len(p) |->
        IF n % 2 = 1 THEN PeerCheck(p[(n + 1) \div 2], "PublicKey")
        ELSE PeerCheck(p[n \div 2], "Endpoint")]

Checks(p) ==
    <<Require(Interface(p), "PrivateKey"), Require(Interface(p), "Address"),
      Check({"[Peer]"}, \A i \in DOMAIN p : ~IsPeer(p[i]))>>
    \o PeerChecks(p) \o ObfuscationChecks(Interface(p))

(* The settings named by the ProfileError of parse(), {} when there is none. *)
Complaint(t) ==
    IF HasLineError(t) THEN {"line"}
    ELSE IF ~HasInterface(Sections(t)) THEN {"[Interface]"}
    ELSE LET checks == Checks(Sections(t))
             i == SelectInSeq(checks, LAMBDA c : c.fails)
         IN  IF i = 0 THEN {} ELSE checks[i].names

-----------------------------------------------------------------------------
(* add() and resolve(): the key leaves the text, and comes back *)

FirstKeyLine(t) == SelectInSeq(t, LAMBDA l : l.is = "setting" /\ l.key = "PrivateKey")

(* \s* crosses line ends, so that an empty value is looked for further on. *)
FromNextLine(t) == t[FirstKeyLine(t)].value = <<Empty>>

(* The line that holds the value of the pattern's first match, 0 for none. *)
KeyLine(t) ==
    IF FirstKeyLine(t) = 0 \/ ~FromNextLine(t) THEN FirstKeyLine(t)
    ELSE SelectInSubSeq(t, FirstKeyLine(t) + 1, Len(t), LAMBDA l : l.is # "blank")

KeyOf(t) == IF FromNextLine(t) THEN <<t[KeyLine(t)]>> ELSE t[KeyLine(t)].value

HasKey(t) == KeyLine(t) # 0 /\ KeyOf(t) # <<Placeholder>>

(* Mutant of Redact: the text is stored as it is. *)
RedactNot(t) == t

(* _split_private_key() *)
Redact(t) ==
    [t EXCEPT ![KeyLine(t)] = IF FromNextLine(t) THEN Junk
                              ELSE Setting("PrivateKey", <<Placeholder>>)]

(* Mutant of Inject: every match is replaced. *)
InjectAll(t, key) ==
    [i \in DOMAIN t |-> IF t[i].is = "setting" /\ t[i].key = "PrivateKey"
                        THEN Setting("PrivateKey", key) ELSE t[i]]

(* _inject_private_key() *)
Inject(t, key) ==
    [t EXCEPT ![KeyLine(t)] = IF FromNextLine(t) THEN key[1] ELSE Setting("PrivateKey", key)]

Refusal(t) ==
    IF Complaint(t) # {} THEN Complaint(t)
    ELSE IF HasKey(t) THEN {} ELSE {"PrivateKey"}

Resolved(e) == IF e.ring THEN Inject(e.text, e.key) ELSE e.text

Socks5 == <<Section("Socks5"), Setting("BindAddress", <<"127.0.0.1">>)>>

(* to_text() *)
ToText(p) ==
    LET out[n \in 0 .. Len(p)] ==
            IF n = 0 THEN << >>
            ELSE out[n - 1] \o <<Section(p[n].name)>> \o p[n].entries \o <<Blank>>
    IN  out[Len(p)]

(* Mutant of EngineConfig: a section is a dictionary, a setting occurs once. *)
EngineConfigByKey(p) ==
    LET Once(entries) ==
            FoldLeft(LAMBDA es, e : IF \E i \in DOMAIN es : es[i].key = e.key THEN es
                                    ELSE Append(es, e),
                     << >>, entries)
    IN  ToText([i \in DOMAIN p |-> [p[i] EXCEPT !.entries = Once(@)]]) \o Socks5

(* to_engine_config() *)
EngineConfig(p) == ToText(p) \o Socks5

-----------------------------------------------------------------------------
(* The user edits a text and imports it *)

Init ==
    /\ text \in Drafts /\ edits = 0
    /\ answer = NoAnswer /\ saved = NoEntry /\ imported = NoProfile

Insert(i, line) ==
    /\ answer = NoAnswer /\ edits < MaxEdits
    /\ text' = InsertAt(text, i, line)
    /\ edits' = edits + 1
    /\ UNCHANGED <<answer, saved, imported>>

Delete(i) ==
    /\ answer = NoAnswer /\ edits < MaxEdits
    /\ text' = RemoveAt(text, i)
    /\ edits' = edits + 1
    /\ UNCHANGED <<answer, saved, imported>>

(* Mutant of Add: the entry is made whatever parse() says. *)
AddUnchecked ==
    /\ answer = NoAnswer /\ HasKey(text)
    /\ answer' = Refusal(text)
    /\ imported' = Sections(text)
    /\ saved' = [ring |-> TRUE, key |-> KeyOf(text), text |-> Redact(text)]
    /\ UNCHANGED <<text, edits>>

(* The keyring may refuse the key, which then stays in the text. *)
Add ==
    /\ answer = NoAnswer
    /\ answer' = Refusal(text)
    /\ \/ answer' # {} /\ UNCHANGED <<saved, imported>>
       \/ /\ answer' = {}
          /\ imported' = Sections(text)
          /\ saved' \in {[ring |-> TRUE, key |-> KeyOf(text), text |-> Redact(text)],
                         [ring |-> FALSE, key |-> << >>, text |-> text]}
    /\ UNCHANGED <<text, edits>>

(* The dialog closes; the next text has nothing to do with this one. *)
Forget ==
    /\ answer # NoAnswer
    /\ text' \in Drafts /\ edits' = 0
    /\ answer' = NoAnswer /\ saved' = NoEntry /\ imported' = NoProfile

Next ==
    \/ \E i \in 1 .. Len(text) + 1, line \in Lines : Insert(i, line)
    \/ \E i \in DOMAIN text : Delete(i)
    \/ Add
    \/ Forget

Spec == Init /\ [][Next]_vars

-----------------------------------------------------------------------------
(* What a profile must satisfy, as the head of profile.py states it: the sets
   of settings, by name, that contradict a rule. *)

Given(f) == {key \in ToSet(IntKeys) : IsGiven(f, key)}

Absent(t, p) ==
    {{key} : key \in
        {k \in {"PrivateKey", "Address"} : Missing(Interface(p), k)}
        \cup {k \in {"PrivateKey"} : ~HasKey(t)}
        \cup {k \in {"[Peer]"} : ~\E i \in DOMAIN p : IsPeer(p[i])}
        \cup {k \in {"PublicKey", "Endpoint"} :
                  \E i \in DOMAIN p : IsPeer(p[i]) /\ Missing(p[i], k)}}

Unreadable(f) ==
    {{key} : key \in
        {k \in ToSet(IntKeys) : Get(f, k) # Unset /\ ~IsInt(Get(f, k))}
        \cup {k \in ToSet(Header) \cup ToSet(OtherRanges) :
                  Get(f, k) # Unset /\ ~IsRange(Get(f, k))}}

OutOfBounds(f) ==
    {{key} : key \in
        {k \in Given(f) : \/ k = "Jc" /\ Number(f, k) \notin 1 .. 128
                          \/ k = "Jmax" /\ Number(f, k) > 1280
                          \/ k \in ToSet(Padding) /\ Number(f, k) < 0}}
    \cup {pair \in {{"Jmin", "Jmax"}} :
              pair \subseteq Given(f) /\ Number(f, "Jmin") > Number(f, "Jmax")}
    \cup {{"HeaderProtectionKey", key} : key \in
        {k \in ToSet(Padding) : /\ Get(f, "HeaderProtectionKey") # Unset
                                /\ k \notin Given(f) \/ Number(f, k) < NonceSize}}

(* Message types of one size, or with a header in common. *)
Alike(f, i, j) ==
    /\ {Padding[i], Padding[j]} \subseteq Given(f)
    /\ Total(f, i) = Total(f, j)

Covers(f, i, header) ==
    LET v == Interval(f, i) IN IsRange(v) /\ v[1] <= header /\ header <= Last(v)

Ambiguous(f) ==
    LET pairs == {q \in (1 .. 4) \X (1 .. 4) : q[1] < q[2]}
    IN  {{Padding[q[1]], Padding[q[2]]} : q \in {r \in pairs : Alike(f, r[1], r[2])}}
        \cup {{Header[q[1]], Header[q[2]]} : q \in
                  {r \in pairs : \E header \in 0 .. MaxHeader :
                                     Covers(f, r[1], header) /\ Covers(f, r[2], header)}}

Contradictions(t) ==
    LET p == Sections(t)
        f == Interface(p)
    IN  Absent(t, p) \cup Unreadable(f) \cup OutOfBounds(f) \cup Ambiguous(f)

-----------------------------------------------------------------------------
(* The variables keep their types. *)
TypeOK ==
    /\ edits \in 0 .. MaxEdits
    /\ \A i \in DOMAIN text : text[i].is \in {"section", "setting", "blank", "comment", "junk"}
    /\ answer = {} <=> saved # NoEntry
    /\ saved # NoEntry => HasInterface(imported)

(* A text is refused exactly when a rule is broken, and the settings that the
   message names are settings which break one: validation stops at the first
   failure, whichever it is, and never at an innocent setting. *)
ComplaintIsExact ==
    answer # NoAnswer /\ ~HasLineError(text) /\ HasInterface(Sections(text)) =>
        IF answer = {} THEN Contradictions(text) = {} ELSE answer \in Contradictions(text)

(* What resolve() makes of the stored text and the key is the text that was
   imported, whichever line the key was on and however many there were. *)
KeyComesBack == saved # NoEntry => Resolved(saved) = text

(* The engine is given the profile that was imported, parameters untouched,
   and nothing but a [Socks5] section; by way of the keyring too, wherever
   the key was in the text, and whatever followed it. *)
EngineGetsTheImport ==
    saved # NoEntry =>
        /\ Complaint(Resolved(saved)) = {}
        /\ Sections(EngineConfig(Sections(Resolved(saved)))) = imported \o Sections(Socks5)

(* "The key itself goes to the Secret Service": with one PrivateKey line, the
   keyring holds the key that the engine needs, and that line of the file does
   not: what still has its value is another setting. *)
KeyLeavesTheText ==
    saved # NoEntry /\ saved.ring
    /\ Cardinality({i \in DOMAIN text : text[i].is = "setting" /\ text[i].key = "PrivateKey"}) = 1 =>
        /\ saved.key = Get(Interface(imported), "PrivateKey")
        /\ \A i \in DOMAIN saved.text :
               saved.text[i].is = "setting" /\ saved.text[i].value = saved.key =>
                   saved.text[i].key # "PrivateKey"
=============================================================================
