-------------------------- MODULE ProfileTextProofs --------------------------
(***************************************************************************)
(* Proofs about the text of a profile, for every draft and edit.           *)
(***************************************************************************)
EXTENDS ProfileLemmas

(* The specification *)

InRing(e) == e = [ring |-> TRUE, key |-> KeyOf(text), text |-> Redact(text)]
InFile(e) == e = [ring |-> FALSE, key |-> << >>, text |-> text]

(* What add() said, and what it made, of the text in the user's hands. *)
Outcome ==
    /\ answer # NoAnswer => answer = Refusal(text)
    /\ saved # NoEntry => /\ Accepted(text) /\ imported = Sections(text)
                          /\ InRing(saved) \/ InFile(saved)

TInv == TypeOK /\ IsText(text) /\ KeyComesBack /\ Outcome

LEMMA EditText ==
  ASSUME NEW t, IsText(t)
  PROVE  /\ \A i \in 1 .. Len(t) + 1, l \in Lines : IsText(InsertAt(t, i, l))
         /\ \A i \in 1 .. Len(t) : IsText(RemoveAt(t, i))
<1>1. t \in Seq(Alphabet) /\ Len(t) \in Nat
  BY DEF IsText
<1>2. ASSUME NEW i \in 1 .. Len(t) + 1, NEW l \in Lines PROVE IsText(InsertAt(t, i, l))
  <2>1. SubSeq(t, 1, i - 1) \in Seq(Alphabet) /\ SubSeq(t, i, Len(t)) \in Seq(Alphabet)
    BY <1>1
  <2>2. <<l>> \in Seq(Alphabet)
    BY DEF Alphabet
  <2>3. SubSeq(t, 1, i - 1) \o <<l>> \in Seq(Alphabet)
    BY <2>1, <2>2
  <2> QED
    BY <2>1, <2>3 DEF InsertAt, IsText
<1>3. ASSUME NEW i \in 1 .. Len(t) PROVE IsText(RemoveAt(t, i))
  <2>1. SubSeq(t, 1, i - 1) \in Seq(Alphabet) /\ SubSeq(t, i + 1, Len(t)) \in Seq(Alphabet)
    BY <1>1
  <2> QED
    BY <2>1 DEF RemoveAt, IsText
<1> QED
  BY <1>2, <1>3

Kinds(t) == \A i \in DOMAIN t : t[i].is \in {"section", "setting", "blank", "comment", "junk"}

LEMMA TextKinds ==
  ASSUME NEW t, IsText(t)
  PROVE  Kinds(t)
BY TextLines DEF Kinds

LEMMA NothingSaid == NoAnswer # {}
BY DEF NoAnswer

LEMMA InitTInv == Init => TInv
<1> SUFFICES ASSUME Init PROVE TInv
  OBVIOUS
<1>1. IsText(text) /\ Kinds(text)
  BY TextAssumption, TextKinds DEF Init, IsText
<1>2. edits \in 0 .. MaxEdits
  BY BoundsAssumption DEF Init
<1>3. answer # {} /\ answer = NoAnswer /\ saved = NoEntry
  BY NothingSaid DEF Init
<1> QED
  BY <1>1, <1>2, <1>3 DEF TInv, TypeOK, KeyComesBack, Outcome, Kinds

LEMMA EditTInv ==
  ASSUME TInv, answer = NoAnswer, edits < MaxEdits, IsText(text'), edits' = edits + 1,
         UNCHANGED <<answer, saved, imported>>
  PROVE  TInv'
<1>1. Kinds(text')
  BY TextKinds
<1>2. answer # {} /\ saved = NoEntry
  BY NothingSaid DEF TInv, TypeOK
<1>3. edits' \in 0 .. MaxEdits
  BY BoundsAssumption DEF TInv, TypeOK
<1> QED
  BY <1>1, <1>2, <1>3 DEF TInv, TypeOK, KeyComesBack, Outcome, Kinds

LEMMA AddTInv == TInv /\ Add => TInv'
<1> SUFFICES ASSUME TInv, Add PROVE TInv'
  OBVIOUS
<1> DEFINE SavedBy == /\ imported' = Sections(text)
                      /\ saved' \in {[ring |-> TRUE, key |-> KeyOf(text), text |-> Redact(text)],
                                     [ring |-> FALSE, key |-> << >>, text |-> text]}
<1>1. UNCHANGED <<text, edits>> /\ IsText(text) /\ saved = NoEntry /\ answer' = Refusal(text)
  BY NothingSaid DEF Add, TInv, TypeOK
<1>2. CASE answer' # {} /\ UNCHANGED <<saved, imported>>
  <2>1. IsText(text)' /\ KeyComesBack' /\ Outcome'
    BY <1>1, <1>2 DEF IsText, KeyComesBack, Outcome
  <2>2. TypeOK'
    BY <1>1, <1>2 DEF TInv, TypeOK
  <2> QED
    BY <2>1, <2>2 DEF TInv
<1>3. CASE answer' = {} /\ SavedBy
  <2>1. Accepted(text)
    BY <1>1, <1>3 DEF Refusal, Accepted
  <2>2. HasInterface(Sections(text)) /\ imported' = Sections(text)
    BY <1>1, <1>3, <2>1, AcceptedIsFaultless
  <2>3. InRing(saved') \/ InFile(saved')
    BY <1>3 DEF InRing, InFile
  <2>4. Resolved(saved') = text /\ saved' # NoEntry
    <3>1. CASE InRing(saved')
      BY <1>1, <2>1, <3>1, RoundTrip DEF Resolved, NoEntry, InRing, Accepted
    <3>2. CASE InFile(saved')
      BY <3>2 DEF Resolved, NoEntry, InFile
    <3> QED
      BY <2>3, <3>1, <3>2
  <2>5. IsText(text)' /\ KeyComesBack'
    BY <1>1, <2>4 DEF IsText, KeyComesBack
  <2>6. TypeOK'
    BY <1>1, <1>3, <2>2, <2>4 DEF TInv, TypeOK
  <2>7. Outcome'
    <3>1. answer' = Refusal(text') /\ Accepted(text') /\ imported' = Sections(text')
      BY <1>1, <2>1, <2>2
    <3>2. (InRing(saved) \/ InFile(saved))'
      BY <1>1, <2>3 DEF InRing, InFile
    <3> QED
      BY <3>1, <3>2 DEF Outcome
  <2> QED
    BY <2>5, <2>6, <2>7 DEF TInv
<1> QED
  BY <1>2, <1>3 DEF Add

LEMMA NextTInv == TInv /\ [Next]_vars => TInv'
<1> SUFFICES ASSUME TInv, [Next]_vars PROVE TInv'
  OBVIOUS
<1>1. CASE UNCHANGED vars
  BY <1>1 DEF vars, TInv, TypeOK, IsText, KeyComesBack, Outcome, InRing, InFile
<1>2. ASSUME NEW i \in 1 .. Len(text) + 1, NEW line \in Lines, Insert(i, line) PROVE TInv'
  BY <1>2, EditText, EditTInv DEF Insert, TInv
<1>3. ASSUME NEW i \in DOMAIN text, Delete(i) PROVE TInv'
  <2>1. i \in 1 .. Len(text)
    BY TextLines DEF TInv
  <2> QED
    BY <1>3, <2>1, EditText, EditTInv DEF Delete, TInv
<1>4. CASE Forget
  <2>1. IsText(text') /\ Kinds(text')
    BY <1>4, TextAssumption, TextKinds DEF Forget, IsText
  <2>2. edits' \in 0 .. MaxEdits
    BY <1>4, BoundsAssumption DEF Forget
  <2>3. answer' # {} /\ answer' = NoAnswer /\ saved' = NoEntry
    BY <1>4, NothingSaid DEF Forget
  <2> QED
    BY <2>1, <2>2, <2>3 DEF TInv, TypeOK, KeyComesBack, Outcome, Kinds
<1> QED
  BY <1>1, <1>2, <1>3, <1>4, AddTInv DEF Next

(* The inductive invariant. *)
THEOREM TInvHolds == Spec => []TInv
<1> QED
  BY InitTInv, NextTInv, PTL DEF Spec

(* The variables keep their types, and a profile without an [Interface] is
   never stored. *)
THEOREM TypeCorrect == Spec => []TypeOK
<1>1. TInv => TypeOK
  BY DEF TInv
<1> QED
  BY <1>1, TInvHolds, PTL

(* _inject_private_key() undoes _split_private_key(): what is resolved is the
   text that was imported, for every text, also when the pattern ran on to a
   later line, or another PrivateKey follows. *)
THEOREM KeyIsPutBack == Spec => []KeyComesBack
<1>1. TInv => KeyComesBack
  BY DEF TInv
<1> QED
  BY <1>1, TInvHolds, PTL

-----------------------------------------------------------------------------
(* What add() answers, and what it keeps *)

LEMMA ExactAnswer == TInv => ComplaintIsExact
<1> SUFFICES ASSUME TInv, answer # NoAnswer, ~HasLineError(text), HasInterface(Sections(text))
             PROVE  IF answer = {} THEN Contradictions(text) = {} ELSE answer \in Contradictions(text)
  BY DEF ComplaintIsExact
<1>1. IsText(text) /\ answer = Refusal(text)
  BY DEF TInv, Outcome
<1>2. CASE answer = {}
  <2>1. Accepted(text)
    BY <1>1, <1>2 DEF Refusal, Accepted
  <2> QED
    BY <1>1, <1>2, <2>1, AcceptedIsFaultless
<1>3. CASE answer # {} /\ Complaint(text) # {}
  <2>1. answer = Complaint(text) /\ answer \in Failing(Checks(Sections(text)))
    BY <1>1, <1>3, ComplaintFails DEF Refusal
  <2> QED
    BY <1>1, <1>3, <2>1, ChecksFailing
<1>4. CASE answer # {} /\ Complaint(text) = {}
  <2>1. answer = {"PrivateKey"} /\ ~HasKey(text)
    BY <1>1, <1>4 DEF Refusal
  <2> QED
    BY <1>1, <1>4, <2>1, ChecksFailing
<1> QED
  BY <1>2, <1>3, <1>4

(* Validation is sound and complete: an accepted profile breaks none of the
   rules that the head of profile.py lists, a refused one breaks the rule that
   the message names, for every text. *)
THEOREM AnswerIsExact == Spec => []ComplaintIsExact
<1> QED
  BY ExactAnswer, TInvHolds, PTL

LEMMA ConfigIsImport == TInv => EngineGetsTheImport
<1> SUFFICES ASSUME TInv, saved # NoEntry
             PROVE  /\ Complaint(Resolved(saved)) = {}
                    /\ Sections(EngineConfig(Sections(Resolved(saved)))) = imported \o Sections(Socks5)
  BY DEF EngineGetsTheImport
<1>1. Resolved(saved) = text /\ Accepted(text) /\ imported = Sections(text)
  BY DEF TInv, KeyComesBack, Outcome
<1>2. Sections(text) \in SectionsOver(Alphabet)
  BY SectionsType DEF TInv, IsText
<1>3. Sections(EngineConfig(Sections(text))) = Sections(text) \o Sections(Socks5)
  BY <1>2, ConfigReadBack
<1> QED
  BY <1>1, <1>3 DEF Accepted

(* The engine reads the imported profile and [Socks5], after the key has been
   out of the text and back: every section, every setting, in their order and
   however often they occur. *)
THEOREM EngineReadsTheImport == Spec => []EngineGetsTheImport
<1> QED
  BY ConfigIsImport, TInvHolds, PTL

LEMMA KeyIsOut == TInv => KeyLeavesTheText
<1> SUFFICES ASSUME TInv, saved # NoEntry, saved.ring, Cardinality({i \in DOMAIN text : IsKey(text[i])}) = 1
             PROVE  /\ saved.key = Get(Interface(imported), "PrivateKey")
                    /\ \A i \in DOMAIN saved.text :
                           saved.text[i].is = "setting" /\ saved.text[i].value = saved.key =>
                               saved.text[i].key # "PrivateKey"
  BY DEF KeyLeavesTheText, IsKey
<1>1. IsText(text) /\ Accepted(text) /\ imported = Sections(text)
  BY DEF TInv, Outcome
<1>2. saved.key = KeyOf(text) /\ saved.text = Redact(text)
  BY DEF TInv, Outcome, InRing, InFile
<1>3. saved.key = Get(Interface(imported), "PrivateKey")
  BY <1>1, <1>2, OnlyKey
<1>4. \A i \in DOMAIN Redact(text) :
          Redact(text)[i].is = "setting" /\ Redact(text)[i].value = KeyOf(text) =>
              Redact(text)[i].key # "PrivateKey"
  BY <1>1, RedactedLines
<1> QED
  BY <1>2, <1>3, <1>4

(* The keyring gets the key the engine will use, and the file loses it. *)
THEOREM KeyIsSplitOff == Spec => []KeyLeavesTheText
<1> QED
  BY KeyIsOut, TInvHolds, PTL
=============================================================================
