----------------------------- MODULE SocksProofs -----------------------------
(***************************************************************************)
(* Proofs about the SOCKS5 client, for every set of answers of any length, *)
(* every destination, every limit and chunk, and every way recv() cuts an  *)
(* answer into pieces.                                                     *)
(*                                                                         *)
(* Progress says for each read what the bytes before it have shown, so     *)
(* that where the client stops is where the answer, read as a whole, has   *)
(* its first fault, and the body begins where the bound address ends.      *)
(***************************************************************************)
EXTENDS Socks, TLAPS

Agreed == Len(answer) >= 2 /\ answer[1] = 5 /\ answer[2] = 0 /\ Usable(host)
Accepted == Agreed /\ Len(answer) >= 6 /\ answer[4] = 0

(* The places of a call that is not on its way out yet. *)
Going == {"connect", "greeting", "reply", "length", "bound", "body"}

(* Which socket a call holds at each place; a way out that comes to a clause
   meets the socket that this clause can close. *)
Holds ==
    /\ pc = "connect" => sock = "none"
    /\ Handshaking \/ pc = "except" => sock = "open"
    /\ pc = "body" => sock = IF secure THEN "wrapped" ELSE "open"
    /\ pc = "with" => sock = "wrapped"
    /\ pc = "finally" => sock \in {"open", "closed"}
    /\ pc = "done" => sock \in {"none", "closed"}

Progress ==
    /\ pc = "connect" => mark = 0 /\ taken = 0
    /\ pc = "greeting" => mark = 0 /\ need = 2
    /\ pc = "reply" => mark = 2 /\ need = 4 /\ Agreed
    /\ pc = "length" => mark = 6 /\ need = 1 /\ Accepted /\ answer[6] = 3
    /\ pc = "bound" => /\ Accepted /\ answer[6] \in {1, 3, 4}
                       /\ answer[6] = 3 => Len(answer) > 6
                       /\ mark + need = AddressEnd
    /\ pc = "body" => /\ Accepted /\ answer[6] \in {1, 3, 4}
                      /\ AddressEnd <= Len(answer)
                      /\ mark = AddressEnd /\ need = CHUNK
                      /\ taken - mark <= MAX_BYTES + CHUNK - 1
    /\ pc \in Going => result = Nothing

SInv == TypeOK /\ Holds /\ Progress /\ PiecesDoNotMatter /\ OSErrorIsEarned

-----------------------------------------------------------------------------
(* What a call can end with is told apart by its tag. *)
LEMMA Outcomes ==
  /\ Nothing # OSError
  /\ \A w : SocksError(w) # Nothing /\ SocksError(w) # OSError
  /\ \A s : Parse(s) # Nothing /\ Parse(s) # OSError
<1>1. /\ Nothing.tag = "none" /\ OSError.tag = "OSError"
      /\ \A w : SocksError(w).tag = "SocksError"
      /\ \A s : Returned(s).tag = "text"
  BY DEF Nothing, OSError, SocksError, Returned
<1>2. \A s : Parse(s).tag \in {"SocksError", "text"}
  BY <1>1 DEF Parse
<1> QED
  BY <1>1, <1>2

LEMMA AnswerTypes ==
  ASSUME TypeOK
  PROVE  /\ answer \in Seq(Nat) /\ Len(answer) \in Nat
         /\ \A i \in 1 .. Len(answer) : answer[i] \in Nat
         /\ mark \in Nat /\ taken \in Nat /\ need \in Nat
         /\ mark <= taken /\ taken <= Len(answer)
BY SocksAssumption DEF TypeOK

LEMMA AddressEndType ==
  ASSUME TypeOK, Len(answer) >= 6
  PROVE  AddressEnd \in Nat
<1>1. CASE answer[6] = 3 /\ Len(answer) > 6
  BY <1>1, AnswerTypes DEF AddressEnd
<1>2. CASE ~(answer[6] = 3 /\ Len(answer) > 6)
  BY <1>2 DEF AddressEnd
<1> QED
  BY <1>1, <1>2

(* Where the address ends, for the types the client knows. *)
LEMMA AddressEnds ==
  /\ answer[6] = 1 => AddressEnd = 12
  /\ answer[6] = 4 => AddressEnd = 24
  /\ answer[6] = 3 /\ Len(answer) > 6 => AddressEnd = 7 + answer[7] + 2
BY DEF AddressEnd

LEMMA InitSInv == Init => SInv
<1> SUFFICES ASSUME Init PROVE SInv
  OBVIOUS
<1>1. Len(answer) \in Nat
  BY SocksAssumption DEF Init
<1>2. TypeOK
  BY <1>1 DEF Init, TypeOK, Handshaking
<1>3. Holds /\ Progress /\ PiecesDoNotMatter /\ OSErrorIsEarned
  BY Outcomes DEF Init, Holds, Handshaking, Progress, Going, PiecesDoNotMatter, OSErrorIsEarned
<1> QED
  BY <1>2, <1>3 DEF SInv

(* A call is on its way out with a result that the answer as a whole accounts
   for, by way of a clause that can close its socket. *)
LEMMA LeaveSInv ==
  ASSUME SInv, NEW r, NEW clause \in {"except", "with", "finally", "done"},
         Leave(clause, r), Holds',
         sock' \in {"none", "open", "wrapped", "closed"}, sock = "none" => sock' = "none",
         r \notin {Nothing, OSError} =>
            IF Refusal # Nothing THEN r = Refusal
            ELSE /\ ending = "close" \/ Size >= MAX_BYTES
                 /\ \E n \in Lengths :
                        r = Parse(SubSeq(answer, AddressEnd + 1, AddressEnd + n)),
         r = OSError =>
            \/ sock = "none"
            \/ Refusal = OSError
            \/ Refusal = Nothing /\ (secure \/ (ending # "close" /\ Size < MAX_BYTES))
  PROVE  SInv'
<1>1. /\ UNCHANGED <<answer, ending, host, secure, mark, need, taken>>
      /\ pc' = clause /\ result' = r
  BY DEF Leave, call
<1>2. TypeOK'
  BY <1>1 DEF SInv, TypeOK, Handshaking
<1>3. Progress'
  BY <1>1 DEF Progress, Going
<1>4. UNCHANGED <<Refusal, Size, Lengths, AddressEnd>>
  BY <1>1 DEF Refusal, Size, Lengths, AddressEnd, Short
<1>5. PiecesDoNotMatter' /\ OSErrorIsEarned'
  BY <1>1, <1>4 DEF PiecesDoNotMatter, OSErrorIsEarned
<1> QED
  BY <1>2, <1>3, <1>5 DEF SInv

(* A refusal that the answer deserves ends a call properly; it is raised in
   the handshake, where the except finds the socket open. *)
LEMMA RefuseSInv ==
  ASSUME SInv, NEW r, Handshaking, Raise(r), r = Refusal, Refusal # Nothing
  PROVE  SInv'
<1>1. pc' = "except" /\ sock' = sock /\ sock = "open"
  BY DEF Raise, Leave, SInv, Holds
<1>2. Holds'
  BY <1>1 DEF Holds, Handshaking
<1> QED
  BY <1>1, <1>2, LeaveSInv DEF Raise

(* The read of a body ends, and the with or the finally finds the socket. *)
LEMMA FinishHolds ==
  ASSUME SInv, NEW r, pc = "body", Finish(r)
  PROVE  /\ Holds' /\ sock' \in {"open", "wrapped"} /\ sock # "none"
         /\ Leave(IF secure THEN "with" ELSE "finally", r)
<1>1. /\ pc' = (IF secure THEN "with" ELSE "finally") /\ sock' = sock
      /\ sock = (IF secure THEN "wrapped" ELSE "open")
  BY DEF Finish, Leave, SInv, Holds
<1> QED
  BY <1>1 DEF Finish, Holds, Handshaking

(* A clause closes the socket and passes the result on. *)
LEMMA ClauseSInv ==
  ASSUME SInv, pc \in {"except", "with", "finally"}, pc' \in {"finally", "done"}, sock' = "closed",
         UNCHANGED <<call, mark, need, taken, result>>
  PROVE  SInv'
<1>1. UNCHANGED <<answer, ending, host, secure, mark, need, taken, result>>
  BY DEF call
<1>2. TypeOK' /\ Holds' /\ Progress'
  BY <1>1 DEF SInv, TypeOK, Holds, Handshaking, Progress, Going
<1>3. UNCHANGED <<Refusal, Size, Lengths, AddressEnd>>
  BY <1>1 DEF Refusal, Size, Lengths, AddressEnd, Short
<1>4. sock # "none"
  BY DEF SInv, Holds
<1>5. PiecesDoNotMatter' /\ OSErrorIsEarned'
  BY <1>1, <1>3, <1>4 DEF SInv, PiecesDoNotMatter, OSErrorIsEarned
<1> QED
  BY <1>2, <1>5 DEF SInv

LEMMA ClosersSInv == SInv /\ (CloseHandshake \/ CloseTls \/ Release) => SInv'
<1> SUFFICES ASSUME SInv, CloseHandshake \/ CloseTls \/ Release PROVE SInv'
  OBVIOUS
<1>1. CASE CloseHandshake
  BY <1>1, ClauseSInv DEF CloseHandshake
<1>2. CASE CloseTls
  BY <1>2, ClauseSInv DEF CloseTls
<1>3. CASE Release
  BY <1>3, ClauseSInv DEF Release, SInv, Holds
<1> QED
  BY <1>1, <1>2, <1>3

(* A read that begins: what was read before it is what Progress asks for. *)
LEMMA ExpectSInv ==
  ASSUME SInv, NEW next \in {"reply", "length", "bound", "body"}, NEW n \in Nat,
         Handshaking, Expect(next, n), sock' \in {"open", "wrapped"}, Holds', Progress'
  PROVE  SInv'
<1>1. /\ UNCHANGED <<answer, ending, host, secure, taken, result>>
      /\ pc' = next /\ mark' = taken /\ need' = n
  BY DEF Expect, call
<1>2. TypeOK'
  BY <1>1, AnswerTypes DEF SInv, TypeOK, Handshaking
<1>3. result' = Nothing
  BY <1>1 DEF SInv, Progress, Handshaking, Going
<1>4. PiecesDoNotMatter' /\ OSErrorIsEarned'
  BY <1>3, Outcomes DEF PiecesDoNotMatter, OSErrorIsEarned
<1> QED
  BY <1>2, <1>4 DEF SInv

(* Within the handshake the socket stays the one there is. *)
LEMMA AwaitSInv ==
  ASSUME SInv, NEW next \in {"reply", "length", "bound"}, NEW n \in Nat,
         Handshaking, Await(next, n), Progress'
  PROVE  SInv'
<1>1. Expect(next, n) /\ pc' = next /\ sock' = "open"
  BY DEF Await, Expect, SInv, Holds
<1>2. Holds'
  BY <1>1 DEF Holds, Handshaking
<1> QED
  BY <1>1, <1>2, ExpectSInv

(* A piece that arrives changes nothing but the count, within its bounds. *)
LEMMA ReceiveSInv ==
  ASSUME SInv, NEW n \in Nat, Receive(n), Handshaking \/ pc = "body",
         Handshaking => n <= need - (taken - mark),
         pc = "body" => taken - mark + n <= MAX_BYTES + CHUNK - 1
  PROVE  SInv'
<1> USE AnswerTypes DEF SInv
<1>1. PICK k \in 1 .. n : taken + k <= Len(answer) /\ taken' = taken + k
  BY DEF Receive
<1>2. UNCHANGED <<answer, ending, host, secure, pc, mark, need, sock, result>>
  BY DEF Receive, call
<1>3. TypeOK'
  BY <1>1, <1>2 DEF TypeOK, Handshaking
<1>4. AddressEnd' = AddressEnd /\ Agreed' = Agreed /\ Accepted' = Accepted
  BY <1>2 DEF AddressEnd, Agreed, Accepted
<1>5. pc = "body" => taken' - mark <= MAX_BYTES + CHUNK - 1
  BY <1>1, SocksAssumption
<1>6. Progress' /\ Holds'
  BY <1>2, <1>4, <1>5 DEF Progress, Going, Holds, Handshaking
<1>7. PiecesDoNotMatter' /\ OSErrorIsEarned'
  BY <1>2, Outcomes DEF Progress, Going, Handshaking, PiecesDoNotMatter, OSErrorIsEarned
<1> QED
  BY <1>3, <1>6, <1>7

-----------------------------------------------------------------------------
(* open_connection() *)

LEMMA ConnectSInv == SInv /\ Connect => SInv'
<1> SUFFICES ASSUME SInv, Connect PROVE SInv'
  OBVIOUS
<1>1. CASE Leave("done", OSError) /\ UNCHANGED sock
  <2>1. sock = "none" /\ sock' = "none" /\ pc' = "done"
    BY <1>1 DEF Connect, Leave, SInv, Holds
  <2>2. Holds'
    BY <2>1 DEF Holds, Handshaking
  <2> QED
    BY <1>1, <2>1, <2>2, LeaveSInv
<1>2. CASE /\ sock' = "open" /\ pc' = "greeting" /\ need' = 2
           /\ UNCHANGED <<call, mark, taken, result>>
  <2>1. UNCHANGED <<answer, ending, host, secure, mark, taken, result>>
    BY <1>2 DEF call
  <2>2. mark = 0 /\ taken = 0 /\ result = Nothing
    BY DEF Connect, SInv, Progress, Going
  <2>3. TypeOK'
    BY <1>2, <2>1, <2>2 DEF SInv, TypeOK, Handshaking
  <2>4. Progress' /\ Holds'
    BY <1>2, <2>1, <2>2 DEF Progress, Going, Holds, Handshaking
  <2>5. PiecesDoNotMatter' /\ OSErrorIsEarned'
    BY <2>1, <2>2, Outcomes DEF PiecesDoNotMatter, OSErrorIsEarned
  <2> QED
    BY <2>3, <2>4, <2>5 DEF SInv
<1> QED
  BY <1>1, <1>2 DEF Connect

LEMMA RecvSInv == SInv /\ Recv => SInv'
<1> SUFFICES ASSUME SInv, Recv PROVE SInv'
  OBVIOUS
<1>1. need - (taken - mark) \in Nat
  BY AnswerTypes DEF SInv, TypeOK, Recv
<1> QED
  BY <1>1, ReceiveSInv DEF Recv, Handshaking

(* The handshake needs more than there is: the answer as a whole is short. *)
LEMMA EndOfAnswerSInv == SInv /\ EndOfAnswer => SInv'
<1> SUFFICES ASSUME SInv, EndOfAnswer PROVE SInv'
  OBVIOUS
<1> USE AnswerTypes DEF SInv
<1>1. Len(answer) < mark + need
  BY DEF EndOfAnswer, Complete, TypeOK
<1>2. Refusal = Short
  <2>1. CASE pc = "greeting"
    BY <1>1, <2>1 DEF Progress, Refusal
  <2>2. CASE pc = "reply"
    BY <1>1, <2>2 DEF Progress, Refusal, Agreed
  <2>3. CASE pc = "length"
    <3>0. Accepted /\ answer[6] = 3 /\ mark + need = 7
      BY <2>3 DEF Progress
    <3>1. Len(answer) = 6
      <4>1. Len(answer) \in Nat /\ Len(answer) >= 6
        BY <3>0 DEF Accepted
      <4>2. Len(answer) < 7
        BY <1>1, <3>0
      <4>3. \A n \in Nat : n >= 6 /\ n < 7 => n = 6
        OBVIOUS
      <4> QED
        BY <4>1, <4>2, <4>3, Zenon
    <3>2. AddressEnd = 7
      BY <3>0, <3>1 DEF AddressEnd
    <3> QED
      BY <3>0, <3>1, <3>2 DEF Refusal, Agreed, Accepted
  <2>4. CASE pc = "bound"
    <3>1. Len(answer) < AddressEnd
      BY <1>1, <2>4 DEF Progress
    <3> QED
      BY <2>4, <3>1 DEF Progress, Refusal, Agreed, Accepted
  <2> QED
    BY <2>1, <2>2, <2>3, <2>4 DEF EndOfAnswer, Handshaking
<1>3. Raise(Short) /\ Short # Nothing
  BY Outcomes DEF EndOfAnswer, Short
<1> QED
  BY <1>2, <1>3, RefuseSInv DEF EndOfAnswer

LEMMA GreetedSInv == SInv /\ Greeted => SInv'
<1> SUFFICES ASSUME SInv, Greeted PROVE SInv'
  OBVIOUS
<1> USE AnswerTypes, Outcomes DEF SInv
<1>0. /\ mark = 0 /\ taken = 2 /\ Len(answer) >= 2 /\ Byte(1) = answer[1] /\ Byte(2) = answer[2]
      /\ Handshaking
  BY DEF Greeted, Handshaking, Progress, Complete, Byte
<1>1. CASE answer[1] # 5 /\ Raise(SocksError("version"))
  BY <1>0, <1>1, RefuseSInv DEF Refusal
<1>2. CASE answer[1] = 5 /\ answer[2] # 0 /\ Raise(SocksError("method"))
  BY <1>0, <1>2, RefuseSInv DEF Refusal
<1>3. CASE answer[1] = 5 /\ answer[2] = 0 /\ ~Usable(host) /\ Raise(SocksError("host"))
  BY <1>0, <1>3, RefuseSInv DEF Refusal
<1>4. CASE answer[1] = 5 /\ answer[2] = 0 /\ Usable(host) /\ Await("reply", 4)
  <2>1. Progress'
    BY <1>0, <1>4 DEF Greeted, Await, Expect, call, Progress, Going, Agreed, Usable
  <2> QED
    BY <1>0, <1>4, <2>1, AwaitSInv
<1> QED
  BY <1>0, <1>1, <1>2, <1>3, <1>4 DEF Greeted

(* The address begins after the reply, and its type says where it ends. *)
LEMMA BoundProgress ==
  ASSUME SInv, pc \in {"reply", "length"}, Accepted, answer[6] \in {1, 3, 4},
         answer[6] = 3 => Len(answer) > 6,
         NEW n \in Nat, Await("bound", n), taken + n = AddressEnd
  PROVE  Progress'
<1>1. UNCHANGED <<answer, host, taken, sock, result>> /\ pc' = "bound" /\ mark' = taken /\ need' = n
  BY DEF Await, Expect, call
<1>2. AddressEnd' = AddressEnd /\ Accepted'
  BY <1>1 DEF AddressEnd, Accepted, Agreed, Usable
<1> QED
  BY <1>1, <1>2 DEF SInv, Progress, Going

LEMMA RepliedSInv == SInv /\ Replied => SInv'
<1> SUFFICES ASSUME SInv, Replied PROVE SInv'
  OBVIOUS
<1> USE AnswerTypes, Outcomes DEF SInv
<1>0. /\ mark = 2 /\ taken = 6 /\ Len(answer) >= 6 /\ Agreed /\ pc = "reply" /\ Handshaking
      /\ Byte(2) = answer[4] /\ Byte(4) = answer[6]
  BY DEF Replied, Handshaking, Progress, Complete, Byte
<1>1. CASE answer[4] # 0 /\ Raise(SocksError("refused"))
  BY <1>0, <1>1, RefuseSInv DEF Refusal, Agreed
<1>2. CASE answer[4] = 0 /\ answer[6] = 1 /\ Await("bound", 4 + 2)
  <2>1. Progress'
    BY <1>0, <1>2, BoundProgress, AddressEnds DEF Accepted
  <2> QED
    BY <1>0, <1>2, <2>1, AwaitSInv
<1>3. CASE answer[4] = 0 /\ answer[6] = 4 /\ Await("bound", 16 + 2)
  <2>1. Progress'
    BY <1>0, <1>3, BoundProgress, AddressEnds DEF Accepted
  <2> QED
    BY <1>0, <1>3, <2>1, AwaitSInv
<1>4. CASE answer[4] = 0 /\ answer[6] = 3 /\ Await("length", 1)
  <2>1. Progress'
    BY <1>0, <1>4 DEF Await, Expect, call, Progress, Going, Accepted, Agreed, Usable
  <2> QED
    BY <1>0, <1>4, <2>1, AwaitSInv
<1>5. CASE answer[4] = 0 /\ answer[6] \notin {1, 3, 4} /\ Raise(SocksError("type"))
  BY <1>0, <1>5, RefuseSInv DEF Refusal, Agreed
<1> QED
  BY <1>0, <1>1, <1>2, <1>3, <1>4, <1>5 DEF Replied

LEMMA LengthReadSInv == SInv /\ LengthRead => SInv'
<1> SUFFICES ASSUME SInv, LengthRead PROVE SInv'
  OBVIOUS
<1> USE AnswerTypes DEF SInv
<1>1. mark = 6 /\ taken = 7 /\ Accepted /\ answer[6] = 3 /\ Len(answer) > 6 /\ pc = "length" /\ Handshaking
  BY DEF LengthRead, Handshaking, Progress, Complete
<1>2. answer[7] \in Nat /\ Byte(1) = answer[7]
  BY <1>1 DEF Byte
<1>3. Await("bound", answer[7] + 2) /\ answer[7] + 2 \in Nat
  BY <1>2 DEF LengthRead
<1>4. taken + (answer[7] + 2) = AddressEnd
  BY <1>1, <1>2, AddressEnds
<1>5. Progress'
  BY <1>1, <1>3, <1>4, BoundProgress
<1> QED
  BY <1>1, <1>3, <1>5, AwaitSInv

(* From here on nothing is wrong with the proxy's part of the answer. *)
LEMMA NoRefusal ==
  ASSUME TypeOK, Accepted, answer[6] \in {1, 3, 4}, AddressEnd <= Len(answer)
  PROVE  Refusal = Nothing /\ Size \in Nat
<1>1. AddressEnd \in Nat
  BY AddressEndType DEF Accepted
<1>2. Len(answer) \in Nat /\ Len(answer) >= 6
  BY AnswerTypes DEF Accepted
<1>3. Refusal = Nothing
  BY <1>1, <1>2 DEF Refusal, Accepted, Agreed
<1>4. Size \in Nat
  BY <1>1, <1>2 DEF Size
<1> QED
  BY <1>3, <1>4

LEMMA OpenedSInv == SInv /\ Opened => SInv'
<1> SUFFICES ASSUME SInv, Opened PROVE SInv'
  OBVIOUS
<1> USE AnswerTypes, SocksAssumption DEF SInv
<1>1. /\ Accepted /\ answer[6] \in {1, 3, 4} /\ pc = "bound" /\ Handshaking
      /\ taken = AddressEnd /\ AddressEnd <= Len(answer)
  BY DEF Opened, Progress, Complete, Handshaking
<1>2. CASE secure /\ Leave("finally", OSError) /\ sock' \in {"open", "closed"}
  <2>1. Holds' /\ sock = "open"
    BY <1>1, <1>2 DEF Leave, Holds, Handshaking
  <2> QED
    BY <1>1, <1>2, <2>1, NoRefusal, LeaveSInv
<1>3. CASE Expect("body", CHUNK) /\ sock' = IF secure THEN "wrapped" ELSE "open"
  <2>1. /\ UNCHANGED <<answer, host, secure, taken, result>>
        /\ pc' = "body" /\ mark' = taken /\ need' = CHUNK
    BY <1>3 DEF Expect, call
  <2>2. AddressEnd' = AddressEnd /\ Accepted'
    BY <1>1, <2>1 DEF AddressEnd, Accepted, Agreed, Usable
  <2>3. taken' - mark' <= MAX_BYTES + CHUNK - 1
    BY <2>1
  <2>4. Progress'
    BY <1>1, <2>1, <2>2, <2>3 DEF Progress, Going
  <2>5. Holds'
    BY <1>3, <2>1 DEF Holds, Handshaking
  <2> QED
    BY <1>1, <1>3, <2>4, <2>5, ExpectSInv
<1>4. sock = "open"
  BY <1>1 DEF Holds
<1> QED
  BY <1>2, <1>3, <1>4 DEF Opened, Await

-----------------------------------------------------------------------------
(* _read_body() *)

LEMMA ReadBodySInv == SInv /\ ReadBody => SInv'
<1> SUFFICES ASSUME SInv, ReadBody PROVE SInv'
  OBVIOUS
<1>1. need = CHUNK /\ taken - mark < MAX_BYTES
  BY DEF ReadBody, SInv, Progress
<1>2. taken - mark + need <= MAX_BYTES + CHUNK - 1
  BY <1>1, AnswerTypes, SocksAssumption DEF SInv
<1> QED
  BY <1>1, <1>2, ReceiveSInv, SocksAssumption DEF ReadBody, Handshaking

LEMMA BodyReadSInv == SInv /\ BodyRead => SInv'
<1> SUFFICES ASSUME SInv, BodyRead PROVE SInv'
  OBVIOUS
<1> USE AnswerTypes, SocksAssumption DEF SInv
<1>1. /\ Accepted /\ answer[6] \in {1, 3, 4} /\ AddressEnd <= Len(answer)
      /\ mark = AddressEnd /\ pc = "body" /\ taken - mark <= MAX_BYTES + CHUNK - 1
  BY DEF BodyRead, Progress
<1>2. Refusal = Nothing /\ Size \in Nat
  BY <1>1, NoRefusal
<1> DEFINE n == taken - mark
<1>3. n \in Nat /\ n <= Size /\ Received = SubSeq(answer, AddressEnd + 1, AddressEnd + n)
  <2>1. mark \in Nat /\ taken \in mark..Len(answer) /\ Len(answer) \in Nat
    BY DEF TypeOK
  <2>2. AddressEnd + n = taken
    BY <1>1, <2>1
  <2>3. n \in Nat /\ n <= Len(answer) - AddressEnd
    BY <1>1, <2>1
  <2> QED
    BY <1>1, <2>2, <2>3 DEF Received, Size
<1>4. CASE n >= MAX_BYTES /\ Finish(Parse(Received))
  <2>1. n \in Lengths /\ Size >= MAX_BYTES
    BY <1>1, <1>2, <1>3, <1>4 DEF Lengths
  <2> QED
    BY <1>1, <1>2, <1>3, <1>4, <2>1, FinishHolds, Outcomes, LeaveSInv
<1>5. CASE n < MAX_BYTES /\ taken = Len(answer)
  <2>1. n = Size /\ Size < MAX_BYTES /\ n \in Lengths
    BY <1>1, <1>2, <1>5 DEF Size, Lengths
  <2>2. CASE ending = "close" /\ Finish(Parse(Received))
    BY <1>1, <1>2, <1>3, <2>1, <2>2, FinishHolds, Outcomes, LeaveSInv
  <2>3. CASE ending # "close" /\ Finish(OSError)
    BY <1>1, <1>2, <2>1, <2>3, FinishHolds, LeaveSInv
  <2> QED
    BY <1>5, <2>2, <2>3 DEF BodyRead
<1> QED
  BY <1>4, <1>5 DEF BodyRead

-----------------------------------------------------------------------------
LEMMA NextSInv == SInv /\ [Next]_vars => SInv'
<1> SUFFICES ASSUME SInv, [Next]_vars PROVE SInv'
  OBVIOUS
<1>1. CASE UNCHANGED vars
  <2>1. UNCHANGED <<answer, ending, host, secure, pc, mark, need, taken, sock, result>>
    BY <1>1 DEF vars, call
  <2>2. TypeOK' /\ Holds' /\ Progress'
    BY <2>1 DEF SInv, TypeOK, Handshaking, Holds, Progress, Going, Accepted, Agreed, Usable, AddressEnd
  <2>3. UNCHANGED <<Refusal, Size, Lengths, AddressEnd>>
    BY <2>1 DEF Refusal, Size, Lengths, AddressEnd, Short
  <2>4. PiecesDoNotMatter' /\ OSErrorIsEarned'
    BY <2>1, <2>3 DEF SInv, PiecesDoNotMatter, OSErrorIsEarned
  <2> QED
    BY <2>2, <2>4 DEF SInv
<1> QED
  BY <1>1, ConnectSInv, RecvSInv, EndOfAnswerSInv, GreetedSInv, RepliedSInv, LengthReadSInv,
     OpenedSInv, ReadBodySInv, BodyReadSInv, ClosersSInv DEF Next

(* What the proxy's bytes have shown so far is what the client acts on. *)
THEOREM SInvHolds == Spec => []SInv
<1>1. Init => SInv
  BY InitSInv
<1>2. SInv /\ [Next]_vars => SInv'
  BY NextSInv
<1> QED
  BY <1>1, <1>2, PTL DEF Spec

(* What is waited for, how much of the answer was taken and what came of it
   keep their types; a read never takes more than it asked for. *)
THEOREM TypeCorrect == Spec => []TypeOK
<1>1. SInv => TypeOK
  BY DEF SInv
<1> QED
  BY <1>1, SInvHolds, PTL

(* recv() may cut the answer of the proxy as it likes: the call returns, or
   raises, what the answer read as a whole demands.  open_connection(),
   _recv_exactly(), _read_body(). *)
THEOREM SegmentationIsHarmless == Spec => []PiecesDoNotMatter
<1>1. SInv => PiecesDoNotMatter
  BY DEF SInv
<1> QED
  BY <1>1, SInvHolds, PTL

(* A complete answer is never reported as a broken connection. *)
THEOREM BreaksAreReal == Spec => []OSErrorIsEarned
<1>1. SInv => OSErrorIsEarned
  BY DEF SInv
<1> QED
  BY <1>1, SInvHolds, PTL

(* Every way out of a call comes to the clauses that can close the socket it
   holds there: except in open_connection(), with and finally around the
   request, where TLS may have taken the descriptor or not. *)
THEOREM SocketsAreReleased == Spec => []SocketIsReleased
<1>1. SInv => SocketIsReleased
  BY DEF SInv, Holds, SocketIsReleased
<1> QED
  BY <1>1, SInvHolds, PTL
=============================================================================
