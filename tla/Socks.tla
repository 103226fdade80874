-------------------------------- MODULE Socks --------------------------------
(***************************************************************************)
(* The SOCKS5 client of the connectivity test (socks.py): one call of      *)
(* https_get() or http_get(), from connecting to the proxy to its result.  *)
(*                                                                         *)
(* The proxy's side of the connection is a stream of bytes: answer, of     *)
(* which taken bytes have been received, in pieces that recv() cuts as it  *)
(* likes.  Where the answer ends, the peer closes the connection, breaks   *)
(* it, or falls silent until recv() times out; a send that fails is such   *)
(* an end of the answer.  TLS is a step that succeeds or raises, and hands *)
(* the bytes through.                                                      *)
(***************************************************************************)
EXTENDS Naturals, Sequences

CONSTANTS
    Answers,        \* what the proxy may send, all of it
    Hosts,          \* destinations: [kind, size], size being that of the encoded name
    MAX_BYTES,      \* max_bytes of the call
    CHUNK,          \* 4096, what one recv() of the body asks for
    OK,             \* stands for a status line with " 200 "
    EOL             \* stands for "\r\n"

ASSUME SocksAssumption ==
    /\ \A a \in Answers : a \in Seq(Nat)
    /\ Hosts \subseteq [kind : {"ipv4", "ipv6", "name"}, size : Nat]
    /\ MAX_BYTES \in Nat \ {0}
    /\ CHUNK \in Nat \ {0}

VARIABLES
    answer,     \* the bytes the proxy sends in this call
    ending,     \* and what it does after them
    host,       \* where the call wants to go
    secure,     \* https_get(), not http_get()
    pc,         \* what the client waits for, or the clause its way out has come to
    mark,       \* where in the answer the read in progress began
    need,       \* bytes it asks for; of the body, one recv() at a time
    taken,      \* bytes of the answer received
    sock,       \* the connection: "none", "open", "wrapped" (TLS holds it) or "closed"
    result      \* what the call returns or raises, once it is on its way out

call == <<answer, ending, host, secure>>
vars == <<call, pc, mark, need, taken, sock, result>>

Nothing == [tag |-> "none"]
Returned(text) == [tag |-> "text", text |-> text]
SocksError(why) == [tag |-> "SocksError", why |-> why]
OSError == [tag |-> "OSError"]

Init ==
    /\ answer \in Answers
    /\ ending \in {"close", "reset", "silence"}
    /\ host \in Hosts
    /\ secure \in BOOLEAN
    /\ pc = "connect"
    /\ mark = 0 /\ need = 0 /\ taken = 0
    /\ sock = "none"
    /\ result = Nothing

-----------------------------------------------------------------------------
(* How a call goes on, and how it ends *)

(* A read of n bytes begins, after what was read so far. *)
Expect(next, n) ==
    /\ pc' = next
    /\ mark' = taken
    /\ need' = n
    /\ UNCHANGED <<call, taken, result>>

(* _recv_exactly(n), on the socket there is. *)
Await(next, n) == Expect(next, n) /\ UNCHANGED sock

(* The call returns or raises r, by way of the clause around this place. *)
Leave(clause, r) ==
    /\ pc' = clause
    /\ result' = r
    /\ UNCHANGED <<call, mark, need, taken>>

(* Inside the try of open_connection(). *)
Raise(r) == Leave("except", r) /\ UNCHANGED sock

(* Inside https_get()'s with, or http_get()'s try. *)
Finish(r) == Leave(IF secure THEN "with" ELSE "finally", r) /\ UNCHANGED sock

Byte(i) == answer[mark + i]
Complete == taken - mark = need

(* encode_address(): a name that is empty or longer than its length byte can
   say is refused, after the proxy has agreed to talk. *)
Usable(h) == h.kind = "name" => h.size \in 1 .. 255

-----------------------------------------------------------------------------
(* open_connection() *)

Connect ==
    /\ pc = "connect"
    /\ \/ Leave("done", OSError) /\ UNCHANGED sock
       \/ /\ sock' = "open"
          /\ pc' = "greeting" /\ need' = 2
          /\ UNCHANGED <<call, mark, taken, result>>

(* recv() returns from one to n of the bytes that are there. *)
Receive(n) ==
    /\ \E k \in 1 .. n : taken + k <= Len(answer) /\ taken' = taken + k
    /\ UNCHANGED <<call, pc, mark, need, sock, result>>

Handshaking == pc \in {"greeting", "reply", "length", "bound"}

(* Mutant of Recv: each recv() asks for the whole count again. *)
RecvGreedy ==
    /\ Handshaking /\ ~Complete
    /\ Receive(need)

Recv ==
    /\ Handshaking /\ ~Complete
    /\ Receive(need - (taken - mark))

(* Mutant of EndOfAnswer: an empty chunk does not end the loop. *)
EndOfAnswerAgain ==
    /\ Handshaking /\ ~Complete
    /\ taken = Len(answer)
    /\ ending # "close"
    /\ Raise(OSError)

(* The answer ends inside the handshake. *)
EndOfAnswer ==
    /\ Handshaking /\ ~Complete
    /\ taken = Len(answer)
    /\ Raise(IF ending = "close" THEN SocksError("closed") ELSE OSError)

Greeted ==
    /\ pc = "greeting" /\ Complete
    /\ \/ Byte(1) # 5 /\ Raise(SocksError("version"))
       \/ Byte(1) = 5 /\ Byte(2) # 0 /\ Raise(SocksError("method"))
       \/ Byte(1) = 5 /\ Byte(2) = 0 /\ ~Usable(host) /\ Raise(SocksError("host"))
       \/ Byte(1) = 5 /\ Byte(2) = 0 /\ Usable(host) /\ Await("reply", 4)

(* Mutant of Replied: the port after an IPv4 address is left unread. *)
RepliedPortless ==
    /\ pc = "reply" /\ Complete
    /\ \/ Byte(2) # 0 /\ Raise(SocksError("refused"))
       \/ Byte(2) = 0 /\ Byte(4) = 1 /\ Await("bound", 4)
       \/ Byte(2) = 0 /\ Byte(4) = 4 /\ Await("bound", 16 + 2)
       \/ Byte(2) = 0 /\ Byte(4) = 3 /\ Await("length", 1)
       \/ Byte(2) = 0 /\ Byte(4) \notin {1, 3, 4} /\ Raise(SocksError("type"))

(* The version in the reply is not looked at. *)
Replied ==
    /\ pc = "reply" /\ Complete
    /\ \/ Byte(2) # 0 /\ Raise(SocksError("refused"))
       \/ Byte(2) = 0 /\ Byte(4) = 1 /\ Await("bound", 4 + 2)
       \/ Byte(2) = 0 /\ Byte(4) = 4 /\ Await("bound", 16 + 2)
       \/ Byte(2) = 0 /\ Byte(4) = 3 /\ Await("length", 1)
       \/ Byte(2) = 0 /\ Byte(4) \notin {1, 3, 4} /\ Raise(SocksError("type"))

LengthRead ==
    /\ pc = "length" /\ Complete
    /\ Await("bound", Byte(1) + 2)

(* Mutant of CloseHandshake: except SocksError. *)
CloseRefused ==
    /\ pc = "except"
    /\ pc' = "done"
    /\ sock' = IF result = OSError THEN sock ELSE "closed"
    /\ UNCHANGED <<call, mark, need, taken, result>>

(* except Exception of open_connection(). *)
CloseHandshake ==
    /\ pc = "except"
    /\ pc' = "done"
    /\ sock' = "closed"
    /\ UNCHANGED <<call, mark, need, taken, result>>

-----------------------------------------------------------------------------
(* https_get() and http_get() *)

(* The tunnelled connection stands.  https_get() starts TLS on it, which takes
   the descriptor from the socket, or fails: before that, or afterwards, when
   wrap_socket() itself closes what it took.  Then the request is sent. *)
Opened ==
    /\ pc = "bound" /\ Complete
    /\ \/ ~secure /\ Await("body", CHUNK)
       \/ secure /\ Expect("body", CHUNK) /\ sock' = "wrapped"
       \/ secure /\ Leave("finally", OSError) /\ sock' \in {"open", "closed"}

(* The with statement closes the TLS socket, and the descriptor it holds. *)
CloseTls ==
    /\ pc = "with"
    /\ pc' = "finally"
    /\ sock' = "closed"
    /\ UNCHANGED <<call, mark, need, taken, result>>

(* sock.close() in the finally: of a socket that gave its descriptor away it
   closes nothing. *)
Release ==
    /\ pc = "finally"
    /\ pc' = "done"
    /\ sock' = IF sock = "open" THEN "closed" ELSE sock
    /\ UNCHANGED <<call, mark, need, taken, result>>

-----------------------------------------------------------------------------
(* _read_body() *)

Received == SubSeq(answer, mark + 1, taken)

BlankLines(s) == {i \in 1 .. Len(s) - 1 : s[i] = EOL /\ s[i + 1] = EOL}

(* partition() at the first blank line, and the status in the first line. *)
Body(s) ==
    IF BlankLines(s) = {} THEN << >>
    ELSE SubSeq(s, (CHOOSE i \in BlankLines(s) : \A j \in BlankLines(s) : i <= j) + 2, Len(s))

Succeeded(s) == \E i \in 1 .. Len(s) : s[i] = OK /\ \A j \in 1 .. i : s[j] # EOL

Parse(s) == IF Succeeded(s) THEN Returned(Body(s)) ELSE SocksError("http")

ReadBody ==
    /\ pc = "body"
    /\ taken - mark < MAX_BYTES
    /\ Receive(need)

(* Mutant of BodyRead: the loop goes on at the limit. *)
BodyReadStrict ==
    /\ pc = "body"
    /\ \/ taken - mark > MAX_BYTES /\ Finish(Parse(Received))
       \/ /\ taken - mark <= MAX_BYTES /\ taken = Len(answer)
          /\ Finish(IF ending = "close" THEN Parse(Received) ELSE OSError)

BodyRead ==
    /\ pc = "body"
    /\ \/ taken - mark >= MAX_BYTES /\ Finish(Parse(Received))
       \/ /\ taken - mark < MAX_BYTES /\ taken = Len(answer)
          /\ Finish(IF ending = "close" THEN Parse(Received) ELSE OSError)

-----------------------------------------------------------------------------
Next ==
    \/ Connect \/ Recv \/ EndOfAnswer
    \/ Greeted \/ Replied \/ LengthRead \/ CloseHandshake
    \/ Opened \/ ReadBody \/ BodyRead \/ CloseTls \/ Release

(* The network delivers, or a timeout of the socket passes. *)
Spec == Init /\ [][Next]_vars /\ WF_vars(Next)

-----------------------------------------------------------------------------
(* The variables keep their types. *)
TypeOK ==
    /\ answer \in Answers
    /\ ending \in {"close", "reset", "silence"}
    /\ host \in Hosts
    /\ secure \in BOOLEAN
    /\ pc \in {"connect", "greeting", "reply", "length", "bound", "except",
               "body", "with", "finally", "done"}
    /\ mark \in 0 .. taken
    /\ need \in Nat
    /\ taken \in 0 .. Len(answer)
    /\ sock \in {"none", "open", "wrapped", "closed"}
    /\ Handshaking => taken - mark <= need

(* What the answer means when it is read as a whole, as RFC 1928 lays it out:
   where the tunnelled bytes begin, and what is wrong before them. *)
AddressEnd ==
    CASE answer[6] = 1 -> 12
      [] answer[6] = 4 -> 24
      [] answer[6] = 3 /\ Len(answer) > 6 -> 7 + answer[7] + 2
      [] OTHER -> 7

Short == IF ending = "close" THEN SocksError("closed") ELSE OSError

Refusal ==
    IF Len(answer) < 2 THEN Short
    ELSE IF answer[1] # 5 THEN SocksError("version")
    ELSE IF answer[2] # 0 THEN SocksError("method")
    ELSE IF ~Usable(host) THEN SocksError("host")
    ELSE IF Len(answer) < 6 THEN Short
    ELSE IF answer[4] # 0 THEN SocksError("refused")
    ELSE IF answer[6] \notin {1, 3, 4} THEN SocksError("type")
    ELSE IF Len(answer) < AddressEnd THEN Short
    ELSE Nothing

Size == Len(answer) - AddressEnd

(* The lengths at which the loop over the body may stop: the whole of it, or
   the first piece that passes the limit. *)
Lengths ==
    IF Size < MAX_BYTES THEN {Size} ELSE {n \in MAX_BYTES .. MAX_BYTES + CHUNK - 1 : n <= Size}

(* However the answer is cut into pieces, the call ends as the answer read as
   a whole demands: the first thing that is wrong is the error, the proxy's
   bytes are never taken for the tunnel's nor the tunnel's for the proxy's,
   and of a long body the client holds at most one chunk too much. *)
PiecesDoNotMatter ==
    result \notin {Nothing, OSError} =>
        IF Refusal # Nothing THEN result = Refusal
        ELSE /\ ending = "close" \/ Size >= MAX_BYTES
             /\ \E n \in Lengths :
                    result = Parse(SubSeq(answer, AddressEnd + 1, AddressEnd + n))

(* An answer that is complete, or closed, is never taken for a broken one:
   OSError is for the connection itself, for TLS, and for an answer that
   breaks off where more of it is needed. *)
OSErrorIsEarned ==
    result = OSError =>
        \/ sock = "none"
        \/ Refusal = OSError
        \/ Refusal = Nothing /\ (secure \/ (ending # "close" /\ Size < MAX_BYTES))

(* The client reads from a socket it still holds, through TLS or not, and no
   way out leaves one open: not a timeout in the middle of the handshake, which
   only the except sees, nor TLS that fails before or after it took the
   descriptor, nor a body read through the TLS socket, whose descriptor the
   finally alone would not close. *)
SocketIsReleased ==
    /\ Handshaking => sock = "open"
    /\ pc = "body" => sock = IF secure THEN "wrapped" ELSE "open"
    /\ pc = "done" => sock \in {"none", "closed"}

(* Every call ends. *)
CallEnds == <>(pc = "done")
=============================================================================
