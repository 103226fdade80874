------------------------------- MODULE MCSocks -------------------------------
(* The answers of a proxy for which the client is checked: each of the whole
   answers below, cut off at every byte. *)
EXTENDS Socks

MCOK == 200
MCEOL == 13

Greetings == {<<5, 0>>, <<5, 255>>, <<4, 0>>}

(* The proxy's answer to CONNECT, with a bound address of every type, the
   name being two bytes or none, and answers that are no success. *)
Replies ==
    {<<5, 0, 0, 1, 127, 0, 0, 1, 4, 56>>,
     <<5, 0, 0, 4>> \o [i \in 1 .. 18 |-> i],
     <<5, 0, 0, 3, 2, 110, 111, 0, 80>>,
     <<5, 0, 0, 3, 0, 0, 80>>,
     <<5, 5, 0, 1>>,
     <<5, 0, 0, 9>>}

(* HTTP responses: a short one, one that passes the limit, one without a
   blank line, one that is refused, and a status that comes too late. *)
Responses ==
    {<<200, 13, 13, 65>>,
     <<200, 13, 66, 13, 13, 65, 67, 68>>,
     <<200, 13, 65>>,
     <<404, 13, 13, 65, 67>>,
     <<66, 13, 200, 13, 13>>}

Whole == {g \o r \o h : g \in {<<5, 0>>}, r \in Replies, h \in Responses}
             \cup {g \o r : g \in Greetings, r \in {<<5, 0, 0, 1>>}}

MCAnswers == UNION {{SubSeq(a, 1, n) : n \in 0 .. Len(a)} : a \in Whole}

MCHosts == {[kind |-> "ipv4", size |-> 4], [kind |-> "name", size |-> 255],
            [kind |-> "name", size |-> 256], [kind |-> "name", size |-> 0]}
=============================================================================
