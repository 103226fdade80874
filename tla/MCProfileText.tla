---------------------------- MODULE MCProfileText ----------------------------
(* A plain and an obfuscated profile, the latter with the peer first, and the
   lines that bring each rule to both sides of its limit: with S1 = 12,
   S2 = 68 gives a response, and S4 = 128 a data message, the size of an
   initiation. *)
EXTENDS ProfileText

CONSTANTS k1, k2, word          \* values without structure

Peer == <<Section("Peer"), Setting("PublicKey", <<word>>), Setting("Endpoint", <<word>>)>>
Self == <<Section("Interface"), Setting("PrivateKey", <<k1>>), Setting("Address", <<word>>)>>

MCDrafts ==
    {Self \o <<Setting("Jmin", <<5>>)>> \o Peer,
     Peer \o Self \o <<Setting("S1", <<12>>), Setting("S2", <<12>>), Setting("S3", <<12>>),
                       Setting("S4", <<12>>), Setting("HeaderProtectionKey", <<word>>)>>}

MCLines ==
    {Section("Interface"), Section("Peer"), Blank, Comment, Junk}
    \cup {Setting("PrivateKey", <<v>>) : v \in {k2, Empty, Placeholder}}
    \cup {Setting("Endpoint", <<Empty>>), Setting("HeaderProtectionKey", <<Empty>>),
          Setting("S1", <<11>>), Setting("S1", <<Empty, 1>>), Setting("S2", <<68>>),
          Setting("S3", <<word>>), Setting("S4", <<128>>), Setting("Jmax", <<4>>),
          Setting("Jmax", <<1281>>), Setting("RekeyTimeout", <<2, Empty>>)}
    \cup {Setting("Jc", <<n>>) : n \in {0, 128, 129}}
    \cup {Setting("H1", v) : v \in {<<4>>, <<5, 6>>, <<5, 7>>}}
    \cup {Setting("H2", v) : v \in {<<6>>, <<2, 3>>}}
=============================================================================
