------------------------------- MODULE MCConf -------------------------------
(* Conf with three kinds of file: many values, many lines, and many ways   *)
(* to fill in what the program needs.                                      *)
EXTENDS Conf

Entries(keys, rests) ==
  {[kind |-> "entry", key |-> k, rest |-> r] : k \in keys, r \in rests}
Heads(names) == {[kind |-> "section", section |-> s] : s \in names}

\* Every value of up to four characters, for one key in its section.
MCValues ==
  {<<h, e>> : h \in Heads({"APRS-IS"}),
              e \in Entries({"Server"},
                            BoundedSeq({"c", "quote", "hash", "blank"}, 4))}

\* Sections and keys in every order; 111111 does not fit in 16 bits.
MCLines ==
  {[kind |-> "comment"]} \cup Heads({"APRS-IS", "MQTT", "NONE"}) \cup
  Entries({"Server", "Password", "Keepalive", "Auth"}, {<<>>, <<"1">>}) \cup
  Entries({"Port"}, {<<"1">>, <<"1", "1", "1", "1", "1", "1", "c">>})

\* A whole file, in which a key may be missing, useless or good.  With ints of
\* 20 bits and longs of 24, 1048576 is 0, 1048580 is 4 and 9999999 the largest
\* long; the second of the ports has one bit too many.
MCOne(key, rests) ==
  {<<>>} \cup {<<e>> : e \in Entries({key}, rests)}
MCPort ==
  {<<"0">>, <<"6", "5", "5", "3", "6">>, <<"1", "8", "8", "3">>, <<"minus", "5">>}
MCKeepalive ==
  {<<"4">>, <<"plus", "5", "blank">>, <<"minus", "1">>,
   <<"1", "0", "4", "8", "5", "7", "6">>, <<"1", "0", "4", "8", "5", "8", "0">>,
   <<"9", "9", "9", "9", "9", "9", "9">>,
   <<"minus", "9", "9", "9", "9", "9", "9", "9">>}
MCCallsign == {<<"c">>, <<"hash", "c">>, <<"quote", "quote">>, <<"c", "c", "c">>}
\* Callsigns are cut to two characters, and the login line has room for four
\* characters of callsign and password.
MCPassword == {<<"c">>, <<"c", "c", "c">>, <<"c", "c", "c", "c", "c">>}
MCWhole ==
  {<<[kind |-> "section", section |-> "General"]>> \o c \o
   <<[kind |-> "section", section |-> "APRS-IS"]>> \o s \o p \o w \o
   <<[kind |-> "section", section |-> "MQTT"]>> \o a \o q \o k :
     c \in MCOne("Callsign", MCCallsign), s \in MCOne("Server", {<<"c">>}),
     p \in MCOne("Port", MCPort), w \in MCOne("Password", MCPassword),
     a \in MCOne("Address", {<<"hash">>}), q \in MCOne("Port", {<<"0">>}),
     k \in MCOne("Keepalive", MCKeepalive)}

MCFiles == MCValues \cup [1 .. 4 -> MCLines] \cup MCWhole

=============================================================================
