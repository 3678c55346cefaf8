-------------------------------- MODULE Conf --------------------------------
(***************************************************************************)
(* CConf::read() (Conf.cpp), one step per line of the .ini file, and what  *)
(* run() and connect() meet with what was read: the assertions of the      *)
(* constructors, and the buffer of the login line.                         *)
(*                                                                         *)
(* A line is what fgets() returns, the second part of one that is too long *)
(* for the buffer included: a comment, the head of a section, or an entry  *)
(* whose first token is the key.  The rest of an entry, behind the one     *)
(* character that ended the key, is a sequence of characters, of which     *)
(* those that the parser tells apart are kept: quotes, "#", blanks, signs, *)
(* figures and the case of a letter.  A "=" there is a character like any  *)
(* other, because only the first of several separators is skipped.         *)
(***************************************************************************)
EXTENDS Integers, SequencesExt, FiniteSetsExt

CONSTANTS
  Files,           \* the files it can be given: sequences of lines
  IntWidth,        \* the bits of an int: 32
  LongWidth,       \* the bits of a long: 64
  CallsignLength,  \* CALLSIGN_LENGTH: 8
  LoginRoom        \* the most characters of callsign and password together
                   \* that the login line has room for: 161

ASSUME WidthAssumption ==
  /\ IntWidth \in Nat /\ LongWidth \in Nat
  /\ 16 <= IntWidth /\ IntWidth <= LongWidth
  /\ CallsignLength \in Nat /\ LoginRoom \in Nat

\* The keys read() knows, each in its section, by what they hold.
Texts ==
  {<<"General", "Callsign">>, <<"APRS-IS", "Server">>, <<"APRS-IS", "Password">>}
  \cup ({"MQTT"} \X {"Address", "Name", "Username", "Password"})
Flags == {<<"General", "Debug">>, <<"General", "Daemon">>, <<"MQTT", "Auth">>}
Numbers ==
  {<<"Log", "MQTTLevel">>, <<"Log", "DisplayLevel">>, <<"MQTT", "Keepalive">>}
Ports == {<<"APRS-IS", "Port">>, <<"MQTT", "Port">>}

Members == Texts \cup Flags \cup Numbers \cup Ports
Sections == {m[1] : m \in Members} \cup {"NONE"}

\* The line reads as a comment, as the head of a section (a known one, or
\* "NONE" for any other), or as an entry; a line without a token is an entry
\* with an empty rest.
LineType(l) ==
  \/ l.kind = "comment"
  \/ l.kind = "section" /\ l.section \in Sections
  \/ l.kind = "entry" /\ l.rest \in Seq(STRING)

ASSUME ConfAssumption ==
  \A f \in Files :
    /\ Len(f) \in Nat /\ DOMAIN f = 1 .. Len(f)
    /\ \A i \in DOMAIN f : LineType(f[i])

VARIABLES
  state,       \* how far run() is: "closed", "reading", or an outcome
  section,     \* the section of the line to come
  member,      \* the value of each member
  file,        \* the file
  lines        \* the number of its lines read so far

vars == <<state, section, member, file, lines>>

\* A member of each kind that is left empty.
Nothing(m) ==
  CASE m \in Texts -> <<>> [] m \in Flags -> FALSE [] OTHER -> 0

\* Mutant: one port without a default.
MutDefault ==
  [m \in Members |->
     CASE m = <<"MQTT", "Address">>   -> <<"127.0.0.1">>
       [] m = <<"MQTT", "Name">>      -> <<"aprs-gateway">>
       [] m = <<"MQTT", "Keepalive">> -> 60
       [] OTHER -> Nothing(m)]

\* What the constructor sets.
Default ==
  [m \in Members |->
     CASE m = <<"MQTT", "Address">>   -> <<"127.0.0.1">>
       [] m = <<"MQTT", "Name">>      -> <<"aprs-gateway">>
       [] m = <<"MQTT", "Port">>      -> 1883
       [] m = <<"MQTT", "Keepalive">> -> 60
       [] OTHER -> Nothing(m)]

-----------------------------------------------------------------------------
(* What is made of the rest of an entry.                                   *)

Quoted(text) ==
  Len(text) > 1 /\ Head(text) = "quote" /\ Last(text) = "quote"

\* The text before the first "#".
UpToComment(text) ==
  SubSeq(text, 1, Min({i \in DOMAIN text : text[i] = "hash"}
                        \cup {Len(text) + 1}) - 1)

\* The text without blanks at its end.
WithoutTrailing(text) ==
  SubSeq(text, 1, Max({i \in DOMAIN text : text[i] # "blank"} \cup {0}))

\* Mutant: the comment is cut off before the quotes are looked at.
MutStored(text) ==
  LET t == WithoutTrailing(UpToComment(text))
  IN  IF Quoted(t) THEN SubSeq(t, 2, Len(t) - 1) ELSE t

\* Quotes are taken off; what is not quoted loses its comment and the blanks
\* before it.
Stored(text) ==
  IF Quoted(text) THEN SubSeq(text, 2, Len(text) - 1)
  ELSE WithoutTrailing(UpToComment(text))

\* strtol(): blanks, a sign or none, figures, then anything; a value that a
\* long does not hold becomes the nearest that it does.
Figures == <<"0", "1", "2", "3", "4", "5", "6", "7", "8", "9">>
First(text, S) ==
  Min({i \in DOMAIN text : text[i] \in S} \cup {Len(text) + 1})
Strtol(text) ==
  LET behind  == SubSeq(text, First(text, {c \in ToSet(text) : c # "blank"}), Len(text))
      signed  == behind # <<>> /\ Head(behind) \in {"plus", "minus"}
      minus   == signed /\ Head(behind) = "minus"
      number  == IF signed THEN Tail(behind) ELSE behind
      figures == SubSeq(number, 1, First(number, ToSet(number) \ ToSet(Figures)) - 1)
      limit   == 2^(LongWidth - 1) - (IF minus THEN 0 ELSE 1)
      size    == FoldLeft(LAMBDA n, c : Min({limit, 10 * n + SelectInSeq(Figures, LAMBDA g : g = c) - 1}),
                          0, figures)
  IN  IF minus THEN -size ELSE size

Unsigned(n, width) == n % 2^width

\* atoi(): the int with the low bits of that.
Atoi(text) ==
  LET n == Unsigned(Strtol(text), IntWidth)
  IN  IF n < 2^(IntWidth - 1) THEN n ELSE n - 2^IntWidth

\* toupper()
Upper(text) == [i \in DOMAIN text |-> IF text[i] = "c" THEN "C" ELSE text[i]]

Convert(m, text) ==
  CASE m = <<"General", "Callsign">> -> Upper(text)
    [] m \in Texts \ {<<"General", "Callsign">>} -> text
    [] m \in Flags   -> Atoi(text) = 1
    [] m \in Numbers -> Unsigned(Atoi(text), IntWidth)
    [] m \in Ports   -> Unsigned(Atoi(text), 16)

-----------------------------------------------------------------------------

Init ==
  /\ state = "closed"
  /\ section = "NONE"
  /\ member = Default
  /\ file \in Files
  /\ lines = 0

Comment(l) ==
  /\ l.kind = "comment"
  /\ UNCHANGED <<section, member>>

\* Mutant: an unknown head leaves the section as it was.
MutSectionHead(l) ==
  /\ l.kind = "section"
  /\ section' = IF l.section = "NONE" THEN section ELSE l.section
  /\ UNCHANGED member

\* An unknown head ends the section too.
SectionHead(l) ==
  /\ l.kind = "section"
  /\ section' = l.section
  /\ UNCHANGED member

\* Mutant: the key is looked up without its section.
MutEntry(l) ==
  /\ l.kind = "entry"
  /\ member' = [m \in Members |->
                  IF l.rest # <<>> /\ l.key = m[2]
                    THEN Convert(m, Stored(l.rest)) ELSE member[m]]
  /\ UNCHANGED section

\* A key without a value changes nothing, nor does one that the section does
\* not have.
Entry(l) ==
  /\ l.kind = "entry"
  /\ IF l.rest # <<>> /\ <<section, l.key>> \in Members
       THEN LET m == <<section, l.key>>
            IN  member' = [member EXCEPT ![m] = Convert(m, Stored(l.rest))]
       ELSE UNCHANGED member
  /\ UNCHANGED section

Open ==
  /\ state = "closed"
  /\ state' \in {"reading", "unread"}
  /\ UNCHANGED <<section, member, lines>>

Line ==
  /\ state = "reading"
  /\ lines < Len(file)
  /\ lines' = lines + 1
  /\ LET l == file[lines']
     IN  Comment(l) \/ SectionHead(l) \/ Entry(l)
  /\ UNCHANGED state

\* The assertions of the constructors of CAPRSWriterThread and
\* CMQTTConnection.
Refused ==
  \/ \E m \in {<<"General", "Callsign">>, <<"APRS-IS", "Password">>,
              <<"APRS-IS", "Server">>, <<"MQTT", "Address">>,
              <<"MQTT", "Name">>} : member[m] = <<>>
  \/ \E m \in Ports : member[m] = 0
  \/ member[<<"MQTT", "Keepalive">>] < 5

Construct ==
  /\ state = "reading" /\ lines = Len(file)
  /\ state' = IF Refused THEN "aborted" ELSE "started"
  /\ UNCHANGED <<section, member, lines>>

\* The constructor of CAPRSWriterThread cuts the callsign to its length and
\* takes the blanks at its end off.
Username ==
  LET c == member[<<"General", "Callsign">>]
  IN  WithoutTrailing(SubSeq(c, 1, Min({Len(c), CallsignLength})))

\* sprintf() of connect() puts callsign and password into connectString[].
\* What a line that is too long does is undefined.
Login ==
  /\ state = "started"
  /\ state' = IF Len(Username) + Len(member[<<"APRS-IS", "Password">>]) > LoginRoom
                THEN "overrun" ELSE "loggedIn"
  /\ UNCHANGED <<section, member, lines>>

Next == (Open \/ Line \/ Construct \/ Login) /\ UNCHANGED file

Spec == Init /\ [][Next]_vars

-----------------------------------------------------------------------------
(* Properties.                                                             *)

\* The section is one that has members, or NONE, and is the one whose head
\* was read last.
SectionOf(i) ==
  LET heads == {j \in 1 .. i : file[j].kind = "section"}
  IN  IF heads = {} THEN "NONE" ELSE file[Max(heads)].section
TypeOK ==
  /\ state \in {"closed", "reading", "unread", "aborted", "started", "loggedIn",
                 "overrun"}
  /\ section \in Sections
  /\ DOMAIN member = Members
  /\ file \in Files /\ lines \in 0 .. Len(file)
  /\ section = SectionOf(lines)

\* However the sections and keys of the file are ordered, repeated or spread,
\* each member has the value of the last entry with its key that stands in
\* its own section and has a value, and its default without one: "Port" and
\* "Password" of [APRS-IS] and of [MQTT] are kept apart, and so are the
\* entries of a section read() does not know (Conf.cpp:76-89, 116-154).
Given(m) ==
  {i \in 1 .. lines :
     /\ file[i].kind = "entry"
     /\ <<SectionOf(i), file[i].key>> = m
     /\ file[i].rest # <<>>}
LastWins ==
  \A m \in Members :
    member[m] = IF Given(m) = {} THEN Default[m]
                ELSE Convert(m, Stored(file[Max(Given(m))].rest))

\* The constructors refuse a file that could be read only for the lack of one
\* of four entries, or for a value that is no use: an empty one, a port that is
\* 0 in 16 bits, or a keepalive that is below 5 as an unsigned int, so that one
\* below 0 passes and one with all its figures above the 32 bits does not; what
\* else is left out has a default that will do.  The login line is longer than
\* its buffer only for a password that with eight characters is
\* (Conf.cpp:37-56, 123-145, APRSWriterThread.cpp:50-56, 220-221,
\* TCPSocket.cpp:39-40, MQTTConnection.cpp:44-47).
Needed ==
  {<<"General", "Callsign">>, <<"APRS-IS", "Server">>, <<"APRS-IS", "Port">>,
   <<"APRS-IS", "Password">>}
LastText(m) == Stored(file[Max(Given(m))].rest)
NoUse(m) ==
  \/ m \in Texts /\ LastText(m) = <<>>
  \/ m \in Ports /\ Unsigned(Atoi(LastText(m)), 16) = 0
  \/ m = <<"MQTT", "Keepalive">> /\ Unsigned(Atoi(LastText(m)), IntWidth) < 5
AbortExplained ==
  /\ state = "aborted" =>
       \/ \E m \in Needed : Given(m) = {}
       \/ \E m \in Members : Given(m) # {} /\ NoUse(m)
  /\ state = "overrun" =>
       LET p == <<"APRS-IS", "Password">>
       IN  Given(p) # {} /\ Len(LastText(p)) + CallsignLength > LoginRoom

\* A value between quotes is kept as it is, "#" and blanks included; of any
\* other the longest beginning is kept that has no "#" and does not end with
\* a blank (Conf.cpp:99-114).
Plain(t) ==
  "hash" \notin ToSet(t) /\ (t # <<>> => Last(t) # "blank")
InQuotes(t) == <<"quote">> \o t \o <<"quote">>
ValueKept ==
  \A i \in DOMAIN file :
    file[i].kind = "entry" =>
      LET rest == file[i].rest
      IN  IF \E t \in SubSeqs(rest) : rest = InQuotes(t)
            THEN rest = InQuotes(Stored(rest))
            ELSE /\ Stored(rest) \in Prefixes(rest) /\ Plain(Stored(rest))
                 /\ \A p \in Prefixes(rest) :
                      Plain(p) => Len(p) <= Len(Stored(rest))

=============================================================================
