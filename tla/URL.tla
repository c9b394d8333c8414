---------------------------------- MODULE URL ----------------------------------
(* util::URL (util/url.h): a text is parsed into scheme, host, port and path,
   the parts are read and changed through the references the accessors return,
   and the parts are put together into a text again.

   A text is a sequence of characters.  The name "http", which the code only
   ever compares as a whole, is one character, and so is the white space that
   atoi() skips.

   The object `url` is constructed with the default constructor, parsed once,
   copied into `other`, and then some of its parts are changed. *)
EXTENDS Integers, Sequences, FiniteSetsExt

CONSTANTS
    Char,         \* the characters
    Inputs,       \* the texts given to parse()
    Names,        \* the hosts that host() is set to
    Ports,        \* the numbers that port() is set to
    DefaultPort,  \* 80
    MaxPort,      \* 65535
    MaxInt,       \* INT_MAX
    MaxLong,      \* LONG_MAX
    MaxEdits      \* bound: how often a part is changed

ASSUME URLAssumption ==
    /\ MaxPort \in Nat
    /\ DefaultPort \in 1..MaxPort
    /\ MaxInt \in Nat /\ MaxPort <= MaxInt
    /\ MaxLong \in Nat /\ MaxInt <= MaxLong
    /\ MaxEdits \in Nat
    /\ {"http", ":", "/", "-"} \subseteq Char
    /\ {"0", "1", "2", "3", "4", "5", "6", "7", "8", "9"} \subseteq Char
    /\ \A s \in Inputs \union Names : s \in Seq(Char)
    /\ \A n \in Ports : n \in Int

VARIABLES
    url,    \* the object: _scheme, _host, _port, _path, _valid
    other,  \* another one, copied from it
    text,   \* the text that was parsed
    phase,  \* "new", "parsed" or "copied"
    edits   \* how often a part was changed

vars == <<url, other, text, phase, edits>>

Http == <<"http">>
Separator == <<":", "/", "/">>

\* The ten digits, the digit for 0 first.
Digits == <<"0", "1", "2", "3", "4", "5", "6", "7", "8", "9">>
IsDigit(c) == \E d \in 1..10 : Digits[d] = c
DigitValue(c) == (CHOOSE d \in 1..10 : Digits[d] = c) - 1

\* Where t occurs in s: find() is the least of them, rfind() the greatest.
Occurrences(s, t) ==
    {i \in 1..(Len(s) - Len(t) + 1) : SubSeq(s, i, i + Len(t) - 1) = t}
Has(s, t) == Occurrences(s, t) # {}

\* s.substr(0, ...) and s.substr(..., npos) around position i.
Before(s, i) == SubSeq(s, 1, i - 1)
From(s, i) == SubSeq(s, i, Len(s))

(******************************************************************************)
(* The C library: atoi() and snprintf("%d")                                   *)
(******************************************************************************)

\* The longest prefix of s that consists of digits.
DigitPrefix(s) ==
    Before(s, Min({i \in 1..Len(s) : ~IsDigit(s[i])} \union {Len(s) + 1}))

\* The numbers that the first 0, 1, 2, ... of some digits spell.
Values(digits) ==
    LET value[i \in 0..Len(digits)] ==
            IF i = 0 THEN 0 ELSE 10 * value[i - 1] + DigitValue(digits[i])
    IN  value

Number(digits) == Values(digits)[Len(digits)]

IsSpace(c) == c = " "
SkipSpace(s) == From(s, Min({i \in 1..Len(s) : ~IsSpace(s[i])} \union {Len(s) + 1}))

\* atoi() of a number beyond the range of an int is undefined: the library casts
\* what strtol() returns, the greatest or least long if that is exceeded too.
Clipped(n) == IF n > MaxLong THEN MaxLong ELSE IF n < -MaxLong - 1 THEN -MaxLong - 1 ELSE n
ToInt(n) ==
    IF -MaxInt - 1 <= n /\ n <= MaxInt THEN n
    ELSE ((Clipped(n) + MaxInt + 1) % (2 * (MaxInt + 1))) - (MaxInt + 1)

\* The digits after the white space and the sign; none of them make 0.
Atoi(s) ==
    LET t      == SkipSpace(s)
        signed == t # <<>> /\ t[1] \in {"-", "+"}
        n      == Number(DigitPrefix(IF signed THEN Tail(t) ELSE t))
    IN  ToInt(IF signed /\ t[1] = "-" THEN -n ELSE n)

Decimal[n \in Nat] ==
    IF n < 10 THEN <<Digits[n + 1]>>
    ELSE Append(Decimal[n \div 10], Digits[(n % 10) + 1])

Itoa(n) == IF n < 0 THEN <<"-">> \o Decimal[-n] ELSE Decimal[n]

(******************************************************************************)
(* parse()                                                                    *)
(******************************************************************************)

\* A mistake: the last separator is taken.
SplitSchemeLast(s) ==
    IF Has(s, Separator)
    THEN LET i == Max(Occurrences(s, Separator))
         IN  [scheme |-> Before(s, i), rest |-> From(s, i + 3)]
    ELSE [scheme |-> Http, rest |-> s]

\* The scheme, "http" when none is given, and what follows it.
SplitScheme(s) ==
    IF Has(s, Separator)
    THEN LET i == Min(Occurrences(s, Separator))
         IN  [scheme |-> Before(s, i), rest |-> From(s, i + 3)]
    ELSE [scheme |-> Http, rest |-> s]

\* The path, which begins after the first "/", and what precedes that.
SplitPath(s) ==
    IF Has(s, <<"/">>)
    THEN LET i == Min(Occurrences(s, <<"/">>))
         IN  [path |-> From(s, i + 1), rest |-> Before(s, i)]
    ELSE [path |-> <<>>, rest |-> s]

\* The port, which begins after the last ":", and what precedes that.
SplitPort(s) ==
    IF Has(s, <<":">>)
    THEN LET i == Max(Occurrences(s, <<":">>))
         IN  [port |-> Atoi(From(s, i + 1)), rest |-> Before(s, i)]
    ELSE [port |-> DefaultPort, rest |-> s]

PortInRange(n) == ~(n <= 0 \/ n > MaxPort)

\* A mistake: the host is not looked at again.
ParsedAnyHost(s) ==
    LET a == SplitScheme(s)
        b == SplitPath(a.rest)
        c == SplitPort(b.rest)
    IN  [scheme |-> a.scheme, host |-> c.rest, port |-> c.port, path |-> b.path,
         valid |-> PortInRange(c.port)]

\* What parse(s) leaves in the object, whatever was there before.
Parsed(s) ==
    LET a == SplitScheme(s)
        b == SplitPath(a.rest)
        c == SplitPort(b.rest)
    IN  [scheme |-> a.scheme, host |-> c.rest, port |-> c.port, path |-> b.path,
         valid |-> PortInRange(c.port) /\ ~Has(c.rest, <<":">>)]

(******************************************************************************)
(* toString() and operator==                                                  *)
(******************************************************************************)

\* A mistake: the port is left out of every "http" text.
PortTextHttp(u) == IF u.scheme = Http THEN <<>> ELSE <<":">> \o Itoa(u.port)

\* The port is left out when it is the one that parse() would supply.
PortText(u) ==
    IF u.scheme = Http /\ u.port = DefaultPort THEN <<>>
    ELSE <<":">> \o Itoa(u.port)

toString(u) == u.scheme \o Separator \o u.host \o PortText(u) \o <<"/">> \o u.path

\* A mistake: the path is not compared.
EqualNoPath(u, v) ==
    u.scheme \o u.host \o PortText(u) = v.scheme \o v.host \o PortText(v)

Equal(u, v) == toString(u) = toString(v)

(******************************************************************************)
(* The life of an object                                                      *)
(******************************************************************************)

\* URL() {}: the port and the flag are not initialized.
Init ==
    /\ url \in [scheme : {<<>>}, host : {<<>>}, port : {0, DefaultPort},
                path : {<<>>}, valid : BOOLEAN]
    /\ other = url
    /\ text = <<>>
    /\ phase = "new"
    /\ edits = 0

Parse(s) ==
    /\ phase = "new"
    /\ url' = Parsed(s)
    /\ text' = s
    /\ phase' = "parsed"
    /\ UNCHANGED <<other, edits>>

\* other = url, and URL other(url)
Assign ==
    /\ phase = "parsed"
    /\ other' = url
    /\ phase' = "copied"
    /\ UNCHANGED <<url, text, edits>>

\* A part is changed through a reference; _valid stays what it was.
Edited(u) ==
    /\ phase = "copied"
    /\ edits < MaxEdits
    /\ url' = u
    /\ edits' = edits + 1
    /\ UNCHANGED <<other, text, phase>>

SetScheme(s) == Edited([url EXCEPT !.scheme = s])
SetHost(s) == Edited([url EXCEPT !.host = s])
SetPort(n) == Edited([url EXCEPT !.port = n])
SetPath(s) == Edited([url EXCEPT !.path = s])

Next ==
    \/ \E s \in Inputs : Parse(s)
    \/ Assign
    \/ \E s \in Names : SetScheme(s) \/ SetHost(s) \/ SetPath(s)
    \/ \E n \in Ports : SetPort(n)

Spec == Init /\ [][Next]_vars

(******************************************************************************)
(* Properties                                                                 *)
(******************************************************************************)

\* The parts that a text can spell: parse() of the text finds them again.
Sound(u) ==
    /\ ~Has(u.scheme, Separator)
    /\ ~Has(u.host, <<":">>) /\ ~Has(u.host, <<"/">>)
    /\ u.port \in 1..MaxPort

\* valid(), right after parse(), says whether the parts are sound.  (It does not
\* say that the text has nothing else: of "8x" atoi() makes 8.  Once a part was
\* changed through its reference it says nothing: the flag is stale.)
ValidMeansSound == phase = "parsed" => (url.valid <=> Sound(url))

\* parse(toString()) restores a sound object, one whose parts were changed
\* included: leaving out port 80 of an "http" text loses nothing.
RoundTrip ==
    phase # "new" /\ Sound(url) => Parsed(toString(url)) = [url EXCEPT !.valid = TRUE]

\* operator==, which compares the texts, compares the parts of sound objects:
\* no two different ones are spelled alike.
EqualMeansSame ==
    Sound(url) /\ Sound(other)
        => (Equal(url, other) <=> [url EXCEPT !.valid = other.valid] = other)

\* s is a spelling of the parts of u: cut after the scheme, the host and the
\* port, it shows each of them, or nothing where u has the default.  The scheme
\* ends at the first separator, the host at the first "/" after it or at the
\* last ":" before that.
Spells(s, u) ==
    \E i, j, k \in 0..Len(s) :
        /\ i <= j /\ j <= k
        /\ \/ i = 0 /\ u.scheme = Http /\ ~Has(s, Separator)
           \/ SubSeq(s, 1, i) = u.scheme \o Separator /\ ~Has(u.scheme, Separator)
        /\ SubSeq(s, i + 1, j) = u.host
        /\ ~Has(SubSeq(s, i + 1, k), <<"/">>)
        /\ \/ j = k /\ u.port = DefaultPort /\ ~Has(u.host, <<":">>)
           \/ /\ j < k /\ s[j + 1] = ":"
              /\ Atoi(SubSeq(s, j + 2, k)) = u.port
              /\ ~Has(SubSeq(s, j + 2, k), <<":">>)
        /\ \/ k = Len(s) /\ u.path = <<>>
           \/ k < Len(s) /\ s[k + 1] = "/" /\ u.path = From(s, k + 2)

\* parse() cuts the text without loss: whatever the text, valid or not, the
\* scheme, the host and the path are the pieces of it, and the port is what
\* atoi() makes of the piece between the host and the path.
ParseKeepsText == phase = "parsed" => Spells(text, url)
================================================================================
