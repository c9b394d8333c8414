--------------------------------- MODULE MCURL ---------------------------------
(* The instance of URL for TLC.  The texts have every kind of scheme, one of
   them with a host, and after it every sequence of at most MaxRest
   characters; "x" stands for the letters.  The default port is 4 instead of 80
   and the greatest one 8 instead of 65535; an int has 5 bits and a long 7, so
   that two digits make numbers beyond the one (40 becomes 8, 44 becomes 12,
   49 becomes -15) and beyond the other (90 becomes -1). *)
EXTENDS URL

CONSTANT MaxRest

Characters == {":", "/", "x", "4", "9", "0", "-", "+", " "}

Alphabet == Characters \union {"http"} \union {Digits[d] : d \in 1..10}

Starts ==
    {<<>>, Separator, Http \o Separator, <<"x">> \o Separator,
     Http \o Separator \o <<"x">>}

Spellings ==
    {a \o b : a \in Starts, b \in UNION {[1..n -> Characters] : n \in 0..MaxRest}}

\* The last two cannot be a host: with them the object is no longer sound.
Parts == {Http, <<>>, <<":", "4">>, <<"x", "/">>}

Numbers == {0, 4, 8}
================================================================================
