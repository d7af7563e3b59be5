--------------------------- MODULE MCIronyServer ---------------------------
(***************************************************************************)
(* irony-server with two files, one of them with a space in its name, the  *)
(* other not saved yet, and two lists of compile options of one length.    *)
(*                                                                         *)
(* The commands on files and those on compilation databases share nothing  *)
(* but the loop, so a behaviour is a session of one of them, or one of a   *)
(* single request about any of many odd words.                             *)
(***************************************************************************)
EXTENDS IronyServer

VARIABLE session

MCNumber == {"1"}
MCTempPath == <<"/tmp">>
MCFile == {<<"a", " ", "b">>, <<Dash>>}
MCFlags == {<<<<"-D", Backslash, "x">>>>, <<<<Dash, Dash>>>>}
MCText == {"v1", "v2"}
MCDir == {<<"d">>, <<"d", " ">>}
MCNoDir == <<>>
MCHandle == 1..3

MCWide == {"w"}
MCLower == "F" :> "f"
MCPrefix == {<<"f">>}

MCCharacter == {"F", "f", "g", "i", "o", "r", "t", "w", "x", "y", "z", ",", "}", " "}

ChunkOf(kind, text) == [kind |-> kind, text |-> text]

Fields == {ChunkOf("placeholder", <<"x", "y">>), ChunkOf("placeholder", <<"w">>),
           ChunkOf("current", <<"x">>)}
Others == {ChunkOf("informative", <<"i">>), ChunkOf("informative", <<"w">>),
           ChunkOf("punctuation", <<",">>), ChunkOf("punctuation", <<"}">>),
           ChunkOf("text", <<"t">>), ChunkOf("optional", <<>>)}
Leading == {<<>>, <<ChunkOf("result", <<"r">>)>>} \cup {<<c>> : c \in Others}

\* A name, with at most one chunk before it and three behind it, of which the
\* second may be another name
MCString ==
    {[available |-> TRUE, chunks |-> l \o <<ChunkOf("typed", <<"F", "o">>)>> \o t] :
        l \in Leading,
        t \in {<<>>} \cup {<<f>> : f \in Fields}
              \cup {<<f, o>> : f \in Fields, o \in Others}
              \cup {<<o, c, f>> : o \in Others, f \in Fields,
                                  c \in Fields \cup Others \cup {ChunkOf("typed", <<"z">>)}}}
    \cup {[available |-> a, chunks |-> <<ChunkOf(k, <<"g">>)>>] :
              a \in BOOLEAN, k \in {"typed", "text"}}

PlainString == [available |-> TRUE, chunks |-> <<ChunkOf("typed", <<"F", "o">>)>>]

\* Words of up to two characters, by themselves and inside others
Characters == {"a", Dash, Space, Quote, Backslash, Apostrophe}
Pairs == {<<c, d>> : c, d \in Characters}
Words == {<<>>} \cup {<<c>> : c \in Characters} \cup Pairs \cup {<<"a">> \o p \o <<"a">> : p \in Pairs}
OtherWords == {<<"a">>, <<Apostrophe>>, <<Space, Quote>>}

MCInit == Init /\ session \in {"files", "databases", "words", "strings"}

AskWords ==
    MayAsk /\ \E kind \in {"parse", "candidates"}, f \in Words \ {Separator}, w \in OtherWords :
        Ask(kind, f, <<w>>, <<>>, <<>>)

AskSession ==
    CASE session = "files" -> AskAny
      [] session = "databases" -> AskAnyOptions
      [] session = "words" -> requests = 0 /\ AskWords
      [] session = "strings" -> requests = 0 /\ AskAny

MCNext ==
    /\ \/ AskSession
       \/ Send \/ Receive \/ NewProcess
       \/ ServerStep(IF session = "strings" THEN String ELSE {PlainString})
       \/ session = "databases" /\ Tools
    /\ UNCHANGED session

MCSpec == MCInit /\ [][MCNext]_<<vars, session>>
=============================================================================
