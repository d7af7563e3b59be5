---------------------------- MODULE CommandLine ----------------------------
(***************************************************************************)
(* The line between irony.el and irony-server: how the client quotes the   *)
(* words of a command, how the server takes the line apart again           *)
(* (CommandLineParser.cpp) and which words it accepts (Command.cpp).       *)
(*                                                                         *)
(* A word is a sequence of characters.  A keyword or a number, none of     *)
(* whose characters is special here, is a word of one character.           *)
(***************************************************************************)
EXTENDS Naturals, Sequences, SequencesExt

CONSTANTS
    Number,         \* the words that are numbers, as characters
    TempPath        \* the path of the command parser's temporary file

Space == " "
Quote == "\""
Apostrophe == "'"
Backslash == "\\"
Dash == "-"

\* The characters of which the server makes something else than a part of a word
Special == {Space, Quote, Apostrophe, Backslash}

ASSUME CommandLineAssumption == Number # {} /\ Number \subseteq STRING \ Special

-----------------------------------------------------------------------------
(***************************************************************************)
(* irony.el: quoting.                                                      *)
(***************************************************************************)

\* Fault: the backslash is not escaped.
Bug_Escaped(word) ==
    FlattenSeq([i \in 1..Len(word) |->
        IF word[i] = Quote THEN <<Backslash, word[i]>> ELSE <<word[i]>>])

\* The replacement of the characters that end or escape in a quoted word
Escaped(word) ==
    FlattenSeq([i \in 1..Len(word) |->
        IF word[i] \in {Quote, Backslash} THEN <<Backslash, word[i]>> ELSE <<word[i]>>])

\* The words that irony--quote-strings puts between quotes; an apostrophe is
\* no reason to.
NeedsQuotes(word) ==
    word = <<>> \/ \E i \in 1..Len(word) : word[i] \in {Quote, Backslash, Space}

QuoteWord(word) ==
    IF NeedsQuotes(word) THEN <<Quote>> \o Escaped(word) \o <<Quote>> ELSE word

\* irony--quote-strings with the default separator
QuoteStrings(words) ==
    FlattenSeq([i \in 1..Len(words) |->
        IF i = 1 THEN QuoteWord(words[i]) ELSE <<Space>> \o QuoteWord(words[i])])

-----------------------------------------------------------------------------
(***************************************************************************)
(* CommandLineParser.cpp: the reading of a line, a character at a time.    *)
(* "gap": between arguments; "free": in an argument, outside quotes, which *)
(* is also where the closing of quotes leads; "double", "single": in       *)
(* quotes.  escape: after a backslash.                                     *)
(***************************************************************************)
Scanner == [mode |-> "gap", escape |-> FALSE, argument |-> <<>>, done |-> <<>>]

\* The first character after whitespace starts an argument.
Started(s) == [s EXCEPT !.mode = IF @ = "gap" THEN "free" ELSE @]

Push(s, c) == [Started(s) EXCEPT !.argument = Append(@, c), !.escape = FALSE]

Finish(s) ==
    [s EXCEPT !.mode = "gap", !.argument = <<>>, !.done = Append(@, s.argument)]

\* parseDoubleQuotedStringInto
ScanDouble(s, c) ==
    CASE c = Quote -> [s EXCEPT !.mode = "free"]
      [] c = Backslash -> [s EXCEPT !.escape = TRUE]
      [] OTHER -> Push(s, c)

\* parseSingleQuotedStringInto: nothing is escaped here
ScanSingle(s, c) ==
    IF c = Apostrophe THEN [s EXCEPT !.mode = "free"] ELSE Push(s, c)

\* nextNonWhitespace, parseStringInto and parseFreeStringInto
ScanFree(s, c) ==
    CASE c = Space -> IF s.mode = "gap" THEN s ELSE Finish(s)
      [] c = Quote -> [s EXCEPT !.mode = "double"]
      [] c = Apostrophe -> [s EXCEPT !.mode = "single"]
      [] c = Backslash -> [Started(s) EXCEPT !.escape = TRUE]
      [] OTHER -> Push(s, c)

Scan(s, c) ==
    IF s.escape THEN Push(s, c)
    ELSE CASE s.mode = "double" -> ScanDouble(s, c)
           [] s.mode = "single" -> ScanSingle(s, c)
           [] OTHER -> ScanFree(s, c)

\* unescapeCommandLine.  The end of the line ends an argument too, quotes
\* that are still open included; a backslash at the end is dropped.
Unescape(line) ==
    LET scan[i \in 0..Len(line)] ==
            IF i = 0 THEN Scanner ELSE Scan(scan[i - 1], line[i])
        end == scan[Len(line)]
    IN  IF end.mode = "gap" THEN end.done ELSE Finish(end).done

-----------------------------------------------------------------------------
(***************************************************************************)
(* Command.cpp: from the words of a line to a command.                     *)
(***************************************************************************)

\* The positional arguments of an action, by the converter of each
Positional(action) ==
    CASE action = "set-debug" -> <<"option">>
      [] action = "parse" -> <<"string">>
      [] action = "complete" -> <<"string", "unsigned", "unsigned">>
      [] action = "get-type" -> <<"unsigned", "unsigned">>
      [] action = "set-unsaved" -> <<"string", "string">>
      [] action = "reset-unsaved" -> <<"string">>
      [] action = "candidates" -> <<"string", "style">>
      [] action = "get-compile-options" -> <<"string", "string">>
      [] OTHER -> <<>>

\* actionFromString
Action == {"candidates", "complete", "completion-diagnostics", "diagnostics",
           "exit", "get-compile-options", "get-type", "help", "parse",
           "reset-unsaved", "set-debug", "set-unsaved"}

\* UnsignedIntConverter, OptionConverter, PrefixMatchStyleConverter.
\* strtol accepts the empty string as 0.  That it did not overflow is taken
\* from errno, which nothing sets to 0 before: erange is what it was before.
Converts(kind, word, erange) ==
    CASE kind = "unsigned" -> ~erange /\ (word = <<>> \/ \E n \in Number : word = <<n>>)
      [] kind = "option" -> word \in {<<"on">>, <<"off">>}
      [] kind = "style" -> word \in {<<"exact">>, <<"case-insensitive">>, <<"smart-case">>}
      [] OTHER -> TRUE

\* The position of the first "--" behind the action, or behind all words
EndOfArguments(argv) ==
    LET ends == {i \in 2..Len(argv) : argv[i] = <<Dash, Dash>>}
    IN  IF ends = {} THEN Len(argv) + 1 ELSE CHOOSE i \in ends : \A j \in ends : i <= j

\* Fault: everything behind the action is an argument.
Bug_Arguments(argv) == SubSeq(argv, 2, Len(argv))

Arguments(argv) == SubSeq(argv, 2, EndOfArguments(argv) - 1)

\* "-" stands for a file that does not exist yet; in it, irony-server parses a
\* temporary file of its own.
Substituted(word) == IF word = <<Dash>> THEN TempPath ELSE word

\* The argument that is command_.file, 0 if the action has none
FileArgument(action) ==
    CASE action \in {"parse", "complete", "set-unsaved", "reset-unsaved"} -> 1
      [] action = "get-compile-options" -> 2
      [] OTHER -> 0

Rejected == [action |-> "rejected"]

\* CommandParser::parse.  A line that is rejected ends the server.
ParseCommand(argv, erange) ==
    LET action == argv[1][1]
        args == Arguments(argv)
        kinds == Positional(action)
        flags == SubSeq(argv, EndOfArguments(argv) + 1, Len(argv))
    IN  IF \/ argv = <<>>
           \/ Len(argv[1]) # 1
           \/ action \notin Action
           \/ Len(args) # Len(kinds)
           \/ \E i \in 1..Len(kinds) : ~Converts(kinds[i], args[i], erange)
        THEN Rejected
        ELSE [action |-> action,
              args |-> [i \in 1..Len(args) |->
                            IF i = FileArgument(action) THEN Substituted(args[i]) ELSE args[i]],
              flags |-> IF action \in {"parse", "complete"} THEN flags ELSE <<>>]

-----------------------------------------------------------------------------
(***************************************************************************)
(* What can be sent.                                                       *)
(***************************************************************************)

\* The words that survive quoting: an apostrophe only does in a word that is
\* put between quotes for some other reason.
Survives(word) ==
    NeedsQuotes(word) \/ \A i \in 1..Len(word) : word[i] # Apostrophe

AllSurvive(words) == \A i \in 1..Len(words) : Survives(words[i])
=============================================================================
