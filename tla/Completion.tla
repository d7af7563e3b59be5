----------------------------- MODULE Completion -----------------------------
(***************************************************************************)
(* From a completion string of libclang to what irony-completion.el shows  *)
(* and inserts: Irony::candidates cuts the string into a prototype, the    *)
(* start of its annotation, the text to insert and the places of its       *)
(* placeholders; the client cuts the texts again at these indices.         *)
(*                                                                         *)
(* The server counts bytes, Emacs characters.                              *)
(***************************************************************************)
EXTENDS Naturals, Sequences, FiniteSets, SequencesExt

CONSTANTS
    Character,      \* the characters of the texts that libclang has
    Wide,           \* those that take two bytes in UTF-8
    Lower           \* function: a character that is upper case |-> its lower case

\* The loop writes two characters of its own.  What the client puts between
\* characters, or signals, is not a character itself.
ASSUME CharacterAssumption ==
    /\ {",", " "} \subseteq Character
    /\ {"${", "$0", "args-out-of-range"} \cap Character = {}

Bytes(text) == Len(text) + Cardinality({i \in 1..Len(text) : text[i] \in Wide})

-----------------------------------------------------------------------------
(***************************************************************************)
(* Irony.cpp: prefixes.                                                    *)
(***************************************************************************)
ToLower(c) == IF c \in DOMAIN Lower THEN Lower[c] ELSE c

\* isStyleCaseInsensitive, with hasUppercase
CaseInsensitive(prefix, style) ==
    \/ style = "case-insensitive"
    \/ style = "smart-case" /\ \A i \in 1..Len(prefix) : prefix[i] \notin DOMAIN Lower

\* startsWith, with isEqual
StartsWith(text, prefix, insensitive) ==
    /\ Len(prefix) <= Len(text)
    /\ \A i \in 1..Len(prefix) :
          IF insensitive THEN ToLower(prefix[i]) = ToLower(text[i]) ELSE prefix[i] = text[i]

-----------------------------------------------------------------------------
(***************************************************************************)
(* Irony.cpp: the loop of Irony::candidates over the chunks.               *)
(***************************************************************************)
Texts == {"typed", "text", "placeholder", "informative", "current"}

\* "punctuation" stands for the fourteen kinds of chunk that are a single
\* character, "result", "typed", ... for their own kind.
Kind == Texts \cup {"punctuation", "result", "optional"}
Chunk == [kind : Kind, text : Seq(Character)]
CompletionString == [available : BOOLEAN, chunks : Seq(Chunk)]

\* What a chunk adds to the prototype; a comma looks better followed by a space
Shown(chunk) ==
    CASE chunk.kind \in Texts -> chunk.text
      [] chunk.kind = "punctuation" ->
            IF chunk.text = <<",">> THEN <<",", " ">> ELSE chunk.text
      [] OTHER -> <<>>

IsField(chunk) == chunk.kind \in {"placeholder", "current"}

\* What it adds to the text to insert, once there has been a typed text
Inserted(chunk) == IF chunk.kind = "informative" THEN <<>> ELSE Shown(chunk)

NewCandidate ==
    [typed |-> <<>>, hasTyped |-> FALSE, miss |-> FALSE, prototype |-> <<>>,
     annotation |-> 0, post |-> <<>>, marks |-> <<>>]

\* Fault: the place where a placeholder ends is taken before it is appended.
Bug_PostCompletion(cand, chunk) ==
    IF ~cand.hasTyped THEN cand
    ELSE [cand EXCEPT
            !.post = @ \o Inserted(chunk),
            !.marks = IF IsField(chunk) THEN @ \o <<Bytes(cand.post), Bytes(cand.post)>> ELSE @]

\* postCompCar and postCompCdr
PostCompletion(cand, chunk) ==
    IF ~cand.hasTyped THEN cand
    ELSE LET post == cand.post \o Inserted(chunk)
         IN  [cand EXCEPT
                !.post = post,
                !.marks = IF IsField(chunk) THEN @ \o <<Bytes(cand.post), Bytes(post)>> ELSE @]

\* The first typed text decides; the annotation is what comes after it.
TypedText(cand, chunk, prefix, insensitive) ==
    IF chunk.kind # "typed" \/ cand.hasTyped THEN cand
    ELSE [cand EXCEPT
            !.typed = chunk.text,
            !.miss = ~StartsWith(chunk.text, prefix, insensitive),
            !.annotation = Bytes(cand.prototype),
            !.hasTyped = TRUE]

\* One turn of the loop; a typed text without the prefix has left it.
Turn(cand, chunk, prefix, insensitive) ==
    IF cand.miss THEN cand
    ELSE LET shown == [cand EXCEPT !.prototype = @ \o Shown(chunk)]
         IN  TypedText(PostCompletion(shown, chunk), chunk, prefix, insensitive)

\* The candidate that the loop makes of a completion string
CandidateOf(string, prefix, style) ==
    LET insensitive == CaseInsensitive(prefix, style)
        cand[i \in 0..Len(string.chunks)] ==
            IF i = 0 THEN NewCandidate
            ELSE Turn(cand[i - 1], string.chunks[i], prefix, insensitive)
    IN  cand[Len(string.chunks)]

\* Those that are printed
IsPrinted(string, prefix, style) ==
    /\ string.available
    /\ LET cand == CandidateOf(string, prefix, style) IN cand.hasTyped /\ ~cand.miss

-----------------------------------------------------------------------------
(***************************************************************************)
(* irony-completion.el: what the client makes of a candidate.              *)
(***************************************************************************)
ArgsOutOfRange == <<"args-out-of-range">>

\* substring of Emacs Lisp
Substring(text, from, to) ==
    IF from <= to /\ to <= Len(text) THEN SubSeq(text, from + 1, to) ELSE ArgsOutOfRange

\* irony-completion-annotation
Annotation(cand) == Substring(cand.prototype, cand.annotation, Len(cand.prototype))

\* A field of a yasnippet template
Field(n, text) == <<"${", n, ":">> \o text \o <<"}">>

\* irony-completion--post-complete-yas-snippet: a field for each pair of
\* marks, between them the text as it is.  One cut that fails ends it.
Snippet(str, marks) ==
    LET from(k) == IF k = 0 THEN 0 ELSE marks[2 * k]
        last == Len(marks) \div 2
        snippet[k \in 0..last] ==
            IF k = 0 THEN <<>>
            ELSE snippet[k - 1]
                 \o SubSeq(str, from(k - 1) + 1, marks[2 * k - 1])
                 \o Field(k, SubSeq(str, marks[2 * k - 1] + 1, marks[2 * k]))
        cuts == <<0>> \o marks \o <<Len(str)>>
    IN  IF \E i \in 2..Len(cuts) : cuts[i - 1] > cuts[i] THEN ArgsOutOfRange
        ELSE snippet[last] \o SubSeq(str, from(last) + 1, Len(str)) \o <<"$0">>

\* irony-completion-post-complete: the template, or the text in front of the
\* first placeholder where there are no snippets
PostComplete(cand, snippets) ==
    IF cand.marks # <<>> /\ snippets THEN Snippet(cand.post, cand.marks)
    ELSE IF cand.marks = <<>> THEN cand.post
    ELSE Substring(cand.post, 0, cand.marks[1])

-----------------------------------------------------------------------------
(***************************************************************************)
(* What is meant, in terms of the chunks.                                  *)
(***************************************************************************)
FirstTyped(string) == SelectInSeq(string.chunks, LAMBDA chunk : chunk.kind = "typed")

BeforeAnnotation(string) == SubSeq(string.chunks, 1, FirstTyped(string))
Rest(string) == SubSeq(string.chunks, FirstTyped(string) + 1, Len(string.chunks))

AllOf(chunks, Text(_)) == FlattenSeq([i \in 1..Len(chunks) |-> Text(chunks[i])])

MeantAnnotation(string) == AllOf(Rest(string), Shown)

\* The chunks behind the typed text, the fields among them as numbered fields
MeantSnippet(string) ==
    LET rest == Rest(string)
        number(i) == Cardinality({j \in 1..i : IsField(rest[j])})
    IN  FlattenSeq([i \in 1..Len(rest) |->
            IF IsField(rest[i]) THEN Field(number(i), rest[i].text) ELSE Inserted(rest[i])])
        \o <<"$0">>

\* What comes before the first field
MeantStart(string) ==
    LET rest == Rest(string)
        first == SelectInSeq(rest, IsField)
    IN  AllOf(SubSeq(rest, 1, first - 1), Inserted)

MeantPost(string) ==
    LET rest == Rest(string)
    IN  IF \A i \in 1..Len(rest) : ~IsField(rest[i]) THEN [text |-> AllOf(rest, Inserted)]
        ELSE [text |-> MeantStart(string), snippet |-> MeantSnippet(string)]

OneByteEach(text) == \A i \in 1..Len(text) : text[i] \notin Wide

\* A wide character in front of the end of a field moves that end.  Only in
\* the last field may that not be seen: the brace that ends the field is put
\* behind characters that are such braces themselves.
MovesNothing(string) ==
    LET rest == Rest(string)
        last == SelectLastInSeq(rest, IsField)
        excess == Bytes(rest[last].text) - Len(rest[last].text)
        behind == AllOf(SubSeq(rest, last + 1, Len(rest)), Inserted)
    IN  /\ OneByteEach(AllOf(SubSeq(rest, 1, last - 1), Inserted))
        /\ excess <= Len(behind)
        /\ \A i \in 1..excess : behind[i] = "}"

\* The client cuts a candidate where the server meant it to: what is shown
\* behind the name is the rest of the prototype, and the template has its
\* fields, in their order, where the completion string has its placeholders.
\* The server counts bytes and `substring' characters, so this is so exactly
\* when all characters in front of a cut are one byte long, or else it cannot
\* be seen that the cut has moved (MovesNothing).
CutsAreRight(string, cand) ==
    LET shown == AllOf(BeforeAnnotation(string), Shown)
        meant == MeantPost(string)
    IN  /\ Annotation(cand) = MeantAnnotation(string) <=> OneByteEach(shown)
        /\ IF cand.marks = <<>> THEN PostComplete(cand, TRUE) = meant.text
           ELSE /\ PostComplete(cand, TRUE) = meant.snippet <=> MovesNothing(string)
                /\ PostComplete(cand, FALSE) = meant.text <=> OneByteEach(meant.text)
=============================================================================
