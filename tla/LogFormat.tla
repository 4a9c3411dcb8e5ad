----------------------------- MODULE LogFormat -----------------------------
(***************************************************************************)
(* LogFormatter (log.cpp): init() cuts a pattern such as                   *)
(* "%d{%H:%M}%T%m%n" into entries, and makes an item of each; format()     *)
(* lets every item write its part of a record.  Text is not copied here:   *)
(* tmp, the entries and dateformat name positions of the pattern.          *)
(*                                                                         *)
(* Positions count from 1, i of the code from 0.  A step is one turn of a  *)
(* loop of init().                                                         *)
(***************************************************************************)
EXTENDS Naturals, Sequences, FiniteSets

LBrace == "{"
RBrace == "}"

CONSTANTS
  Char,     \* characters of which patterns are made
  Known,    \* the keys of s_format_items, "%" among them
  Pattern   \* the patterns formatters are constructed with

ASSUME LogFormatAssumption ==
  /\ {"%", "d", LBrace, RBrace} \subseteq Char
  /\ Known \subseteq Char \ {"d", LBrace, RBrace} /\ "%" \in Known
  /\ {"text", "default", "open", "lone"} \cap Char = {}
  /\ Pattern \subseteq Seq(Char)

VARIABLES
  pattern,     \* m_pattern
  place,       \* where init() is
  i,           \* the position it reads next
  parsing,     \* parsing_string
  tmp,         \* where the text collected in tmp begins; 0: tmp is empty
  patterns,    \* the entries: the text or letter, and the span of the pattern
  dateformat,  \* the positions of the characters collected for %d
  items,       \* m_items
  error        \* m_error

parseVars == <<pattern, place, i, parsing, tmp, patterns, dateformat, items, error>>

ParseInit ==
  /\ pattern \in Pattern
  /\ place = "scan" /\ i = 1 /\ parsing = TRUE /\ tmp = 0
  /\ patterns = <<>> /\ dateformat = {} /\ items = <<>> /\ error = FALSE

Size == Len(pattern)

(* An entry.  A letter's span is the escape, braces and all. *)
Entry(kind, from, to) == [kind |-> kind, from |-> from, to |-> to]

Push(entry) == patterns' = Append(patterns, entry)

(* patterns with what is in tmp. *)
Flushed == IF tmp = 0 THEN patterns ELSE Append(patterns, Entry("text", tmp, i - 1))

-----------------------------------------------------------------------------
(* The loop over the pattern. *)

Reads(what) == place = "scan" /\ i <= Size /\ what = (pattern[i] = "%")

(* Fault: the text before the escape is dropped. *)
BeginEscapeForgets ==
  /\ Reads(TRUE) /\ parsing
  /\ tmp' = 0 /\ parsing' = FALSE /\ i' = i + 1
  /\ UNCHANGED <<pattern, place, patterns, dateformat, items, error>>

BeginEscape ==
  /\ Reads(TRUE) /\ parsing
  /\ patterns' = Flushed
  /\ tmp' = 0 /\ parsing' = FALSE /\ i' = i + 1
  /\ UNCHANGED <<pattern, place, dateformat, items, error>>

Percent ==
  /\ Reads(TRUE) /\ ~parsing
  /\ Push(Entry("%", i - 1, i))
  /\ parsing' = TRUE /\ i' = i + 1
  /\ UNCHANGED <<pattern, place, tmp, dateformat, items, error>>

Text ==
  /\ Reads(FALSE) /\ parsing
  /\ tmp' = IF tmp = 0 THEN i ELSE tmp
  /\ i' = i + 1
  /\ UNCHANGED <<pattern, place, parsing, patterns, dateformat, items, error>>

Letter ==
  /\ Reads(FALSE) /\ ~parsing
  /\ Push(Entry(pattern[i], i - 1, i))
  /\ parsing' = TRUE /\ i' = i + 1
  /\ place' = IF pattern[i] = "d" THEN "date" ELSE "scan"
  /\ UNCHANGED <<pattern, tmp, dateformat, items, error>>

(* %d is over unless a brace follows or the pattern ends here. *)
NoBraces == i <= Size /\ pattern[i] # LBrace

AfterDate ==
  /\ place = "date"
  /\ IF NoBraces THEN place' = "scan" /\ UNCHANGED i
                 ELSE place' = "braces" /\ i' = i + 1
  /\ UNCHANGED <<pattern, parsing, tmp, patterns, dateformat, items, error>>

(* Fault: `<=` for `<`. *)
InBracesPastEnd == i = Size + 1 \/ (i <= Size /\ pattern[i] # RBrace)

InBraces == i <= Size /\ pattern[i] # RBrace

DateCharacter ==
  /\ place = "braces" /\ InBraces
  /\ dateformat' = dateformat \cup {i} /\ i' = i + 1
  /\ UNCHANGED <<pattern, place, parsing, tmp, patterns, items, error>>

(* What pattern[i] may be found to be behind the braces: at Size + 1 is    *)
(* the zero that ends a string, and beyond it anything, when the pattern   *)
(* ended in %d (log.cpp:282-290).                                          *)
ClosedOutcomes == IF i <= Size THEN {TRUE} ELSE IF i = Size + 1 THEN {FALSE} ELSE BOOLEAN

LastSpans(to) == [patterns EXCEPT ![Len(patterns)].to = to]

(* Fault: the parse goes on behind a brace that was not closed. *)
ClosedAnyway ==
  /\ place = "braces" /\ ~InBraces
  /\ place' = "scan" /\ i' = i + 1
  /\ patterns' = LastSpans(IF i <= Size THEN i ELSE Size)
  /\ UNCHANGED <<pattern, parsing, tmp, dateformat, items, error>>

Closed ==
  /\ place = "braces" /\ ~InBraces /\ TRUE \in ClosedOutcomes
  /\ place' = "scan" /\ i' = i + 1
  /\ patterns' = LastSpans(IF i <= Size THEN i ELSE Size)
  /\ UNCHANGED <<pattern, parsing, tmp, dateformat, items, error>>

NotClosed ==
  /\ place = "braces" /\ ~InBraces /\ FALSE \in ClosedOutcomes
  /\ place' = "done" /\ error' = TRUE
  /\ UNCHANGED <<pattern, i, parsing, tmp, patterns, dateformat, items>>

EndOfPattern ==
  /\ place = "scan" /\ i > Size
  /\ patterns' = Flushed /\ tmp' = 0
  /\ place' = "build"
  /\ UNCHANGED <<pattern, i, parsing, dateformat, items, error>>

-----------------------------------------------------------------------------
(* The loop over the entries. *)

Span(from, to) == {k \in 1 .. Size : from <= k /\ k <= to}

(* Fault: a format goes to the first date of a pattern only. *)
ItemFirstDate(entry) ==
  [kind |-> entry.kind,
   of   |-> IF entry.kind = "text" THEN Span(entry.from, entry.to)
            ELSE IF entry.kind = "d" /\ \A k \in DOMAIN items : items[k].kind # "d" THEN dateformat
            ELSE {}]

(* The item of an entry: all DateTimeFormatItems have one dateformat. *)
Item(entry) ==
  [kind |-> entry.kind,
   of   |-> IF entry.kind = "text" THEN Span(entry.from, entry.to)
            ELSE IF entry.kind = "d" THEN dateformat
            ELSE {}]

Building == place = "build" /\ Len(items) < Len(patterns)
NextEntry == patterns[Len(items) + 1]
IsKnown(kind) == kind \in Known \cup {"text", "d"}

UnknownItem ==
  /\ Building /\ ~IsKnown(NextEntry.kind)
  /\ place' = "done" /\ error' = TRUE
  /\ UNCHANGED <<pattern, i, parsing, tmp, patterns, dateformat, items>>

MakeItem ==
  /\ Building /\ IsKnown(NextEntry.kind)
  /\ items' = Append(items, Item(NextEntry))
  /\ UNCHANGED <<pattern, place, i, parsing, tmp, patterns, dateformat, error>>

Built ==
  /\ place = "build" /\ Len(items) = Len(patterns)
  /\ place' = "done"
  /\ UNCHANGED <<pattern, i, parsing, tmp, patterns, dateformat, items, error>>

-----------------------------------------------------------------------------
Parse ==
  \/ BeginEscape \/ Percent \/ Text \/ Letter
  \/ AfterDate \/ DateCharacter \/ Closed \/ NotClosed
  \/ EndOfPattern

Build == UnknownItem \/ MakeItem \/ Built

Over == place = "done" /\ UNCHANGED parseVars

ParseNext == Parse \/ Build \/ Over

ParseSpec == ParseInit /\ [][ParseNext]_parseVars

-----------------------------------------------------------------------------
(* format(): what the items write, in order. *)
Written(kind, of) ==
  [kind |-> IF kind = "d" /\ of = {} THEN "default" ELSE kind, of |-> of]

Format == [k \in DOMAIN items |-> Written(items[k].kind, items[k].of)]

-----------------------------------------------------------------------------
(* What a pattern means, from its comments alone (log.h:276-291,           *)
(* log.cpp:213-225), read from position k to the end.                      *)

(* The first "}" at or behind k; Size + 1 if there is none. *)
NextBrace(k) ==
  CHOOSE c \in k .. Size + 1 :
    /\ c = Size + 1 \/ pattern[c] = RBrace
    /\ \A j \in k .. c - 1 : pattern[j] # RBrace

(* The last position of the text that begins at k. *)
TextEnd(k) ==
  CHOOSE e \in k .. Size :
    /\ e = Size \/ pattern[e + 1] = "%"
    /\ \A j \in k .. e : pattern[j] # "%"

(* What is read at k, and then what is read from there on. *)
MeaningAt(from, k) ==
  IF k = Size + 1 THEN <<>>
  ELSE IF pattern[k] # "%"
       THEN <<Written("text", Span(k, TextEnd(k)))>> \o from[TextEnd(k) + 1]
  ELSE IF k = Size THEN <<Written("lone", {})>>
  ELSE IF pattern[k + 1] # "d" THEN <<Written(pattern[k + 1], {})>> \o from[k + 2]
  ELSE IF k + 2 > Size \/ pattern[k + 2] # LBrace THEN <<Written("d", {})>> \o from[k + 2]
  ELSE IF NextBrace(k + 3) > Size THEN <<Written("open", {})>>
  ELSE <<Written("d", Span(k + 3, NextBrace(k + 3) - 1))>> \o from[NextBrace(k + 3) + 1]

MeaningFrom[k \in 1 .. Size + 1] == MeaningAt(MeaningFrom, k)

Meaning == MeaningFrom[1]

Means(kinds) == {k \in DOMAIN Meaning : Meaning[k].kind \in kinds}

Dates == Means({"d", "default"})
Lone == Means({"lone"})     \* a sign that ends the pattern: no letter follows
Unclosed == Means({"open"}) # {}

(* What stands for nothing, but for such a sign, of which init() takes no  *)
(* notice although log.cpp:222 counts it as an error.                      *)
Noticed == Means(Known \cup {"text", "d", "default", "lone"}) # DOMAIN Meaning

EndsInDate == Len(Meaning) \in Dates /\ pattern[Size] = "d"

(* All that stands in braces behind a %d. *)
AllBraces == UNION {Meaning[k].of : k \in Dates}

-----------------------------------------------------------------------------
(* Properties. *)

(* Every variable of init() keeps its type, and nothing that is not of the *)
(* pattern gets into a format of the time.                                 *)
ParseTypeOK ==
  /\ pattern \in Seq(Char)
  /\ place \in {"scan", "date", "braces", "build", "done"}
  /\ i \in 1 .. Size + 3 /\ tmp \in 0 .. Size /\ parsing \in BOOLEAN /\ error \in BOOLEAN
  /\ patterns \in Seq([kind : Char \cup {"text"}, from : 1 .. Size, to : 1 .. Size])
  /\ dateformat \subseteq 1 .. Size
  /\ items \in Seq([kind : Known \cup {"text", "d"}, of : SUBSET (1 .. Size)])

(* The end of what the entries span. *)
Cut == IF patterns = <<>> THEN 0 ELSE patterns[Len(patterns)].to

(* The entries lie end to end, from the first position on: no character is *)
(* lost between two of them and none is in both.                           *)
EndToEnd ==
  \A k \in DOMAIN patterns :
    /\ patterns[k].from = (IF k = 1 THEN 1 ELSE patterns[k - 1].to + 1)
    /\ patterns[k].from <= patterns[k].to

(* An entry's kind is what its span says: text has no sign in it, and      *)
(* stands between escapes; a letter's span begins with "%" and the letter, *)
(* and is longer for braces only.                                          *)
TextAt(k) ==
  /\ \A j \in patterns[k].from .. patterns[k].to : pattern[j] # "%"
  /\ k > 1 => patterns[k - 1].kind # "text"

BracedAt(k) ==
  LET from == patterns[k].from  to == patterns[k].to
  IN  /\ patterns[k].kind = "d" /\ from + 3 <= to
      /\ pattern[from + 2] = LBrace /\ pattern[to] = RBrace
      /\ \A j \in from + 3 .. to - 1 : pattern[j] # RBrace

LetterAt(k) ==
  LET from == patterns[k].from  to == patterns[k].to
  IN  /\ pattern[from] = "%" /\ patterns[k].kind = pattern[from + 1]
      /\ to = from + 1 \/ BracedAt(k)

RightKinds ==
  \A k \in DOMAIN patterns :
    IF patterns[k].kind = "text" THEN TextAt(k) ELSE LetterAt(k)

(* Where the parse stands behind the entries. *)
Behind ==
  /\ tmp # 0 => /\ parsing /\ place = "scan"
                /\ tmp = Cut + 1 /\ tmp < i
                /\ \A j \in tmp .. i - 1 : j <= Size /\ pattern[j] # "%"
                /\ patterns # <<>> => patterns[Len(patterns)].kind # "text"
  /\ ~parsing => /\ tmp = 0 /\ place \in {"scan", "build", "done"}
                 /\ i = Cut + 2 /\ Cut < Size /\ pattern[Cut + 1] = "%"
  /\ place = "scan" /\ parsing /\ tmp = 0 => i = Cut + 1 \/ (i = Size + 3 /\ Cut = Size)
  /\ place = "date" => i = Cut + 1

(* The parse is a tokenisation at every step: the entries lie end to end,  *)
(* are what their spans say, and what is behind the last of them is the    *)
(* text or the escape now being read (log.cpp:244-300).                    *)
Tokenised == EndToEnd /\ RightKinds /\ Behind

(* A formatter that is not refused writes a record as its pattern reads:   *)
(* text, fields and times in order, nothing lost.  There are two           *)
(* exceptions.  All times share what stands in the braces of any of them   *)
(* (log.cpp:234, 344): with one date that is its own format.  And a sign   *)
(* that ends the pattern is dropped: the loop is over before the letter it *)
(* waits for, and a sign is not in tmp (log.cpp:246-256, 300-311).         *)
ReadsAsMeant ==
  place = "done" /\ ~error =>
    Format = [k \in DOMAIN Meaning \ Lone |->
                IF k \in Dates THEN Written("d", AllBraces) ELSE Meaning[k]]

(* m_error is set exactly for a brace that is not closed and a letter that *)
(* stands for nothing (log.cpp:222), not for the sign that ends a pattern; *)
(* a formatter that is refused goes on to write what comes before that     *)
(* letter, or nothing, and never another thing.  A pattern that ends in %d *)
(* may be refused as well.                                                 *)
ErrorMeansMalformed ==
  place = "done" =>
    /\ Noticed => error
    /\ error => /\ Noticed \/ EndsInDate
                /\ Unclosed => Format = <<>>
                /\ \A k \in DOMAIN Format : k \in Dates \/ Format[k] = Meaning[k]

(* What a formatter writes is what its pattern means, and m_error says when *)
(* it is not, but for the exceptions named above.                           *)
Faithful == ReadsAsMeant /\ ErrorMeansMalformed

(* pattern[i] is read at the terminating zero at most, except behind a %d  *)
(* that ends the pattern (log.cpp:285, 290).                               *)
ReadsInside ==
  place = "braces" /\ i > Size + 1 =>
    i = Size + 2 /\ patterns[Len(patterns)] = Entry("d", Size - 1, Size)
=============================================================================
