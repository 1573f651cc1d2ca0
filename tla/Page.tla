-------------------------------- MODULE Page --------------------------------
(***************************************************************************)
(* How a page's text is read: daemon/src/tools/extract_content.rs for the  *)
(* agent's tool, and extract_title, extract_summary and extract_keywords   *)
(* of daemon/src/crawler.rs for everything that goes into the den.         *)
(*                                                                         *)
(* A page is a sequence of characters, where a piece of markup counts as   *)
(* one that is a byte long.  The code works on bytes, and looks in a       *)
(* lower-case copy for what it then cuts out of the page: some characters  *)
(* are several bytes, and some change their length with their case.        *)
(* Blanks, entities and the content class are left out.                    *)
(***************************************************************************)
EXTENDS Text

CONSTANTS
  Chars,          \* the characters and pieces of markup of pages
  Pages,
  Window,         \* bytes looked at after a meta tag's name (500)
  MinDescription, \* a description must be longer (10)
  MinParagraph,   \* a paragraph must be as long (80)
  MaxText,        \* the tool's summary is cut there (400)
  MaxSummary      \* the crawler's when it is longer (300, dots included)

(* What the bytes of a character of several are written as.                *)
Leading == {"t1", "g1", "s1", "d1", "l1"}
Following == {"t2", "g2", "s2", "s3", "d2", "l2"}

ASSUME PagesAssumption == Pages \subseteq Seq(Chars) /\ Chars \cap (Leading \cup Following) = {}
ASSUME BoundsAssumption ==
  /\ {Window, MinDescription, MinParagraph, MaxText} \subseteq Nat
  /\ MaxSummary \in Nat /\ MaxSummary >= 3

VARIABLES
  reader,     \* "tool" or "crawler"
  page,
  step,       \* what is to be read next, or "done", "panicked"
  at,         \* strip_noise_tags' i
  text,       \* the page without noise
  title, summary, content

vars == <<reader, page, step, at, text, title, summary, content>>

Init ==
  /\ reader \in {"tool", "crawler"}
  /\ page \in Pages
  /\ step = "title"
  /\ at = 1
  /\ text = <<>>
  /\ title = <<>>
  /\ summary = <<>>
  /\ content = <<>>

-----------------------------------------------------------------------------
(* A two-byte character, one whose lower case is longer (U+0130) and one   *)
(* whose lower case is shorter (U+212A).                                   *)
Bytes(c) ==
  CASE c = "two" -> <<"t1", "t2">>
    [] c = "grows" -> <<"g1", "g2">>
    [] c = "shrinks" -> <<"s1", "s2", "s3">>
    [] OTHER -> <<c>>

Lower(c) ==
  CASE c = "grows" -> <<"i", "d1", "d2">>
    [] c = "shrinks" -> <<"k">>
    [] c = "<SCRIPT>" -> <<"<script>">>
    [] OTHER -> Bytes(c)

Wide == {"two", "grows", "shrinks"}

html == FlattenSeq([k \in DOMAIN page |-> Bytes(page[k])])
lower == FlattenSeq([k \in DOMAIN page |-> Lower(page[k])])

Boundary(s, i) == i \in DOMAIN s => s[i] \notin Following

(* Slicing s from i to j does not panic.                                   *)
Legal(s, i, j) ==
  /\ i <= j + 1 /\ j <= Len(s)
  /\ Boundary(s, i) /\ Boundary(s, j + 1)

-----------------------------------------------------------------------------
NoiseEnd == [tag \in {"<script>", "<nav>"} |->
              IF tag = "<script>" THEN "</script>" ELSE "</nav>"]
Paragraphs == {"<p>", "<pre>"}   \* "<p" is all the code looks for
Tags == DOMAIN NoiseEnd \cup {NoiseEnd[tag] : tag \in DOMAIN NoiseEnd} \cup Paragraphs
          \cup {"<SCRIPT>", "</p>", "<title>", "</title>"}
Angles == Tags \cup {"<"}

(* What is inside the first of O, up to the next of C.                     *)
Element(s, O, C) ==
  LET from == First(s, O, 1)
      to == First(s, C, from + 1)
  IN IF from <= Len(s) /\ to <= Len(s) THEN SubSeq(s, from + 1, to - 1) ELSE <<>>

(* strip_tags: an angle that is no tag swallows text up to the next tag.   *)
StripTags(s) ==
  LET swallowed(k) ==
        LET marks == {j \in 1 .. k - 1 : s[j] \in Angles}
        IN marks # {} /\ s[Greatest(marks)] = "<"
      kept == {k \in DOMAIN s : s[k] \notin Angles /\ ~swallowed(k)}
  IN FlattenSeq([k \in DOMAIN s |-> IF k \in kept THEN <<s[k]>> ELSE <<>>])

(* truncate_chars: at the last character that fits.                        *)
Truncate(s, max) ==
  IF Len(s) <= max THEN s
  ELSE SubSeq(s, 1, Greatest({e \in 0 .. max : Boundary(s, e + 1)})) \o <<"...">>

ReadTitle ==
  /\ step = "title"
  /\ title' = Element(html, {"<title>"}, {"</title>"})
  /\ step' = IF reader = "tool" THEN "strip" ELSE "summary"
  /\ UNCHANGED <<reader, page, at, text, summary, content>>

-----------------------------------------------------------------------------
(* strip_noise_tags, a round of its loop at a time.                        *)
Stripping == step = "strip" /\ at <= Len(html)
OpensNoise == html[at] \in Angles /\ at <= Len(lower) /\ lower[at] \in DOMAIN NoiseEnd
Close == First(lower, {NoiseEnd[lower[at]]}, at)
Overrun == html[at] \in Angles /\ at > Len(lower) + 1

(* Each byte becomes a character: two bytes, if it was part of a wide one. *)
Garbled(byte) ==
  IF byte \in Leading \cup Following THEN <<"l1", "l2">> ELSE <<byte>>

KeepByte ==
  /\ Stripping /\ ~OpensNoise /\ ~Overrun
  /\ text' = text \o Garbled(html[at])
  /\ at' = at + 1
  /\ UNCHANGED <<reader, page, step, title, summary, content>>

(* Mutated SkipNoise: the tag is skipped, its content is not.              *)
SkipTag ==
  /\ Stripping /\ OpensNoise /\ Close <= Len(lower)
  /\ at' = at + 1
  /\ UNCHANGED <<reader, page, step, text, title, summary, content>>

SkipNoise ==
  /\ Stripping /\ OpensNoise /\ Close <= Len(lower)
  /\ at' = Close + 1
  /\ UNCHANGED <<reader, page, step, text, title, summary, content>>

(* Noise without an end takes the rest of the page.                        *)
DropRest ==
  /\ Stripping /\ OpensNoise /\ Close > Len(lower)
  /\ step' = "description"
  /\ UNCHANGED <<reader, page, at, text, title, summary, content>>

StripEnds ==
  /\ step = "strip" /\ at > Len(html)
  /\ step' = "description"
  /\ UNCHANGED <<reader, page, at, text, title, summary, content>>

Panic ==
  /\ step' = "panicked"
  /\ UNCHANGED <<reader, page, at, text, title, summary, content>>

(* The lower-case copy is shorter and the slice begins past its end.       *)
StripPanics == Stripping /\ Overrun /\ Panic

-----------------------------------------------------------------------------
(* Mutated WindowEnd: the window is taken to be all there.                 *)
WindowEndFixed(s, i) == i + Window - 1

WindowEnd(s, i) == IF i + Window - 1 > Len(s) THEN Len(s) ELSE i + Window - 1

(* Where a meta tag's name is found in the lower-case copy, and whether    *)
(* the page can be cut there.                                              *)
Named(name) == First(lower, {name}, 1)
Found(name) == Named(name) <= Len(lower)
CutFails(name) == Found(name) /\ ~Legal(html, Named(name), WindowEnd(html, Named(name)))

(* What the first content attribute in the window quotes.                  *)
Quoted(name) ==
  LET window == SubSeq(html, Named(name), WindowEnd(html, Named(name)))
      from == First(window, {"content="}, 1) + 1
      to == First(window, {"\""}, from + 1)
  IN IF from <= Len(window) /\ window[from] = "\"" /\ to <= Len(window)
       THEN SubSeq(window, from + 1, to - 1) ELSE <<>>

Names == <<"description", "og:description">>
Describes(k) ==
  Found(Names[k]) /\ ~CutFails(Names[k]) /\ Len(Quoted(Names[k])) > MinDescription
Reached(k) == \A h \in 1 .. k - 1 : ~Describes(h)

(* extract_meta_description: the names in order, up to one that is good.   *)
ReadDescription ==
  /\ step = "description"
  /\ \E k \in DOMAIN Names : Describes(k) /\ Reached(k) /\ summary' = Quoted(Names[k])
  /\ \A k \in DOMAIN Names : Reached(k) => ~CutFails(Names[k])
  /\ step' = "content"
  /\ UNCHANGED <<reader, page, at, text, title, content>>

NoDescription ==
  /\ step = "description"
  /\ \A k \in DOMAIN Names : ~Describes(k) /\ ~CutFails(Names[k])
  /\ step' = "paragraph"
  /\ UNCHANGED <<reader, page, at, text, title, summary, content>>

DescriptionPanics ==
  /\ step = "description"
  /\ \E k \in DOMAIN Names : Reached(k) /\ CutFails(Names[k])
  /\ Panic

(* extract_first_paragraph: the first that is long enough.                 *)
FirstParagraph(s) ==
  LET n == Len(s)
      found[i \in 1 .. n + 1] ==
        LET from == First(s, Paragraphs, i)
            to == First(s, {"</p>"}, from + 1)
            inner == StripTags(SubSeq(s, from + 1, to - 1))
        IN IF from > n \/ to > n THEN <<>>
           ELSE IF Len(inner) >= MinParagraph THEN inner ELSE found[to + 1]
  IN found[1]

ReadParagraph ==
  /\ step = "paragraph"
  /\ summary' = Truncate(IF FirstParagraph(text) # <<>> THEN FirstParagraph(text)
                         ELSE StripTags(text), MaxText)
  /\ step' = "content"
  /\ UNCHANGED <<reader, page, at, text, title, content>>

ReadContent ==
  /\ step = "content"
  /\ content' = StripTags(text)
  /\ step' = "keywords"
  /\ UNCHANGED <<reader, page, at, text, title, summary>>

(* Both extract_keywords; the keywords themselves are left out.            *)
ReadKeywords ==
  /\ step = "keywords" /\ ~CutFails("keywords")
  /\ step' = "done"
  /\ UNCHANGED <<reader, page, at, text, title, summary, content>>

KeywordsPanic == step = "keywords" /\ CutFails("keywords") /\ Panic

-----------------------------------------------------------------------------
(* crawler::extract_summary, cut without a look at what is cut.            *)
FirstText == StripTags(Element(html, Paragraphs, {"</p>"}))
SummaryCut == MaxSummary - 3
SummaryFits == Len(FirstText) > MaxSummary => Boundary(FirstText, SummaryCut + 1)

ReadSummary ==
  /\ step = "summary" /\ SummaryFits
  /\ summary' = IF Len(FirstText) <= MaxSummary THEN FirstText
                ELSE SubSeq(FirstText, 1, SummaryCut) \o <<"...">>
  /\ step' = "keywords"
  /\ UNCHANGED <<reader, page, at, text, title, content>>

SummaryPanics == step = "summary" /\ ~SummaryFits /\ Panic

-----------------------------------------------------------------------------
Strip == KeepByte \/ SkipNoise \/ DropRest \/ StripEnds \/ StripPanics
Describe == ReadDescription \/ NoDescription \/ DescriptionPanics

Next ==
  \/ ReadTitle \/ ReadContent
  \/ Strip
  \/ Describe \/ ReadParagraph
  \/ ReadKeywords \/ KeywordsPanic
  \/ ReadSummary \/ SummaryPanics

Spec == Init /\ [][Next]_vars

-----------------------------------------------------------------------------
(* A page as a reader of HTML sees it: its tags, in either case, and the   *)
(* close that matches the opening tag at k, where as many of its kind are  *)
(* closed as are opened.                                                   *)
Tag(c) == IF c = "<SCRIPT>" THEN "<script>" ELSE c
Counted(k, j, tag) == Cardinality({h \in k .. j : Tag(page[h]) = tag})
Matching(k) ==
  LET tag == Tag(page[k])
  IN Least({j \in k .. Len(page) : Counted(k, j, tag) = Counted(k, j, NoiseEnd[tag])}
             \cup {Len(page) + 1})

(* No noise element holds an element of its own kind: between two opening  *)
(* tags of a kind there is a close.                                        *)
NoneInItsOwnKind ==
  \A k \in DOMAIN page : \A j \in k + 1 .. Len(page) :
    Tag(page[k]) \in DOMAIN NoiseEnd /\ Tag(page[j]) = Tag(page[k])
      => \E c \in k .. j : Tag(page[c]) = NoiseEnd[Tag(page[k])]

(* The tool reads what is outside noise elements, all of it and nothing    *)
(* else: of an element the content goes, up to the matching close, with    *)
(* the elements of other kinds it holds, markup in either case, whatever   *)
(* is left open or closed twice.  This is said of pages without wide       *)
(* characters, which are kept garbled and shift the lower-case copy, and   *)
(* of those where no noise element holds one of its own kind, of which the *)
(* code takes the first close for the matching one                         *)
(* (extract_content.rs:117-149).                                           *)
OnlyNoiseIsLost ==
  LET n == Len(page)
      noise[k \in 0 .. n] ==
        IF k = 0 THEN 0
        ELSE IF noise[k - 1] >= k THEN noise[k - 1]
        ELSE IF Tag(page[k]) \in DOMAIN NoiseEnd THEN Matching(k)
        ELSE 0
      outside == [k \in 1 .. n |-> IF noise[k] = 0 THEN <<page[k]>> ELSE <<>>]
  IN /\ reader = "tool" /\ step \notin {"title", "strip", "panicked"}
     /\ \A k \in DOMAIN page : page[k] \notin Wide
     /\ NoneInItsOwnKind
     => text = FlattenSeq(outside)

(* A page without wide characters is read to the end, whatever its markup, *)
(* however short it is or long its texts are: no slice is out of bounds.   *)
(* With them a window or a summary may be cut inside a character           *)
(* (crawler.rs:113-117, 129; extract_content.rs:120-185).                  *)
PlainPagesAreRead ==
  step = "panicked" => \E k \in DOMAIN page : page[k] \in Wide
=============================================================================
