------------------------------- MODULE MCPage -------------------------------
(***************************************************************************)
(* Page with every page of three pieces, and longer ones for nested noise, *)
(* paragraphs that are too short or too long, and meta tags near the end   *)
(* of the page or of their window.                                         *)
(***************************************************************************)
EXTENDS Page

Markup == Tags \cup {"<"}
Letters == {"a", "two", "grows", "shrinks"}
Meta == {"description", "og:description", "keywords", "content=", "\""}

MCChars == Markup \cup Letters \cup Meta

Up(n, S) == UNION {[1 .. k -> S] : k \in 0 .. n}

MCPages ==
  Up(3, MCChars)
  \cup {<<a>> \o noise \o <<b>> : a, b \in {"a", "shrinks", "<p>"},
          noise \in [1 .. 4 -> {"<script>", "</script>", "<nav>", "</nav>", "<SCRIPT>"}]}
  \cup {<<open>> \o s \o <<"</p>", "<p>", "a", "a", "two", "</p>">> :
          open \in Paragraphs, s \in Up(3, Letters \cup {"<", "<p>"})}
  \cup {<<a, name, "content=", "\"">> \o s \o <<"\"", b>> :
          a, b \in {"a", "two", "grows", "shrinks"}, name \in {"description", "keywords"},
          s \in Up(2, {"a", "two", "og:description"})}
=============================================================================
