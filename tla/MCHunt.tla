------------------------------- MODULE MCHunt -------------------------------
(***************************************************************************)
(* Hunt with lines chosen for what the executor tells apart: every tool,   *)
(* references that point back, ahead, at themselves or at a number that is *)
(* taken twice, missing and superfluous arguments, a tool that does not    *)
(* exist, a number that does not fit, and joins.                           *)
(***************************************************************************)
EXTENDS Hunt

Arg(kind, n) == [kind |-> kind, n |-> n]
Line(idx, name, args) == [idx |-> idx, name |-> name, args |-> args]

MCLines == {
  Line(1, "fetch_page", <<Arg("word", 0)>>),
  Line(1, "search_local_index", <<Arg("word", 0), Arg("int", -1)>>),
  Line(1, "search_subnet", <<Arg("word", 0), Arg("ref", 2)>>),
  Line(1, "compose_email", <<Arg("word", 0)>>),
  Line(2, "fetch_page", <<Arg("ref", 1)>>),
  Line(2, "extract_content", <<Arg("ref", 1)>>),
  Line(2, "scan_security", <<Arg("ref", 1), Arg("ref", 1)>>),
  Line(2, "scan_security", <<Arg("other", 0)>>),
  Line(2, "crawl_index", <<Arg("ref", 1)>>),
  Line(2, "search_local_index", <<Arg("ref", 1), Arg("digits", 3)>>),
  Line(3, "scan_security", <<Arg("ref", 1), Arg("ref", 2)>>),
  Line(3, "crawl_index", <<Arg("ref", 4)>>),
  Line(3, "join", <<>>),
  Line(4, "fetch_page", <<Arg("word", 0)>>)
}
=============================================================================
