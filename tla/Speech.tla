------------------------------- MODULE Speech -------------------------------
(***************************************************************************)
(* What the models say and how it is read: the sampling loop with its stop *)
(* strings (daemon/src/agent/inference.rs), a planner's line and its       *)
(* arguments (daemon/src/agent/plan.rs, and $n of executor.rs) and the     *)
(* joinner's output (daemon/src/agent/joinner.rs).                         *)
(*                                                                         *)
(* Text is a sequence of pieces: characters, or words where no code looks  *)
(* inside them.  A token is a sequence of pieces, so that a stop string or *)
(* a call may begin and end anywhere in it.  The joinner may say anything; *)
(* the planner is one that writes a call and then stops, in whatever       *)
(* tokens: what is lost is then lost by the reading.                       *)
(***************************************************************************)
EXTENDS Text

CONSTANTS
  Calls,      \* argument lists a planner may mean
  Tokens,     \* tokens a joinner may say
  Stops,      \* the stop strings of each role
  MaxTokens,
  Pieces,
  Digits,     \* pieces that are digits
  Fits        \* numbers that are no larger than an i64 (.int), a u32 (.ref)

Roles == {"planner", "joinner"}
Quotes == {"\"", "'"}
Blank == {" ", "\n"}

VARIABLES
  role,       \* "planner" or "joinner"
  meant,      \* the arguments of the call a planner writes
  said,       \* ghost: every piece generated, those cut off included
  out,        \* output_bytes
  left,       \* tokens it may still generate
  status,     \* "speaking", "stopped", "ended", "failed", "read"
  result      \* what was read

speechVars == <<role, meant, said, out, left, status, result>>

Unread == <<>>

SpeechInit ==
  /\ role \in Roles
  /\ meant \in IF role = "planner" THEN Calls ELSE {<<>>}
  /\ said = <<>>
  /\ out = <<>>
  /\ left = MaxTokens
  /\ status = "speaking"
  /\ result = Unread

-----------------------------------------------------------------------------
From(s, i) == SubSeq(s, i, Len(s))

(* Where a stop string begins.                                             *)
StopsAt(s) ==
  {i \in DOMAIN s : \E stop \in Stops[role] : IsPrefix(stop, From(s, i))}

(* How a planner writes a call.                                            *)
WriteArg(arg) ==
  CASE arg.kind = "string" -> <<arg.quote>> \o arg.text \o <<arg.quote>>
    [] arg.kind = "ref" -> <<arg.quote, "$">> \o arg.text \o <<arg.quote>>
    [] OTHER -> arg.text
WriteCall(args) ==
  <<"1.f(">> \o
    FlattenSeq([i \in DOMAIN args |-> IF i = 1 THEN WriteArg(args[i])
                                      ELSE <<",", " ">> \o WriteArg(args[i])]) \o <<")">>

(* The next token: one or more of the pieces a planner has still to write, *)
(* perhaps with the beginning of a stop string; anything, of a joinner.    *)
NextTokens ==
  IF role = "joinner" THEN Tokens
  ELSE LET rests == {From(WriteCall(meant) \o stop, Len(out) + 1) : stop \in Stops[role]}
       IN UNION {{SubSeq(rest, 1, k) : k \in {1, 4, 7} \cap DOMAIN rest} : rest \in rests}

(* Mutated Sample: stop strings are looked for in the new token only.      *)
SampleToken ==
  /\ status = "speaking" /\ left > 0
  /\ \E token \in NextTokens :
       /\ said' = said \o token
       /\ left' = left - 1
       /\ IF StopsAt(token) # {}
            THEN /\ out' = out \o SubSeq(token, 1, Least(StopsAt(token)) - 1)
                 /\ status' = "stopped"
            ELSE /\ out' = out \o token
                 /\ status' \in {"speaking", "failed"}
  /\ UNCHANGED <<role, meant, result>>

(* A token is sampled, added and looked at; decoding it may fail.          *)
Sample ==
  /\ status = "speaking" /\ left > 0
  /\ \E token \in NextTokens :
       LET grown == out \o token IN
       /\ said' = said \o token
       /\ left' = left - 1
       /\ IF StopsAt(grown) # {}
            THEN /\ out' = SubSeq(grown, 1, Least(StopsAt(grown)) - 1)
                 /\ status' = "stopped"
            ELSE /\ out' = grown
                 /\ status' \in {"speaking", "failed"}
  /\ UNCHANGED <<role, meant, result>>

(* An end-of-generation token, or no token is left.  A planner ends when   *)
(* it has written its call.                                                *)
End ==
  /\ status = "speaking"
  /\ left = 0 \/ role = "joinner" \/ out = WriteCall(meant)
  /\ status' = "ended"
  /\ UNCHANGED <<role, meant, said, out, left, result>>

-----------------------------------------------------------------------------
Trim(s) ==
  LET solid == {i \in DOMAIN s : s[i] \notin Blank}
  IN IF solid = {} THEN <<>> ELSE SubSeq(s, Least(solid), Greatest(solid))

(* parse_dollar_ref.                                                       *)
Reference(text) ==
  LET braced == Len(text) > 1 /\ text[2] = "{"
      inner == IF braced /\ text[Len(text)] = "}" THEN SubSeq(text, 3, Len(text) - 1)
               ELSE From(text, 2)
  IN IF Len(text) > 1 /\ text[1] = "$" /\ inner \in Fits.ref THEN inner ELSE <<>>

String(text) ==
  IF Reference(text) # <<>> THEN [kind |-> "ref", text |-> Reference(text)]
  ELSE [kind |-> "string", text |-> text]

Integer(text) == [kind |-> IF text \in Fits.int THEN "int" ELSE "other", text |-> text]

(* Mutated ParseArgs: a comma ends a string.                               *)
ParseArgsSplit(raw) ==
  LET n == Len(raw)
      args[i \in 1 .. n + 1] ==
        IF i > n THEN <<>>
        ELSE LET comma == First(raw, {","}, i)
                 last == IF comma > n THEN n ELSE comma
                 text == Trim(SubSeq(raw, i, comma - 1))
             IN (IF text = <<>> THEN <<>>
                 ELSE IF text[1] \in Quotes THEN <<String(SubSeq(text, 2, Len(text) - 1))>>
                 ELSE <<Integer(text)>>) \o args[last + 1]
  IN args[1]

(* What is read at position i, and where reading goes on: a string without *)
(* escapes (one that is not closed goes on to the end), an integer,        *)
(* anything else up to a comma.                                            *)
ReadArg(raw, i) ==
  LET close == First(raw, {raw[i]}, i + 1)
      digits == {j \in i + 1 .. Len(raw) : \A h \in i + 1 .. j : raw[h] \in Digits}
      last == Greatest({i} \cup digits)
      comma == First(raw, {","}, i)
      other == [kind |-> "other", text |-> Trim(SubSeq(raw, i, comma - 1))]
  IN CASE raw[i] \in Blank \cup {","} -> [args |-> <<>>, next |-> i + 1]
       [] raw[i] \in Quotes ->
            [args |-> <<String(SubSeq(raw, i + 1, close - 1))>>,
             next |-> IF close > Len(raw) THEN close ELSE close + 1]
       [] raw[i] \in Digits \cup {"-"} ->
            [args |-> <<Integer(SubSeq(raw, i, last))>>, next |-> last + 1]
       [] OTHER -> [args |-> <<other>>, next |-> comma]

(* parse_args_string.                                                      *)
ParseArgs(raw) ==
  LET args[i \in 1 .. Len(raw) + 1] ==
        IF i > Len(raw) THEN <<>> ELSE ReadArg(raw, i).args \o args[ReadArg(raw, i).next]
  IN args[1]

(* ACTION_RE: the arguments end at the first parenthesis after which there *)
(* is nothing on the line but a comment (<END_OF_PLAN>, which may stand    *)
(* there too, is a stop string and in no output).                          *)
Closes(line) ==
  {i \in DOMAIN line :
    /\ line[i] = ")"
    /\ LET rest == Trim(From(line, i + 1)) IN rest = <<>> \/ rest[1] = "#"}

ReadCall(line) ==
  IF line = <<>> \/ line[1] # "1.f(" \/ Closes(line) = {} THEN Unread
  ELSE ParseArgs(Trim(SubSeq(line, 2, Least(Closes(line)) - 1)))

-----------------------------------------------------------------------------
(* Where lines begin, and the line that begins at i.                       *)
Starts(s) == {1} \cup {i + 1 : i \in {j \in DOMAIN s : s[j] = "\n"}}

(* A line from its "Action:" on, if there is one.                          *)
FromAction(line) ==
  IF First(line, {"Action:"}, 1) > Len(line) THEN line
  ELSE From(line, First(line, {"Action:"}, 1))
LineAt(s, i) == FromAction(SubSeq(s, i, First(s, {"\n"}, i) - 1))

StartsWith(line, S) == line # <<>> /\ line[1] \in S
IsAction(line) == StartsWith(line, {"Action:", " Answer:"})
IsThought(line) == StartsWith(line, {"Thought:"})

Opens(line) == First(line, {"("}, 1)
LastClose(line) == Greatest({0} \cup {i \in DOMAIN line : line[i] = ")"})
Wrapped(line) == IsAction(line) /\ LastClose(line) > Opens(line)
Inside(line) == SubSeq(line, Opens(line) + 1, LastClose(line) - 1)

Joinner(thought, answer, replan) ==
  [thought |-> thought, answer |-> answer, is_replan |-> replan]

(* Mutated ReadAnswer: no fallback for an output without an action.        *)
ReadAnswerStrict(s) ==
  LET wrapped == {i \in Starts(s) : Wrapped(LineAt(s, i))}
  IN Joinner(<<>>, IF wrapped = {} THEN <<>> ELSE Inside(LineAt(s, Greatest(wrapped))), FALSE)

(* parse_joinner_output.                                                   *)
ReadAnswer(s) ==
  LET actions == {i \in Starts(s) : IsAction(LineAt(s, i))}
      wrapped == {i \in actions : Wrapped(LineAt(s, i))}
      thoughts == {i \in Starts(s) : IsThought(LineAt(s, i))}
      thought == IF thoughts = {} THEN <<>> ELSE Trim(Tail(LineAt(s, Greatest(thoughts))))
      spoken == IF thought = <<>> THEN Trim(s) ELSE thought
  IN IF actions = {} THEN Joinner(spoken, spoken, FALSE)
     ELSE Joinner(thought,
                  IF wrapped = {} THEN <<>> ELSE Inside(LineAt(s, Greatest(wrapped))),
                  \E i \in actions : Contains(LineAt(s, i), "Replan"))

Read ==
  /\ status \in {"stopped", "ended"}
  /\ result' = IF role = "planner" THEN ReadCall(out) ELSE ReadAnswer(out)
  /\ status' = "read"
  /\ UNCHANGED <<role, meant, said, out, left>>

(* What the models are given: text is made of pieces, digits are no marks, *)
(* a string does not hold the quote it is written in, and one that looks   *)
(* like a reference is one.                                                *)
Marks == Quotes \cup {"1.f(", ")", ",", " ", "$", "-"}

Strings ==
  {arg \in [kind : {"string"}, quote : Quotes, text : Seq(Pieces \ {"\n"})] :
    /\ \A i \in DOMAIN arg.text : arg.text[i] # arg.quote
    /\ Reference(arg.text) = <<>>}
Refs == [kind : {"ref"}, quote : Quotes, text : Seq(Digits) \ {<<>>}]
Ints ==
  {arg \in [kind : {"int"}, text : Seq(Digits \cup {"-"}) \ {<<>>, <<"-">>}] :
    \A i \in DOMAIN arg.text : arg.text[i] = "-" => i = 1}

WellFormed ==
  /\ Marks \cup Digits \subseteq Pieces
  /\ Digits \cap (Marks \cup Blank \cup {"#", "{"}) = {}
  /\ Tokens \subseteq Seq(Pieces)
  /\ \A r \in Roles : Stops[r] # {} /\ Stops[r] \subseteq Seq(Pieces) \ {<<>>}
  /\ Calls \subseteq Seq(Strings \cup Refs \cup Ints)

ASSUME TextsAssumption == WellFormed

SpeechNext == Sample \/ End \/ Read
SpeechSpec == SpeechInit /\ [][SpeechNext]_speechVars

-----------------------------------------------------------------------------
(* The output is what was generated up to the first stop string, wherever  *)
(* the tokens begin and end; no stop string is left in it                  *)
(* (inference.rs:255-286, 305-329).                                        *)
CutAtFirstStop ==
  /\ StopsAt(out) = {}
  /\ out = IF StopsAt(said) = {} THEN said ELSE SubSeq(said, 1, Least(StopsAt(said)) - 1)
  /\ status = "speaking" => out = said

(* A call that a planner has finished is read as it was meant, with its    *)
(* commas, parentheses and quotes of the other kind, unless a string has a *)
(* parenthesis with a comment's # after it or a number is too large        *)
(* (plan.rs:113-121, 193-287).                                             *)
Legible(arg) ==
  CASE arg.kind = "string" ->
         \A j \in DOMAIN arg.text :
           arg.text[j] = ")" => ~StartsWith(Trim(From(arg.text, j + 1)), {"#"})
    [] arg.kind = "ref" -> arg.text \in Fits.ref
    [] arg.kind = "int" -> arg.text \in Fits.int
CallReadAsMeant ==
  role = "planner" /\ status = "read" /\ out = WriteCall(meant)
  /\ (\A i \in DOMAIN meant : Legible(meant[i])) =>
    result = [i \in DOMAIN meant |-> [kind |-> meant[i].kind, text |-> meant[i].text]]

(* A text seen by its positions: those from a on to the end of a's line,   *)
(* where an action begins (an "Action:" anywhere in a line, its first; an  *)
(* " Answer:" only where a line without one begins), and the parentheses   *)
(* it wraps its words in, the first it opens and the last the line closes. *)
OnLine(s, a) == {h \in a .. Len(s) : \A k \in a .. h : s[k] # "\n"}
AtLineStart(s, a) == a = 1 \/ s[a - 1] = "\n"
Begins(s, a) ==
  \/ s[a] = "Action:" /\ \A h \in 1 .. a - 1 : s[h] = "Action:" => a \notin OnLine(s, h)
  \/ s[a] = " Answer:" /\ AtLineStart(s, a) /\ \A h \in OnLine(s, a) : s[h] # "Action:"
Wraps(s, a, i, j) ==
  /\ s[i] = "(" /\ s[j] = ")" /\ i < j
  /\ \A h \in OnLine(s, a) : (s[h] = "(" => i <= h) /\ (s[h] = ")" => h <= j)

(* The words of the last thought, if there are any, or else the text.      *)
Spoken(s) ==
  LET thoughts == {t \in DOMAIN s : s[t] = "Thought:" /\ AtLineStart(s, t)}
      last == Greatest(thoughts)
      words == Trim(SubSeq(s, last + 1, First(s, {"\n"}, last) - 1))
  IN IF thoughts = {} \/ words = <<>> THEN Trim(s) ELSE words

(* What the joinner says reaches the user: exactly what the last action    *)
(* that wraps anything wraps, however many follow that wrap nothing; or,   *)
(* where no action begins, the last thought or else all of it.  A replan   *)
(* is asked for just where an action's line says so, on whichever line     *)
(* (joinner.rs:331-389).                                                   *)
AnswerSurfaces ==
  role = "joinner" /\ status = "read" =>
    LET actions == {a \in DOMAIN out : Begins(out, a)}
        wrapping == {a \in actions : \E i, j \in OnLine(out, a) : Wraps(out, a, i, j)}
    IN /\ actions = {} => result.answer = Spoken(out)
       /\ actions # {} /\ wrapping = {} => result.answer = <<>>
       /\ \A a \in wrapping : \A i, j \in OnLine(out, a) :
            Wraps(out, a, i, j) /\ (\A b \in wrapping : b <= a)
              => result.answer = SubSeq(out, i + 1, j - 1)
       /\ result.is_replan <=> \E a \in actions : \E i \in OnLine(out, a) : out[i] = "Replan"
=============================================================================
