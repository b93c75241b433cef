---------------------------- MODULE HttpRequest ----------------------------
(***************************************************************************)
(* HttpRequest::Parse (request.cpp) on what ReadRequest has received.      *)
(*                                                                         *)
(* Text is a sequence of tokens: "line" (a request line or a header that   *)
(* does not matter here), "crlf", "name" ("Content-Length:", spelt as the  *)
(* code looks it up; in any other spelling the header is a "line"), the    *)
(* characters of its value, and the bytes of a body: the first, those in   *)
(* between, the last, and what follows it.  A cut inside a token acts as a *)
(* cut before or after it.                                                 *)
(***************************************************************************)
EXTENDS Integers, SequencesExt

CONSTANT MaxInt  \* INT_MAX

ASSUME MaxIntAssumption == MaxInt \in Nat

\* What a value of Content-Length is written with.
Chars == {"0", "1", "2", "plus", "minus", "letter"}
BodyTokens == {"open", "byte", "close", "next"}
Tokens == {"line", "crlf", "name"} \cup BodyTokens \cup Chars

DigitValue == [d \in {"0", "1", "2"} |-> IF d = "0" THEN 0 ELSE IF d = "1" THEN 1 ELSE 2]

\* find("\r\n\r\n"): how many tokens there are up to its end, 0 for npos.
HeaderEnd(s) ==
  LET blank == {i \in 1 .. Len(s) - 1 : s[i] = "crlf" /\ s[i + 1] = "crlf"} IN
    IF blank = {} THEN 0 ELSE Min(blank) + 1

\* mHeaders["Content-Length"] after the header lines of s: the last one wins,
\* and the last line may be incomplete.
LengthField(s) ==
  LET last == IF HeaderEnd(s) = 0 THEN Len(s) ELSE HeaderEnd(s)
      name == SelectLastInSubSeq(s, 1, last, LAMBDA t : t = "name")
      end == SelectInSubSeq(s, name + 1, last, LAMBDA t : t = "crlf") IN
    IF name = 0 THEN <<"absent">>
    ELSE SubSeq(s, name + 1, IF end = 0 THEN last ELSE end - 1)

Unsigned(value) == IF value # <<>> /\ value[1] \in {"plus", "minus"} THEN Tail(value) ELSE value

\* The digits that a text begins with, as a number.
Magnitude(text) ==
  LET stop == SelectInSeq(text, LAMBDA t : t \notin DOMAIN DigitValue)
      digits == IF stop = 0 THEN Len(text) ELSE stop - 1
      number[n \in 0 .. digits] ==
        IF n = 0 THEN 0 ELSE 10 * number[n - 1] + DigitValue[text[n]] IN
    number[digits]

\* std::stoi: a sign, and digits up to the first character that is none.
Number(value) ==
  IF value # <<>> /\ value[1] = "minus" THEN -Magnitude(Unsigned(value))
  ELSE Magnitude(Unsigned(value))

\* Variant: no range, as if the number were read digit by digit by hand.
ThrowsWithoutRange(value) ==
  LET text == Unsigned(value) IN
    text = <<>> \/ text[1] \notin DOMAIN DigitValue \/ Number(value) < 0

\* stoi throws on text that is no number and on one that is out of int's range,
\* and std::string(n, 0) does on a negative number.
Throws(value) ==
  LET text == Unsigned(value) IN
    text = <<>> \/ text[1] \notin DOMAIN DigitValue \/ Number(value) \notin 0 .. MaxInt

Zeros(n) == [i \in 1 .. n |-> "zero"]

\* Parse, on what its headers say: without Content-Length the body is the rest
\* of the text; with it, that many zeros which the text then overwrites.
ParseBody(value, s) ==
  LET rest == IF HeaderEnd(s) = 0 THEN <<>> ELSE SubSeq(s, HeaderEnd(s) + 1, Len(s)) IN
    IF value = <<"absent">> THEN [throws |-> FALSE, body |-> rest]
    ELSE IF Throws(value) THEN [throws |-> TRUE, body |-> <<>>]
    ELSE [throws |-> FALSE, body |-> SubSeq(rest \o Zeros(Number(value)), 1, Number(value))]

Parse(s) == ParseBody(LengthField(s), s)
=============================================================================
