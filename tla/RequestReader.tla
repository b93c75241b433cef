--------------------------- MODULE RequestReader ---------------------------
(***************************************************************************)
(* CServer::ReadRequest (server.cpp:195-223 over SSL_read, 231-260 over    *)
(* recv: the same steps) and the Parse that follows it, against a client   *)
(* that sends one message in any pieces and may end the connection.        *)
(***************************************************************************)
EXTENDS HttpRequest

CONSTANTS
  Messages,  \* what clients may send, see Message
  Buffer     \* sizeof(buffer), in tokens

ASSUME BufferAssumption == Buffer \in Nat \ {0}

VARIABLES
  \* the client and the network
  message,   \* what the client sends
  sent,      \* how much of it has arrived
  link,      \* "open", "ended" (no more will come), "reset" (reads fail)
  \* ReadRequest
  pc,
  got,       \* request.size(): the request is the first "got" tokens
  remaining,
  firstRead, \* history: what the first read returned
  result     \* what the handler gets: a body, once pc = "parsed"

readerVars == <<pc, got, remaining, firstRead, result>>
clientVars == <<message, sent, link>>
vars == <<clientVars, readerVars>>

\* What a client may send: headers with the given values of Content-Length, a
\* body, and bytes of a next request that follow it.
BodyToken(i, body) ==
  IF i > body THEN "next" ELSE IF i = 1 THEN "open" ELSE IF i = body THEN "close" ELSE "byte"

Message(lengths, body, extra) ==
  LET header == <<"line", "crlf">>
        \o FlattenSeq([i \in DOMAIN lengths |-> <<"name">> \o lengths[i] \o <<"crlf">>])
        \o <<"crlf">> IN
    [lengths |-> lengths, body |-> body, head |-> Len(header),
     text |-> header \o [i \in 1 .. body + extra |-> BodyToken(i, body)]]

\* What the client means, taken from the message and not from the parser: the
\* last Content-Length says n if it is how n is written, leading zeros and
\* whatever is no digit behind it allowed.  Left(n, k) is n without its last k
\* decimal digits.
Declared(m) == m.lengths # <<>>
LastLength(m) == m.lengths[Len(m.lengths)]

Left(n, k) ==
  LET left[j \in 0 .. k] == IF j = 0 THEN n ELSE left[j - 1] \div 10 IN left[k]

Begins(text, n) ==
  \E k \in 1 .. Len(text) :
    /\ k = Len(text) \/ text[k + 1] \notin DOMAIN DigitValue
    /\ Left(n, k) = 0
    /\ \A j \in 1 .. k :
         text[j] \in DOMAIN DigitValue /\ DigitValue[text[j]] = Left(n, k - j) % 10

Says(value, n) ==
  \/ Begins(value, n)
  \/ /\ value # <<>> /\ (value[1] = "plus" \/ (value[1] = "minus" /\ n = 0))
     /\ Begins(Tail(value), n)

IsSize(m) == Declared(m) /\ \E n \in 0 .. MaxInt : Says(LastLength(m), n)
Size(m) == CHOOSE n \in 0 .. MaxInt : Says(LastLength(m), n)

\* The headers end at the first empty line, the last Content-Length among them
\* is the one that "lengths" ends with, and behind them there is the body.
WellFormed(m) ==
  /\ m.text \in Seq(Tokens) /\ m.head \in 2 .. Len(m.text)
  /\ m.text[m.head - 1] = "crlf" /\ m.text[m.head] = "crlf"
  /\ \A i \in 1 .. m.head - 2 : m.text[i] # "crlf" \/ m.text[i + 1] # "crlf"
  /\ m.body \in 0 .. Len(m.text) - m.head
  /\ \A i \in 1 .. Len(m.text) - m.head : m.text[m.head + i] = BodyToken(i, m.body)
  /\ m.lengths \in Seq(Seq(Chars))
  /\ ~Declared(m) => \A i \in 1 .. m.head : m.text[i] # "name"
  /\ Declared(m) =>
       \E first \in 1 .. m.head - 2 :
         LET end == first + 1 + Len(LastLength(m)) IN
           /\ m.text[first] = "name" /\ \A i \in first + 1 .. m.head : m.text[i] # "name"
           /\ end < m.head /\ m.text[end] = "crlf"
           /\ LastLength(m) = SubSeq(m.text, first + 1, end - 1)

ASSUME MessageAssumption == \A m \in Messages : WellFormed(m)

Request == SubSeq(message.text, 1, got)

TypeOK ==
  /\ message \in Messages
  /\ sent \in 0 .. Len(message.text)
  /\ link \in {"open", "ended", "reset"}
  /\ pc \in {"first", "more", "parse", "parsed", "empty", "thrown"}
  /\ got \in 0 .. sent
  /\ remaining \in Int
  /\ firstRead \in 0 .. Buffer
  /\ result \in Seq(BodyTokens \cup {"zero"})

Init ==
  /\ message \in Messages
  /\ sent = 0 /\ link = "open"
  /\ pc = "first" /\ got = 0 /\ remaining = 0 /\ firstRead = 0 /\ result = <<>>

-----------------------------------------------------------------------------
(* The client.                                                             *)

Send ==
  /\ link = "open" /\ sent < Len(message.text)
  /\ sent' = sent + 1
  /\ UNCHANGED <<message, link, readerVars>>

\* The client closes its side, or the connection breaks.
EndLink ==
  /\ link = "open"
  /\ link' \in {"ended", "reset"}
  /\ UNCHANGED <<message, sent, readerVars>>

-----------------------------------------------------------------------------
(* ReadRequest.                                                            *)

\* SSL_read and recv wait until they can return a piece of what has arrived,
\* or nothing more can come.
CanRead(n) == link # "reset" /\ n \in 1 .. (IF sent - got < Buffer THEN sent - got ELSE Buffer)
CannotRead == link = "reset" \/ (link = "ended" /\ got = sent)

\* request.substr(0, headerEnd + 4), or nothing if the headers have no end.
HeaderOf(request) == SubSeq(request, 1, HeaderEnd(request))

\* Variant: what the first read brought beyond the headers is not counted.
FirstReadForgetsBody ==
  /\ pc = "first"
  /\ \E n \in 1 .. Buffer :
       /\ CanRead(n)
       /\ got' = n /\ firstRead' = n
       /\ \E header \in {HeaderOf(SubSeq(message.text, 1, n))} :
            \/ /\ header = <<>> \/ LengthField(header) = <<"absent">>
               /\ pc' = "parse" /\ UNCHANGED remaining
            \/ /\ header # <<>> /\ Parse(header).throws
               /\ pc' = "thrown" /\ UNCHANGED remaining
            \/ /\ header # <<>> /\ LengthField(header) # <<"absent">> /\ ~Parse(header).throws
               /\ remaining' = Number(LengthField(header))
               /\ pc' = IF remaining' > 0 THEN "more" ELSE "parse"
  /\ UNCHANGED <<clientVars, result>>

\* The first read, the search for the end of the headers in it, and what is
\* still to come according to Content-Length.
FirstRead ==
  /\ pc = "first"
  /\ \E n \in 1 .. Buffer :
       /\ CanRead(n)
       /\ got' = n /\ firstRead' = n
       /\ \E header \in {HeaderOf(SubSeq(message.text, 1, n))} :
            \/ /\ header = <<>> \/ LengthField(header) = <<"absent">>
               /\ pc' = "parse" /\ UNCHANGED remaining
            \/ /\ header # <<>> /\ Parse(header).throws
               /\ pc' = "thrown" /\ UNCHANGED remaining
            \/ /\ header # <<>> /\ LengthField(header) # <<"absent">> /\ ~Parse(header).throws
               /\ remaining' = Number(LengthField(header)) - (n - Len(header))
               /\ pc' = IF remaining' > 0 THEN "more" ELSE "parse"
  /\ UNCHANGED <<clientVars, result>>

\* Variant: the result of the read is used before it is looked at.
FirstReadFailsUnseen ==
  /\ pc = "first" /\ CannotRead
  /\ pc' = "parse" /\ got' = -1
  /\ UNCHANGED <<clientVars, remaining, firstRead, result>>

\* An empty string: HandleClient answers nothing and closes.
FirstReadFails ==
  /\ pc = "first" /\ CannotRead
  /\ pc' = "empty"
  /\ UNCHANGED <<clientVars, got, remaining, firstRead, result>>

\* Variant: "if (remaining > 0)" for the loop.
ReadOnceMore ==
  /\ pc = "more"
  /\ \E n \in 1 .. Buffer :
       /\ CanRead(n)
       /\ got' = got + n /\ remaining' = remaining - n
  /\ pc' = "parse"
  /\ UNCHANGED <<clientVars, firstRead, result>>

\* One turn of the loop; a piece may go beyond the declared length.
ReadMore ==
  /\ pc = "more"
  /\ \E n \in 1 .. Buffer :
       /\ CanRead(n)
       /\ got' = got + n /\ remaining' = remaining - n
  /\ pc' = IF remaining' > 0 THEN "more" ELSE "parse"
  /\ UNCHANGED <<clientVars, firstRead, result>>

ReadMoreFails ==
  /\ pc = "more" /\ CannotRead
  /\ pc' = "parse"
  /\ UNCHANGED <<clientVars, got, remaining, firstRead, result>>

\* Variant: the body is searched for its beginning, to spare the parser.
SubmitUnparsed(body) == IF body # <<>> /\ body[1] = "open" THEN 200 ELSE 400

\* The handler of POST /submit on a body: nlohmann's parser wants one text, whole
\* and alone; a zero behind it is the end of the input to its lexer.
Submit(body) ==
  IF \E k \in 2 .. Len(body) :
       /\ body[1] = "open" /\ body[k] = "close" /\ \A i \in 2 .. k - 1 : body[i] = "byte"
       /\ k = Len(body) \/ body[k + 1] = "zero"
  THEN 200 ELSE 400

\* HandleClient parses what ReadRequest returned.
ParseRequest ==
  /\ pc = "parse"
  /\ \E value \in {LengthField(Request)} : \E parsed \in {ParseBody(value, Request)} :
       /\ pc' = IF parsed.throws THEN "thrown" ELSE "parsed"
       /\ result' = parsed.body
  /\ UNCHANGED <<clientVars, got, remaining, firstRead>>

ReaderStep ==
  FirstRead \/ FirstReadFails \/ ReadMore \/ ReadMoreFails \/ ParseRequest

Done == pc \in {"parsed", "empty", "thrown"}

Next ==
  \/ Send \/ EndLink
  \/ ReaderStep
  \/ Done /\ UNCHANGED vars

Spec == Init /\ [][Next]_vars

\* The handler's thread runs.  Nothing makes the client send.
FairSpec == Spec /\ WF_vars(ReaderStep)

-----------------------------------------------------------------------------
(* Safety.                                                                 *)

HeaderArrivedAtOnce == firstRead >= message.head

\* However the message is cut behind its headers, the handler gets exactly as
\* many bytes as declared, those of the message, in place; zeros stand only
\* for what had not come when the client ended (request.cpp:37-40).
BodyIsWhatArrived ==
  pc = "parsed" /\ IsSize(message) /\ HeaderArrivedAtOnce /\ link # "reset" =>
    LET head == message.head IN
      /\ Len(result) = Size(message)
      /\ \A i \in DOMAIN result :
           IF head + i <= sent THEN result[i] = message.text[head + i]
           ELSE result[i] = "zero" /\ link = "ended"

\* The reader never asks for more when all that was declared is there: the
\* client would wait for the response and the handler for the client.
NeverWaitsInVain ==
  pc = "more" =>
    /\ HeaderArrivedAtOnce /\ IsSize(message)
    /\ remaining = message.head + Size(message) - got
    /\ remaining > 0

\* With the headers in one read, exactly the lengths std::stoi or the string
\* constructor reject end the process, and none of them gets an answer.
OnlyBadLengthsThrow ==
  HeaderArrivedAtOnce =>
    /\ pc = "thrown" => Declared(message) /\ ~IsSize(message)
    /\ pc = "parsed" => ~Declared(message) \/ IsSize(message)

\* A POST to /submit is acknowledged only if its whole body has arrived, however
\* the client left and whatever Parse made of the rest; and it is, if its client
\* declared its body and stays until the end.
AcknowledgedSubmitsAreWhole ==
  pc = "parsed" =>
    /\ Submit(result) = 200 =>
         /\ message.body >= 2 /\ sent >= message.head + message.body
         /\ \A i \in 1 .. message.body : result[i] = message.text[message.head + i]
    /\ link = "open" /\ HeaderArrivedAtOnce /\ message.body >= 2
         /\ IsSize(message) /\ Size(message) = message.body
       => Submit(result) = 200

-----------------------------------------------------------------------------
(* The inductive invariant behind them.                                    *)

\* All that was declared has been read, or nothing more can be.
ReadAll ==
  \/ got >= message.head + Size(message)
  \/ link = "reset"
  \/ link = "ended" /\ got = sent

\* Headers that did not come at once are not waited for.
CutHeaderInv ==
  /\ pc \in {"first", "empty"} => got = 0 /\ firstRead = 0
  /\ pc \in {"parse", "parsed", "thrown"} /\ ~HeaderArrivedAtOnce => got = firstRead
  /\ pc = "parsed" /\ ~HeaderArrivedAtOnce => \A i \in DOMAIN result : result[i] = "zero"

WholeHeaderInv ==
  HeaderArrivedAtOnce =>
    /\ pc \in {"more", "parse", "parsed"} => got >= message.head
    /\ pc \in {"parse", "parsed"} /\ Declared(message) => IsSize(message) /\ ReadAll
    /\ pc = "parsed" /\ ~Declared(message) =>
         /\ Len(result) = got - message.head
         /\ \A i \in DOMAIN result : result[i] = message.text[message.head + i]
    /\ pc = "parsed" /\ Declared(message) =>
         /\ Len(result) = Size(message)
         /\ \A i \in DOMAIN result :
              result[i] = IF message.head + i <= got THEN message.text[message.head + i] ELSE "zero"

IInv == TypeOK /\ CutHeaderInv /\ WholeHeaderInv /\ NeverWaitsInVain /\ OnlyBadLengthsThrow

-----------------------------------------------------------------------------
(* Liveness.                                                               *)

\* A client that has sent all it declared, and then only waits, is answered
\* (or the process ends): the reader needs neither a close nor more bytes.
CompleteRequestsAreHandled ==
  (sent >= message.head + (IF IsSize(message) THEN Size(message) ELSE 0))
    ~> Done

-----------------------------------------------------------------------------
\* request.hpp:15, sBody is the "request body (for POST/PUT)": a client that
\* declares its body correctly and sends all of it has it handed to the route.
BodyIsTheRequestBody ==
  (/\ pc = "parsed" /\ link = "open" /\ sent = Len(message.text)
   /\ IsSize(message) /\ Size(message) = message.body)
    => result = [i \in 1 .. message.body |-> BodyToken(i, message.body)]
=============================================================================
