------------------------- MODULE RequestReaderProofs -------------------------
(***************************************************************************)
(* Theorems of RequestReader, for every set of well-formed messages, every *)
(* size of the buffer and every way a message comes in pieces.             *)
(***************************************************************************)
EXTENDS ContentLengthProofs

-----------------------------------------------------------------------------
(* What the parser's helpers return.                                       *)

\* find("\r\n\r\n") finds the first empty line.
LEMMA HeaderEndFacts ==
  ASSUME NEW s \in Seq(Tokens)
  PROVE  /\ (\A i \in 1 .. Len(s) - 1 : s[i] # "crlf" \/ s[i + 1] # "crlf") => HeaderEnd(s) = 0
         /\ \A e \in 2 .. Len(s) :
              (/\ s[e - 1] = "crlf" /\ s[e] = "crlf"
               /\ \A i \in 1 .. e - 2 : s[i] # "crlf" \/ s[i + 1] # "crlf")
              => HeaderEnd(s) = e
         /\ HeaderEnd(s) \in 0 .. Len(s)
<1> DEFINE blank == {i \in 1 .. Len(s) - 1 : s[i] = "crlf" /\ s[i + 1] = "crlf"}
<1>1. HeaderEnd(s) = IF blank = {} THEN 0 ELSE Min(blank) + 1
  BY DEF HeaderEnd
<1>2. Len(s) \in Nat /\ blank \in SUBSET Nat
  OBVIOUS
<1>3. blank # {} => Min(blank) \in blank /\ \A j \in blank : Min(blank) <= j
  <2> HIDE DEF blank
  <2> QED
    BY <1>2, MinFacts
<1>4. (\A i \in 1 .. Len(s) - 1 : s[i] # "crlf" \/ s[i + 1] # "crlf") => HeaderEnd(s) = 0
  BY <1>1
<1>5. ASSUME NEW e \in 2 .. Len(s), s[e - 1] = "crlf", s[e] = "crlf",
             \A i \in 1 .. e - 2 : s[i] # "crlf" \/ s[i + 1] # "crlf"
      PROVE  HeaderEnd(s) = e
  <2>1. e - 1 \in blank
    BY <1>2, <1>5
  <2>2. \A j \in blank : e - 1 <= j
    BY <1>2, <1>5
  <2>3. blank # {} /\ Min(blank) = e - 1
    <3> HIDE DEF blank
    <3> QED
      BY <1>2, <2>1, <2>2, MinIs
  <2> HIDE DEF blank
  <2>4. HeaderEnd(s) = e - 1 + 1
    BY <1>1, <2>3
  <2>5. e \in Nat
    BY <1>2
  <2> QED
    BY <2>4, <2>5
<1>6. HeaderEnd(s) \in 0 .. Len(s)
  BY <1>1, <1>2, <1>3
<1> QED
  BY <1>4, <1>5, <1>6

\* mHeaders["Content-Length"] is a piece of the text, or is not there.
LEMMA LengthFieldType ==
  ASSUME NEW s \in Seq(Tokens)
  PROVE  LengthField(s) = <<"absent">> \/ LengthField(s) \in Seq(Tokens)
<1> DEFINE last == IF HeaderEnd(s) = 0 THEN Len(s) ELSE HeaderEnd(s)
           names == {i \in 1 .. last : s[i] = "name"}
           name == IF names # {} THEN Max(names) ELSE 0
           ends == {i \in name + 1 .. last : s[i] = "crlf"}
           end == IF ends # {} THEN Min(ends) ELSE 0
<1>1. LengthField(s) = IF name = 0 THEN <<"absent">>
                       ELSE SubSeq(s, name + 1, IF end = 0 THEN last ELSE end - 1)
  BY DEF LengthField, SelectLastInSubSeq, SelectInSubSeq
<1>2. last \in 0 .. Len(s) /\ Len(s) \in Nat
  BY HeaderEndFacts
<1> HIDE DEF last
<1>3. name \in 0 .. last
  <2>1. names \in SUBSET (0 .. last) /\ last \in Nat
    BY <1>2
  <2>2. names # {} => Max(names) \in names
    <3> HIDE DEF names
    <3> QED
      BY <2>1, MaxFacts
  <2> QED
    BY <1>2, <2>2
<1> HIDE DEF name
<1>4. end = 0 \/ end \in name + 1 .. last
  <2>1. ends \in SUBSET Nat
    BY <1>2, <1>3
  <2>2. ends # {} => Min(ends) \in ends
    <3> HIDE DEF ends
    <3> QED
      BY <2>1, MinFacts
  <2> QED
    BY <2>2
<1> HIDE DEF end
<1>5. SubSeq(s, name + 1, IF end = 0 THEN last ELSE end - 1) \in Seq(Tokens)
  <2> DEFINE to == IF end = 0 THEN last ELSE end - 1
  <2>1. to \in 0 .. Len(s)
    BY <1>2, <1>3, <1>4
  <2> HIDE DEF to
  <2> QED
    BY <1>2, <1>3, <2>1 DEF to
<1> QED
  BY <1>1, <1>5

\* The last line that names it, up to the end of that line.
LEMMA LengthFieldFacts ==
  ASSUME NEW s \in Seq(Tokens), HeaderEnd(s) \in 1 .. Len(s)
  PROVE  /\ (\A i \in 1 .. HeaderEnd(s) : s[i] # "name") => LengthField(s) = <<"absent">>
         /\ \A first \in 1 .. HeaderEnd(s) : \A q \in first + 1 .. HeaderEnd(s) :
              (/\ s[first] = "name" /\ \A i \in first + 1 .. HeaderEnd(s) : s[i] # "name"
               /\ s[q] = "crlf" /\ \A i \in first + 1 .. q - 1 : s[i] # "crlf")
              => LengthField(s) = SubSeq(s, first + 1, q - 1)
<1> DEFINE last == IF HeaderEnd(s) = 0 THEN Len(s) ELSE HeaderEnd(s)
           names == {i \in 1 .. last : s[i] = "name"}
           name == IF names # {} THEN Max(names) ELSE 0
           ends == {i \in name + 1 .. last : s[i] = "crlf"}
           end == IF ends # {} THEN Min(ends) ELSE 0
<1>1. LengthField(s) = IF name = 0 THEN <<"absent">>
                       ELSE SubSeq(s, name + 1, IF end = 0 THEN last ELSE end - 1)
  BY DEF LengthField, SelectLastInSubSeq, SelectInSubSeq
<1>2. last = HeaderEnd(s) /\ last \in 1 .. Len(s) /\ Len(s) \in Nat
  OBVIOUS
<1> HIDE DEF last
<1>3. (\A i \in 1 .. last : s[i] # "name") => LengthField(s) = <<"absent">>
  BY <1>1
<1>4. ASSUME NEW first \in 1 .. last, NEW q \in first + 1 .. last,
             s[first] = "name", \A i \in first + 1 .. last : s[i] # "name",
             s[q] = "crlf", \A i \in first + 1 .. q - 1 : s[i] # "crlf"
      PROVE  LengthField(s) = SubSeq(s, first + 1, q - 1)
  <2>1. name = first
    <3>1. first \in names /\ names \in SUBSET (0 .. last) /\ last \in Nat
      BY <1>2, <1>4
    <3>2. \A j \in names : j <= first
      BY <1>2, <1>4
    <3> HIDE DEF names
    <3>3. names # {} /\ Max(names) = first
      BY <3>1, <3>2, MaxIs
    <3> QED
      BY <3>3
  <2> HIDE DEF name
  <2>2. end = q
    <3>1. q \in ends /\ ends \in SUBSET Nat
      BY <1>2, <1>4, <2>1
    <3>2. \A j \in ends : q <= j
      BY <1>2, <1>4, <2>1
    <3> HIDE DEF ends
    <3>3. ends # {} /\ Min(ends) = q
      BY <3>1, <3>2, MinIs
    <3> QED
      BY <3>3
  <2> HIDE DEF end
  <2> QED
    BY <1>1, <1>2, <1>4, <2>1, <2>2
<1> QED
  BY <1>2, <1>3, <1>4

-----------------------------------------------------------------------------
(* What the parser makes of a beginning of a message.                      *)

Field(m) == IF Declared(m) THEN LastLength(m) ELSE <<"absent">>
Contents == BodyTokens \cup {"zero"}

LEMMA MessageFacts ==
  ASSUME NEW m \in Messages
  PROVE  /\ m.text \in Seq(Tokens) /\ Len(m.text) \in Nat /\ m.head \in 2 .. Len(m.text)
         /\ Declared(m) => LastLength(m) \in Seq(Chars)
         /\ Field(m) = <<"absent">> <=> ~Declared(m)
         /\ Declared(m) => (Throws(LastLength(m)) <=> ~IsSize(m))
         /\ IsSize(m) => Declared(m) /\ Size(m) = Number(LastLength(m)) /\ Size(m) \in Nat
<1>1. WellFormed(m)
  BY MessageAssumption
<1>2. m.text \in Seq(Tokens) /\ m.head \in 2 .. Len(m.text) /\ m.lengths \in Seq(Seq(Chars))
  BY <1>1 DEF WellFormed
<1>3. Declared(m) => LastLength(m) \in Seq(Chars)
  BY <1>2 DEF Declared, LastLength
<1>4. Declared(m) => LastLength(m) # <<"absent">>
  <2> SUFFICES ASSUME Declared(m), LastLength(m) = <<"absent">> PROVE FALSE
    OBVIOUS
  <2>1. LastLength(m)[1] \in Chars
    BY <1>3
  <2> QED
    BY <2>1 DEF Chars
<1>5. Declared(m) =>
        /\ Throws(LastLength(m)) <=> ~IsSize(m)
        /\ IsSize(m) => Size(m) = Number(LastLength(m)) /\ Size(m) \in Nat
  BY <1>3, SizeFacts, Zenon
<1>6. IsSize(m) => Declared(m)
  BY DEF IsSize
<1> QED
  BY <1>2, <1>3, <1>4, <1>5, <1>6 DEF Field

\* Behind the headers stands the body, and what follows it.
LEMMA BodyTokenFacts ==
  ASSUME NEW m \in Messages
  PROVE  /\ m.body \in Nat /\ m.head + m.body <= Len(m.text)
         /\ \A i \in 1 .. Len(m.text) - m.head :
              m.text[m.head + i] = BodyToken(i, m.body) /\ m.text[m.head + i] \in BodyTokens
<1>1. /\ m.body \in 0 .. Len(m.text) - m.head
      /\ \A i \in 1 .. Len(m.text) - m.head : m.text[m.head + i] = BodyToken(i, m.body)
  BY MessageAssumption DEF WellFormed
<1>2. Len(m.text) \in Nat /\ m.head \in 2 .. Len(m.text)
  BY MessageFacts
<1>3. \A i : BodyToken(i, m.body) \in BodyTokens
  BY DEF BodyToken, BodyTokens
<1> QED
  BY <1>1, <1>2, <1>3

\* A beginning that ends before the empty line has no end of headers; any
\* other has the field that the client meant.
LEMMA Cut ==
  ASSUME NEW m \in Messages, NEW n \in 0 .. Len(m.text),
         NEW s, s = SubSeq(m.text, 1, n)
  PROVE  /\ s \in Seq(Tokens) /\ Len(s) = n /\ \A i \in 1 .. n : s[i] = m.text[i]
         /\ n < m.head => HeaderEnd(s) = 0
         /\ n >= m.head => HeaderEnd(s) = m.head /\ LengthField(s) = Field(m)
<1> DEFINE text == m.text
           head == m.head
<1>1. WellFormed(m)
  BY MessageAssumption
<1>2. text \in Seq(Tokens) /\ Len(text) \in Nat /\ head \in 2 .. Len(text)
  BY <1>1 DEF WellFormed
<1>3. /\ text[head - 1] = "crlf" /\ text[head] = "crlf"
      /\ \A i \in 1 .. head - 2 : text[i] # "crlf" \/ text[i + 1] # "crlf"
  BY <1>1 DEF WellFormed
<1>4. ~Declared(m) => \A i \in 1 .. head : text[i] # "name"
  BY <1>1 DEF WellFormed
<1> HIDE DEF text, head
<1>5. s \in Seq(Tokens) /\ Len(s) = n /\ \A i \in 1 .. n : s[i] = text[i]
  BY <1>2 DEF text
<1>6. ASSUME n < head
      PROVE  HeaderEnd(s) = 0
  <2>1. \A i \in 1 .. n - 1 : s[i] # "crlf" \/ s[i + 1] # "crlf"
    BY <1>2, <1>3, <1>5, <1>6
  <2> QED
    BY <1>5, <2>1, HeaderEndFacts
<1>7. ASSUME n >= head
      PROVE  HeaderEnd(s) = head
  <2>1. /\ head \in 2 .. Len(s) /\ s[head - 1] = "crlf" /\ s[head] = "crlf"
        /\ \A i \in 1 .. head - 2 : s[i] # "crlf" \/ s[i + 1] # "crlf"
    BY <1>2, <1>3, <1>5, <1>7
  <2> QED
    BY <1>5, <2>1, HeaderEndFacts
<1>8. ASSUME n >= head, ~Declared(m)
      PROVE  LengthField(s) = Field(m)
  <2>1. HeaderEnd(s) \in 1 .. Len(s) /\ \A i \in 1 .. HeaderEnd(s) : s[i] # "name"
    BY <1>2, <1>4, <1>5, <1>7, <1>8
  <2> QED
    BY <1>5, <1>8, <2>1, LengthFieldFacts DEF Field
<1>9. ASSUME n >= head, Declared(m)
      PROVE  LengthField(s) = Field(m)
  <2> DEFINE v == LastLength(m)
  <2>1. PICK first \in 1 .. head - 2 :
          /\ text[first] = "name" /\ \A i \in first + 1 .. head : text[i] # "name"
          /\ first + 1 + Len(v) < head /\ text[first + 1 + Len(v)] = "crlf"
          /\ v = SubSeq(text, first + 1, first + 1 + Len(v) - 1)
    <3>1. \E first \in 1 .. m.head - 2 :
            LET end == first + 1 + Len(LastLength(m)) IN
              /\ m.text[first] = "name" /\ \A i \in first + 1 .. m.head : m.text[i] # "name"
              /\ end < m.head /\ m.text[end] = "crlf"
              /\ LastLength(m) = SubSeq(m.text, first + 1, end - 1)
      BY <1>1, <1>9 DEF WellFormed
    <3>2. PICK first \in 1 .. m.head - 2 :
            /\ m.text[first] = "name" /\ \A i \in first + 1 .. m.head : m.text[i] # "name"
            /\ first + 1 + Len(LastLength(m)) < m.head
            /\ m.text[first + 1 + Len(LastLength(m))] = "crlf"
            /\ LastLength(m) = SubSeq(m.text, first + 1, first + 1 + Len(LastLength(m)) - 1)
      BY <3>1
    <3> QED
      BY <3>2 DEF text, head
  <2>2. v \in Seq(Chars)
    BY <1>9, MessageFacts
  <2> HIDE DEF v
  <2> DEFINE q == first + 1 + Len(v)
  <2>3. /\ first \in 1 .. head /\ q \in first + 1 .. head /\ Len(v) \in Nat
        /\ v = SubSeq(text, first + 1, q - 1) /\ text[q] = "crlf" /\ q - 1 = first + Len(v)
    BY <1>2, <2>1, <2>2
  <2> HIDE DEF q
  <2>4. \A i \in first + 1 .. q - 1 : text[i] \in Chars
    <3> SUFFICES ASSUME NEW i \in first + 1 .. q - 1 PROVE text[i] \in Chars
      OBVIOUS
    <3>1. i - first \in 1 .. Len(v) /\ first + 1 + (i - first) - 1 = i
      BY <1>2, <2>3
    <3>2. v[i - first] = text[i]
      BY <1>2, <2>3, <3>1
    <3> QED
      BY <2>2, <3>1, <3>2
  <2>5. \A i \in first + 1 .. q - 1 : text[i] # "crlf"
    BY <2>4 DEF Chars
  <2>6. head \in 1 .. Len(s) /\ HeaderEnd(s) = head
    BY <1>2, <1>5, <1>7, <1>9
  <2>7. \A i \in 1 .. head : s[i] = text[i]
    BY <1>2, <1>5, <1>9
  <2>8. /\ s[first] = "name" /\ \A i \in first + 1 .. head : s[i] # "name"
        /\ s[q] = "crlf" /\ \A i \in first + 1 .. q - 1 : s[i] # "crlf"
    <3>1. /\ first \in 1 .. head /\ q \in 1 .. head
          /\ \A i \in first + 1 .. head : i \in 1 .. head
          /\ \A i \in first + 1 .. q - 1 : i \in 1 .. head
      BY <1>2, <2>3
    <3> QED
      BY <2>1, <2>3, <2>5, <2>7, <3>1
  <2>9. LengthField(s) = SubSeq(s, first + 1, q - 1)
    BY <1>5, <2>3, <2>6, <2>8, LengthFieldFacts
  <2>10. SubSeq(s, first + 1, q - 1) = SubSeq(text, first + 1, q - 1)
    BY <1>2, <1>5, <1>9, <2>3, <2>7
  <2> QED
    BY <1>9, <2>3, <2>9, <2>10 DEF Field, v
<1> QED
  BY <1>5, <1>6, <1>7, <1>8, <1>9 DEF text, head

\* The body: what there is behind the headers, then zeros up to the length.
LEMMA BodyFacts ==
  ASSUME NEW rest \in Seq(BodyTokens), NEW n \in Nat,
         NEW body, body = SubSeq(rest \o Zeros(n), 1, n)
  PROVE  /\ body \in Seq(Contents) /\ Len(body) = n
         /\ \A i \in 1 .. n : body[i] = IF i <= Len(rest) THEN rest[i] ELSE "zero"
<1> DEFINE all == rest \o Zeros(n)
<1>1. Zeros(n) \in Seq(Contents) /\ Len(Zeros(n)) = n /\ \A i \in 1 .. n : Zeros(n)[i] = "zero"
  BY DEF Zeros, Contents
<1>2. rest \in Seq(Contents) /\ Len(rest) \in Nat
  BY DEF Contents
<1>3. all \in Seq(Contents) /\ Len(all) = Len(rest) + n
  BY <1>1, <1>2
<1>4. \A i \in 1 .. n : all[i] = IF i <= Len(rest) THEN rest[i] ELSE "zero"
  BY <1>1, <1>2
<1> HIDE DEF all
<1>5. body = SubSeq(all, 1, n)
  BY DEF all
<1>6. 1 \in Int /\ n \in Int /\ \A i \in 1 .. n : all[i] \in Contents
  <2>1. Len(all) \in Nat /\ n <= Len(all)
    BY <1>2, <1>3
  <2> QED
    BY <1>3, <2>1
<1>7. /\ SubSeq(all, 1, n) \in Seq(Contents)
      /\ Len(SubSeq(all, 1, n)) = IF 1 <= n THEN n - 1 + 1 ELSE 0
      /\ \A i \in 1 .. n - 1 + 1 : SubSeq(all, 1, n)[i] = all[1 + i - 1]
  <2> HIDE DEF Contents
  <2> QED
    BY ONLY <1>6, SubSeqProperties
<1>8. n - 1 + 1 = n /\ \A i \in 1 .. n : 1 + i - 1 = i
  OBVIOUS
<1>9. body \in Seq(Contents) /\ Len(body) = n
  <2>1. (IF 1 <= n THEN n - 1 + 1 ELSE 0) = n
    OBVIOUS
  <2> QED
    BY <1>5, <1>7, <2>1, Zenon
<1>10. \A i \in 1 .. n : body[i] = all[i]
  BY <1>5, <1>7, <1>8
<1> QED
  BY <1>4, <1>9, <1>10

\* What stands behind the headers in the first n tokens.
LEMMA RestFacts ==
  ASSUME NEW m \in Messages, NEW n \in m.head .. Len(m.text),
         NEW s, s = SubSeq(m.text, 1, n), NEW rest, rest = SubSeq(s, m.head + 1, Len(s))
  PROVE  /\ rest \in Seq(BodyTokens) /\ Len(rest) = n - m.head
         /\ \A i \in 1 .. n - m.head : rest[i] = m.text[m.head + i]
<1>1. /\ m.text \in Seq(Tokens) /\ Len(m.text) \in Nat /\ m.head \in 2 .. Len(m.text)
      /\ n \in 0 .. Len(m.text)
  BY MessageFacts
<1>2. s \in Seq(Tokens) /\ Len(s) = n /\ \A i \in 1 .. n : s[i] = m.text[i]
  BY <1>1, Cut
<1>3. \A i \in m.head + 1 .. Len(m.text) : m.text[i] \in BodyTokens
  <2> SUFFICES ASSUME NEW i \in m.head + 1 .. Len(m.text) PROVE m.text[i] \in BodyTokens
    OBVIOUS
  <2>1. i - m.head \in 1 .. Len(m.text) - m.head /\ m.head + (i - m.head) = i
    BY <1>1
  <2>2. m.text[m.head + (i - m.head)] \in BodyTokens
    BY <2>1, BodyTokenFacts
  <2> QED
    BY <2>1, <2>2
<1>4. ASSUME NEW i \in m.head + 1 .. n
      PROVE  i \in 1 .. n /\ s[i] = m.text[i] /\ s[i] \in BodyTokens
  <2>1. i \in 1 .. n /\ i \in m.head + 1 .. Len(m.text)
    BY <1>1
  <2> QED
    BY <1>2, <1>3, <2>1
<1> DEFINE first == m.head + 1
           S == BodyTokens
<1>5. first \in Int /\ n \in Int /\ \A i \in first .. n : s[i] \in S
  <2>1. first \in Int /\ n \in Int
    BY <1>1
  <2>2. \A i \in first .. n : s[i] \in S
    BY <1>4
  <2> QED
    BY <2>1, <2>2
<1>6. rest = SubSeq(s, first, n)
  BY <1>2
<1> HIDE DEF first, S
<1>7. /\ SubSeq(s, first, n) \in Seq(S)
      /\ Len(SubSeq(s, first, n)) = IF first <= n THEN n - first + 1 ELSE 0
      /\ \A i \in 1 .. n - first + 1 : SubSeq(s, first, n)[i] = s[first + i - 1]
  BY ONLY <1>5, SubSeqProperties
<1>8. Len(rest) = n - m.head
  BY <1>1, <1>6, <1>7 DEF first
<1>9. ASSUME NEW i \in 1 .. n - m.head
      PROVE  rest[i] = m.text[m.head + i]
  <2>1. i \in 1 .. n - first + 1 /\ first + i - 1 = m.head + i /\ m.head + i \in m.head + 1 .. n
    BY <1>1 DEF first
  <2> QED
    BY <1>4, <1>6, <1>7, <2>1
<1> QED
  BY <1>6, <1>7, <1>8, <1>9 DEF S

\* HeaderOf is nothing before the headers are complete, and the headers then.
LEMMA HeaderFacts ==
  ASSUME NEW m \in Messages, NEW n \in 0 .. Len(m.text),
         NEW header, header = HeaderOf(SubSeq(m.text, 1, n))
  PROVE  /\ n < m.head => header = <<>>
         /\ n >= m.head => /\ header = SubSeq(m.text, 1, m.head) /\ header # <<>>
                            /\ Len(header) = m.head /\ LengthField(header) = Field(m)
<1> DEFINE s == SubSeq(m.text, 1, n)
<1>1. /\ m.text \in Seq(Tokens) /\ Len(m.text) \in Nat /\ m.head \in 2 .. Len(m.text)
      /\ m.head \in 0 .. Len(m.text)
  BY MessageFacts
<1>2. /\ s \in Seq(Tokens) /\ Len(s) = n /\ \A i \in 1 .. n : s[i] = m.text[i]
      /\ n < m.head => HeaderEnd(s) = 0
      /\ n >= m.head => HeaderEnd(s) = m.head
  BY Cut
<1> HIDE DEF s
<1>3. header = SubSeq(s, 1, HeaderEnd(s))
  BY DEF HeaderOf, s
<1>4. ASSUME n < m.head
      PROVE  header = <<>>
  BY <1>2, <1>3, <1>4
<1>5. ASSUME n >= m.head
      PROVE  header = SubSeq(m.text, 1, m.head)
  BY <1>1, <1>2, <1>3, <1>5
<1>6. ASSUME n >= m.head
      PROVE  Len(header) = m.head /\ LengthField(header) = Field(m)
  BY <1>1, <1>5, <1>6, Cut
<1>7. ASSUME n >= m.head
      PROVE  header # <<>>
  <2>1. Len(header) # 0
    BY <1>1, <1>6, <1>7
  <2> QED
    BY <2>1
<1> QED
  BY <1>4, <1>5, <1>6, <1>7

LEMMA ParsedFields ==
  ASSUME NEW parsed, NEW body
  PROVE  /\ parsed = [throws |-> TRUE, body |-> body] => parsed.throws /\ parsed.body = body
         /\ parsed = [throws |-> FALSE, body |-> body] => ~parsed.throws /\ parsed.body = body
OBVIOUS

\* With all headers in the text, Parse throws exactly if the length the client
\* declares is no number, and else makes a body of that length.
LEMMA ParseFacts ==
  ASSUME NEW m \in Messages, NEW n \in m.head .. Len(m.text),
         NEW parsed, parsed = Parse(SubSeq(m.text, 1, n))
  PROVE  /\ parsed.throws <=> Declared(m) /\ ~IsSize(m)
         /\ parsed.body \in Seq(Contents)
         /\ ~Declared(m) =>
              /\ Len(parsed.body) = n - m.head
              /\ \A i \in 1 .. n - m.head : parsed.body[i] = m.text[m.head + i]
         /\ IsSize(m) =>
              /\ Len(parsed.body) = Size(m)
              /\ \A i \in 1 .. Size(m) :
                   parsed.body[i] = IF m.head + i <= n THEN m.text[m.head + i] ELSE "zero"
<1> DEFINE s == SubSeq(m.text, 1, n)
           rest == SubSeq(s, m.head + 1, Len(s))
           v == LastLength(m)
           body == SubSeq(rest \o Zeros(Number(v)), 1, Number(v))
<1>1. /\ m.head \in 2 .. Len(m.text) /\ Len(m.text) \in Nat
      /\ n \in 0 .. Len(m.text) /\ n \in Nat /\ n >= m.head
  BY MessageFacts
<1> HIDE DEF s, rest
<1>2. HeaderEnd(s) = m.head /\ LengthField(s) = Field(m)
  <2>1. s = SubSeq(m.text, 1, n)
    BY DEF s
  <2> QED
    BY <1>1, <2>1, Cut
<1>3. rest \in Seq(BodyTokens) /\ Len(rest) = n - m.head
      /\ \A i \in 1 .. n - m.head : rest[i] = m.text[m.head + i]
  <2>1. s = SubSeq(m.text, 1, n) /\ rest = SubSeq(s, m.head + 1, Len(s))
    BY DEF s, rest
  <2> QED
    BY <2>1, RestFacts
<1>4. parsed = IF Field(m) = <<"absent">> THEN [throws |-> FALSE, body |-> rest]
               ELSE IF Throws(Field(m)) THEN [throws |-> TRUE, body |-> <<>>]
               ELSE [throws |-> FALSE,
                     body |-> SubSeq(rest \o Zeros(Number(Field(m))), 1, Number(Field(m)))]
  <2>1. parsed = Parse(s)
    BY DEF s
  <2>2. (IF HeaderEnd(s) = 0 THEN <<>> ELSE SubSeq(s, HeaderEnd(s) + 1, Len(s))) = rest
    <3>1. HeaderEnd(s) # 0
      BY <1>1, <1>2
    <3> QED
      BY <1>2, <3>1, Zenon DEF rest
  <2> QED
    BY <1>2, <2>1, <2>2, Zenon DEF Parse, ParseBody
<1>5. CASE ~Declared(m)
  <2>1. parsed = [throws |-> FALSE, body |-> rest] /\ ~IsSize(m)
    BY <1>4, <1>5, MessageFacts, Zenon DEF IsSize
  <2>2. ~parsed.throws
    BY <2>1, ParsedFields, Zenon
  <2>3. parsed.body \in Seq(Contents)
    <3>1. parsed.body = rest /\ rest \in Seq(Contents)
      BY <1>3, <2>1, ParsedFields DEF Contents
    <3> QED
      BY <3>1
  <2>4. /\ Len(parsed.body) = n - m.head
        /\ \A i \in 1 .. n - m.head : parsed.body[i] = m.text[m.head + i]
    BY <1>3, <2>1, ParsedFields
  <2> QED
    BY <1>5, <2>1, <2>2, <2>3, <2>4, Zenon
<1>6. CASE Declared(m) /\ ~IsSize(m)
  <2>1. parsed = [throws |-> TRUE, body |-> <<>>]
    BY <1>4, <1>6, MessageFacts, Zenon DEF Field
  <2>2. parsed.throws
    BY <2>1, ParsedFields, Zenon
  <2>3. parsed.body \in Seq(Contents)
    <3>1. parsed.body = <<>>
      BY <2>1, ParsedFields, Zenon
    <3>2. <<>> \in Seq(Contents)
      OBVIOUS
    <3> QED
      BY <3>1, <3>2, Zenon
  <2> QED
    BY <1>6, <2>2, <2>3, Zenon
<1>7. CASE IsSize(m)
  <2>1. Declared(m) /\ Number(v) \in Nat /\ Size(m) = Number(v)
    BY <1>7, MessageFacts
  <2>2. parsed = [throws |-> FALSE, body |-> body]
    BY <1>4, <1>7, <2>1, MessageFacts, Zenon DEF Field
  <2>3. ~parsed.throws /\ parsed.body = body
    BY <2>2, ParsedFields, Zenon
  <2>4. /\ body \in Seq(Contents) /\ Len(body) = Number(v)
        /\ \A i \in 1 .. Number(v) : body[i] = IF i <= Len(rest) THEN rest[i] ELSE "zero"
    BY <1>3, <2>1, BodyFacts
  <2> HIDE DEF body, v
  <2>5. \A i \in 1 .. Number(v) :
          body[i] = IF m.head + i <= n THEN m.text[m.head + i] ELSE "zero"
    <3> SUFFICES ASSUME NEW i \in 1 .. Number(v)
                 PROVE  body[i] = IF m.head + i <= n THEN m.text[m.head + i] ELSE "zero"
      OBVIOUS
    <3>1. i \in Nat /\ 1 <= i
      BY <2>1
    <3>2. CASE m.head + i <= n
      <4>1. i \in 1 .. n - m.head /\ i <= Len(rest)
        BY <1>1, <1>3, <3>1, <3>2
      <4> QED
        BY <1>3, <2>4, <3>2, <4>1
    <3>3. CASE ~(m.head + i <= n)
      <4>1. ~(i <= Len(rest))
        BY <1>1, <1>3, <3>1, <3>3
      <4> QED
        BY <2>4, <3>3, <4>1
    <3> QED
      BY <3>2, <3>3
  <2> QED
    BY <1>7, <2>1, <2>3, <2>4, <2>5, Zenon DEF v
<1> QED
  BY <1>5, <1>6, <1>7

\* Whatever was cut, a body is made of bytes of the message and of zeros.
LEMMA ParseType ==
  ASSUME NEW m \in Messages, NEW n \in 0 .. Len(m.text),
         NEW parsed, parsed = Parse(SubSeq(m.text, 1, n))
  PROVE  /\ parsed.body \in Seq(Contents)
         /\ n < m.head => \A i \in DOMAIN parsed.body : parsed.body[i] = "zero"
<1>1. m.head \in 2 .. Len(m.text) /\ Len(m.text) \in Nat
  BY MessageFacts
<1>2. CASE n >= m.head
  BY <1>1, <1>2, ParseFacts
<1>3. CASE n < m.head
  <2> DEFINE s == SubSeq(m.text, 1, n)
             value == LengthField(s)
             body == SubSeq(<<>> \o Zeros(Number(value)), 1, Number(value))
  <2>1. s \in Seq(Tokens) /\ HeaderEnd(s) = 0
    BY <1>3, Cut
  <2> HIDE DEF s
  <2>2. value = <<"absent">> \/ value \in Seq(Tokens)
    BY <2>1, LengthFieldType
  <2> HIDE DEF value
  <2>3. ASSUME value \in Seq(Tokens), ~Throws(value)
        PROVE  body \in Seq(Contents) /\ \A i \in DOMAIN body : body[i] = "zero"
    <3> DEFINE rest == <<>>
    <3>1. rest \in Seq(BodyTokens) /\ Len(rest) = 0
      OBVIOUS
    <3>2. Number(value) \in Nat
      BY <2>3, MaxIntAssumption DEF Throws
    <3>3. /\ body \in Seq(Contents) /\ Len(body) = Number(value)
          /\ \A i \in 1 .. Number(value) : body[i] = IF i <= Len(rest) THEN rest[i] ELSE "zero"
      <4>1. body = SubSeq(rest \o Zeros(Number(value)), 1, Number(value))
        OBVIOUS
      <4> HIDE DEF body, rest
      <4> QED
        BY <3>1, <3>2, <4>1, BodyFacts
    <3> HIDE DEF body, rest
    <3>4. DOMAIN body = 1 .. Number(value)
      BY <3>3
    <3>5. \A i \in 1 .. Number(value) : ~(i <= Len(rest))
      BY <3>1, <3>2
    <3> QED
      BY <3>3, <3>4, <3>5
  <2>4. parsed = IF value = <<"absent">> THEN [throws |-> FALSE, body |-> <<>>]
                 ELSE IF Throws(value) THEN [throws |-> TRUE, body |-> <<>>]
                 ELSE [throws |-> FALSE, body |-> body]
    BY <2>1, Zenon DEF Parse, ParseBody, s, value
  <2>5. parsed.body = <<>> \/ (value \in Seq(Tokens) /\ ~Throws(value) /\ parsed.body = body)
    <3> HIDE DEF body
    <3> QED
      BY <2>2, <2>4
  <2>6. <<>> \in Seq(Contents) /\ DOMAIN <<>> = {}
    OBVIOUS
  <2> HIDE DEF body
  <2> QED
    BY <2>3, <2>5, <2>6
<1> QED
  BY <1>1, <1>2, <1>3

-----------------------------------------------------------------------------
(* The inductive invariant.                                                *)

USE DEF clientVars, readerVars, HeaderArrivedAtOnce

\* What the invariant says of the message and of the numbers.
LEMMA Facts ==
  ASSUME TypeOK
  PROVE  /\ message \in Messages /\ message.text \in Seq(Tokens) /\ Len(message.text) \in Nat
         /\ message.head \in Nat /\ message.head >= 2 /\ message.head <= Len(message.text)
         /\ sent \in Nat /\ sent <= Len(message.text) /\ got \in Nat /\ got <= sent
         /\ remaining \in Int /\ firstRead \in Nat /\ Buffer \in Nat
         /\ IsSize(message) => Declared(message)
         /\ IsSize(message) => Size(message) \in Nat
<1>1. message \in Messages /\ sent \in 0 .. Len(message.text) /\ got \in 0 .. sent
  BY DEF TypeOK
<1>2. message.text \in Seq(Tokens) /\ Len(message.text) \in Nat /\ message.head \in 2 .. Len(message.text)
  BY <1>1, MessageFacts
<1>3. sent \in Nat /\ sent <= Len(message.text)
  BY <1>1, <1>2
<1>4. got \in Nat /\ got <= sent
  BY <1>1, <1>3
<1>5. IsSize(message) => Declared(message) /\ Size(message) \in Nat
  BY <1>1, MessageFacts
<1>6. remaining \in Int /\ firstRead \in Nat /\ Buffer \in Nat
  BY BufferAssumption DEF TypeOK
<1>7. message.head \in Nat /\ message.head >= 2 /\ message.head <= Len(message.text)
  BY <1>2
<1> QED
  BY <1>1, <1>2, <1>3, <1>4, <1>5, <1>6, <1>7

\* The client's steps bring tokens or the end, and change nothing that was read.
LEMMA SendInv == ASSUME IInv, Send PROVE IInv'
<1>1. /\ link = "open" /\ sent < Len(message.text) /\ sent' = sent + 1
      /\ UNCHANGED <<message, link, pc, got, remaining, firstRead, result>>
  BY DEF Send
<1>2. TypeOK
  BY DEF IInv
<1>3. TypeOK'
  <2>1. sent' \in 0 .. Len(message.text) /\ got \in 0 .. sent'
    BY <1>1, <1>2, Facts
  <2> QED
    BY <1>1, <1>2, <2>1 DEF TypeOK
<1>4. CutHeaderInv' /\ NeverWaitsInVain' /\ OnlyBadLengthsThrow'
  BY <1>1 DEF IInv, CutHeaderInv, NeverWaitsInVain, OnlyBadLengthsThrow
<1>5. ReadAll => ReadAll'
  BY <1>1 DEF ReadAll
<1>6. WholeHeaderInv'
  BY <1>1, <1>5 DEF IInv, WholeHeaderInv
<1> QED
  BY <1>3, <1>4, <1>6 DEF IInv

LEMMA EndLinkInv == ASSUME IInv, EndLink PROVE IInv'
<1>1. /\ link = "open" /\ link' \in {"ended", "reset"}
      /\ UNCHANGED <<message, sent, pc, got, remaining, firstRead, result>>
  BY DEF EndLink
<1>2. TypeOK'
  BY <1>1 DEF IInv, TypeOK
<1>3. CutHeaderInv' /\ NeverWaitsInVain' /\ OnlyBadLengthsThrow'
  BY <1>1 DEF IInv, CutHeaderInv, NeverWaitsInVain, OnlyBadLengthsThrow
<1>4. ReadAll => ReadAll'
  BY <1>1 DEF ReadAll
<1>5. WholeHeaderInv'
  BY <1>1, <1>4 DEF IInv, WholeHeaderInv
<1> QED
  BY <1>2, <1>3, <1>5 DEF IInv

\* The first read takes the headers whole or leaves the request to Parse.
LEMMA FirstReadInv == ASSUME IInv, FirstRead PROVE IInv'
<1> DEFINE m == message
           length == Size(m)
<1>1. PICK n \in 1 .. Buffer :
        /\ CanRead(n) /\ got' = n /\ firstRead' = n
        /\ \E header \in {HeaderOf(SubSeq(m.text, 1, n))} :
             \/ /\ header = <<>> \/ LengthField(header) = <<"absent">>
                /\ pc' = "parse" /\ UNCHANGED remaining
             \/ /\ header # <<>> /\ Parse(header).throws
                /\ pc' = "thrown" /\ UNCHANGED remaining
             \/ /\ header # <<>> /\ LengthField(header) # <<"absent">> /\ ~Parse(header).throws
                /\ remaining' = Number(LengthField(header)) - (n - Len(header))
                /\ pc' = IF remaining' > 0 THEN "more" ELSE "parse"
  BY Zenon DEF FirstRead
<1> DEFINE header == HeaderOf(SubSeq(m.text, 1, n))
<1>2. \/ /\ header = <<>> \/ LengthField(header) = <<"absent">>
         /\ pc' = "parse" /\ UNCHANGED remaining
      \/ /\ header # <<>> /\ Parse(header).throws
         /\ pc' = "thrown" /\ UNCHANGED remaining
      \/ /\ header # <<>> /\ LengthField(header) # <<"absent">> /\ ~Parse(header).throws
         /\ remaining' = Number(LengthField(header)) - (n - Len(header))
         /\ pc' = IF remaining' > 0 THEN "more" ELSE "parse"
  BY <1>1, Zenon
<1>3. /\ pc = "first" /\ got = 0
      /\ UNCHANGED <<message, sent, link, result>>
      /\ TypeOK
  BY DEF FirstRead, IInv, CutHeaderInv
<1>4. /\ m \in Messages /\ m.head \in Nat /\ m.head >= 2 /\ m.head <= Len(m.text)
      /\ Len(m.text) \in Nat /\ sent \in Nat /\ sent <= Len(m.text)
      /\ IsSize(m) => length \in Nat
  BY <1>3, Facts
<1>5. n \in Nat /\ n >= 1 /\ n <= Buffer /\ n <= sent
  <2>1. n \in 1 .. (IF sent - got < Buffer THEN sent - got ELSE Buffer)
    BY <1>1 DEF CanRead
  <2> QED
    BY <1>3, <1>4, <2>1, BufferAssumption
<1>6. n \in 0 .. Len(m.text) /\ got' \in 0 .. sent' /\ firstRead' \in 0 .. Buffer
  BY <1>1, <1>3, <1>4, <1>5, BufferAssumption
<1>7. /\ n < m.head => header = <<>>
      /\ n >= m.head => /\ header = SubSeq(m.text, 1, m.head) /\ header # <<>>
                        /\ Len(header) = m.head /\ LengthField(header) = Field(m)
  BY <1>4, <1>6, HeaderFacts
<1>8. ASSUME n >= m.head
      PROVE  Parse(header).throws <=> Declared(m) /\ ~IsSize(m)
  <2>1. m.head \in m.head .. Len(m.text) /\ header = SubSeq(m.text, 1, m.head)
    BY <1>4, <1>7, <1>8
  <2> HIDE DEF header
  <2> QED
    BY <1>4, <2>1, ParseFacts
<1> HIDE DEF header
\* The three ways on.
<1>9. CASE n < m.head
  <2>1. pc' = "parse" /\ remaining' = remaining
    BY <1>2, <1>7, <1>9
  <2>2. ~HeaderArrivedAtOnce'
    BY <1>1, <1>3, <1>4, <1>5, <1>9
  <2>3. TypeOK'
    BY <1>3, <1>6, <2>1 DEF TypeOK
  <2>4. CutHeaderInv' /\ WholeHeaderInv' /\ NeverWaitsInVain' /\ OnlyBadLengthsThrow'
    BY <1>1, <2>1, <2>2 DEF CutHeaderInv, WholeHeaderInv, NeverWaitsInVain, OnlyBadLengthsThrow
  <2> QED
    BY <2>3, <2>4 DEF IInv
<1>10. CASE n >= m.head /\ ~Declared(m)
  <2>1. header # <<>> /\ LengthField(header) = <<"absent">> /\ ~Parse(header).throws
    BY <1>4, <1>7, <1>8, <1>10, MessageFacts
  <2>2. pc' = "parse" /\ remaining' = remaining
    BY <1>2, <2>1
  <2>3. TypeOK'
    BY <1>3, <1>6, <2>2 DEF TypeOK
  <2>4. ~Declared(message)'
    BY <1>3, <1>10 DEF Declared
  <2>5. CutHeaderInv' /\ WholeHeaderInv' /\ NeverWaitsInVain' /\ OnlyBadLengthsThrow'
    BY <1>1, <1>3, <1>10, <2>2, <2>4
    DEF CutHeaderInv, WholeHeaderInv, NeverWaitsInVain, OnlyBadLengthsThrow
  <2> QED
    BY <2>3, <2>5 DEF IInv
<1>11. CASE n >= m.head /\ Declared(m) /\ ~IsSize(m)
  <2>1. header # <<>> /\ LengthField(header) # <<"absent">> /\ Parse(header).throws
    BY <1>4, <1>7, <1>8, <1>11, MessageFacts
  <2>2. pc' = "thrown" /\ remaining' = remaining
    BY <1>2, <2>1
  <2>3. TypeOK'
    BY <1>3, <1>6, <2>2 DEF TypeOK
  <2>4. Declared(message)' /\ ~IsSize(message)' /\ HeaderArrivedAtOnce'
    BY <1>1, <1>3, <1>11 DEF Declared, IsSize, Size, LastLength
  <2>5. CutHeaderInv' /\ WholeHeaderInv' /\ NeverWaitsInVain' /\ OnlyBadLengthsThrow'
    BY <2>2, <2>4 DEF CutHeaderInv, WholeHeaderInv, NeverWaitsInVain, OnlyBadLengthsThrow
  <2> QED
    BY <2>3, <2>5 DEF IInv
<1>12. CASE n >= m.head /\ IsSize(m)
  <2>1. Declared(m) /\ length = Number(LastLength(m))
    BY <1>4, <1>12, MessageFacts
  <2>2. header # <<>> /\ LengthField(header) # <<"absent">> /\ ~Parse(header).throws
    BY <1>4, <1>7, <1>8, <1>12, <2>1, MessageFacts
  <2>3. /\ remaining' = length - (n - m.head) /\ length \in Nat
        /\ pc' = IF remaining' > 0 THEN "more" ELSE "parse"
    BY <1>2, <1>4, <1>7, <1>12, <2>1, <2>2 DEF Field
  <2>4. TypeOK'
    BY <1>3, <1>4, <1>5, <1>6, <2>3 DEF TypeOK
  <2>5. /\ IsSize(message)' /\ Declared(message)' /\ HeaderArrivedAtOnce'
        /\ Size(message)' = length /\ message' = m
    BY <1>1, <1>3, <1>12, <2>1 DEF Declared, IsSize, Size, LastLength
  <2>6. remaining' = m.head + length - got'
    BY <1>1, <1>4, <1>5, <2>3
  <2>7. ~(remaining' > 0) => got' >= m.head + length
    BY <1>1, <1>4, <1>5, <2>3, <2>6
  <2>8. CutHeaderInv' /\ NeverWaitsInVain' /\ OnlyBadLengthsThrow'
    BY <2>3, <2>5, <2>6 DEF CutHeaderInv, NeverWaitsInVain, OnlyBadLengthsThrow
  <2>9. WholeHeaderInv'
    BY <1>1, <1>12, <2>3, <2>5, <2>7 DEF WholeHeaderInv, ReadAll
  <2> QED
    BY <2>4, <2>8, <2>9 DEF IInv
<1> QED
  BY <1>4, <1>5, <1>9, <1>10, <1>11, <1>12

LEMMA FirstReadFailsInv == ASSUME IInv, FirstReadFails PROVE IInv'
<1>1. /\ pc = "first" /\ pc' = "empty"
      /\ UNCHANGED <<message, sent, link, got, remaining, firstRead, result>>
  BY DEF FirstReadFails
<1>2. got = 0 /\ firstRead = 0 /\ TypeOK
  BY <1>1 DEF IInv, CutHeaderInv
<1>3. TypeOK'
  BY <1>1, <1>2 DEF TypeOK
<1>4. CutHeaderInv' /\ WholeHeaderInv' /\ NeverWaitsInVain' /\ OnlyBadLengthsThrow'
  BY <1>1, <1>2 DEF CutHeaderInv, WholeHeaderInv, NeverWaitsInVain, OnlyBadLengthsThrow
<1> QED
  BY <1>3, <1>4 DEF IInv

\* One more piece: what is missing grows less by what was read.
LEMMA ReadMoreInv == ASSUME IInv, ReadMore PROVE IInv'
<1> DEFINE length == Size(message)
<1>1. PICK n \in 1 .. Buffer : CanRead(n) /\ got' = got + n /\ remaining' = remaining - n
  BY DEF ReadMore
<1>2. /\ pc = "more" /\ pc' = IF remaining' > 0 THEN "more" ELSE "parse"
      /\ UNCHANGED <<message, sent, link, firstRead, result>>
      /\ TypeOK
  BY DEF ReadMore, IInv
<1>3. /\ HeaderArrivedAtOnce /\ IsSize(message)
      /\ remaining = message.head + length - got /\ remaining > 0
  BY <1>2 DEF IInv, NeverWaitsInVain
<1>4. /\ sent \in Nat /\ got \in Nat /\ message.head \in Nat /\ remaining \in Int
      /\ firstRead \in Nat /\ length \in Nat /\ Buffer \in Nat
  BY <1>2, <1>3, Facts
<1>5. n \in Nat /\ n >= 1 /\ n <= sent - got
  <2>1. n \in 1 .. (IF sent - got < Buffer THEN sent - got ELSE Buffer)
    BY <1>1 DEF CanRead
  <2> QED
    BY <1>4, <2>1
<1>6. TypeOK'
  <2>1. got' \in 0 .. sent /\ remaining' \in Int
    BY <1>1, <1>4, <1>5
  <2> QED
    BY <1>2, <2>1 DEF TypeOK
<1>7. /\ IsSize(message)' /\ Declared(message)' /\ HeaderArrivedAtOnce'
      /\ Size(message)' = length
  BY <1>2, <1>3, <1>4 DEF Declared, IsSize, Size, LastLength
<1> HIDE DEF length
<1>8. remaining' = message.head + length - got'
  BY <1>1, <1>3, <1>4, <1>5
<1>9. ~(remaining' > 0) => got' >= message.head + length
  BY <1>1, <1>4, <1>5, <1>8
<1>10. got' >= message.head
  <2>1. got >= message.head
    BY <1>2, <1>3 DEF IInv, WholeHeaderInv
  <2> QED
    BY <1>1, <1>4, <1>5, <2>1
<1>11. CutHeaderInv' /\ NeverWaitsInVain' /\ OnlyBadLengthsThrow'
  BY <1>2, <1>7, <1>8 DEF CutHeaderInv, NeverWaitsInVain, OnlyBadLengthsThrow
<1>12. WholeHeaderInv'
  BY <1>2, <1>7, <1>9, <1>10 DEF WholeHeaderInv, ReadAll
<1> QED
  BY <1>6, <1>11, <1>12 DEF IInv

LEMMA ReadMoreFailsInv == ASSUME IInv, ReadMoreFails PROVE IInv'
<1>1. /\ pc = "more" /\ pc' = "parse" /\ CannotRead
      /\ UNCHANGED <<message, sent, link, got, remaining, firstRead, result>>
  BY DEF ReadMoreFails
<1>2. HeaderArrivedAtOnce /\ IsSize(message) /\ got >= message.head
  BY <1>1 DEF IInv, NeverWaitsInVain, WholeHeaderInv
<1>3. TypeOK'
  BY <1>1 DEF IInv, TypeOK
<1>4. ReadAll'
  BY <1>1 DEF CannotRead, ReadAll
<1>5. CutHeaderInv' /\ NeverWaitsInVain' /\ OnlyBadLengthsThrow'
  BY <1>1, <1>2 DEF CutHeaderInv, NeverWaitsInVain, OnlyBadLengthsThrow
<1>6. WholeHeaderInv'
  BY <1>1, <1>2, <1>4 DEF WholeHeaderInv
<1> QED
  BY <1>3, <1>5, <1>6 DEF IInv

\* Parse makes the body the client declared, of what has been read.
LEMMA ParseRequestInv == ASSUME IInv, ParseRequest PROVE IInv'
<1> DEFINE parsed == Parse(SubSeq(message.text, 1, got))
<1>1. /\ pc = "parse" /\ result' = parsed.body
      /\ pc' = IF parsed.throws THEN "thrown" ELSE "parsed"
      /\ UNCHANGED <<message, sent, link, got, remaining, firstRead>>
      /\ TypeOK
  BY Zenon DEF ParseRequest, Parse, Request, IInv
<1>2. /\ message \in Messages /\ Len(message.text) \in Nat /\ message.head \in Nat
      /\ message.head >= 2 /\ got \in Nat /\ got <= Len(message.text)
      /\ got \in 0 .. Len(message.text)
      /\ IsSize(message) => Declared(message)
  BY <1>1, Facts
<1>3. /\ parsed.body \in Seq(Contents)
      /\ got < message.head => \A i \in DOMAIN parsed.body : parsed.body[i] = "zero"
  BY <1>2, ParseType
<1>4. ASSUME got >= message.head
      PROVE  /\ parsed.throws <=> Declared(message) /\ ~IsSize(message)
             /\ ~Declared(message) =>
                  /\ Len(parsed.body) = got - message.head
                  /\ \A i \in 1 .. got - message.head :
                       parsed.body[i] = message.text[message.head + i]
             /\ IsSize(message) =>
                  /\ Len(parsed.body) = Size(message)
                  /\ \A i \in 1 .. Size(message) :
                       parsed.body[i] = IF message.head + i <= got THEN message.text[message.head + i]
                                        ELSE "zero"
  <2>1. got \in message.head .. Len(message.text)
    BY <1>2, <1>4
  <2>2. \A p : p = parsed =>
          /\ p.throws <=> Declared(message) /\ ~IsSize(message)
          /\ ~Declared(message) =>
               /\ Len(p.body) = got - message.head
               /\ \A i \in 1 .. got - message.head : p.body[i] = message.text[message.head + i]
          /\ IsSize(message) =>
               /\ Len(p.body) = Size(message)
               /\ \A i \in 1 .. Size(message) :
                    p.body[i] = IF message.head + i <= got THEN message.text[message.head + i]
                                ELSE "zero"
    BY <1>2, <2>1, ParseFacts, Zenon
  <2> QED
    BY <2>2, Zenon
<1> HIDE DEF parsed
<1>5. TypeOK'
  BY <1>1, <1>3 DEF TypeOK, Contents
<1>6. NeverWaitsInVain'
  BY <1>1 DEF IInv, NeverWaitsInVain
<1>7. CASE ~HeaderArrivedAtOnce
  <2>1. got = firstRead /\ got < message.head
    <3>1. firstRead \in Nat
      BY <1>1, Facts
    <3> QED
      BY <1>1, <1>2, <1>7, <3>1 DEF IInv, CutHeaderInv
  <2>2. CutHeaderInv'
    BY <1>1, <1>3, <2>1 DEF IInv, CutHeaderInv
  <2> QED
    BY <1>1, <1>5, <1>6, <1>7, <2>2 DEF IInv, WholeHeaderInv, OnlyBadLengthsThrow
<1>8. CASE HeaderArrivedAtOnce
  <2>1. got >= message.head /\ (Declared(message) => IsSize(message) /\ ReadAll)
    BY <1>1, <1>8 DEF IInv, WholeHeaderInv
  <2>2. ~parsed.throws
    BY <1>4, <2>1, Zenon
  <2>3. pc' = "parsed"
    BY <1>1, <2>2
  <2>4. OnlyBadLengthsThrow' /\ CutHeaderInv'
    BY <1>1, <1>8, <2>1, <2>3 DEF OnlyBadLengthsThrow, CutHeaderInv
  <2>5. ReadAll' <=> ReadAll
    BY <1>1 DEF ReadAll
  <2>6. DOMAIN result' = 1 .. Len(result')
    BY <1>1, <1>3
  <2>7. Declared(message) =>
          /\ Len(result') = Size(message)
          /\ \A i \in DOMAIN result' :
               result'[i] = IF message.head + i <= got THEN message.text[message.head + i] ELSE "zero"
    BY <1>1, <1>4, <2>1, <2>6
  <2>8. ~Declared(message) =>
          /\ Len(result') = got - message.head
          /\ \A i \in DOMAIN result' : result'[i] = message.text[message.head + i]
    BY <1>1, <1>4, <2>1, <2>6
  <2>9. WholeHeaderInv'
    BY <1>1, <2>1, <2>3, <2>5, <2>7, <2>8 DEF WholeHeaderInv
  <2> QED
    BY <1>5, <1>6, <2>4, <2>9 DEF IInv
<1> QED
  BY <1>7, <1>8

LEMMA InitIInv == Init => IInv
<1> SUFFICES ASSUME Init PROVE IInv
  OBVIOUS
<1>1. message \in Messages /\ message.head >= 2 /\ message.head \in Nat /\ Len(message.text) \in Nat
  BY MessageFacts DEF Init
<1>2. <<>> \in Seq(Contents)
  OBVIOUS
<1>3. TypeOK
  BY <1>1, <1>2, BufferAssumption DEF Init, TypeOK, Contents
<1>4. ~HeaderArrivedAtOnce
  BY <1>1 DEF Init
<1>5. CutHeaderInv /\ WholeHeaderInv /\ NeverWaitsInVain /\ OnlyBadLengthsThrow
  BY <1>4 DEF Init, CutHeaderInv, WholeHeaderInv, NeverWaitsInVain, OnlyBadLengthsThrow
<1> QED
  BY <1>3, <1>5 DEF IInv

LEMMA NextIInv == IInv /\ [Next]_vars => IInv'
<1> SUFFICES ASSUME IInv, [Next]_vars PROVE IInv'
  OBVIOUS
<1>1. CASE UNCHANGED vars
  <2>1. UNCHANGED <<message, sent, link, pc, got, remaining, firstRead, result>>
    BY <1>1 DEF vars
  <2> QED
    BY <2>1 DEF IInv, TypeOK, CutHeaderInv, WholeHeaderInv, ReadAll, NeverWaitsInVain,
                OnlyBadLengthsThrow
<1>2. CASE Next
  BY <1>1, <1>2, SendInv, EndLinkInv, FirstReadInv, FirstReadFailsInv, ReadMoreInv,
     ReadMoreFailsInv, ParseRequestInv
  DEF Next, ReaderStep
<1> QED
  BY <1>1, <1>2

-----------------------------------------------------------------------------
(* The theorems.                                                           *)

\* The inductive invariant holds in every reachable state, however the message
\* is cut into pieces and whenever the client ends.
THEOREM Invariant == Spec => []IInv
BY InitIInv, NextIInv, PTL DEF Spec

\* The request is always a beginning of what was sent, and a body is made of the
\* bytes of the message and of zeros.
THEOREM TypeCorrectness == Spec => []TypeOK
<1>1. IInv => TypeOK
  BY DEF IInv
<1> QED
  BY <1>1, Invariant, PTL

\* The reader waits for more only while declared bytes are missing, and knows
\* how many (server.cpp:203-221 and 239-257).
THEOREM WaitsForWhatIsMissing == Spec => []NeverWaitsInVain
<1>1. IInv => NeverWaitsInVain
  BY DEF IInv
<1> QED
  BY <1>1, Invariant, PTL

\* With the headers in one read, an exception leaves ReadRequest or Parse exactly
\* for a length that is not written as an int from 0 on, for every range of int
\* (request.cpp:37-38, server.cpp:206-210 and 243-247).
THEOREM ThrowsExactlyOnBadLengths == Spec => []OnlyBadLengthsThrow
<1>1. IInv => OnlyBadLengthsThrow
  BY DEF IInv
<1> QED
  BY <1>1, Invariant, PTL

\* With the headers in one read, the body has the declared length and holds the
\* message's own bytes in place, and zeros only where the client ended before
\* (server.cpp:203-221 and 239-257, request.cpp:35-47).
THEOREM BodiesAreWhatArrived == Spec => []BodyIsWhatArrived
<1>1. ASSUME IInv, pc = "parsed", IsSize(message), HeaderArrivedAtOnce, link # "reset"
      PROVE  /\ Len(result) = Size(message)
             /\ \A i \in DOMAIN result :
                  IF message.head + i <= sent THEN result[i] = message.text[message.head + i]
                  ELSE result[i] = "zero" /\ link = "ended"
  <2> DEFINE length == Size(message)
  <2>1. Declared(message) /\ TypeOK
    BY <1>1 DEF IInv, IsSize
  <2>2. /\ ReadAll /\ Len(result) = length
        /\ \A i \in DOMAIN result :
             result[i] = IF message.head + i <= got THEN message.text[message.head + i] ELSE "zero"
    BY <1>1, <2>1 DEF IInv, WholeHeaderInv
  <2>3. DOMAIN result = 1 .. length /\ length \in Nat
    <3>1. DOMAIN result = 1 .. Len(result) /\ Len(result) \in Nat
      BY <2>1 DEF TypeOK
    <3> QED
      BY <2>2, <3>1
  <2>4. /\ got \in Nat /\ sent \in Nat /\ got <= sent /\ message.head \in Nat
    BY <2>1, Facts
  <2>5. got >= message.head + length \/ (link = "ended" /\ got = sent)
    BY <1>1, <2>2 DEF ReadAll
  <2> HIDE DEF length
  <2>6. ASSUME NEW i \in DOMAIN result
        PROVE  IF message.head + i <= sent THEN result[i] = message.text[message.head + i]
               ELSE result[i] = "zero" /\ link = "ended"
    <3>1. i \in Nat /\ i <= length
      BY <2>3, <2>6
    <3>2. CASE message.head + i <= sent
      <4>1. message.head + i <= got
        BY <2>3, <2>4, <2>5, <3>1, <3>2
      <4> QED
        BY <2>2, <2>6, <3>2, <4>1
    <3>3. CASE ~(message.head + i <= sent)
      <4>1. ~(message.head + i <= got) /\ ~(got >= message.head + length)
        BY <2>3, <2>4, <3>1, <3>3
      <4> QED
        BY <2>2, <2>5, <2>6, <3>3, <4>1
    <3> QED
      BY <3>2, <3>3
  <2> QED
    BY <2>2, <2>6 DEF length
<1>2. IInv => BodyIsWhatArrived
  BY <1>1 DEF BodyIsWhatArrived
<1> QED
  BY <1>2, Invariant, PTL

\* A POST to /submit is acknowledged only for a body that has arrived whole, and
\* always if the client declared its body and stays (main:146-178,
\* request.cpp:35-47).
THEOREM AcknowledgementsAreDeserved == Spec => []AcknowledgedSubmitsAreWhole
<1>1. ASSUME IInv, pc = "parsed"
      PROVE  /\ TypeOK /\ message \in Messages
             /\ got \in Nat /\ sent \in Nat /\ got <= sent /\ sent <= Len(message.text)
             /\ Len(message.text) \in Nat /\ message.head \in Nat /\ message.body \in Nat
             /\ message.head + message.body <= Len(message.text)
             /\ DOMAIN result = 1 .. Len(result) /\ Len(result) \in Nat
             /\ \A i \in 1 .. Len(message.text) - message.head :
                  message.text[message.head + i] = BodyToken(i, message.body)
  <2>1. TypeOK
    BY <1>1 DEF IInv
  <2>2. DOMAIN result = 1 .. Len(result) /\ Len(result) \in Nat
    BY <2>1 DEF TypeOK
  <2> QED
    BY <2>1, <2>2, Facts, BodyTokenFacts
<1>2. ASSUME IInv, pc = "parsed", NEW i \in DOMAIN result, result[i] # "zero"
      PROVE  /\ HeaderArrivedAtOnce /\ message.head + i <= sent
             /\ result[i] = message.text[message.head + i] /\ result[i] = BodyToken(i, message.body)
  <2>1. HeaderArrivedAtOnce
    BY <1>2 DEF IInv, CutHeaderInv
  <2>2. i \in Nat /\ i >= 1
    BY <1>1, <1>2
  <2>3. message.head + i <= got /\ result[i] = message.text[message.head + i]
    <3>1. CASE Declared(message)
      BY <1>2, <2>1, <3>1 DEF IInv, WholeHeaderInv
    <3>2. CASE ~Declared(message)
      <4>1. Len(result) = got - message.head /\ result[i] = message.text[message.head + i]
        BY <1>2, <2>1, <3>2 DEF IInv, WholeHeaderInv
      <4> QED
        BY <1>1, <1>2, <2>2, <4>1
    <3> QED
      BY <3>1, <3>2
  <2>4. message.head + i <= sent /\ i \in 1 .. Len(message.text) - message.head
    BY <1>1, <1>2, <2>2, <2>3
  <2> QED
    BY <1>1, <1>2, <2>1, <2>3, <2>4
<1>3. ASSUME IInv, pc = "parsed", Submit(result) = 200
      PROVE  /\ message.body >= 2 /\ sent >= message.head + message.body
             /\ \A i \in 1 .. message.body : result[i] = message.text[message.head + i]
  <2>1. PICK k \in 2 .. Len(result) :
          result[1] = "open" /\ result[k] = "close" /\ \A i \in 2 .. k - 1 : result[i] = "byte"
    BY <1>3 DEF Submit
  <2>2. k \in Nat /\ k >= 2 /\ k \in DOMAIN result /\ \A i \in 1 .. k : i \in DOMAIN result
    BY <1>1, <1>3
  <2>3. \A i \in 1 .. k : result[i] # "zero"
    <3> SUFFICES ASSUME NEW i \in 1 .. k PROVE result[i] # "zero"
      OBVIOUS
    <3>1. i = 1 \/ i = k \/ i \in 2 .. k - 1
      BY <2>2
    <3> QED
      BY <2>1, <3>1
  <2>4. BodyToken(k, message.body) = "close" /\ message.head + k <= sent
    BY <1>2, <1>3, <2>1, <2>2
  <2>5. k = message.body
    BY <2>2, <2>4 DEF BodyToken
  <2>6. \A i \in 1 .. k : result[i] = message.text[message.head + i]
    BY <1>2, <1>3, <2>2, <2>3
  <2> QED
    BY <2>2, <2>4, <2>5, <2>6
<1>4. ASSUME IInv, pc = "parsed", link = "open", HeaderArrivedAtOnce, message.body >= 2,
             IsSize(message), Size(message) = message.body
      PROVE  Submit(result) = 200
  <2> DEFINE k == message.body
  <2>1. Declared(message)
    BY <1>4 DEF IsSize
  <2>2. /\ Len(result) = k /\ got >= message.head + k
        /\ \A i \in DOMAIN result :
             result[i] = IF message.head + i <= got THEN message.text[message.head + i] ELSE "zero"
    BY <1>4, <2>1 DEF IInv, WholeHeaderInv, ReadAll
  <2>3. k \in 2 .. Len(result)
    BY <1>1, <1>4, <2>2
  <2>4. \A i \in 1 .. k : result[i] = BodyToken(i, k)
    <3> SUFFICES ASSUME NEW i \in 1 .. k PROVE result[i] = BodyToken(i, k)
      OBVIOUS
    <3>1. /\ i \in DOMAIN result /\ message.head + i <= got
          /\ i \in 1 .. Len(message.text) - message.head
      BY <1>1, <1>4, <2>2
    <3> QED
      BY <1>1, <1>4, <2>2, <3>1
  <2> HIDE DEF k
  <2>5. result[1] = "open" /\ result[k] = "close" /\ \A i \in 2 .. k - 1 : result[i] = "byte"
    <3>1. k \in Nat /\ k >= 2
      BY <1>1, <2>3
    <3>2. BodyToken(1, k) = "open" /\ BodyToken(k, k) = "close"
      BY <3>1 DEF BodyToken
    <3>3. \A i \in 2 .. k - 1 : BodyToken(i, k) = "byte" /\ i \in 1 .. k
      BY <3>1 DEF BodyToken
    <3>4. 1 \in 1 .. k /\ k \in 1 .. k
      BY <3>1
    <3> QED
      BY <2>4, <3>2, <3>3, <3>4
  <2>6. k = Len(result)
    BY <2>2 DEF k
  <2> QED
    BY <2>3, <2>5, <2>6 DEF Submit
<1>5. IInv => AcknowledgedSubmitsAreWhole
  BY <1>3, <1>4 DEF AcknowledgedSubmitsAreWhole
<1> QED
  BY <1>5, Invariant, PTL
=============================================================================
