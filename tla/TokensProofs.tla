---------------------------- MODULE TokensProofs -----------------------------
(***************************************************************************)
(* Theorems about OutputTokens, for commands that write any number of      *)
(* bytes.                                                                  *)
(***************************************************************************)
EXTENDS OutputTokens, TLAPS

-----------------------------------------------------------------------------
(* Where what is held stands in what was written. *)

Types ==
  /\ written \in Seq(Bytes)
  /\ pipe \in {"open", "eof", "broken"}
  /\ cancelled \in BOOLEAN
  /\ pc \in {"readToken", "readCarriageReturn", "select", "done"}
  /\ buf \in Seq({"text", "raw"})
  /\ delim \in {<<>>, <<"cr">>, <<"lf">>, <<"cr", "lf">>}
  /\ mark \in Nat /\ pos \in Nat /\ pos <= Len(written)

\* A carriage return that is in neither buf nor delim.
Pending == IF pc = "readCarriageReturn" THEN 1 ELSE 0

\* The delimiter is what is written before pos.
Delimited ==
  \/ delim = <<>> /\ buf # <<>> /\ pipe = "eof" /\ pos = Len(written)
  \/ delim = <<"lf">> /\ written[pos] = "lf"
  \/ delim = <<"cr">> /\ written[pos] = "cr" /\ (LineEnd(pos) \/ pipe = "broken")
  \/ delim = <<"cr", "lf">> /\ written[pos - 1] = "cr" /\ written[pos] = "lf"

\* buf, then a carriage return or the delimiter, is what was written after mark.
Held ==
  /\ mark + Len(buf) + Len(delim) + Pending = pos
  /\ \A k \in 1..Len(buf) : buf[k] = written[mark + k]
  /\ pc \in {"readToken", "readCarriageReturn"} => delim = <<>>
  /\ pc = "readCarriageReturn" => written[pos] = "cr"
  /\ pc = "select" => Delimited

\* The goroutine ends for one of three reasons.
Ended ==
  pc = "done" => cancelled \/ pipe = "broken" \/ (pipe = "eof" /\ mark = Len(written))

Reading == Types /\ Held /\ Ended

\* The initial state.
LEMMA ReadingInit == Init => Reading
<1> SUFFICES ASSUME Init PROVE Reading
  OBVIOUS
<1>1. Types
  <2>1. written \in Seq(Bytes) /\ buf \in Seq({"text", "raw"}) /\ Len(written) = 0
    BY DEF Init
  <2>2. delim \in {<<>>, <<"cr">>, <<"lf">>, <<"cr", "lf">>}
    BY DEF Init
  <2>3. mark \in Nat /\ pos \in Nat /\ pos <= Len(written)
    BY <2>1 DEF Init
  <2> QED
    BY <2>1, <2>2, <2>3 DEF Init, Types
<1>2. Held
  BY DEF Init, Held, Pending
<1>3. Ended
  BY DEF Init, Ended
<1> QED
  BY <1>1, <1>2, <1>3 DEF Reading

\* One more byte leaves the others where they are.
LEMMA AppendKeeps ==
  ASSUME NEW S, NEW q \in Seq(S), NEW e \in S
  PROVE  /\ Append(q, e) \in Seq(S)
         /\ Len(Append(q, e)) = Len(q) + 1
         /\ \A i \in 1..Len(q) : Append(q, e)[i] = q[i]
         /\ Append(q, e)[Len(q) + 1] = e
OBVIOUS

\* The lengths of the delimiters.
LEMMA DelimiterLengths ==
  Len(<<>>) = 0 /\ Len(<<"cr">>) = 1 /\ Len(<<"lf">>) = 1 /\ Len(<<"cr", "lf">>) = 2
OBVIOUS

\* The types and the places of what is held, step by step.
LEMMA ReadingStays == Reading /\ [Next]_vars => Reading'
<1> SUFFICES ASSUME Reading, [Next]_vars PROVE Reading'
  OBVIOUS
<1> USE DEF Reading, Types, Held, Ended, Pending, Available, NextByte, Fails
<1>0. \A i \in 1..Len(written) : written[i] \in Bytes
  OBVIOUS
<1>1. CASE ReadText
  <2>1. NextByte \in {"text", "raw"} /\ pos + 1 \in 1..Len(written)
    BY <1>0, <1>1 DEF ReadText, Bytes
  <2>2. /\ buf' \in Seq({"text", "raw"}) /\ Len(buf') = Len(buf) + 1
        /\ \A i \in 1..Len(buf) : buf'[i] = buf[i]
        /\ buf'[Len(buf) + 1] = written[pos + 1]
    BY <1>1, <2>1, AppendKeeps DEF ReadText
  <2> QED
    BY <1>1, <2>1, <2>2 DEF ReadText
<1>2. CASE ReadLineFeed
  BY <1>2, DelimiterLengths DEF ReadLineFeed, Delimited
<1>3. CASE ReadCarriageReturn
  BY <1>3 DEF ReadCarriageReturn
<1>4. CASE handleReadError
  BY <1>4 DEF handleReadError, Delimited
<1>5. CASE LineFeedFollows
  <2>1. pos' - 1 = pos /\ pos' \in Nat /\ pos' <= Len(written)
    BY <1>5 DEF LineFeedFollows
  <2>2. Delimited'
    BY <1>5, <2>1 DEF LineFeedFollows, Delimited
  <2> QED
    BY <1>5, <2>1, <2>2, DelimiterLengths DEF LineFeedFollows
<1>6. CASE OtherByteFollows
  BY <1>6 DEF OtherByteFollows, Delimited, LineEnd, Stream!LineEnd
<1>7. CASE NothingFollows
  BY <1>7 DEF NothingFollows, Delimited, LineEnd, Stream!LineEnd
<1>8. CASE Send
  BY <1>8 DEF Send
<1>9. CASE SendCancelled
  BY <1>9 DEF SendCancelled
<1>10. ASSUME NEW b \in Bytes, Write(b) PROVE Reading'
  <2>1. /\ written' \in Seq(Bytes) /\ Len(written') = Len(written) + 1
        /\ \A i \in 1..Len(written) : written'[i] = written[i]
    BY <1>10, AppendKeeps DEF Write
  <2>2. ASSUME Delimited, pc = "select" PROVE Delimited'
    <3>1. delim # <<>> => pos \in 1..Len(written)
      BY DelimiterLengths
    <3>2. delim = <<"cr", "lf">> => pos - 1 \in 1..Len(written)
      BY DelimiterLengths
    <3>3. CASE delim = <<>>
      BY <1>10, <2>2, <3>3 DEF Write, Delimited
    <3>4. CASE delim = <<"lf">>
      BY <1>10, <2>1, <2>2, <3>1, <3>4 DEF Write, Delimited
    <3>5. CASE delim = <<"cr">>
      BY <1>10, <2>1, <2>2, <3>1, <3>5 DEF Write, Delimited, LineEnd, Stream!LineEnd
    <3>6. CASE delim = <<"cr", "lf">>
      BY <1>10, <2>1, <2>2, <3>1, <3>2, <3>6 DEF Write, Delimited
    <3> QED
      BY <3>3, <3>4, <3>5, <3>6
  <2> QED
    BY <1>10, <2>1, <2>2 DEF Write
<1>11. CASE Close
  BY <1>11 DEF Close, Delimited, LineEnd, Stream!LineEnd
<1>12. CASE Cancel
  BY <1>12 DEF Cancel, Delimited, LineEnd, Stream!LineEnd
<1>13. CASE UNCHANGED vars
  BY <1>13 DEF vars, Delimited, LineEnd, Stream!LineEnd
<1> QED
  BY <1>1, <1>2, <1>3, <1>4, <1>5, <1>6, <1>7, <1>8, <1>9, <1>10, <1>11, <1>12, <1>13
     DEF Next, streamOutput, readToken, readCarriageReturn

\* Where the goroutine waits for the next byte, what it holds is no finished line.
LEMMA HeldIsUnfinished == Reading => OnlyUnfinishedHeld
<1> SUFFICES ASSUME Reading, pc \in {"readToken", "readCarriageReturn"},
                    NEW i \in (mark + 1)..pos, ~(i = pos /\ written[i] = "cr")
             PROVE  ~LineEnd(i)
  BY DEF OnlyUnfinishedHeld
<1>1. i - mark \in 1..Len(buf)
  BY DEF Reading, Types, Held, Pending
<1>2. written[i] \in {"text", "raw"}
  <2>1. buf[i - mark] \in {"text", "raw"}
    BY <1>1 DEF Reading, Types
  <2>2. buf[i - mark] = written[mark + (i - mark)]
    BY <1>1 DEF Reading, Held
  <2>3. mark + (i - mark) = i
    BY DEF Reading, Types
  <2> QED
    BY <2>1, <2>2, <2>3
<1> QED
  BY <1>2 DEF LineEnd, Stream!LineEnd

-----------------------------------------------------------------------------
(* Where tokens are cut. *)

\* A token that is sent takes the bytes up to pos, and no line ends before its end.
LEMMA OneLine ==
  ASSUME Reading, Send
  PROVE  /\ mark' = pos /\ mark < pos /\ Delimited
         /\ \A i \in (mark + 1)..(pos - 1) : ~LineEnd(i)
<1> USE DEF Reading, Types
<1>1. mark' = pos /\ mark < pos /\ Delimited
  <2>1. Delimited /\ mark + Len(buf) + Len(delim) = pos /\ mark' = mark + Len(buf) + Len(delim)
    BY DEF Send, Held, Pending
  <2>2. Len(buf) + Len(delim) > 0 /\ Len(buf) \in Nat /\ Len(delim) \in Nat
    <3>1. CASE delim = <<>>
      BY <2>1, <3>1 DEF Delimited
    <3>2. CASE delim # <<>>
      BY <3>2, DelimiterLengths
    <3> QED
      BY <3>1, <3>2
  <2> QED
    BY <2>1, <2>2
<1>2. ASSUME NEW i \in (mark + 1)..(pos - 1) PROVE ~LineEnd(i)
  <2>1. mark + Len(buf) + Len(delim) = pos
    BY DEF Held, Pending, Send
  <2>2. CASE i - mark <= Len(buf)
    <3>1. i - mark \in 1..Len(buf) /\ mark + (i - mark) = i
      BY <2>2
    <3>2. buf[i - mark] = written[mark + (i - mark)] /\ buf[i - mark] \in {"text", "raw"}
      BY <3>1 DEF Held
    <3>3. written[i] \in {"text", "raw"}
      BY <3>1, <3>2
    <3> QED
      BY <3>3 DEF LineEnd, Stream!LineEnd
  <2>3. CASE i - mark > Len(buf)
    <3>1. CASE delim # <<"cr", "lf">>
      <4>1. Len(delim) \in {0, 1}
        BY <3>1, DelimiterLengths
      <4>2. PICK n \in {0, 1} : mark + Len(buf) + n = pos
        BY <2>1, <4>1
      <4> QED
        BY <2>3, <4>2
    <3>2. CASE delim = <<"cr", "lf">>
      <4>1. Len(delim) = 2
        BY <3>2, DelimiterLengths
      <4>2. i = pos - 1
        BY <2>1, <2>3, <4>1
      <4> QED
        BY <1>1, <3>2, <4>2 DEF LineEnd, Stream!LineEnd, Delimited
    <3> QED
      BY <3>1, <3>2
  <2> QED
    BY <2>2, <2>3
<1> QED
  BY <1>1, <1>2

-----------------------------------------------------------------------------
(* What is shown. *)

Screen == {"cr", "lf", "text", "ufffd"}

Shown(n) ==
  /\ shown \in Seq(Screen)
  /\ Len(shown) = n
  /\ \A i \in 1..mark : shown[i] = IF written[i] = "raw" THEN "ufffd" ELSE written[i]

\* ShownIsWritten, byte by byte.
Told ==
  \/ Shown(mark)
  \/ Shown(mark + 1) /\ shown[mark + 1] = "lf" /\ pipe = "eof" /\ mark = Len(written)

\* What two sequences make together.
LEMMA ConcatIs ==
  ASSUME NEW S, NEW a \in Seq(S), NEW b \in Seq(S)
  PROVE  /\ a \o b \in Seq(S)
         /\ Len(a \o b) = Len(a) + Len(b)
         /\ \A i \in 1..Len(a) : (a \o b)[i] = a[i]
         /\ \A i \in 1..Len(b) : (a \o b)[Len(a) + i] = b[i]
OBVIOUS

\* JSON keeps the length, and every byte that is text.
LEMMA JsonIs ==
  ASSUME NEW q \in Seq(Bytes)
  PROVE  /\ Json(q) \in Seq(Screen)
         /\ Len(Json(q)) = Len(q)
         /\ \A i \in 1..Len(q) : Json(q)[i] = IF q[i] = "raw" THEN "ufffd" ELSE q[i]
BY DEF Json, Bytes, Screen

\* A token after what there was.
LEMMA TokenAfter ==
  ASSUME NEW S, NEW a \in Seq(S), NEW b \in Seq(S), NEW d \in Seq(S)
  PROVE  /\ a \o (b \o d) \in Seq(S)
         /\ Len(a \o (b \o d)) = Len(a) + Len(b) + Len(d)
         /\ \A i \in 1..Len(a) : (a \o (b \o d))[i] = a[i]
         /\ \A i \in 1..Len(b) : (a \o (b \o d))[Len(a) + i] = b[i]
         /\ \A i \in 1..Len(d) : (a \o (b \o d))[Len(a) + Len(b) + i] = d[i]
<1>1. PICK t \in Seq(S) :
        /\ t = b \o d /\ Len(t) = Len(b) + Len(d)
        /\ \A i \in 1..Len(b) : t[i] = b[i]
        /\ \A i \in 1..Len(d) : t[Len(b) + i] = d[i]
  <2> WITNESS b \o d \in Seq(S)
  <2> QED
    BY ConcatIs
<1>2. /\ a \o t \in Seq(S) /\ Len(a \o t) = Len(a) + Len(t)
      /\ \A i \in 1..Len(a) : (a \o t)[i] = a[i]
      /\ \A i \in 1..Len(t) : (a \o t)[Len(a) + i] = t[i]
  OBVIOUS
<1>3. Len(a) \in Nat /\ Len(b) \in Nat /\ Len(d) \in Nat
  OBVIOUS
<1>4. ASSUME NEW r, r = a \o t, NEW i \in 1..Len(b) PROVE r[Len(a) + i] = b[i]
  BY <1>1, <1>2, <1>3, <1>4
<1>5. ASSUME NEW r, r = a \o t, NEW i \in 1..Len(d) PROVE r[Len(a) + Len(b) + i] = d[i]
  <2>1. Len(b) + i \in 1..Len(t) /\ Len(a) + (Len(b) + i) = Len(a) + Len(b) + i
    BY <1>1, <1>3
  <2>2. r[Len(a) + (Len(b) + i)] = t[Len(b) + i]
    BY <1>2, <1>5, <2>1
  <2> QED
    BY <1>1, <2>1, <2>2
<1> QED
  BY <1>1, <1>2, <1>3, <1>4, <1>5

\* What the client prints for a delimiter.
LEMMA PrintedDelimiter ==
  ASSUME NEW data, NEW del \in {<<>>, <<"cr">>, <<"lf">>, <<"cr", "lf">>},
         del # <<>> \/ data # <<>>
  PROVE  \E d \in Seq(Screen) :
           /\ defaultHandler(data, del) = data \o d
           /\ del # <<>> => d = del
           /\ del = <<>> => d = <<"lf">>
<1>1. CASE del = <<>>
  <2>1. defaultHandler(data, del) = data \o <<"lf">>
    BY <1>1 DEF defaultHandler
  <2>2. <<"lf">> \in Seq(Screen)
    BY DEF Screen
  <2> QED
    BY <1>1, <2>1, <2>2
<1>2. CASE del # <<>>
  <2>1. defaultHandler(data, del) = data \o del
    BY <1>2 DEF defaultHandler
  <2>2. /\ <<"cr">> \in Seq(Screen)
        /\ <<"lf">> \in Seq(Screen)
        /\ <<"cr", "lf">> \in Seq(Screen)
    BY DEF Screen
  <2>3. del \in Seq(Screen)
    BY <1>2, <2>2
  <2> QED
    BY <1>2, <2>1, <2>3
<1> QED
  BY <1>1, <1>2

\* The delimiter of a token is what was written there.
LEMMA DelimiterIsWritten ==
  ASSUME Delimited, pos = mark + Len(buf) + Len(delim), mark + Len(buf) \in Nat
  PROVE  \A k \in 1..Len(delim) :
           /\ delim[k] = written[mark + Len(buf) + k]
           /\ delim[k] \in {"cr", "lf"}
<1> DEFINE m == mark + Len(buf)
<1> HIDE DEF m
<1>0. pos = m + Len(delim) /\ m \in Nat
  BY DEF m
<1>1. CASE delim = <<>>
  BY <1>1, DelimiterLengths
<1>2. CASE delim = <<"lf">> /\ written[pos] = "lf"
  <2>1. pos = m + 1 /\ Len(delim) = 1 /\ delim[1] = "lf"
    BY <1>0, <1>2, DelimiterLengths
  <2> QED
    BY <1>2, <2>1 DEF m
<1>3. CASE delim = <<"cr">> /\ written[pos] = "cr"
  <2>1. pos = m + 1 /\ Len(delim) = 1 /\ delim[1] = "cr"
    BY <1>0, <1>3, DelimiterLengths
  <2> QED
    BY <1>3, <2>1 DEF m
<1>4. CASE delim = <<"cr", "lf">> /\ written[pos - 1] = "cr" /\ written[pos] = "lf"
  <2>1. pos = m + 2 /\ pos - 1 = m + 1 /\ Len(delim) = 2
    BY <1>0, <1>4, DelimiterLengths
  <2>2. delim[1] = "cr" /\ delim[2] = "lf"
    BY <1>4
  <2> QED
    BY <1>4, <2>1, <2>2 DEF m
<1> QED
  BY <1>1, <1>2, <1>3, <1>4 DEF Delimited

\* A token is printed after what was printed before.
LEMMA ToldSend ==
  ASSUME Reading, Told, Send
  PROVE  /\ Told'
         /\ Shown(mark)
         /\ delim # <<>> => Shown(mark)'
         /\ delim = <<>> => Shown(mark + 1)' /\ shown'[mark' + 1] = "lf"
<1>0. /\ mark \in Nat /\ pos \in Nat /\ Len(buf) \in Nat /\ buf \in Seq({"text", "raw"})
      /\ delim \in {<<>>, <<"cr">>, <<"lf">>, <<"cr", "lf">>}
  BY DEF Reading, Types
<1>1. /\ mark' = pos /\ mark + Len(buf) + Len(delim) = pos /\ Delimited
      /\ shown' = shown \o defaultHandler(Json(buf), delim) /\ UNCHANGED <<written, pipe>>
      /\ \A k \in 1..Len(buf) : buf[k] = written[mark + k]
  BY <1>0 DEF Send, Reading, Held, Pending
<1>2. Len(delim) \in Nat /\ Len(buf) + Len(delim) > 0
  <2>1. delim # <<>> => Len(delim) \in 1..2
    BY <1>0, DelimiterLengths
  <2>2. delim = <<>> => Len(buf) > 0 /\ Len(delim) = 0
    BY <1>0, <1>1, DelimiterLengths DEF Delimited
  <2> QED
    BY <1>0, <2>1, <2>2
<1>3. shown \in Seq(Screen) /\ Len(shown) = mark
      /\ \A i \in 1..mark : shown[i] = IF written[i] = "raw" THEN "ufffd" ELSE written[i]
  <2>1. pos <= Len(written)
    BY DEF Reading, Types
  <2>2. ~(mark = Len(written))
    BY <1>0, <1>1, <1>2, <2>1
  <2> QED
    BY <2>2 DEF Told, Shown
<1>4. PICK txt \in Seq(Screen) :
        /\ txt = Json(buf) /\ Len(txt) = Len(buf)
        /\ \A k \in 1..Len(buf) : txt[k] = IF buf[k] = "raw" THEN "ufffd" ELSE buf[k]
  <2>1. buf \in Seq(Bytes)
    BY <1>0 DEF Bytes
  <2> QED
    BY <2>1, JsonIs
<1>5. delim # <<>> \/ txt # <<>>
  BY <1>0, <1>2, <1>4, DelimiterLengths
<1>6. PICK d \in Seq(Screen) :
        /\ defaultHandler(txt, delim) = txt \o d
        /\ delim # <<>> => d = delim
        /\ delim = <<>> => d = <<"lf">>
  BY <1>0, <1>5, PrintedDelimiter
<1>a. PICK t \in Seq(Screen) : t = shown
  BY <1>3
<1>7. /\ shown' \in Seq(Screen) /\ Len(shown') = mark + Len(buf) + Len(d)
      /\ \A i \in 1..mark : shown'[i] = shown[i]
      /\ \A i \in 1..Len(buf) : shown'[mark + i] = txt[i]
      /\ \A i \in 1..Len(d) : shown'[mark + Len(buf) + i] = d[i]
  <2>1. shown' = t \o (txt \o d)
    BY <1>1, <1>4, <1>6, <1>a
  <2>2. PICK r \in Seq(Screen) :
          /\ r = t \o (txt \o d) /\ Len(r) = Len(t) + Len(txt) + Len(d)
          /\ \A i \in 1..Len(t) : r[i] = t[i]
          /\ \A i \in 1..Len(txt) : r[Len(t) + i] = txt[i]
          /\ \A i \in 1..Len(d) : r[Len(t) + Len(txt) + i] = d[i]
    <3> WITNESS t \o (txt \o d) \in Seq(Screen)
    <3> QED
      BY TokenAfter
  <2> QED
    BY <1>3, <1>4, <1>a, <2>1, <2>2
<1>8. \A i \in 1..pos : shown'[i] = IF written[i] = "raw" THEN "ufffd" ELSE written[i]
  <2> SUFFICES ASSUME NEW i \in 1..pos
               PROVE  shown'[i] = IF written[i] = "raw" THEN "ufffd" ELSE written[i]
    OBVIOUS
  <2>1. CASE i <= mark
    BY <1>0, <1>3, <1>7, <2>1
  <2>2. CASE i > mark /\ i <= mark + Len(buf)
    <3> DEFINE k == i - mark
    <3>1. k \in 1..Len(buf) /\ mark + k = i
      BY <1>0, <2>2
    <3> HIDE DEF k
    <3>2. shown'[mark + k] = txt[k]
      BY <1>7, <3>1
    <3> QED
      BY <1>1, <1>4, <3>1, <3>2
  <2>3. CASE i > mark + Len(buf)
    <3> DEFINE k == i - (mark + Len(buf))
    <3>1. k \in 1..Len(delim) /\ mark + Len(buf) + k = i
      BY <1>0, <1>1, <1>2, <2>3
    <3> HIDE DEF k
    <3>2. d = delim
      BY <1>6, <3>1, DelimiterLengths
    <3>3. shown'[mark + Len(buf) + k] = delim[k]
      BY <1>7, <3>1, <3>2
    <3>4. delim[k] = written[mark + Len(buf) + k] /\ delim[k] \in {"cr", "lf"}
      BY <1>0, <1>1, <3>1, DelimiterIsWritten
    <3> QED
      BY <3>1, <3>3, <3>4
  <2> QED
    BY <1>0, <2>1, <2>2, <2>3
<1>9. CASE delim # <<>>
  <2>1. Len(shown') = pos
    BY <1>1, <1>6, <1>7, <1>9
  <2> QED
    BY <1>1, <1>3, <1>7, <1>8, <1>9, <2>1 DEF Told, Shown
<1>10. CASE delim = <<>>
  <2>1. Len(d) = 1 /\ d[1] = "lf" /\ mark + Len(buf) = pos
    <3>1. d = <<"lf">> /\ Len(delim) = 0
      BY <1>6, <1>10, DelimiterLengths
    <3> QED
      BY <1>0, <1>1, <3>1
  <2>2. Len(shown') = pos + 1 /\ shown'[pos + 1] = "lf"
    BY <1>7, <2>1
  <2>3. pipe = "eof" /\ pos = Len(written)
    BY <1>1, <1>10 DEF Delimited
  <2> QED
    BY <1>1, <1>3, <1>7, <1>8, <1>10, <2>2, <2>3 DEF Told, Shown
<1> QED
  BY <1>9, <1>10

\* The other steps print nothing, and what was written stays.
LEMMA ToldStays == Reading /\ Told /\ [Next]_vars => Told'
<1> SUFFICES ASSUME Reading, Told, [Next]_vars PROVE Told'
  OBVIOUS
<1>1. CASE Send
  BY <1>1, ToldSend
<1>2. ASSUME NEW b \in Bytes, Write(b) PROVE Told'
  <2>1. /\ pipe = "open" /\ UNCHANGED <<shown, mark>> /\ mark <= Len(written)
        /\ \A i \in 1..Len(written) : written'[i] = written[i]
    BY <1>2, AppendKeeps DEF Write, Reading, Types, Held, Pending
  <2> QED
    BY <2>1 DEF Told, Shown, Reading, Types
<1>3. CASE Close
  BY <1>3 DEF Close, Told, Shown
<1>4. CASE UNCHANGED <<written, pipe, mark, shown>>
  BY <1>4 DEF Told, Shown
<1> QED
  BY <1>1, <1>2, <1>3, <1>4
     DEF Next, streamOutput, readToken, readCarriageReturn, ReadText, ReadLineFeed,
         ReadCarriageReturn, handleReadError, LineFeedFollows, OtherByteFollows,
         NothingFollows, SendCancelled, Cancel, vars

-----------------------------------------------------------------------------
(* The inductive invariant, and what follows from it. *)

Invariant == Reading /\ Told

\* It holds at first, and every step keeps it.
THEOREM InvariantHolds == Spec => []Invariant
<1>1. Init => Invariant
  <2> SUFFICES ASSUME Init PROVE Invariant
    OBVIOUS
  <2>1. shown \in Seq(Screen) /\ Len(shown) = 0 /\ mark = 0
    BY DEF Init
  <2> QED
    BY <2>1, ReadingInit DEF Invariant, Told, Shown
<1>2. Invariant /\ [Next]_vars => Invariant'
  BY ReadingStays, ToldStays DEF Invariant
<1> QED
  BY <1>1, <1>2, PTL DEF Spec

\* The state is well typed, and no byte is in two tokens.
THEOREM TypeCorrect == Spec => []TypeOK
<1>1. Invariant => TypeOK
  <2> SUFFICES ASSUME Invariant PROVE TypeOK
    OBVIOUS
  <2>1. mark <= pos
    BY DelimiterLengths DEF Invariant, Reading, Types, Held, Pending
  <2> QED
    BY <2>1 DEF Invariant, Reading, Types, Told, Shown, Screen, TypeOK
<1> QED
  BY <1>1, InvariantHolds, PTL

\* No finished line is held back.
THEOREM FinishedNotHeld == Spec => []OnlyUnfinishedHeld
<1>1. Invariant => OnlyUnfinishedHeld
  BY HeldIsUnfinished DEF Invariant
<1> QED
  BY <1>1, InvariantHolds, PTL

\* The end of the file loses nothing.
THEOREM EndLosesNothing == Spec => []NothingLost
<1>1. Invariant => NothingLost
  BY DEF Invariant, Reading, Ended, NothingLost
<1> QED
  BY <1>1, InvariantHolds, PTL

\* The terminal shows what the command wrote.
THEOREM TerminalIsTrue == Spec => []ShownIsWritten
<1>1. Invariant => ShownIsWritten
  <2> SUFFICES ASSUME Invariant PROVE ShownIsWritten
    OBVIOUS
  <2> DEFINE told == Json(SubSeq(written, 1, mark))
  <2>1. mark \in Nat /\ mark <= Len(written) /\ written \in Seq(Bytes)
    BY DelimiterLengths DEF Invariant, Reading, Types, Held, Pending
  <2>2. /\ told \in Seq(Screen) /\ Len(told) = mark
        /\ \A i \in 1..mark : told[i] = IF written[i] = "raw" THEN "ufffd" ELSE written[i]
    <3>1. /\ SubSeq(written, 1, mark) \in Seq(Bytes) /\ Len(SubSeq(written, 1, mark)) = mark
          /\ \A i \in 1..mark : SubSeq(written, 1, mark)[i] = written[i]
      BY <2>1
    <3> DEFINE q == SubSeq(written, 1, mark)
    <3> HIDE DEF q
    <3>2. /\ Json(q) \in Seq(Screen) /\ Len(Json(q)) = mark
          /\ \A i \in 1..mark : Json(q)[i] = IF q[i] = "raw" THEN "ufffd" ELSE q[i]
      BY <3>1, JsonIs DEF q
    <3> QED
      BY <3>1, <3>2 DEF q
  <2> HIDE DEF told
  <2>3. CASE Shown(mark)
    <3>1. shown = told
      BY <2>1, <2>2, <2>3 DEF Shown
    <3> QED
      BY <3>1 DEF ShownIsWritten, told
  <2>4. CASE Shown(mark + 1) /\ shown[mark + 1] = "lf" /\ pipe = "eof" /\ mark = Len(written)
    <3>1. shown = Append(told, "lf")
      BY <2>1, <2>2, <2>4 DEF Shown
    <3> QED
      BY <2>4, <3>1 DEF ShownIsWritten, told
  <2> QED
    BY <2>3, <2>4 DEF Invariant, Told
<1> QED
  BY <1>1, InvariantHolds, PTL

-----------------------------------------------------------------------------
(* The abstract stream. *)

\* What the terminal shows of some of the bytes.
LEMMA Displayed ==
  ASSUME NEW a \in Nat, NEW b \in Nat, written \in Seq(Bytes), a < b, b <= Len(written)
  PROVE  /\ Json(SubSeq(written, a + 1, b)) \in Seq(Screen)
         /\ Len(Json(SubSeq(written, a + 1, b))) = b - a
         /\ \A i \in 1..(b - a) : Json(SubSeq(written, a + 1, b))[i] =
              IF written[a + i] = "raw" THEN "ufffd" ELSE written[a + i]
<1> DEFINE q == SubSeq(written, a + 1, b)
<1>1. q \in Seq(Bytes) /\ Len(q) = b - a /\ \A i \in 1..(b - a) : q[i] = written[a + i]
  OBVIOUS
<1> HIDE DEF q
<1>2. /\ Json(q) \in Seq(Screen) /\ Len(Json(q)) = b - a
      /\ \A i \in 1..(b - a) : Json(q)[i] = IF q[i] = "raw" THEN "ufffd" ELSE q[i]
  BY <1>1, JsonIs
<1> QED
  BY <1>1, <1>2 DEF q

\* Sending a token shows the rest of a line.
LEMMA SendShows ==
  ASSUME Invariant, Send
  PROVE  Stream!Next
<1>1. /\ Reading /\ Told /\ mark' = pos /\ mark < pos /\ Delimited
      /\ \A i \in (mark + 1)..(pos - 1) : ~LineEnd(i)
  BY OneLine DEF Invariant
<1>2. /\ mark \in Nat /\ pos \in Nat /\ pos <= Len(written) /\ written \in Seq(Bytes)
      /\ delim \in {<<>>, <<"cr">>, <<"lf">>, <<"cr", "lf">>}
      /\ buf \in Seq({"text", "raw"})
  BY <1>1 DEF Reading, Types
<1>3. UNCHANGED <<written, pipe>>
  BY DEF Send
<1>4. /\ Shown(mark)
      /\ delim # <<>> => Shown(mark)'
      /\ delim = <<>> => Shown(mark + 1)' /\ shown'[mark' + 1] = "lf"
  BY <1>1, ToldSend
<1>5. PICK seg \in Seq(Screen) :
        /\ seg = Json(SubSeq(written, mark + 1, pos)) /\ Len(seg) = pos - mark
        /\ \A i \in 1..(pos - mark) : seg[i] =
             IF written[mark + i] = "raw" THEN "ufffd" ELSE written[mark + i]
  BY <1>1, <1>2, Displayed
<1>6. PICK before \in Seq(Screen) :
        /\ before = shown /\ Len(before) = mark
        /\ \A i \in 1..mark : before[i] = IF written[i] = "raw" THEN "ufffd" ELSE written[i]
  BY <1>4 DEF Shown
<1>7. PICK both \in Seq(Screen) :
        /\ both = before \o seg /\ Len(both) = pos
        /\ \A i \in 1..mark : both[i] = before[i]
        /\ \A i \in 1..(pos - mark) : both[mark + i] = seg[i]
  <2>1. before \o seg \in Seq(Screen) /\ Len(before \o seg) = Len(before) + Len(seg)
    BY ConcatIs
  <2>2. /\ \A i \in 1..mark : (before \o seg)[i] = before[i]
        /\ \A i \in 1..(pos - mark) : (before \o seg)[mark + i] = seg[i]
    BY <1>2, <1>5, <1>6
  <2>3. Len(before) + Len(seg) = pos
    BY <1>2, <1>5, <1>6
  <2> QED
    BY <2>1, <2>2, <2>3
<1>8. \A i \in 1..pos : both[i] = IF written[i] = "raw" THEN "ufffd" ELSE written[i]
  <2> SUFFICES ASSUME NEW i \in 1..pos
               PROVE  both[i] = IF written[i] = "raw" THEN "ufffd" ELSE written[i]
    OBVIOUS
  <2>1. CASE i <= mark
    BY <1>2, <1>6, <1>7, <2>1
  <2>2. CASE i > mark
    <3>1. i - mark \in 1..(pos - mark) /\ mark + (i - mark) = i
      BY <1>2, <2>2
    <3> QED
      BY <1>5, <1>7, <3>1
  <2> QED
    BY <1>2, <2>1, <2>2
<1>9. CASE delim # <<>>
  <2>1. shown' = both
    <3>1. shown' \in Seq(Screen) /\ Len(shown') = pos
      BY <1>1, <1>4, <1>9 DEF Shown
    <3>2. \A i \in 1..pos : shown'[i] = both[i]
      BY <1>1, <1>3, <1>4, <1>8, <1>9 DEF Shown
    <3> QED
      BY <1>2, <1>7, <3>1, <3>2
  <2>2. shown' = shown \o Json(SubSeq(written, mark + 1, pos)) \o <<>>
    <3>1. both \o <<>> = both
      OBVIOUS
    <3> QED
      BY <1>5, <1>6, <1>7, <2>1, <3>1
  <2>3. Stream!Show(pos, <<>>)
    BY <1>1, <1>3, <2>2 DEF Stream!Show, LineEnd
  <2>4. Stream!LineEnd(pos) \/ (pipe = "broken" /\ written[pos] = "cr")
    BY <1>1, <1>9 DEF Delimited, LineEnd, Stream!LineEnd
  <2>5. pos \in (mark + 1)..Len(written)
    BY <1>1, <1>2
  <2> QED
    BY <2>3, <2>4, <2>5 DEF Stream!Next, Stream!ShowLine, Stream!ShowCut
<1>10. CASE delim = <<>>
  <2>1. pipe = "eof" /\ pos = Len(written) /\ buf # <<>>
    BY <1>1, <1>10 DEF Delimited
  <2>2. ~LineEnd(pos)
    <3>1. mark + Len(buf) = pos /\ Len(buf) \in 1..Len(buf)
      BY <1>1, <1>2, <1>10, <2>1, DelimiterLengths DEF Reading, Held, Pending, Send
    <3>2. buf[Len(buf)] = written[pos] /\ buf[Len(buf)] \in {"text", "raw"}
      BY <1>1, <1>2, <3>1 DEF Reading, Held
    <3> QED
      BY <3>2 DEF LineEnd, Stream!LineEnd
  <2>3. shown' = Append(both, "lf")
    <3>1. shown' \in Seq(Screen) /\ Len(shown') = pos + 1 /\ shown'[pos + 1] = "lf"
      BY <1>1, <1>4, <1>10 DEF Shown
    <3>2. \A i \in 1..pos : shown'[i] = both[i]
      BY <1>1, <1>3, <1>4, <1>8, <1>10 DEF Shown
    <3> QED
      BY <1>2, <1>7, <3>1, <3>2
  <2>4. shown' = shown \o Json(SubSeq(written, mark + 1, pos)) \o <<"lf">>
    <3>1. Append(both, "lf") = both \o <<"lf">>
      OBVIOUS
    <3> QED
      BY <1>5, <1>6, <1>7, <2>3, <3>1
  <2>5. Stream!Show(Len(written), <<"lf">>)
    BY <1>1, <1>3, <2>1, <2>4 DEF Stream!Show, LineEnd
  <2> QED
    BY <1>1, <2>1, <2>2, <2>5 DEF Stream!Next, Stream!ShowRest, LineEnd
<1> QED
  BY <1>9, <1>10

\* The tokens of a stream are the lines the command wrote: however its writes, the reads
\* of streamOutput, the end, an error and the cancellation interleave, the terminal goes
\* from line to line.
THEOREM TokensAreLines == Spec => ImplementsLineStream
<1>1. Init => Stream!Init
  BY DEF Init, Stream!Init
<1>2. Invariant /\ [Next]_vars => [Stream!Next]_(Stream!vars)
  <2> SUFFICES ASSUME Invariant, [Next]_vars PROVE [Stream!Next]_(Stream!vars)
    OBVIOUS
  <2>1. CASE Send
    BY <2>1, SendShows
  <2>2. ASSUME NEW b \in Bytes, Write(b) PROVE Stream!Next
    BY <2>2 DEF Write, Stream!Next, Stream!Write
  <2>3. CASE Close
    BY <2>3 DEF Close, Stream!Next, Stream!Close
  <2>4. CASE UNCHANGED <<written, pipe, mark, shown>>
    BY <2>4 DEF Stream!vars
  <2> QED
    BY <2>1, <2>2, <2>3, <2>4
       DEF Next, streamOutput, readToken, readCarriageReturn, ReadText, ReadLineFeed,
           ReadCarriageReturn, handleReadError, LineFeedFollows, OtherByteFollows,
           NothingFollows, SendCancelled, Cancel, vars
<1> QED
  BY <1>1, <1>2, InvariantHolds, PTL DEF Spec, ImplementsLineStream, Stream!Spec

=============================================================================
