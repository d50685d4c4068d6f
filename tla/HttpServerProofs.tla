-------------------------- MODULE HttpServerProofs --------------------------
(***************************************************************************)
(* For all requests, the pieces they arrive in and the decisions of the     *)
(* callback: the answers of an HttpServer are delimited, its parser keeps   *)
(* its marks inside the buffer, and, as long as no read ends inside a       *)
(* request, the requests are handled in order and as they were sent.        *)
(***************************************************************************)
EXTENDS HttpServer, HttpParserProofs

Answers == [code : Nat, sized : BOOLEAN]

(* AnswersDelimited with the types it rests on. *)
IInv ==
  /\ state_ \in {"kConnecting", "kConnected", "kDisconnecting", "kDisconnected"}
  /\ answers \in Seq(Answers)
  /\ \A i \in 1..Len(answers) : answers[i].sized = FALSE =>
       i = Len(answers) /\ state_ \in {"kDisconnecting", "kDisconnected"}

(* The answer that goes behind the others is without a length only if the     *)
(* connection is shut down with it.                                           *)
LEMMA ReplyKeeps ==
  ASSUME IInv, NEW code \in Nat, NEW close \in BOOLEAN,
         reply([code |-> code, sized |-> ~close], close)
  PROVE  IInv'
<1> DEFINE a == [code |-> code, sized |-> ~close]
<1>1. a \in Answers /\ (a.sized = FALSE => close)
  BY DEF Answers
<1>2. CASE state_ = "kConnected"
  <2>1. answers' = Append(answers, a)
        /\ state_' = IF close THEN "kDisconnecting" ELSE "kConnected"
    BY <1>2 DEF reply
  <2> HIDE DEF a
  <2>2. /\ Len(answers) \in Nat /\ answers' \in Seq(Answers)
        /\ Len(answers') = Len(answers) + 1
        /\ \A i \in 1..Len(answers) : answers'[i] = answers[i]
        /\ answers'[Len(answers) + 1] = a
    <3>1. answers \in Seq(Answers)
      BY DEF IInv
    <3>. QED
      BY <1>1, <2>1, <3>1, AppendProperties
  <2>3. ASSUME NEW i \in 1..Len(answers'), answers'[i].sized = FALSE
        PROVE  i = Len(answers') /\ state_' = "kDisconnecting"
    <3>1. i \notin 1..Len(answers)
      BY <1>2, <2>2, <2>3 DEF IInv
    <3>2. i = Len(answers) + 1
      BY <2>2, <3>1
    <3>. QED
      BY <1>1, <2>1, <2>2, <2>3, <3>2
  <2>4. state_' \in {"kConnected", "kDisconnecting"}
    BY <2>1
  <2>. QED
    BY <2>2, <2>3, <2>4 DEF IInv
<1>3. CASE state_ # "kConnected"
  BY <1>3 DEF reply, IInv
<1>. QED
  BY <1>2, <1>3

(* Whoever decides about the closing, the response has a length or closes. *)
LEMMA OnRequestKeeps ==
  ASSUME IInv, NEW req, onRequest(req)
  PROVE  IInv'
<1> DEFINE first == HttpResponse(flagClose(req))
<1>1. PICK resp \in http_cb_(first) :
        reply(appendToBuffer(resp), resp.close_connection_)
  BY DEF onRequest
<1>2. first.close_connection_ \in BOOLEAN
      /\ first = [by |-> "onRequest", status_code_ |-> 0,
                  close_connection_ |-> first.close_connection_]
  BY DEF HttpResponse, flagClose
<1> HIDE DEF first
<1>3. resp.status_code_ \in Nat /\ resp.close_connection_ \in BOOLEAN
  <2>1. CASE resp = [by |-> "default", status_code_ |-> 404,
                     close_connection_ |-> TRUE]
    BY <2>1
  <2>2. CASE resp = [first EXCEPT !.status_code_ = 200]
    BY <1>2, <2>2
  <2>3. CASE resp \in [by : {"user"}, status_code_ : {200},
                       close_connection_ : BOOLEAN]
    BY <2>3
  <2>. QED
    BY <2>1, <2>2, <2>3 DEF http_cb_
<1>4. PICK code \in Nat, close \in BOOLEAN :
        code = resp.status_code_ /\ close = resp.close_connection_
  BY <1>3
<1>5. reply([code |-> code, sized |-> ~close], close)
  BY <1>1, <1>4 DEF reply, appendToBuffer
<1>. QED
  BY <1>5, ReplyKeeps

(* Every answer but the last has a length, and behind one without the server  *)
(* is shutting down: AnswersDelimited for all requests, bounds and callbacks. *)
THEOREM AnswersStayDelimited == Spec => []AnswersDelimited
<1>1. Init => IInv
  BY DEF Init, IInv
<1>2. IInv /\ [Next]_vars => IInv'
  <2> SUFFICES ASSUME IInv, [Next]_vars PROVE IInv'
    OBVIOUS
  <2>1. ASSUME UNCHANGED <<state_, answers>> PROVE IInv'
    BY <2>1 DEF IInv
  <2>2. ASSUME onConnection PROVE IInv'
    BY <2>2 DEF onConnection, IInv
  <2>3. ASSUME handleClose PROVE IInv'
    BY <2>3 DEF handleClose, IInv
  <2>4. ASSUME NEW n, onMessage(n) PROVE IInv'
    <3>1. ASSUME reply(BadRequest, TRUE) PROVE IInv'
      <4>0. 400 \in Nat /\ TRUE \in BOOLEAN
        OBVIOUS
      <4>1. PICK code \in Nat, close \in BOOLEAN : code = 400 /\ close = TRUE
        BY <4>0, Zenon
      <4>2. reply([code |-> code, sized |-> ~close], close)
        BY <3>1, <4>1 DEF BadRequest, reply
      <4>. QED
        BY <4>2, ReplyKeeps
    <3>2. \/ UNCHANGED <<state_, answers>>
          \/ reply(BadRequest, TRUE)
          \/ \E req : onRequest(req)
      <4>1. \E buf :
              LET parsed == parseRequest(context, buf)
              IN  \/ UNCHANGED <<state_, answers>>
                  \/ reply(BadRequest, TRUE)
                  \/ onRequest(parsed.context.request_)
        BY <2>4, Zenon DEF onMessage
      <4>. QED
        BY <4>1, Zenon
    <3>. QED
      BY <2>1, <3>1, <3>2, OnRequestKeeps
  <2>5. ASSUME UNCHANGED vars PROVE IInv'
    BY <2>1, <2>5 DEF vars
  <2>. QED
    BY <2>2, <2>3, <2>4, <2>5 DEF Next
<1>3. IInv => AnswersDelimited
  <2> SUFFICES ASSUME IInv PROVE AnswersDelimited
    OBVIOUS
  <2> SUFFICES ASSUME NEW i \in DOMAIN answers, ~answers[i].sized
               PROVE  /\ i = Len(answers)
                      /\ state_ \in {"kDisconnecting", "kDisconnected"}
    BY DEF AnswersDelimited
  <2>1. i \in 1..Len(answers) /\ answers[i] \in Answers
    BY DEF IInv
  <2>2. answers[i].sized = FALSE
    BY <2>1 DEF Answers
  <2>. QED
    BY <2>1, <2>2 DEF IInv
<1>. QED
  BY <1>1, <1>2, <1>3, PTL DEF Spec

-----------------------------------------------------------------------------
(* The assertions of the parser. *)

(* What a request puts on the wire ... *)
LEMMA WireType ==
  ASSUME NEW m \in Messages
  PROVE  wire(m) \in Seq(Units)
<1>1. /\ m.method \in Uppers /\ m.path \in Paths /\ m.query \in Seq(Text)
      /\ m.version \in Versions \cup Words /\ m.fields \in Seq(Words \X Words)
      /\ m.body \in Seq(Text)
  BY MessagesAssumption
<1>2. /\ m.method \in Units /\ m.path \in Units /\ m.version \in Units
      /\ " " \in Units /\ ":" \in Units /\ "?" \in Units /\ "NL" \in Units
      /\ Text \subseteq Units
  BY <1>1 DEF Units, Text, Marks
<1>3. m.query \in Seq(Units) /\ m.body \in Seq(Units)
  BY <1>1, <1>2, SeqOfMore
<1> DEFINE lines == [i \in DOMAIN m.fields |-> line(m.fields[i])]
<1>4. FlattenSeq(lines) \in Seq(Units)
  <2>1. Len(m.fields) \in Nat /\ DOMAIN m.fields = 1..Len(m.fields)
    BY <1>1
  <2>2. ASSUME NEW i \in 1..Len(m.fields) PROVE line(m.fields[i]) \in Seq(Units)
    <3>1. m.fields[i] \in Words \X Words
      BY <1>1
    <3>2. m.fields[i][1] \in Units /\ m.fields[i][2] \in Units
      BY <3>1 DEF Units, Text
    <3>. QED
      BY <1>2, <3>2, Five DEF line
  <2>3. lines \in [1..Len(m.fields) -> Seq(Units)]
    BY <2>1, <2>2
  <2> HIDE DEF lines
  <2>. QED
    BY <2>1, <2>3, FlattenType
<1> HIDE DEF lines
<1> DEFINE a == <<m.method, " ", m.path>>
           b == IF m.query = <<>> THEN <<>> ELSE <<"?">> \o m.query
           c == <<" ", m.version, "NL">>
           d == <<"NL">>
<1>5. a \in Seq(Units) /\ b \in Seq(Units) /\ c \in Seq(Units) /\ d \in Seq(Units)
  <2>1. a \in Seq(Units) /\ c \in Seq(Units)
    BY <1>2, Five
  <2>2. d \in Seq(Units) /\ <<"?">> \in Seq(Units)
    BY <1>2, Five
  <2>3. b \in Seq(Units)
    BY <1>3, <2>2
  <2>. QED
    BY <2>1, <2>2, <2>3
<1>6. wire(m) = a \o b \o c \o FlattenSeq(lines) \o d \o m.body
  BY DEF wire, lines
<1> HIDE DEF a, b, c, d
<1>. QED
  BY <1>3, <1>4, <1>5, <1>6

(* What the client sends. *)
SentOK == sent \in Seq(Messages)

(* ... and what all of them do, is made of units. *)
LEMMA StreamType == ASSUME SentOK PROVE stream \in Seq(Units)
<1>1. Len(sent) \in Nat /\ DOMAIN sent = 1..Len(sent)
  BY DEF SentOK
<1> DEFINE wires == [i \in DOMAIN sent |-> wire(sent[i])]
<1>2. wires \in [1..Len(sent) -> Seq(Units)]
  BY <1>1, WireType DEF SentOK
<1>3. stream = FlattenSeq(wires)
  BY DEF stream
<1> HIDE DEF wires
<1>. QED
  BY <1>1, <1>2, <1>3, FlattenType

(* Between reads: the marks lie in what was parsed. *)
ContextOK(c) ==
  /\ c = [parser_ |-> c.parser_, request_ |-> c.request_, nparsed_ |-> c.nparsed_]
  /\ c.parser_ \in Parsers /\ c.nparsed_ \in Nat
  /\ c.parser_.nread <= c.nparsed_
  /\ Within(c.parser_, Top(c.nparsed_))

(* Marks within k units lie within more. *)
LEMMA WithinMore ==
  ASSUME NEW P \in Parsers, NEW k \in Nat, NEW l \in Nat, k <= l, Within(P, k)
  PROVE  Within(P, l)
BY DEF Parsers, Within

(* parseRequest, if its opening assertion holds. *)
LEMMA ParseKeeps ==
  ASSUME NEW c, ContextOK(c), NEW buf \in Seq(Units), Len(buf) >= 1,
         c.nparsed_ <= Len(buf)
  PROVE  LET parsed == parseRequest(c, buf)
         IN  /\ ContextOK(parsed.context) /\ parsed.rest \in Seq(Units)
             /\ Consistent(parsed.context.parser_, Len(buf))
<1> DEFINE off == c.nparsed_
           t == http_parser_execute(c.parser_, c.request_, buf, off)
           parsed == parseRequest(c, buf)
           d == parsed.context
<1>0. off \in Nat /\ c.parser_ \in Parsers /\ c.parser_.nread \in Nat
      /\ c.parser_.nread <= off /\ Len(buf) \in Nat
  BY DEF ContextOK, Parsers
<1>1. /\ IsRun(t) /\ Within(t.parser, Top(t.p))
      /\ off <= t.p /\ t.p <= Len(buf)
      /\ t.parser.nread = c.parser_.nread + t.p - off
  BY <1>0, ExecuteKeeps DEF ContextOK
<1>2. parsed = [context |-> [parser_ |-> t.parser, request_ |-> t.request,
                             nparsed_ |-> off + t.parser.nread],
                rest |-> SubSeq(buf, t.parser.nread + 1, Len(buf))]
  BY DEF parseRequest
<1> HIDE DEF t, parsed, off
<1>3. t.p \in Nat /\ t.parser \in Parsers /\ t.parser.nread \in Nat
  BY <1>1 DEF IsRun, Parsers
<1>4. /\ d.parser_ = t.parser /\ d.nparsed_ = off + t.parser.nread
      /\ d = [parser_ |-> d.parser_, request_ |-> d.request_, nparsed_ |-> d.nparsed_]
      /\ parsed.rest = SubSeq(buf, t.parser.nread + 1, Len(buf))
  BY <1>2
<1>5. t.parser.nread <= Len(buf) /\ t.parser.nread <= d.nparsed_
      /\ d.nparsed_ \in Nat /\ t.p <= d.nparsed_
  <2>1. \A o, r, p, l \in Nat :
          r <= o /\ o <= p /\ p <= l =>
            r + p - o <= l /\ r + p - o <= o + (r + p - o) /\ p <= o + (r + p - o)
    OBVIOUS
  <2>2. off + t.parser.nread \in Nat
    BY <1>0, <1>3
  <2>3. /\ t.parser.nread <= Len(buf) /\ t.parser.nread <= off + t.parser.nread
        /\ t.p <= off + t.parser.nread
    BY <1>0, <1>1, <1>3, <2>1
  <2>4. d.nparsed_ = off + t.parser.nread
    BY <1>4
  <2> HIDE DEF d
  <2>. QED
    BY <2>2, <2>3, <2>4
<1>6. Within(t.parser, Top(d.nparsed_)) /\ Within(t.parser, Len(buf))
  <2>1. /\ Top(t.p) \in Nat /\ Top(d.nparsed_) \in Nat
        /\ Top(t.p) <= Top(d.nparsed_) /\ Top(t.p) <= Len(buf)
    <3>1. \A k, l \in Nat : k <= l => /\ Top(k) \in Nat /\ Top(l) \in Nat
                                      /\ Top(k) <= Top(l)
                                      /\ l >= 1 => Top(k) <= l
      BY DEF Top
    <3> HIDE DEF d
    <3>. QED
      BY <1>0, <1>1, <1>3, <1>5, <3>1
  <2>. QED
    BY <1>0, <1>1, <1>3, <2>1, WithinMore
<1>7. parsed.rest \in Seq(Units)
  BY <1>0, <1>3, <1>4, <1>5, SubSeqProperties
<1>8. Consistent(d.parser_, Len(buf))
  BY <1>4, <1>5, <1>6 DEF Consistent, Within
<1>. QED
  BY <1>3, <1>4, <1>5, <1>6, <1>7, <1>8 DEF ContextOK, parsed

(* A fresh context, and one that was reset. *)
LEMMA FreshKeeps ==
  /\ ContextOK(HttpContext)
  /\ \A c : ContextOK(c) => ContextOK(reset(c))
<1>1. ASSUME NEW q \in Nat PROVE http_parser_init(q) \in Parsers
                                /\ Within(http_parser_init(q), 1)
                                /\ http_parser_init(q).nread = 0
  BY StatesAre DEF http_parser_init, Parsers, Within, StateNames
<1>2. ContextOK(HttpContext)
  BY <1>1 DEF ContextOK, HttpContext, Top
<1>3. ASSUME NEW c, ContextOK(c) PROVE ContextOK(reset(c))
  <2>1. c.parser_.query_start \in Nat
    BY <1>3 DEF ContextOK, Parsers
  <2>. QED
    BY <1>1, <2>1 DEF ContextOK, reset, Top
<1>. QED
  BY <1>2, <1>3

(* ParserAssertsHold with what parseRequest finds at the start of a read:    *)
(* while the connection is up its context is one of the above.               *)
ParseInv ==
  /\ SentOK
  /\ arrived \in Nat
  /\ input_buffer_ \in Seq(Units)
  /\ state_ \in {"kConnected", "kDisconnecting"} => ContextOK(context)
  /\ failed # "closing assertions"

(* A read, of whatever length, keeps it. *)
LEMMA ReadKeeps ==
  ASSUME ParseInv, NEW n \in 1..(Len(stream) - arrived), onMessage(n)
  PROVE  ParseInv'
<1> DEFINE buf == input_buffer_ \o SubSeq(stream, arrived + 1, arrived + n)
           parsed == parseRequest(context, buf)
           parser == parsed.context.parser_
<1>1. stream \in Seq(Units) /\ Len(stream) \in Nat /\ arrived \in Nat /\ n \in Nat
      /\ n >= 1 /\ arrived + n <= Len(stream) /\ input_buffer_ \in Seq(Units)
  <2>1. stream \in Seq(Units) /\ arrived \in Nat /\ input_buffer_ \in Seq(Units)
    BY StreamType DEF ParseInv
  <2>2. Len(stream) \in Nat
    BY <2>1
  <2>. QED
    BY <2>1, <2>2
<1>2. buf \in Seq(Units) /\ Len(buf) >= 1
  <2> DEFINE piece == SubSeq(stream, arrived + 1, arrived + n)
  <2>1. piece \in Seq(Units) /\ Len(piece) = n
    BY <1>1, SubSeqProperties
  <2>2. buf = input_buffer_ \o piece
    OBVIOUS
  <2> HIDE DEF piece, buf
  <2>3. buf \in Seq(Units) /\ Len(buf) = Len(input_buffer_) + Len(piece)
    BY <1>1, <2>1, <2>2, ConcatProperties
  <2>4. Len(input_buffer_) \in Nat
    BY <1>1
  <2>. QED
    BY <1>1, <2>1, <2>3, <2>4
<1>3. ContextOK(context) /\ state_ \in {"kConnected", "kDisconnecting"}
      /\ failed = "none"
  BY DEF ParseInv, onMessage
<1>4. SentOK' /\ arrived' \in Nat
  <2>1. sent' = sent /\ arrived' = arrived + n
    BY Zenon DEF onMessage
  <2>2. arrived + n \in Nat
    BY <1>1
  <2>. QED
    BY <2>1, <2>2 DEF ParseInv, SentOK
<1>0. /\ Len(buf) \in Nat /\ context.nparsed_ \in Nat
      /\ context.nparsed_ > Len(buf) <=> ~(context.nparsed_ <= Len(buf))
  <2>1. Len(buf) \in Nat /\ context.nparsed_ \in Nat
    BY <1>2, <1>3 DEF ContextOK
  <2> HIDE DEF buf
  <2>. QED
    BY <2>1
<1>5. CASE context.nparsed_ > Len(buf)
  <2>1. failed' = "offset past end of buffer"
        /\ UNCHANGED <<state_, input_buffer_, context>>
    <3>2. ~(context.nparsed_ <= Len(buf))
      BY <1>0, <1>5
    <3> HIDE DEF buf, parsed
    <3>. QED
      BY <3>2, Zenon DEF onMessage, buf
  <2>. QED
    BY <1>1, <1>3, <1>4, <2>1 DEF ParseInv
<1>6. CASE context.nparsed_ <= Len(buf)
  <2>1. /\ ContextOK(parsed.context) /\ parsed.rest \in Seq(Units)
        /\ Consistent(parser, Len(buf))
    BY <1>2, <1>3, <1>6, ParseKeeps
  <2>2. ~(context.nparsed_ > Len(buf))
    BY <1>0, <1>6
  <2>3. /\ failed' = IF Consistent(parser, Len(buf)) THEN failed
                     ELSE "closing assertions"
        /\ input_buffer_' = parsed.rest
        /\ context' = parsed.context \/ context' = reset(parsed.context)
    BY <2>2, Zenon DEF onMessage
  <2> HIDE DEF buf, parsed, parser
  <2>4. ContextOK(context')
    BY <2>1, <2>3, FreshKeeps
  <2>. QED
    BY <1>3, <1>4, <2>1, <2>3, <2>4 DEF ParseInv
<1> HIDE DEF buf
<1>. QED
  BY <1>0, <1>5, <1>6

(* The assertions at the end of http_parser_execute hold for all requests, in *)
(* whatever pieces they arrive.                                               *)
THEOREM ParserStaysConsistent == Spec => []ParserAssertsHold
<1>1. Init => ParseInv
  <2> SUFFICES ASSUME Init PROVE ParseInv
    OBVIOUS
  <2>1. PICK n \in 1..MaxSent : sent \in [1..n -> Messages]
    BY DEF Init
  <2>. QED
    BY <2>1 DEF Init, ParseInv, SentOK
<1>2. ParseInv /\ [Next]_vars => ParseInv'
  <2> SUFFICES ASSUME ParseInv, [Next]_vars PROVE ParseInv'
    OBVIOUS
  <2>1. CASE onConnection
    BY <2>1, FreshKeeps DEF onConnection, ParseInv, SentOK
  <2>2. CASE handleClose
    BY <2>2 DEF handleClose, ParseInv, SentOK
  <2>3. CASE \E n \in 1..(Len(stream) - arrived) : onMessage(n)
    BY <2>3, ReadKeeps
  <2>4. CASE UNCHANGED vars
    BY <2>4 DEF vars, ParseInv, SentOK
  <2>. QED
    BY <2>1, <2>2, <2>3, <2>4 DEF Next
<1>3. ParseInv => ParserAssertsHold
  BY DEF ParseInv, ParserAssertsHold
<1>. QED
  BY <1>1, <1>2, <1>3, PTL DEF Spec

-----------------------------------------------------------------------------
(* What a request looks like on the wire. *)

(* A header line. *)
LEMMA LineIs ==
  \A f : /\ line(f) = <<f[1], Co, Sp, f[2], Nl>>
        /\ Len(line(f)) = 5
        /\ line(f)[1] = f[1] /\ line(f)[2] = Co /\ line(f)[3] = Sp
        /\ line(f)[4] = f[2] /\ line(f)[5] = Nl
<1> TAKE f
<1>1. line(f) = <<f[1], Co, Sp, f[2], Nl>>
  BY Zenon DEF line, Co, Sp, Nl
<1>. QED
  BY <1>1

(* The header lines of a request: five units each. *)
LEMMA LinesAre ==
  ASSUME NEW fields \in Seq(Words \X Words)
  PROVE  LET g == FlattenSeq([i \in DOMAIN fields |-> line(fields[i])])
         IN  /\ g \in Seq(Units) /\ Len(g) = 5 * Len(fields)
             /\ \A i \in 1..Len(fields), c \in 1..5 :
                  g[5 * (i - 1) + c] = line(fields[i])[c]
<1> DEFINE n == Len(fields)
           lines == [i \in DOMAIN fields |-> line(fields[i])]
           g == FlattenSeq(lines)
<1>0. n \in Nat /\ DOMAIN fields = 1..n
  OBVIOUS
<1>1. ASSUME NEW i \in 1..n
      PROVE  lines[i] = line(fields[i]) /\ lines[i] \in Seq(Units) /\ Len(lines[i]) = 5
  <2>1. fields[i] \in Words \X Words
    OBVIOUS
  <2>2. fields[i][1] \in Units /\ fields[i][2] \in Units
    BY <2>1 DEF Units, Text
  <2>3. Sp \in Units /\ Co \in Units /\ Nl \in Units
    BY Classes
  <2>4. line(fields[i]) \in Seq(Units) /\ Len(line(fields[i])) = 5
    BY <2>2, <2>3, Five, LineIs
  <2>. QED
    BY <1>0, <2>4
<1>2. lines \in [1..n -> Seq(Units)] /\ Len(lines) = n
  <2>1. lines \in [1..n -> Seq(Units)]
    BY <1>0, <1>1
  <2> HIDE DEF lines
  <2>. QED
    BY <1>0, <2>1
<1> HIDE DEF lines, n
<1>3. CASE n = 0
  <2>1. g = <<>>
    BY <1>2, <1>3 DEF FlattenSeq
  <2>2. <<>> \in Seq(Units) /\ Len(<<>>) = 0 /\ 5 * 0 = 0 /\ 1..0 = {}
    OBVIOUS
  <2>3. g \in Seq(Units) /\ Len(g) = 5 * n /\ 1..n = {}
    BY <1>3, <2>1, <2>2
  <2>. QED
    BY <2>3 DEF n, lines
<1>4. CASE n # 0
  <2>1. PICK f : /\ f[1] = lines[1]
                 /\ \A i \in 2..n : f[i] = f[i - 1] \o lines[i]
                 /\ g = f[n]
    <3>1. n \in Nat \ {0} /\ n = Len(lines)
      BY <1>0, <1>2, <1>4
    <3>. QED
      BY <3>1, FlattenIs, Zenon
  <2> DEFINE Ok(k) == /\ f[k] \in Seq(Units) /\ Len(f[k]) = 5 * k
                      /\ \A i \in 1..k, c \in 1..5 :
                           f[k][5 * (i - 1) + c] = lines[i][c]
             T == {k \in Nat : k + 1 <= n => Ok(k + 1)}
  <2>2. 0 \in T
    <3>1. 1 \in 1..n
      BY <1>0, <1>4
    <3>2. f[1] \in Seq(Units) /\ Len(f[1]) = 5 * 1
      BY <1>1, <2>1, <3>1
    <3>3. ASSUME NEW i \in 1..1, NEW c \in 1..5
          PROVE  f[1][5 * (i - 1) + c] = lines[i][c]
      <4>1. i = 1 /\ 5 * (i - 1) + c = c
        OBVIOUS
      <4>. QED
        BY <2>1, <4>1
    <3>4. Ok(1)
      BY <3>2, <3>3
    <3>. QED
      BY <3>4
  <2>3. ASSUME NEW k \in Nat, k \in T PROVE k + 1 \in T
    <3> SUFFICES ASSUME (k + 1) + 1 <= n PROVE Ok((k + 1) + 1)
      BY DEF T
    <3> DEFINE j == k + 1
    <3>1. /\ j \in Nat /\ j + 1 \in 2..n /\ j + 1 \in 1..n /\ (j + 1) - 1 = j
      BY <1>0
    <3>2. Ok(j)
      <4>1. k + 1 <= n
        BY <1>0, <3>1
      <4> HIDE DEF Ok
      <4>. QED
        BY <2>3, <4>1
    <3>3. f[j + 1] = f[j] \o lines[j + 1]
      BY <2>1, <3>1
    <3>4. lines[j + 1] \in Seq(Units) /\ Len(lines[j + 1]) = 5
      BY <1>1, <3>1
    <3> HIDE DEF j
    <3>5. /\ f[j + 1] \in Seq(Units) /\ Len(f[j + 1]) = 5 * j + 5
          /\ \A i \in 1..5 * j : f[j + 1][i] = f[j][i]
          /\ \A i \in 1..5 : f[j + 1][5 * j + i] = lines[j + 1][i]
      <4>1. f[j] \in Seq(Units) /\ Len(f[j]) = 5 * j
        BY <3>2
      <4> DEFINE a == f[j]
                 b == lines[j + 1]
      <4>2. a \in Seq(Units) /\ b \in Seq(Units)
        BY <3>4, <4>1
      <4> HIDE DEF a, b
      <4>3. /\ a \o b \in Seq(Units) /\ Len(a \o b) = Len(a) + Len(b)
            /\ \A i \in 1..Len(a) : (a \o b)[i] = a[i]
            /\ \A i \in 1..Len(b) : (a \o b)[Len(a) + i] = b[i]
        BY <4>2, CatIs
      <4>. QED
        BY <3>3, <3>4, <4>1, <4>3, Zenon DEF a, b
    <3>6. ASSUME NEW i \in 1..j + 1, NEW c \in 1..5
          PROVE  f[j + 1][5 * (i - 1) + c] = lines[i][c]
      <4>1. CASE i \in 1..j
        <5>1. 5 * (i - 1) + c \in 1..5 * j
          BY <3>1, <4>1
        <5>. QED
          BY <3>2, <3>5, <4>1, <5>1
      <4>2. CASE i = j + 1
        <5>1. 5 * (i - 1) + c = 5 * j + c
          BY <3>1, <4>2
        <5>. QED
          BY <3>5, <4>2, <5>1
      <4>. QED
        BY <3>1, <4>1, <4>2
    <3>7. 5 * j + 5 = 5 * (j + 1)
      BY <3>1
    <3>8. Ok(j + 1)
      BY <3>5, <3>6, <3>7
    <3>. QED
      BY <3>8 DEF j
  <2>4. n - 1 \in T
    <3>1. n - 1 \in Nat
      BY <1>0, <1>4
    <3> HIDE DEF T
    <3>. QED
      BY <2>2, <2>3, <3>1, Induction
  <2>5. Ok(n)
    <3>1. (n - 1) + 1 = n /\ n <= n
      BY <1>0
    <3> HIDE DEF Ok
    <3>. QED
      BY <2>4, <3>1
  <2>6. \A i \in 1..n, c \in 1..5 : g[5 * (i - 1) + c] = line(fields[i])[c]
    BY <1>1, <2>1, <2>5
  <2>. QED
    BY <2>1, <2>5, <2>6 DEF n, lines
<1>. QED
  BY <1>3, <1>4

(* How many units of a request there are before the blank behind its URI, and *)
(* before its headers.                                                        *)
UriEnd(m) == IF m.query = <<>> THEN 3 ELSE 4 + Len(m.query)
HeadEnd(m) == UriEnd(m) + 3

(* The parts of a request's units. *)
LEMMA PartsAre ==
  ASSUME NEW m \in Messages
  PROVE  /\ m.method \in Uppers /\ m.path \in Paths
         /\ m.query \in Seq(Text) /\ m.query \in Seq(Units) /\ Len(m.query) \in Nat
         /\ m.version \in Versions \cup Words /\ m.fields \in Seq(Words \X Words)
         /\ Len(m.fields) \in Nat /\ m.body \in Seq(Units)
         /\ UriEnd(m) \in Nat /\ UriEnd(m) >= 3
<1>1. /\ m.method \in Uppers /\ m.path \in Paths /\ m.query \in Seq(Text)
      /\ m.version \in Versions \cup Words /\ m.fields \in Seq(Words \X Words)
      /\ m.body \in Seq(Text)
  BY MessagesAssumption
<1>2. m.query \in Seq(Units) /\ m.body \in Seq(Units)
  <2>1. Text \subseteq Units
    BY DEF Units
  <2>. QED
    BY <1>1, <2>1, SeqOfMore
<1>3. Len(m.query) \in Nat /\ Len(m.fields) \in Nat
  BY <1>1
<1>. QED
  BY <1>1, <1>2, <1>3 DEF UriEnd

(* The units up to the end of the URI. *)
LEMMA UriIs ==
  ASSUME NEW m \in Messages
  PROVE  LET u == <<m.method, Sp, m.path>>
                    \o (IF m.query = <<>> THEN <<>> ELSE <<Qm>> \o m.query)
         IN  /\ u \in Seq(Units) /\ Len(u) = UriEnd(m)
             /\ u[1] = m.method /\ u[2] = Sp /\ u[3] = m.path
             /\ m.query # <<>> => /\ u[4] = Qm
                                  /\ \A i \in 1..Len(m.query) : u[4 + i] = m.query[i]
<1> DEFINE a == <<m.method, Sp, m.path>>
           q == <<Qm>>
           b == IF m.query = <<>> THEN <<>> ELSE q \o m.query
           u == a \o b
<1>1. a \in Seq(Units) /\ Len(a) = 3 /\ a[1] = m.method /\ a[2] = Sp /\ a[3] = m.path
  <2>1. m.method \in Units /\ m.path \in Units /\ Sp \in Units
    BY PartsAre, Classes
  <2>2. a \in Seq(Units)
    BY <2>1, Five
  <2>. QED
    BY <2>2
<1>2. q \in Seq(Units) /\ Len(q) = 1 /\ q[1] = Qm
  <2>1. Qm \in Units
    BY Classes
  <2>. QED
    BY <2>1, Five
<1>3. /\ b \in Seq(Units) /\ Len(b) = UriEnd(m) - 3
      /\ m.query # <<>> => /\ b[1] = Qm
                           /\ \A i \in 1..Len(m.query) : b[1 + i] = m.query[i]
  <2>1. CASE m.query = <<>>
    <3>1. b = <<>> /\ UriEnd(m) = 3
      BY <2>1 DEF UriEnd
    <3>2. <<>> \in Seq(Units) /\ Len(<<>>) = 3 - 3
      OBVIOUS
    <3> HIDE DEF b
    <3>. QED
      BY <2>1, <3>1, <3>2
  <2>2. CASE m.query # <<>>
    <3> DEFINE v == m.query
    <3>1. b = q \o v /\ v \in Seq(Units) /\ Len(v) \in Nat /\ UriEnd(m) = 4 + Len(v)
      BY <2>2, PartsAre DEF UriEnd
    <3> HIDE DEF q, v
    <3>2. /\ q \o v \in Seq(Units) /\ Len(q \o v) = Len(q) + Len(v)
          /\ \A i \in 1..Len(q) : (q \o v)[i] = q[i]
          /\ \A i \in 1..Len(v) : (q \o v)[Len(q) + i] = v[i]
      BY <1>2, <3>1, CatIs
    <3> HIDE DEF b
    <3>3. /\ b \in Seq(Units) /\ Len(b) = 1 + Len(v) /\ b[1] = q[1]
          /\ \A i \in 1..Len(v) : b[1 + i] = v[i]
      BY <1>2, <3>1, <3>2
    <3>4. Len(b) = UriEnd(m) - 3
      BY <3>1, <3>3
    <3>. QED
      BY <1>2, <3>3, <3>4 DEF v
  <2>. QED
    BY <2>1, <2>2
<1> HIDE DEF a, b
<1>4. /\ u \in Seq(Units) /\ Len(u) = Len(a) + Len(b)
      /\ \A i \in 1..Len(a) : u[i] = a[i]
      /\ \A i \in 1..Len(b) : u[Len(a) + i] = b[i]
  <2>1. a \in Seq(Units) /\ b \in Seq(Units)
    BY <1>1, <1>3
  <2>. QED
    BY <2>1, CatIs
<1> HIDE DEF u
<1>5. UriEnd(m) \in Nat /\ UriEnd(m) >= 3 /\ Len(m.query) \in Nat
  BY PartsAre
<1>6. Len(u) = UriEnd(m)
  BY <1>1, <1>3, <1>4, <1>5
<1>7. u[1] = m.method /\ u[2] = Sp /\ u[3] = m.path
  BY <1>1, <1>4
<1>8. ASSUME m.query # <<>>
      PROVE  u[4] = Qm /\ \A i \in 1..Len(m.query) : u[4 + i] = m.query[i]
  <2>1. Len(b) = 1 + Len(m.query)
    BY <1>3, <1>5, <1>8 DEF UriEnd
  <2>2. u[4] = b[1]
    <3>1. 1 \in 1..Len(b) /\ 3 + 1 = 4
      BY <1>5, <2>1
    <3>. QED
      BY <1>1, <1>4, <3>1
  <2>3. ASSUME NEW i \in 1..Len(m.query) PROVE u[4 + i] = m.query[i]
    <3>1. 1 + i \in 1..Len(b) /\ 3 + (1 + i) = 4 + i
      BY <1>5, <2>1
    <3>2. u[4 + i] = b[1 + i]
      BY <1>1, <1>4, <3>1
    <3>. QED
      BY <1>3, <1>8, <3>2
  <2>. QED
    BY <1>3, <1>8, <2>2, <2>3
<1>. QED
  BY <1>4, <1>6, <1>7, <1>8 DEF u, a, b

(* The units of a request without a body. *)
WireIs(m, w) ==
  LET e == UriEnd(m)
      h == HeadEnd(m)
      n == Len(m.fields)
  IN  /\ w \in Seq(Units) /\ Len(w) = h + 5 * n + 1
      /\ w[1] = m.method /\ w[2] = Sp /\ w[3] = m.path
      /\ m.query # <<>> => /\ w[4] = Qm
                           /\ \A i \in 1..Len(m.query) : w[4 + i] = m.query[i]
      /\ w[e + 1] = Sp /\ w[e + 2] = m.version /\ w[e + 3] = Nl
      /\ \A i \in 1..n, c \in 1..5 : w[h + 5 * (i - 1) + c] = line(m.fields[i])[c]
      /\ w[h + 5 * n + 1] = Nl

(* wire puts just those on the wire. *)
LEMMA WireOfPlain ==
  ASSUME NEW m \in Messages, m.body = <<>>
  PROVE  WireIs(m, wire(m))
<1> DEFINE e == UriEnd(m)
           n == Len(m.fields)
           u == <<m.method, Sp, m.path>>
                  \o (IF m.query = <<>> THEN <<>> ELSE <<Qm>> \o m.query)
           c == <<Sp, m.version, Nl>>
           g == FlattenSeq([i \in DOMAIN m.fields |-> line(m.fields[i])])
           d == <<Nl>>
           w == wire(m)
<1>1. /\ u \in Seq(Units) /\ Len(u) = e
      /\ u[1] = m.method /\ u[2] = Sp /\ u[3] = m.path
      /\ m.query # <<>> => /\ u[4] = Qm
                           /\ \A i \in 1..Len(m.query) : u[4 + i] = m.query[i]
  BY UriIs
<1>2. c \in Seq(Units) /\ Len(c) = 3 /\ c[1] = Sp /\ c[2] = m.version /\ c[3] = Nl
  <2>1. Sp \in Units /\ Nl \in Units /\ m.version \in Units
    BY PartsAre, Classes
  <2>2. c \in Seq(Units)
    BY <2>1, Five
  <2>. QED
    BY <2>2
<1>3. /\ g \in Seq(Units) /\ Len(g) = 5 * n
      /\ \A i \in 1..n, k \in 1..5 : g[5 * (i - 1) + k] = line(m.fields[i])[k]
  BY PartsAre, LinesAre
<1>4. d \in Seq(Units) /\ Len(d) = 1 /\ d[1] = Nl
  <2>1. Nl \in Units
    BY Classes
  <2>. QED
    BY <2>1, Five
<1>5. w = u \o c \o g \o d \o m.body
  BY Zenon DEF wire, Sp, Qm, Nl
<1>0. e \in Nat /\ e >= 3 /\ n \in Nat /\ Len(m.query) \in Nat
  BY PartsAre
<1> HIDE DEF u, c, g, d, w, n, e
<1> DEFINE uc == u \o c
<1>6. /\ uc \in Seq(Units) /\ Len(uc) = e + 3 /\ \A i \in 1..e : uc[i] = u[i]
      /\ \A i \in 1..3 : uc[e + i] = c[i]
  <2>1. u \in Seq(Units) /\ Len(u) = e /\ c \in Seq(Units) /\ Len(c) = 3
    BY <1>1, <1>2
  <2>2. /\ u \o c \in Seq(Units) /\ Len(u \o c) = Len(u) + Len(c)
        /\ \A i \in 1..Len(u) : (u \o c)[i] = u[i]
        /\ \A i \in 1..Len(c) : (u \o c)[Len(u) + i] = c[i]
    <3>1. u \in Seq(Units) /\ c \in Seq(Units)
      BY <2>1
    <3>. QED
      BY <3>1, CatIs
  <2>. QED
    BY <2>1, <2>2
<1> HIDE DEF uc
<1> DEFINE ucg == uc \o g
<1>7. /\ ucg \in Seq(Units) /\ Len(ucg) = (e + 3) + 5 * n
      /\ \A i \in 1..e + 3 : ucg[i] = uc[i]
      /\ \A i \in 1..5 * n : ucg[(e + 3) + i] = g[i]
  <2>1. uc \in Seq(Units) /\ Len(uc) = e + 3 /\ g \in Seq(Units) /\ Len(g) = 5 * n
    BY <1>3, <1>6
  <2>2. /\ uc \o g \in Seq(Units) /\ Len(uc \o g) = Len(uc) + Len(g)
        /\ \A i \in 1..Len(uc) : (uc \o g)[i] = uc[i]
        /\ \A i \in 1..Len(g) : (uc \o g)[Len(uc) + i] = g[i]
    <3>1. uc \in Seq(Units) /\ g \in Seq(Units)
      BY <2>1
    <3>. QED
      BY <3>1, CatIs
  <2>. QED
    BY <2>1, <2>2
<1> HIDE DEF ucg
<1> DEFINE all == ucg \o d
           l == (e + 3) + 5 * n
<1>8. /\ all \in Seq(Units) /\ Len(all) = l + 1
      /\ \A i \in 1..l : all[i] = ucg[i]
      /\ all[l + 1] = d[1]
  <2>1. ucg \in Seq(Units) /\ Len(ucg) = l /\ d \in Seq(Units) /\ Len(d) = 1
    BY <1>4, <1>7
  <2>2. /\ ucg \o d \in Seq(Units) /\ Len(ucg \o d) = Len(ucg) + Len(d)
        /\ \A i \in 1..Len(ucg) : (ucg \o d)[i] = ucg[i]
        /\ \A i \in 1..Len(d) : (ucg \o d)[Len(ucg) + i] = d[i]
    <3>1. ucg \in Seq(Units) /\ d \in Seq(Units)
      BY <2>1
    <3>. QED
      BY <3>1, CatIs
  <2>. QED
    BY <2>1, <2>2
<1> HIDE DEF all
<1>9. w = all
  <2>1. w = all \o <<>>
    BY <1>5 DEF all, ucg, uc
  <2>. QED
    BY <1>8, <2>1
<1>10. l \in Nat /\ \A i \in 1..e : w[i] = u[i]
  <2>1. \A i \in 1..e : i \in 1..e + 3 /\ i \in 1..l
    BY <1>0
  <2>. QED
    BY <1>0, <1>6, <1>7, <1>8, <1>9, <2>1
<1>11. w[1] = m.method /\ w[2] = Sp /\ w[3] = m.path
  BY <1>0, <1>1, <1>10
<1>12. ASSUME m.query # <<>>
       PROVE  w[4] = Qm /\ \A i \in 1..Len(m.query) : w[4 + i] = m.query[i]
  <2>1. e = 4 + Len(m.query)
    BY <1>12 DEF e, UriEnd
  <2>2. 4 \in 1..e /\ \A i \in 1..Len(m.query) : 4 + i \in 1..e
    BY <1>0, <2>1
  <2>. QED
    BY <1>1, <1>10, <1>12, <2>2
<1>13. w[e + 1] = Sp /\ w[e + 2] = m.version /\ w[e + 3] = Nl
  <2>1. \A i \in 1..3 : w[e + i] = c[i]
    <3>1. \A i \in 1..3 : e + i \in 1..e + 3 /\ e + i \in 1..l
      BY <1>0
    <3>. QED
      BY <1>6, <1>7, <1>8, <1>9, <3>1
  <2>. QED
    BY <1>2, <2>1
<1>14. ASSUME NEW i \in 1..n, NEW k \in 1..5
       PROVE  w[(e + 3) + 5 * (i - 1) + k] = line(m.fields[i])[k]
  <2>1. 5 * (i - 1) + k \in 1..5 * n
    BY <1>0
  <2> DEFINE j == 5 * (i - 1) + k
  <2>2. (e + 3) + j \in 1..l /\ (e + 3) + 5 * (i - 1) + k = (e + 3) + j
    BY <1>0, <2>1
  <2>3. g[j] = line(m.fields[i])[k]
    BY <1>3
  <2> HIDE DEF j, l
  <2>4. ucg[(e + 3) + j] = g[j] /\ all[(e + 3) + j] = ucg[(e + 3) + j]
    BY <1>7, <1>8, <2>1, <2>2 DEF j
  <2>. QED
    BY <1>9, <2>2, <2>3, <2>4
<1>15. w[l + 1] = Nl
  BY <1>4, <1>8, <1>9
<1>. QED
  BY <1>8, <1>9, <1>11, <1>12, <1>13, <1>14, <1>15 DEF WireIs, HeadEnd, e, n, w

-----------------------------------------------------------------------------
(* The HttpRequest that the machine fills in, field by field. *)

(* What the first k header lines of a request mean. *)
Before(m, k, name) == {i \in 1..k : m.fields[i][1] = name}
Heads(m, k) ==
  [name \in {<<m.fields[i][1]>> : i \in 1..k} |->
     <<m.fields[Max(Before(m, k, name[1]))][2]>>]

(* The greatest of a set. *)
LEMMA MaxIs ==
  ASSUME NEW S \in SUBSET Nat, NEW x \in S, \A y \in S : x >= y
  PROVE  Max(S) = x
<1> DEFINE c == CHOOSE z \in S : \A y \in S : z >= y
<1>1. Max(S) = c
  BY Zenon DEF Max
<1>2. c \in S /\ \A y \in S : c >= y
  BY Zenon
<1> HIDE DEF c
<1>3. c >= x /\ x >= c /\ c \in Nat /\ x \in Nat
  BY <1>2
<1>. QED
  BY <1>1, <1>3

(* No lines, no headers. *)
LEMMA HeadsNone == \A m : Heads(m, 0) = <<>>
<1> TAKE m
<1>1. 1..0 = {}
  OBVIOUS
<1>2. {<<m.fields[i][1]>> : i \in 1..0} = {}
  BY <1>1
<1>3. Heads(m, 0) = [name \in {} |-> <<m.fields[Max(Before(m, 0, name[1]))][2]>>]
  BY <1>2 DEF Heads
<1>. QED
  BY <1>3

(* Each line adds its field, or replaces the one of that name. *)
LEMMA HeadsMore ==
  ASSUME NEW m, m.fields \in Seq(Words \X Words), NEW k \in Nat, k < Len(m.fields)
  PROVE  addHeader(Heads(m, k), <<m.fields[k + 1][1]>>, <<m.fields[k + 1][2]>>)
           = Heads(m, k + 1)
<1> DEFINE field == <<m.fields[k + 1][1]>>
           value == <<m.fields[k + 1][2]>>
           Old == {<<m.fields[i][1]>> : i \in 1..k}
           New == {<<m.fields[i][1]>> : i \in 1..k + 1}
           old(name) == <<m.fields[Max(Before(m, k, name[1]))][2]>>
           new(name) == <<m.fields[Max(Before(m, k + 1, name[1]))][2]>>
<1>1. New = Old \cup {field}
  <2>1. \A i : i \in 1..k + 1 <=> i \in 1..k \/ i = k + 1
    OBVIOUS
  <2>. QED
    BY <2>1
<1>2. Heads(m, k) = [name \in Old |-> old(name)] /\ Heads(m, k + 1) = [name \in New |-> new(name)]
  BY DEF Heads
<1>3. new(field) = value
  <2> DEFINE S == Before(m, k + 1, field[1])
  <2>1. S \in SUBSET Nat /\ k + 1 \in S /\ \A y \in S : k + 1 >= y
    BY DEF Before
  <2> HIDE DEF S
  <2>2. Max(S) = k + 1
    BY <2>1, MaxIs
  <2>. QED
    BY <2>2 DEF S
<1>4. ASSUME NEW name \in New, name # field PROVE name \in Old /\ new(name) = old(name)
  <2>1. name \in Old
    BY <1>1, <1>4
  <2>2. PICK i \in 1..k : name = <<m.fields[i][1]>>
    BY <2>1
  <2>3. name[1] # m.fields[k + 1][1]
    BY <1>4, <2>2
  <2>4. Before(m, k + 1, name[1]) = Before(m, k, name[1])
    BY <2>3 DEF Before
  <2>. QED
    BY <2>1, <2>4
<1>5. addHeader(Heads(m, k), field, value)
        = [name \in DOMAIN Heads(m, k) \cup {field} |->
             IF name = field THEN value ELSE Heads(m, k)[name]]
  BY DEF addHeader
<1> HIDE DEF field, value, old, new, Old, New
<1>6. DOMAIN Heads(m, k) = Old
  BY <1>2
<1>7. \A name \in New : (IF name = field THEN value ELSE Heads(m, k)[name]) = new(name)
  BY <1>2, <1>3, <1>4
<1> DEFINE both(name) == IF name = field THEN value ELSE Heads(m, k)[name]
<1>8. addHeader(Heads(m, k), field, value) = [name \in New |-> both(name)]
  BY <1>1, <1>5, <1>6
<1>9. \A name \in New : both(name) = new(name)
  BY <1>7
<1> HIDE DEF both
<1>10. addHeader(Heads(m, k), field, value) = Heads(m, k + 1)
  BY <1>2, <1>8, <1>9
<1>. QED
  BY <1>10 DEF field, value

(* All lines: what the sender meant. *)
LEMMA HeadsAll ==
  ASSUME NEW m \in Messages
  PROVE  meant(m).headers_ = Heads(m, Len(m.fields))
<1> DEFINE n == Len(m.fields)
           A == {<<x>> : x \in names(m)}
           B == {<<m.fields[i][1]>> : i \in 1..n}
           a(name) == <<valueOf(m, name[1])>>
           b(name) == <<m.fields[Max(Before(m, n, name[1]))][2]>>
<1>1. DOMAIN m.fields = 1..n
  BY PartsAre
<1>2. A = B
  BY <1>1 DEF names
<1>3. \A name : a(name) = b(name)
  BY <1>1 DEF valueOf, Before
<1>4. meant(m).headers_ = [name \in A |-> a(name)] /\ Heads(m, n) = [name \in B |-> b(name)]
  BY DEF meant, Heads
<1> HIDE DEF A, B, a, b
<1>. QED
  BY <1>2, <1>3, <1>4

(* The turns f of a fresh machine over a buffer that starts with request m, or *)
(* that holds a part of it.                                                    *)
Takes(m, buffer, query, f) ==
  /\ m \in Messages /\ m.body = <<>> /\ m.version \in Versions
  /\ buffer \in Seq(Units) /\ query \in Nat
  /\ \A i \in 1..Len(buffer) : i <= Len(wire(m)) => buffer[i] = wire(m)[i]
  /\ f[0] = [parser |-> http_parser_init(query), request |-> HttpRequest, p |-> 0,
             out |-> FALSE]
  /\ \A i \in 1..Len(buffer) : f[i] = resume(buffer, f[i - 1], i - 1)

(* The request, as it is filled in. *)
WithMethod(m) == parseRequestMethod(HttpRequest, <<m.method>>)
WithPath(m) == parseRequestPath(WithMethod(m), <<m.path>>)
WithQuery(m) == IF m.query = <<>> THEN WithPath(m)
                ELSE parseQueryString(WithPath(m), m.query)
WithHeads(m, k) ==
  [parseHttpVersion(WithQuery(m), <<m.version>>) EXCEPT !.headers_ = Heads(m, k)]

(* One turn. *)
LEMMA OneTurn ==
  ASSUME NEW m, NEW buffer, NEW query, NEW f, Takes(m, buffer, query, f),
         NEW p \in Nat, p < Len(buffer), p < Len(wire(m))
  PROVE  /\ f[p + 1] = resume(buffer, f[p], p)
         /\ buffer[p + 1] = wire(m)[p + 1] /\ buffer[p + 1] \in Units
<1>1. /\ buffer \in Seq(Units) /\ m \in Messages
      /\ \A i \in 1..Len(buffer) : i <= Len(wire(m)) => buffer[i] = wire(m)[i]
      /\ \A i \in 1..Len(buffer) : f[i] = resume(buffer, f[i - 1], i - 1)
  BY DEF Takes
<1>2. Len(buffer) \in Nat /\ Len(wire(m)) \in Nat
  BY <1>1, WireType
<1>3. p + 1 \in 1..Len(buffer) /\ p + 1 <= Len(wire(m)) /\ (p + 1) - 1 = p
  BY <1>2
<1>4. buffer[p + 1] \in Units
  BY <1>1, <1>3
<1>. QED
  BY <1>1, <1>3, <1>4

(* The machine before the first turn. *)
LEMMA FirstIs ==
  ASSUME NEW m, NEW buffer, NEW query, NEW f, Takes(m, buffer, query, f)
  PROVE  Is(f[0], 0, "start", 0, 0, 0, query, HttpRequest)
<1> DEFINE P == http_parser_init(query)
           s == f[0]
<1>1. query \in Nat /\ s = [parser |-> P, request |-> HttpRequest, p |-> 0, out |-> FALSE]
  BY DEF Takes
<1>2. /\ P \in Parsers /\ Within(P, 1) /\ P.cs = "start" /\ P.mark = 0
      /\ P.field_start = 0 /\ P.field_len = 0 /\ P.query_start = query
  BY <1>1, StatesAre DEF http_parser_init, Parsers, Within, StateNames
<1> HIDE DEF P, s
<1>3. s.parser = P /\ s.request = HttpRequest /\ s.p = 0 /\ s.out = FALSE
  BY <1>1
<1>4. IsRun(s)
  BY <1>1, <1>2, <1>3 DEF IsRun
<1>5. At(s, 0)
  BY <1>2, <1>3, <1>4 DEF At, Top
<1>. QED
  BY <1>2, <1>3, <1>5 DEF Is, s

(* The fields of the request. *)
LEMMA HeadsRead ==
  ASSUME NEW m \in Messages, m.version \in Versions
  PROVE  /\ WithHeads(m, 0) = parseHttpVersion(WithQuery(m), <<m.version>>)
         /\ \A k \in Nat : k < Len(m.fields) =>
              parseHttpField(WithHeads(m, k), <<m.fields[k + 1][1]>>,
                             <<m.fields[k + 1][2]>>) = WithHeads(m, k + 1)
         /\ WithHeads(m, Len(m.fields)) = meant(m)
<1> DEFINE method == methodOf(<<m.method>>)
           version == versionOf(<<m.version>>, "")
           R(h) == [method_ |-> method, version_ |-> version, path_ |-> <<m.path>>,
                    query_ |-> m.query, headers_ |-> h]
<1>1. version = versionOf(<<m.version>>, "kUnknown")
  BY UnitsAssumption DEF versionOf
<1>2. WithPath(m) = [method_ |-> method, version_ |-> "kUnknown",
                     path_ |-> <<m.path>>, query_ |-> <<>>, headers_ |-> <<>>]
  <2>1. WithMethod(m) = [HttpRequest EXCEPT !.method_ = method]
    BY DEF WithMethod, parseRequestMethod
  <2> DEFINE path == <<m.path>>
  <2>2. WithPath(m) = [WithMethod(m) EXCEPT !.path_ = path]
    BY DEF WithPath, parseRequestPath
  <2> HIDE DEF method, path
  <2>3. WithMethod(m) = [method_ |-> method, version_ |-> "kUnknown",
                         path_ |-> <<>>, query_ |-> <<>>, headers_ |-> <<>>]
    BY <2>1 DEF HttpRequest
  <2>4. WithPath(m) = [method_ |-> method, version_ |-> "kUnknown",
                       path_ |-> path, query_ |-> <<>>, headers_ |-> <<>>]
    BY <2>2, <2>3
  <2>. QED
    BY <2>4 DEF path
<1> HIDE DEF method, version
<1>3. WithQuery(m) = [method_ |-> method, version_ |-> "kUnknown",
                      path_ |-> <<m.path>>, query_ |-> m.query, headers_ |-> <<>>]
  BY <1>2 DEF WithQuery, parseQueryString
<1>4. parseHttpVersion(WithQuery(m), <<m.version>>) = R(<<>>)
  BY <1>1, <1>3 DEF parseHttpVersion
<1>5. \A k : WithHeads(m, k) = R(Heads(m, k))
  BY <1>4 DEF WithHeads
<1>6. WithHeads(m, 0) = R(<<>>)
  BY <1>5, HeadsNone
<1>7. ASSUME NEW k \in Nat, k < Len(m.fields)
      PROVE  parseHttpField(WithHeads(m, k), <<m.fields[k + 1][1]>>,
                            <<m.fields[k + 1][2]>>) = WithHeads(m, k + 1)
  <2> DEFINE field == <<m.fields[k + 1][1]>>
             value == <<m.fields[k + 1][2]>>
  <2>1. field # <<>>
    OBVIOUS
  <2>2. addHeader(Heads(m, k), field, value) = Heads(m, k + 1)
    BY <1>7, PartsAre, HeadsMore
  <2> HIDE DEF field, value
  <2>3. parseHttpField(R(Heads(m, k)), field, value)
          = R(addHeader(Heads(m, k), field, value))
    BY <2>1 DEF parseHttpField
  <2>. QED
    BY <1>5, <2>2, <2>3 DEF field, value
<1>8. WithHeads(m, Len(m.fields)) = meant(m)
  <2>1. meant(m) = R(meant(m).headers_)
    BY DEF meant, method, version
  <2>. QED
    BY <1>5, <2>1, HeadsAll
<1>. QED
  BY <1>4, <1>6, <1>7, <1>8

-----------------------------------------------------------------------------
(* The machine on the units of a plain request, phase by phase. *)

(* After p turns, if the buffer has that many units, the machine is where p   *)
(* units of a request lead; it has neither failed nor finished on the way.    *)
Gets(buffer, f, p, cs, a, b, c, d, r) ==
  /\ \A i \in 0..p : i <= Len(buffer) => f[i].parser.cs \notin {"final", "error"}
  /\ p <= Len(buffer) => Is(f[p], p, cs, a, b, c, d, r)

(* What lies in the buffer, if it is there, is what was sent. *)
LEMMA SameElement ==
  ASSUME NEW m, NEW buffer, NEW query, NEW f, Takes(m, buffer, query, f),
         NEW a \in Nat, NEW k \in Nat, a + k <= Len(buffer), a + k <= Len(wire(m))
  PROVE  element(buffer, a, k) = element(wire(m), a, k)
<1> DEFINE w == wire(m)
<1>1. /\ buffer \in Seq(Units) /\ m \in Messages
      /\ \A i \in 1..Len(buffer) : i <= Len(w) => buffer[i] = w[i]
  BY DEF Takes
<1>2. w \in Seq(Units)
  BY <1>1, WireType
<1> HIDE DEF w
<1>3. /\ element(buffer, a, k) = SubSeq(buffer, a + 1, a + k)
      /\ element(w, a, k) = SubSeq(w, a + 1, a + k)
  BY DEF element
<1>4. \A i \in 1..k : buffer[a + i] = w[a + i]
  <2>1. Len(buffer) \in Nat /\ Len(w) \in Nat /\ a + k <= Len(w)
    BY <1>1, <1>2 DEF w
  <2>2. \A i \in 1..k : a + i \in 1..Len(buffer) /\ a + i <= Len(w)
    BY <2>1
  <2>. QED
    BY <1>1, <2>2
<1> DEFINE x == SubSeq(buffer, a + 1, a + k)
           y == SubSeq(w, a + 1, a + k)
<1>5. /\ x \in Seq(Units) /\ Len(x) = k /\ \A i \in 1..k : x[i] = buffer[a + i]
  <2>1. Len(buffer) \in Nat
    BY <1>1
  <2>2. (a + 1) + k - 1 = a + k
    OBVIOUS
  <2>. QED
    BY <1>1, <2>1
<1>6. /\ y \in Seq(Units) /\ Len(y) = k /\ \A i \in 1..k : y[i] = w[a + i]
  <2>1. Len(w) \in Nat /\ a + k <= Len(w)
    BY <1>2 DEF w
  <2>. QED
    BY <1>2, <2>1
<1> HIDE DEF x, y
<1>7. x = y
  <2>1. Len(x) = Len(y) /\ \A i \in 1..Len(x) : x[i] = y[i]
    BY <1>4, <1>5, <1>6
  <2>. QED
    BY <1>5, <1>6, <2>1, SeqEqual
<1>. QED
  BY <1>3, <1>7 DEF x, y, w

(* One unit further. *)
LEMMA Advances ==
  ASSUME NEW m, NEW buffer, NEW query, NEW f, Takes(m, buffer, query, f),
         NEW p \in Nat, p < Len(wire(m)),
         NEW cs, NEW a, NEW b, NEW c, NEW d, NEW r,
         Gets(buffer, f, p, cs, a, b, c, d, r),
         NEW to, NEW do, Goes(cs, wire(m)[p + 1], to, do), to # "error", to # "final"
  PROVE  LET q == p + 1
             part(from, len) == element(wire(m), from, len)
             marked == part(a, p - a)
         IN  /\ do = <<>> => Gets(buffer, f, q, to, a, b, c, d, r)
             /\ do = <<"mark">> => Gets(buffer, f, q, to, p, b, c, d, r)
             /\ do = <<"start_value">> => Gets(buffer, f, q, to, p, b, c, d, r)
             /\ do = <<"start_field">> => Gets(buffer, f, q, to, a, p, c, d, r)
             /\ do = <<"write_field">> => Gets(buffer, f, q, to, a, b, p - b, d, r)
             /\ do = <<"start_query">> => Gets(buffer, f, q, to, a, b, c, p, r)
             /\ do = <<"request_method">> /\ a \in 0..p =>
                  Gets(buffer, f, q, to, a, b, c, d, parseRequestMethod(r, marked))
             /\ do = <<"request_path">> /\ a \in 0..p =>
                  Gets(buffer, f, q, to, a, b, c, d, parseRequestPath(r, marked))
             /\ do = <<"request_path", "request_uri">> /\ a \in 0..p =>
                  Gets(buffer, f, q, to, a, b, c, d, parseRequestPath(r, marked))
             /\ do = <<"query_string", "request_uri">> /\ d \in 0..p =>
                  Gets(buffer, f, q, to, a, b, c, d,
                       parseQueryString(r, part(d, p - d)))
             /\ do = <<"http_version">> /\ a \in 0..p =>
                  Gets(buffer, f, q, to, a, b, c, d, parseHttpVersion(r, marked))
             /\ do = <<"write_value">> /\ a \in 0..p
                  /\ b \in Nat /\ c \in Nat /\ b + c <= p =>
                  Gets(buffer, f, q, to, a, b, c, d,
                       parseHttpField(r, part(b, c), marked))
<1>1. buffer \in Seq(Units) /\ m \in Messages
  BY DEF Takes
<1>2. Len(buffer) \in Nat /\ Len(wire(m)) \in Nat
  BY <1>1, WireType
<1>3. ASSUME NEW aa, NEW bb, NEW cc, NEW dd, NEW rr,
             p < Len(buffer) => Is(f[p + 1], p + 1, to, aa, bb, cc, dd, rr)
      PROVE  Gets(buffer, f, p + 1, to, aa, bb, cc, dd, rr)
  <2>1. p + 1 <= Len(buffer) => p < Len(buffer)
    BY <1>2
  <2>2. p + 1 <= Len(buffer) => f[p + 1].parser.cs = to
    BY <1>3, <2>1 DEF Is
  <2>3. \A i \in 0..p : i <= Len(buffer) => f[i].parser.cs \notin {"final", "error"}
    BY DEF Gets
  <2>4. \A i \in 0..p + 1 : i \in 0..p \/ i = p + 1
    OBVIOUS
  <2>. QED
    BY <1>3, <2>1, <2>2, <2>3, <2>4 DEF Gets
<1>4. CASE p < Len(buffer)
  <2>1. /\ f[p + 1] = resume(buffer, f[p], p)
        /\ buffer[p + 1] = wire(m)[p + 1] /\ buffer[p + 1] \in Units
    BY <1>4, OneTurn
  <2>2. Is(f[p], p, cs, a, b, c, d, r)
    BY <1>2, <1>4 DEF Gets
  <2>3. \A x \in 0..p : element(buffer, x, p - x) = element(wire(m), x, p - x)
    <3> TAKE x \in 0..p
    <3>1. x \in Nat /\ p - x \in Nat /\ x + (p - x) = p
      OBVIOUS
    <3>2. x + (p - x) <= Len(buffer) /\ x + (p - x) <= Len(wire(m))
      BY <1>2, <1>4, <3>1
    <3>. QED
      BY <3>1, <3>2, SameElement
  <2>4. \A x, k \in Nat : x + k <= p => element(buffer, x, k) = element(wire(m), x, k)
    <3> TAKE x, k \in Nat
    <3> HAVE x + k <= p
    <3>2. x + k <= Len(buffer) /\ x + k <= Len(wire(m))
      BY <1>2, <1>4
    <3>. QED
      BY <3>2, SameElement
  <2> DEFINE t == resume(buffer, f[p], p)
             marked == element(buffer, a, p - a)
  <2>5. /\ do = <<>> => Is(t, p + 1, to, a, b, c, d, r)
        /\ do = <<"mark">> => Is(t, p + 1, to, p, b, c, d, r)
        /\ do = <<"start_value">> => Is(t, p + 1, to, p, b, c, d, r)
        /\ do = <<"start_field">> => Is(t, p + 1, to, a, p, c, d, r)
        /\ do = <<"write_field">> => Is(t, p + 1, to, a, b, p - b, d, r)
        /\ do = <<"start_query">> => Is(t, p + 1, to, a, b, c, p, r)
        /\ do = <<"request_method">> =>
             Is(t, p + 1, to, a, b, c, d, parseRequestMethod(r, marked))
        /\ do = <<"request_path">> =>
             Is(t, p + 1, to, a, b, c, d, parseRequestPath(r, marked))
        /\ do = <<"request_path", "request_uri">> =>
             Is(t, p + 1, to, a, b, c, d, parseRequestPath(r, marked))
        /\ do = <<"query_string", "request_uri">> =>
             Is(t, p + 1, to, a, b, c, d,
                parseQueryString(r, element(buffer, d, p - d)))
        /\ do = <<"http_version">> =>
             Is(t, p + 1, to, a, b, c, d, parseHttpVersion(r, marked))
        /\ do = <<"write_value">> =>
             Is(t, p + 1, to, a, b, c, d,
                parseHttpField(r, element(buffer, b, c), marked))
    <3>1. Goes(cs, buffer[p + 1], to, do) /\ buffer[p + 1] \in Units
      BY <2>1
    <3> HIDE DEF t, marked
    <3>. QED
      BY <2>2, <3>1, Moves, Zenon DEF t, marked
  <2>6. t = f[p + 1]
    BY <2>1
  <2> HIDE DEF t
  <2>7. /\ do = <<>> => Gets(buffer, f, p + 1, to, a, b, c, d, r)
        /\ do = <<"mark">> => Gets(buffer, f, p + 1, to, p, b, c, d, r)
        /\ do = <<"start_value">> => Gets(buffer, f, p + 1, to, p, b, c, d, r)
        /\ do = <<"start_field">> => Gets(buffer, f, p + 1, to, a, p, c, d, r)
        /\ do = <<"write_field">> => Gets(buffer, f, p + 1, to, a, b, p - b, d, r)
        /\ do = <<"start_query">> => Gets(buffer, f, p + 1, to, a, b, c, p, r)
    BY <1>3, <2>5, <2>6, Zenon
  <2>8. a \in 0..p => marked = element(wire(m), a, p - a)
    BY <2>3, Zenon
  <2> HIDE DEF marked
  <2>9. /\ do = <<"request_method">> =>
             Gets(buffer, f, p + 1, to, a, b, c, d, parseRequestMethod(r, marked))
        /\ do = <<"request_path">> =>
             Gets(buffer, f, p + 1, to, a, b, c, d, parseRequestPath(r, marked))
        /\ do = <<"request_path", "request_uri">> =>
             Gets(buffer, f, p + 1, to, a, b, c, d, parseRequestPath(r, marked))
        /\ do = <<"http_version">> =>
             Gets(buffer, f, p + 1, to, a, b, c, d, parseHttpVersion(r, marked))
    BY <1>3, <2>5, <2>6, Zenon
  <2>10. do = <<"query_string", "request_uri">> =>
           Gets(buffer, f, p + 1, to, a, b, c, d,
                parseQueryString(r, element(buffer, d, p - d)))
    BY <1>3, <2>5, <2>6, Zenon
  <2>11. do = <<"write_value">> =>
           Gets(buffer, f, p + 1, to, a, b, c, d,
                parseHttpField(r, element(buffer, b, c), marked))
    BY <1>3, <2>5, <2>6, Zenon
  <2>. QED
    BY <2>3, <2>4, <2>7, <2>8, <2>9, <2>10, <2>11, Zenon
<1>5. CASE ~(p < Len(buffer))
  BY <1>3, <1>5, Zenon
<1>. QED
  BY <1>4, <1>5, Zenon

(* The method and the path. *)
LEMMA PathRead ==
  ASSUME NEW m, NEW buffer, NEW query, NEW f, Takes(m, buffer, query, f)
  PROVE  Gets(buffer, f, 3, "path", 2, 0, 0, query, WithMethod(m))
<1> DEFINE w == wire(m)
<1>1. m \in Messages /\ m.body = <<>>
  BY DEF Takes
<1>2. /\ w \in Seq(Units) /\ Len(w) \in Nat /\ Len(w) >= 4
      /\ w[1] = m.method /\ w[2] = Sp /\ w[3] = m.path
      /\ m.method \in Uppers /\ m.path \in Paths
  <2>1. WireIs(m, w)
    BY <1>1, WireOfPlain
  <2>2. UriEnd(m) \in Nat /\ Len(m.fields) \in Nat
    BY <1>1, PartsAre
  <2> HIDE DEF w
  <2>3. w \in Seq(Units) /\ Len(w) = UriEnd(m) + 3 + 5 * Len(m.fields) + 1
    BY <2>1 DEF WireIs, HeadEnd
  <2>. QED
    BY <1>1, <2>1, <2>2, <2>3, PartsAre DEF WireIs
<1>3. Gets(buffer, f, 0, "start", 0, 0, 0, query, HttpRequest)
  <2>1. Is(f[0], 0, "start", 0, 0, 0, query, HttpRequest)
    BY FirstIs
  <2>2. \A i \in 0..0 : i = 0
    OBVIOUS
  <2>. QED
    BY <2>1, <2>2 DEF Gets, Is
<1>4. Gets(buffer, f, 1, "method", 0, 0, 0, query, HttpRequest)
  <2>1. Goes("start", w[0 + 1], "method", <<"mark">>) /\ 0 < Len(w) /\ 0 \in Nat
    BY <1>2, Lookups
  <2>2. Gets(buffer, f, 0 + 1, "method", 0, 0, 0, query, HttpRequest)
    BY <1>3, <2>1, Advances
  <2>. QED
    BY <2>2
<1>5. Gets(buffer, f, 2, "uri", 0, 0, 0, query, WithMethod(m))
  <2>1. Goes("method", w[1 + 1], "uri", <<"request_method">>) /\ 1 < Len(w)
        /\ 1 \in Nat /\ 0 \in 0..1
    BY <1>2, Lookups
  <2>2. element(w, 0, 1 - 0) = <<m.method>>
    BY <1>2, OneUnit
  <2>3. Gets(buffer, f, 1 + 1, "uri", 0, 0, 0, query,
             parseRequestMethod(HttpRequest, element(w, 0, 1 - 0)))
    BY <1>4, <2>1, Advances
  <2>. QED
    BY <2>2, <2>3 DEF WithMethod
<1>6. Gets(buffer, f, 3, "path", 2, 0, 0, query, WithMethod(m))
  <2>1. Goes("uri", w[2 + 1], "path", <<"mark">>) /\ 2 < Len(w) /\ 2 \in Nat
    BY <1>2, Lookups
  <2>2. Gets(buffer, f, 2 + 1, "path", 2, 0, 0, query, WithMethod(m))
    BY <1>5, <2>1, Advances
  <2>. QED
    BY <2>2
<1>. QED
  BY <1>6

(* The query, if there is one. *)
LEMMA UriRead ==
  ASSUME NEW m, NEW buffer, NEW query, NEW f, Takes(m, buffer, query, f)
  PROVE  \E d : Gets(buffer, f, UriEnd(m) + 1, "version", 2, 0, 0, d, WithQuery(m))
<1> DEFINE w == wire(m)
           l == Len(m.query)
<1>1. m \in Messages /\ m.body = <<>>
  BY DEF Takes
<1>2. WireIs(m, w) /\ UriEnd(m) \in Nat /\ Len(m.fields) \in Nat /\ l \in Nat
      /\ m.query \in Seq(Text) /\ m.query \in Seq(Units)
  BY <1>1, WireOfPlain, PartsAre
<1> HIDE DEF w
<1>3. /\ w \in Seq(Units) /\ Len(w) \in Nat /\ UriEnd(m) + 3 < Len(w)
      /\ w[3] = m.path /\ w[UriEnd(m) + 1] = Sp
  BY <1>2 DEF WireIs, HeadEnd
<1>4. Gets(buffer, f, 3, "path", 2, 0, 0, query, WithMethod(m))
  BY PathRead
<1>5. element(w, 2, 3 - 2) = <<m.path>>
  <2>1. 2 < Len(w)
    BY <1>2, <1>3
  <2>. QED
    BY <1>3, <2>1, OneUnit
<1>6. CASE m.query = <<>>
  <2>1. UriEnd(m) = 3
    BY <1>6 DEF UriEnd
  <2>2. Goes("path", w[3 + 1], "version", <<"request_path", "request_uri">>)
        /\ 3 < Len(w) /\ 3 \in Nat /\ 2 \in 0..3
    BY <1>3, <2>1, Lookups
  <2>3. Gets(buffer, f, 3 + 1, "version", 2, 0, 0, query,
             parseRequestPath(WithMethod(m), element(w, 2, 3 - 2)))
    BY <1>4, <2>2, Advances DEF w
  <2>4. Gets(buffer, f, 3 + 1, "version", 2, 0, 0, query, WithQuery(m))
    BY <1>5, <1>6, <2>3 DEF WithQuery, WithPath
  <2>. QED
    BY <2>1, <2>4
<1>7. CASE m.query # <<>>
  <2>1. /\ UriEnd(m) = 4 + l /\ w[4] = Qm /\ l >= 1
        /\ \A i \in 1..l : w[4 + i] = m.query[i] /\ m.query[i] \in Text
    <3>1. l # 0
      BY <1>2, <1>7
    <3>. QED
      BY <1>2, <1>7, <3>1 DEF UriEnd, WireIs
  <2>2. Gets(buffer, f, 4, "query0", 2, 0, 0, query, WithPath(m))
    <3>2. Goes("path", w[3 + 1], "query0", <<"request_path">>)
          /\ 3 < Len(w) /\ 3 \in Nat /\ 2 \in 0..3
      BY <1>2, <1>3, <2>1, Lookups
    <3>3. Gets(buffer, f, 3 + 1, "query0", 2, 0, 0, query,
               parseRequestPath(WithMethod(m), element(w, 2, 3 - 2)))
      BY <1>4, <3>2, Advances DEF w
    <3>. QED
      BY <1>5, <3>3 DEF WithPath
  <2> DEFINE S(k) == Gets(buffer, f, 5 + k, "query", 2, 0, 0, 4, WithPath(m))
             T == {k \in Nat : k < l => S(k)}
  <2>3. 0 \in T
    <3>1. Goes("query0", w[4 + 1], "query", <<"start_query">>) /\ 4 < Len(w) /\ 4 \in Nat
      <4>1. 1 \in 1..l /\ 4 < Len(w)
        BY <1>2, <1>3, <2>1
      <4>2. w[4 + 1] \in Text
        BY <2>1, <4>1
      <4>. QED
        BY <4>1, <4>2, Lookups
    <3>2. Gets(buffer, f, 4 + 1, "query", 2, 0, 0, 4, WithPath(m))
      BY <2>2, <3>1, Advances DEF w
    <3>. QED
      BY <3>2
  <2>4. ASSUME NEW k \in Nat, k \in T PROVE k + 1 \in T
    <3> SUFFICES ASSUME k + 1 < l PROVE S(k + 1)
      OBVIOUS
    <3> DEFINE p == 5 + k
    <3>1. Gets(buffer, f, p, "query", 2, 0, 0, 4, WithPath(m))
      BY <1>2, <2>4
    <3>2. p + 1 = 4 + (k + 2) /\ k + 2 \in 1..l /\ p \in Nat /\ p < Len(w)
          /\ p + 1 = 5 + (k + 1)
      BY <1>2, <1>3, <2>1
    <3>3. Goes("query", w[p + 1], "query", <<>>)
      BY <2>1, <3>2, Lookups
    <3> HIDE DEF p
    <3>4. Gets(buffer, f, p + 1, "query", 2, 0, 0, 4, WithPath(m))
      BY <3>1, <3>2, <3>3, Advances DEF w
    <3>. QED
      BY <3>2, <3>4
  <2>5. l - 1 \in T
    <3>1. l - 1 \in Nat
      BY <1>2, <2>1
    <3> HIDE DEF T
    <3>. QED
      BY <2>3, <2>4, <3>1, Induction
  <2>6. Gets(buffer, f, 4 + l, "query", 2, 0, 0, 4, WithPath(m))
    <3>1. S(l - 1) /\ 5 + (l - 1) = 4 + l
      BY <1>2, <2>1, <2>5
    <3>. QED
      BY <3>1
  <2>7. element(w, 4, l) = m.query
    <3> DEFINE x == SubSeq(w, 4 + 1, 4 + l)
               q == m.query
    <3>1. element(w, 4, l) = x
      BY DEF element
    <3>2. 4 + l <= Len(w)
      BY <1>2, <1>3, <2>1
    <3>3. x \in Seq(Units) /\ Len(x) = l /\ \A i \in 1..l : x[i] = w[4 + i]
      BY <1>2, <1>3, <3>2
    <3>4. Len(x) = Len(q) /\ \A i \in 1..Len(x) : x[i] = q[i]
      BY <2>1, <3>3
    <3> HIDE DEF x, q
    <3>5. x = q
      <4>1. q \in Seq(Units)
        BY <1>2 DEF q
      <4>. QED
        BY <3>3, <3>4, <4>1, SeqEqual
    <3>. QED
      BY <3>1, <3>5 DEF q
  <2>8. Gets(buffer, f, UriEnd(m) + 1, "version", 2, 0, 0, 4, WithQuery(m))
    <3> DEFINE p == 4 + l
    <3>1. p \in Nat /\ p < Len(w) /\ p + 1 = UriEnd(m) + 1 /\ 4 \in 0..p /\ p - 4 = l
      BY <1>2, <1>3, <2>1
    <3>2. Goes("query", w[p + 1], "version", <<"query_string", "request_uri">>)
      BY <1>3, <3>1, Lookups
    <3>3. Gets(buffer, f, p, "query", 2, 0, 0, 4, WithPath(m))
      BY <2>6
    <3> HIDE DEF p
    <3>4. Gets(buffer, f, p + 1, "version", 2, 0, 0, 4,
               parseQueryString(WithPath(m), element(w, 4, p - 4)))
      BY <3>1, <3>2, <3>3, Advances DEF w
    <3>. QED
      BY <1>7, <2>7, <3>1, <3>4 DEF WithQuery
  <2>. QED
    BY <2>8
<1>. QED
  BY <1>6, <1>7

(* The version. *)
LEMMA VersionRead ==
  ASSUME NEW m, NEW buffer, NEW query, NEW f, Takes(m, buffer, query, f)
  PROVE  \E a, b, c, d : Gets(buffer, f, HeadEnd(m), "header", a, b, c, d,
                              WithHeads(m, 0))
<1> DEFINE w == wire(m)
           e == UriEnd(m)
<1>1. m \in Messages /\ m.body = <<>> /\ m.version \in Versions
  BY DEF Takes
<1>2. WireIs(m, w) /\ e \in Nat /\ Len(m.fields) \in Nat
  BY <1>1, WireOfPlain, PartsAre
<1> HIDE DEF w
<1>3. /\ w \in Seq(Units) /\ Len(w) \in Nat /\ e + 3 < Len(w)
      /\ w[e + 2] = m.version /\ w[e + 3] = Nl
  BY <1>2 DEF WireIs, HeadEnd
<1>4. PICK d : Gets(buffer, f, e + 1, "version", 2, 0, 0, d, WithQuery(m))
  BY UriRead
<1>5. Gets(buffer, f, e + 2, "version_end", e + 1, 0, 0, d, WithQuery(m))
  <2> DEFINE p == e + 1
  <2>1. p \in Nat /\ p < Len(w) /\ p + 1 = e + 2
    BY <1>2, <1>3
  <2>2. Goes("version", w[p + 1], "version_end", <<"mark">>)
    BY <1>1, <1>3, <2>1, Lookups
  <2>3. Gets(buffer, f, p, "version", 2, 0, 0, d, WithQuery(m))
    BY <1>4
  <2> HIDE DEF p
  <2>4. Gets(buffer, f, p + 1, "version_end", p, 0, 0, d, WithQuery(m))
    BY <2>1, <2>2, <2>3, Advances DEF w
  <2>. QED
    BY <2>1, <2>4 DEF p
<1>6. Gets(buffer, f, e + 3, "header", e + 1, 0, 0, d, WithHeads(m, 0))
  <2> DEFINE p == e + 2
             a == e + 1
  <2>1. p \in Nat /\ p < Len(w) /\ p + 1 = e + 3 /\ a \in 0..p /\ p - a = 1 /\ a + 1 = e + 2
        /\ a \in Nat /\ a < Len(w)
    BY <1>2, <1>3
  <2>2. Goes("version_end", w[p + 1], "header", <<"http_version">>)
    BY <1>3, <2>1, Lookups
  <2>3. Gets(buffer, f, p, "version_end", a, 0, 0, d, WithQuery(m))
    BY <1>5
  <2> HIDE DEF p, a
  <2>4. Gets(buffer, f, p + 1, "header", a, 0, 0, d,
             parseHttpVersion(WithQuery(m), element(w, a, p - a)))
    BY <2>1, <2>2, <2>3, Advances DEF w
  <2>5. element(w, a, p - a) = <<m.version>>
    BY <1>3, <2>1, OneUnit
  <2>6. WithHeads(m, 0) = parseHttpVersion(WithQuery(m), <<m.version>>)
    BY <1>1, HeadsRead
  <2>. QED
    BY <2>1, <2>4, <2>5, <2>6 DEF a
<1>. QED
  BY <1>6 DEF HeadEnd

(* A header line. *)
LEMMA LineRead ==
  ASSUME NEW m, NEW buffer, NEW query, NEW f, Takes(m, buffer, query, f),
         NEW k \in Nat, k < Len(m.fields), NEW h \in Nat, h = HeadEnd(m) + 5 * k,
         NEW a, NEW b, NEW c, NEW d,
         Gets(buffer, f, h, "header", a, b, c, d, WithHeads(m, k))
  PROVE  Gets(buffer, f, h + 5, "header", h + 3, h, 1, d, WithHeads(m, k + 1))
<1> DEFINE w == wire(m)
           x == m.fields[k + 1]
<1>1. m \in Messages /\ m.body = <<>> /\ m.version \in Versions
  BY DEF Takes
<1>2. WireIs(m, w) /\ UriEnd(m) \in Nat /\ Len(m.fields) \in Nat
      /\ m.fields \in Seq(Words \X Words)
  BY <1>1, WireOfPlain, PartsAre
<1> HIDE DEF w
<1>3. w \in Seq(Units) /\ Len(w) \in Nat /\ h + 5 < Len(w) /\ HeadEnd(m) \in Nat
  <2>1. w \in Seq(Units) /\ Len(w) = HeadEnd(m) + 5 * Len(m.fields) + 1
        /\ HeadEnd(m) \in Nat
    BY <1>2 DEF WireIs, HeadEnd
  <2>2. \A e, n \in Nat : k < n /\ h = e + 5 * k => h + 5 < e + 5 * n + 1
    OBVIOUS
  <2>. QED
    BY <1>2, <2>1, <2>2
<1>4. /\ w[h + 1] = x[1] /\ w[h + 2] = Co /\ w[h + 3] = Sp /\ w[h + 4] = x[2]
      /\ w[h + 5] = Nl /\ x[1] \in Words /\ x[2] \in Words
  <2>1. \A j \in 1..5 : w[h + j] = line(x)[j]
    <3>1. \A j \in 1..5 : w[HeadEnd(m) + 5 * ((k + 1) - 1) + j] = line(m.fields[k + 1])[j]
      <4>1. k + 1 \in 1..Len(m.fields)
        BY <1>2
      <4>. QED
        BY <1>2, <4>1 DEF WireIs
    <3>2. (k + 1) - 1 = k
      OBVIOUS
    <3>. QED
      BY <3>1, <3>2
  <2>2. x \in Words \X Words
    BY <1>2
  <2> HIDE DEF x
  <2>. QED
    BY <2>1, <2>2, LineIs
<1> HIDE DEF x
<1>5. Gets(buffer, f, h + 1, "name", a, h, c, d, WithHeads(m, k))
  <2>1. \A u \in Words : Goes("header", u, "name", <<"start_field">>)
    BY Lookups
  <2>2. Goes("header", w[h + 1], "name", <<"start_field">>)
    BY <1>4, <2>1
  <2>3. h < Len(w)
    BY <1>3
  <2>. QED
    BY <2>2, <2>3, Advances DEF w
<1>6. Gets(buffer, f, h + 2, "value0", a, h, 1, d, WithHeads(m, k))
  <2> DEFINE p == h + 1
  <2>1. p \in Nat /\ p < Len(w) /\ p + 1 = h + 2 /\ p - h = 1
    BY <1>3
  <2>2. Goes("name", w[p + 1], "value0", <<"write_field">>)
    BY <1>4, <2>1, Lookups
  <2>3. Gets(buffer, f, p, "name", a, h, c, d, WithHeads(m, k))
    BY <1>5
  <2> HIDE DEF p
  <2>4. Gets(buffer, f, p + 1, "value0", a, h, p - h, d, WithHeads(m, k))
    BY <2>1, <2>2, <2>3, Advances DEF w
  <2>. QED
    BY <2>1, <2>4
<1>7. Gets(buffer, f, h + 3, "value0", h + 2, h, 1, d, WithHeads(m, k))
  <2> DEFINE p == h + 2
  <2>1. p \in Nat /\ p < Len(w) /\ p + 1 = h + 3
    BY <1>3
  <2>2. Goes("value0", w[p + 1], "value0", <<"start_value">>)
    BY <1>4, <2>1, Lookups
  <2>3. Gets(buffer, f, p, "value0", a, h, 1, d, WithHeads(m, k))
    BY <1>6
  <2> HIDE DEF p
  <2>4. Gets(buffer, f, p + 1, "value0", p, h, 1, d, WithHeads(m, k))
    BY <2>1, <2>2, <2>3, Advances DEF w
  <2>. QED
    BY <2>1, <2>4 DEF p
<1>8. Gets(buffer, f, h + 4, "value", h + 3, h, 1, d, WithHeads(m, k))
  <2> DEFINE p == h + 3
  <2>1. p \in Nat /\ p < Len(w) /\ p + 1 = h + 4
    BY <1>3
  <2>2. Goes("value0", w[p + 1], "value", <<"start_value">>)
    BY <1>4, <2>1, Lookups
  <2>3. Gets(buffer, f, p, "value0", h + 2, h, 1, d, WithHeads(m, k))
    BY <1>7
  <2> HIDE DEF p
  <2>4. Gets(buffer, f, p + 1, "value", p, h, 1, d, WithHeads(m, k))
    BY <2>1, <2>2, <2>3, Advances DEF w
  <2>. QED
    BY <2>1, <2>4 DEF p
<1>9. Gets(buffer, f, h + 5, "header", h + 3, h, 1, d, WithHeads(m, k + 1))
  <2> DEFINE p == h + 4
             v == h + 3
  <2>1. /\ p \in Nat /\ p < Len(w) /\ p + 1 = h + 5 /\ v \in 0..p /\ p - v = 1
        /\ v \in Nat /\ v < Len(w) /\ v + 1 = h + 4 /\ 1 \in Nat /\ h + 1 <= p /\ h < Len(w)
    BY <1>3
  <2>2. Goes("value", w[p + 1], "header", <<"write_value">>)
    BY <1>4, <2>1, Lookups
  <2>3. Gets(buffer, f, p, "value", v, h, 1, d, WithHeads(m, k))
    BY <1>8
  <2> HIDE DEF p, v
  <2>4. Gets(buffer, f, p + 1, "header", v, h, 1, d,
             parseHttpField(WithHeads(m, k), element(w, h, 1), element(w, v, p - v)))
    BY <2>1, <2>2, <2>3, Advances DEF w
  <2>5. element(w, h, 1) = <<x[1]>> /\ element(w, v, p - v) = <<x[2]>>
    BY <1>3, <1>4, <2>1, OneUnit
  <2>6. parseHttpField(WithHeads(m, k), <<x[1]>>, <<x[2]>>) = WithHeads(m, k + 1)
    BY <1>1, HeadsRead DEF x
  <2>. QED
    BY <2>1, <2>4, <2>5, <2>6 DEF v
<1>. QED
  BY <1>9

(* All of them. *)
LEMMA LinesRead ==
  ASSUME NEW m, NEW buffer, NEW query, NEW f, Takes(m, buffer, query, f)
  PROVE  \E a, b, c, d : Gets(buffer, f, Len(wire(m)) - 1, "header", a, b, c, d, meant(m))
<1> DEFINE n == Len(m.fields)
           h(k) == HeadEnd(m) + 5 * k
           S(k) == \E a, b, c, d : Gets(buffer, f, h(k), "header", a, b, c, d,
                                        WithHeads(m, k))
           T == {k \in Nat : k <= n => S(k)}
<1>1. m \in Messages /\ m.body = <<>> /\ m.version \in Versions
  BY DEF Takes
<1>2. WireIs(m, wire(m)) /\ UriEnd(m) \in Nat /\ n \in Nat
  BY <1>1, WireOfPlain, PartsAre
<1>3. Len(wire(m)) = h(n) + 1 /\ HeadEnd(m) \in Nat
  BY <1>2 DEF WireIs, HeadEnd
<1>4. 0 \in T
  <2>1. h(0) = HeadEnd(m)
    BY <1>3
  <2>2. S(0)
    BY <2>1, VersionRead
  <2>. QED
    BY <2>2
<1>5. ASSUME NEW k \in Nat, k \in T PROVE k + 1 \in T
  <2> SUFFICES ASSUME k + 1 <= n PROVE S(k + 1)
    OBVIOUS
  <2>1. k < n /\ h(k) \in Nat /\ h(k + 1) = h(k) + 5
    BY <1>2, <1>3
  <2>2. S(k)
    <3>1. k <= n
      BY <1>2, <2>1
    <3> HIDE DEF S
    <3>. QED
      BY <1>5, <3>1
  <2>3. PICK a, b, c, d : Gets(buffer, f, h(k), "header", a, b, c, d, WithHeads(m, k))
    BY <2>2
  <2> DEFINE hk == h(k)
  <2>4. hk \in Nat /\ hk = HeadEnd(m) + 5 * k
        /\ Gets(buffer, f, hk, "header", a, b, c, d, WithHeads(m, k))
    BY <2>1, <2>3
  <2> HIDE DEF hk
  <2>5. Gets(buffer, f, hk + 5, "header", hk + 3, hk, 1, d, WithHeads(m, k + 1))
    BY <2>1, <2>4, LineRead
  <2>6. h(k + 1) = hk + 5
    BY <2>1 DEF hk
  <2>. QED
    BY <2>5, <2>6
<1>6. S(n)
  <2> HIDE DEF S, T
  <2>1. n \in T
    BY <1>2, <1>4, <1>5, Induction
  <2>2. n <= n
    BY <1>2
  <2>. QED
    BY <2>1, <2>2 DEF T
<1>7. WithHeads(m, n) = meant(m)
  BY <1>1, HeadsRead
<1>8. Len(wire(m)) - 1 = h(n)
  BY <1>2, <1>3
<1>. QED
  BY <1>6, <1>7, <1>8

(* The whole request, or a part of it. *)
LEMMA PlainRead ==
  ASSUME NEW m, NEW buffer, NEW query, NEW f, Takes(m, buffer, query, f)
  PROVE  LET t == f[Len(buffer)]
         IN  /\ Len(wire(m)) <= Len(buffer) =>
                  t.parser.cs = "final" /\ t.p = Len(wire(m)) /\ t.request = meant(m)
             /\ Len(buffer) < Len(wire(m)) => t.parser.cs \notin {"final", "error"}
<1> DEFINE w == wire(m)
           n == Len(buffer)
           p == Len(w) - 1
<1>1. /\ m \in Messages /\ m.body = <<>> /\ buffer \in Seq(Units)
      /\ \A i \in 1..n : f[i] = resume(buffer, f[i - 1], i - 1)
  BY DEF Takes
<1>2. WireIs(m, w) /\ UriEnd(m) \in Nat /\ Len(m.fields) \in Nat /\ n \in Nat
  BY <1>1, WireOfPlain, PartsAre
<1>3. Len(w) \in Nat /\ p \in Nat /\ p + 1 = Len(w) /\ w[p + 1] = Nl
  <2>1. Len(w) = HeadEnd(m) + 5 * Len(m.fields) + 1 /\ HeadEnd(m) \in Nat
        /\ w[HeadEnd(m) + 5 * Len(m.fields) + 1] = Nl
    BY <1>2 DEF WireIs, HeadEnd
  <2>2. \A e, n_, l : e \in Nat /\ n_ \in Nat /\ l = e + 5 * n_ + 1 =>
          l \in Nat /\ l - 1 \in Nat /\ (l - 1) + 1 = l
    OBVIOUS
  <2> HIDE DEF w
  <2>. QED
    BY <1>2, <2>1, <2>2
<1>4. PICK a, b, c, d : Gets(buffer, f, p, "header", a, b, c, d, meant(m))
  BY LinesRead
<1> HIDE DEF w, p
<1>5. CASE n < Len(w)
  <2>1. n \in 0..p /\ n <= n
    BY <1>2, <1>3, <1>5
  <2>2. f[n].parser.cs \notin {"final", "error"}
    BY <1>4, <2>1 DEF Gets
  <2>3. ~(Len(w) <= n)
    BY <1>2, <1>3, <1>5
  <2>. QED
    BY <2>2, <2>3 DEF w
<1>6. CASE Len(w) <= n
  <2>1. p < n /\ p <= n /\ p < Len(w)
    BY <1>2, <1>3, <1>6
  <2>2. Is(f[p], p, "header", a, b, c, d, meant(m))
    BY <1>4, <2>1 DEF Gets
  <2>3. f[p + 1] = resume(buffer, f[p], p) /\ buffer[p + 1] = Nl /\ buffer[p + 1] \in Units
    BY <1>3, <2>1, OneTurn DEF w
  <2>4. Goes("header", buffer[p + 1], "final", <<"start_field", "done">>)
    BY <2>3, Lookups
  <2> DEFINE t == f[p + 1]
  <2>5. t.parser.cs = "final" /\ t.request = meant(m) /\ t.p = p + 1 /\ t.out = TRUE
    <3> DEFINE v == resume(buffer, f[p], p)
    <3>1. v.parser.cs = "final" /\ v.request = meant(m) /\ v.p = p + 1 /\ v.out = TRUE
      BY <1>3, <2>2, <2>3, <2>4, Ends, Zenon
    <3>. QED
      BY <2>3, <3>1
  <2>6. f[n] = f[p + 1]
    <3>1. p + 1 \in Nat /\ p + 1 <= n /\ f[p + 1].out = TRUE
      BY <1>3, <1>6, <2>5
    <3>2. PICK from \in Nat, to \in Nat : from = p + 1 /\ to = n
      BY <1>2, <3>1
    <3>3. from <= to /\ Out(f[from])
      BY <3>1, <3>2 DEF Out
    <3>5. Turns(buffer, f, 0, to)
      <4>1. \A i \in 1..to : 0 + i - 1 = i - 1
        OBVIOUS
      <4>. QED
        BY <1>1, <3>2, <4>1 DEF Turns
    <3>4. f[to] = f[from]
      BY <3>3, <3>5, OutStays
    <3>. QED
      BY <3>2, <3>4
  <2>7. ~(n < Len(w))
    BY <1>2, <1>3, <1>6
  <2>. QED
    BY <1>3, <2>5, <2>6, <2>7 DEF w
<1>. QED
  BY <1>2, <1>3, <1>5, <1>6

(* The buffer starts with request m, or holds a part of it. *)
Starts(m, buffer) ==
  \A i \in 1..Len(buffer) : i <= Len(wire(m)) => buffer[i] = wire(m)[i]

(* A fresh machine takes one request from the buffer, if the whole of it is   *)
(* there, fills in what its sender meant and stops behind it; otherwise it is *)
(* still in the middle of it.                                                 *)
LEMMA ExecutePlain ==
  ASSUME NEW m \in Messages, m.body = <<>>, m.version \in Versions,
         NEW buffer \in Seq(Units), Starts(m, buffer), NEW q \in Nat
  PROVE  LET t == http_parser_execute(http_parser_init(q), HttpRequest, buffer, 0)
         IN  /\ Len(wire(m)) <= Len(buffer) =>
                  /\ t.parser.cs = "final" /\ t.parser.nread = Len(wire(m))
                  /\ t.request = meant(m)
             /\ Len(buffer) < Len(wire(m)) => t.parser.cs \notin {"final", "error"}
<1> DEFINE P == http_parser_init(q)
           t == http_parser_execute(P, HttpRequest, buffer, 0)
           n == Len(buffer)
<1>1. P \in Parsers /\ Within(P, Top(0)) /\ P.cs = "start" /\ P.nread = 0
  BY InitIs
<1>2. n \in Nat /\ 0 <= n /\ n - 0 = n /\ 0 \in Nat /\ Len(wire(m)) \in Nat
  BY WireType
<1> HIDE DEF P
<1>7. PICK f : Runs(P, HttpRequest, buffer, 0, n, t, f)
  BY <1>1, <1>2, ExecuteIs
<1> HIDE DEF t
<1>3. /\ f[0] = [parser |-> P, request |-> HttpRequest, p |-> 0,
                 out |-> P.cs = "error"]
      /\ Turns(buffer, f, 0, n)
      /\ t.parser.cs = f[n].parser.cs /\ t.request = f[n].request
      /\ t.p = f[n].p /\ t.parser.nread = P.nread + t.p - 0
  BY <1>7 DEF Runs
<1>4. Takes(m, buffer, q, f)
  <2>1. f[0] = [parser |-> P, request |-> HttpRequest, p |-> 0, out |-> FALSE]
    <3> DEFINE o == P.cs = "error"
    <3>1. o = FALSE
      BY <1>1
    <3>2. f[0] = [parser |-> P, request |-> HttpRequest, p |-> 0, out |-> o]
      BY <1>3
    <3> HIDE DEF o
    <3>. QED
      BY <3>1, <3>2
  <2>2. \A i \in 1..n : f[i] = resume(buffer, f[i - 1], i - 1)
    <3>1. \A i \in 1..n : 0 + i - 1 = i - 1
      BY <1>2
    <3>. QED
      BY <1>3, <3>1 DEF Turns
  <2>. QED
    BY <2>1, <2>2 DEF Takes, Starts, P
<1>5. /\ Len(wire(m)) <= n => /\ f[n].parser.cs = "final" /\ f[n].p = Len(wire(m))
                              /\ f[n].request = meant(m)
      /\ n < Len(wire(m)) => f[n].parser.cs \notin {"final", "error"}
  BY <1>4, PlainRead
<1>6. f[n].p = Len(wire(m)) => t.parser.nread = Len(wire(m))
  BY <1>1, <1>2, <1>3
<1>. QED
  BY <1>3, <1>5, <1>6 DEF t, P

(* Whatever the request, a fresh machine takes its method. *)
LEMMA ExecuteSome ==
  ASSUME NEW m \in Messages, NEW buffer \in Seq(Units), Len(buffer) >= 1,
         buffer[1] = m.method, NEW q \in Nat, NEW request
  PROVE  http_parser_execute(http_parser_init(q), request, buffer, 0).parser.nread >= 1
<1> DEFINE P == http_parser_init(q)
           t == http_parser_execute(P, request, buffer, 0)
           n == Len(buffer)
<1>1. P \in Parsers /\ Within(P, Top(0)) /\ P.cs = "start" /\ P.nread = 0
  BY InitIs
<1>0. /\ P.mark = 0 /\ P.field_start = 0 /\ P.field_len = 0 /\ P.query_start = q
  BY InitIs
<1>2. n \in Nat /\ 0 <= n /\ n - 0 = n /\ 0 \in Nat /\ n >= 1
  OBVIOUS
<1> HIDE DEF P
<1>11. PICK f : Runs(P, request, buffer, 0, n, t, f)
  BY <1>1, <1>2, ExecuteIs
<1> HIDE DEF t, n
<1>3. /\ f[0] = [parser |-> P, request |-> request, p |-> 0,
                 out |-> P.cs = "error"]
      /\ Turns(buffer, f, 0, n)
      /\ t.p = f[n].p /\ t.parser.nread = P.nread + t.p - 0
  BY <1>11 DEF Runs
<1>4. Is(f[0], 0, "start", 0, 0, 0, q, request)
  <2> DEFINE o == P.cs = "error"
             s == f[0]
  <2>1. o = FALSE
    BY <1>1
  <2>2. s = [parser |-> P, request |-> request, p |-> 0, out |-> o]
    BY <1>3
  <2> HIDE DEF o, s
  <2>3. s.parser = P /\ s.request = request /\ s.p = 0 /\ s.out = FALSE
    BY <2>1, <2>2
  <2>4. IsRun(s)
    BY <1>1, <2>1, <2>2, <2>3 DEF IsRun
  <2>5. At(s, 0)
    BY <1>1, <2>3, <2>4 DEF At
  <2>. QED
    BY <1>0, <1>1, <2>3, <2>5 DEF Is, s
<1>5. Is(f[1], 1, "method", 0, 0, 0, q, request)
  <2>1. f[1] = resume(buffer, f[0], 0)
    <3>1. 1 \in 1..n /\ 1 - 1 = 0 /\ 0 + 1 - 1 = 0
      BY <1>2
    <3>. QED
      BY <1>3, <3>1 DEF Turns
  <2>2. buffer[0 + 1] \in Units /\ Goes("start", buffer[0 + 1], "method", <<"mark">>)
    BY Classes, Lookups, PartsAre
  <2>3. Is(resume(buffer, f[0], 0), 0 + 1, "method", 0, 0, 0, q, request)
    BY <1>2, <1>4, <2>2, Moves
  <2>. QED
    BY <2>1, <2>3
<1> DEFINE Ran(k) == /\ IsRun(f[k]) /\ Within(f[k].parser, Top(f[k].p))
                     /\ 1 <= f[k].p /\ f[k].p <= k
                     /\ f[k].out = TRUE \/ f[k].p = k
           T == {k \in Nat : k + 1 <= n => Ran(k + 1)}
<1>6. 0 \in T
  <2>1. Ran(1)
    BY <1>5 DEF Is, At
  <2>. QED
    BY <2>1
<1>7. ASSUME NEW k \in Nat, k \in T PROVE k + 1 \in T
  <2> HIDE DEF Ran
  <2> SUFFICES ASSUME (k + 1) + 1 <= n PROVE Ran((k + 1) + 1)
    OBVIOUS
  <2> DEFINE p == k + 1
  <2>1. p \in Nat /\ p <= n /\ p + 1 \in 1..n /\ 0 + (p + 1) - 1 = p /\ (p + 1) - 1 = p
    BY <1>2
  <2>2. Ran(p)
    BY <1>7, <2>1
  <2> HIDE DEF p
  <2> USE DEF Ran
  <2>3. f[p + 1] = resume(buffer, f[p], p) /\ buffer[p + 1] \in Units
    BY <1>3, <2>1 DEF Turns, n
  <2>4. /\ IsRun(f[p + 1]) /\ Within(f[p + 1].parser, Top(f[p + 1].p))
        /\ f[p].p <= f[p + 1].p /\ f[p + 1].p <= p + 1
        /\ f[p + 1].out = TRUE \/ f[p + 1].p = p + 1
    <3> DEFINE s == f[p]
               v == f[p + 1]
    <3>1. /\ IsRun(s) /\ Within(s.parser, Top(s.p)) /\ s.p <= p
          /\ s.out = TRUE \/ s.p = p
      BY <2>2
    <3>2. v = resume(buffer, s, p)
      BY <2>3
    <3> HIDE DEF s, v, Ran
    <3>3. /\ IsRun(v) /\ Within(v.parser, Top(v.p))
          /\ s.p <= v.p /\ v.p <= p + 1
          /\ v.out = TRUE \/ v.p = p + 1
      BY <2>1, <2>3, <3>1, <3>2, ResumeKeeps
    <3>. QED
      BY <3>3 DEF s, v
  <2>5. f[p].p \in Nat /\ f[p + 1].p \in Nat
    BY <2>2, <2>4 DEF IsRun
  <2>6. 1 <= f[p + 1].p
    BY <2>2, <2>4, <2>5
  <2>7. Ran(p + 1)
    BY <2>4, <2>6
  <2>. QED
    BY <2>7 DEF p
<1>8. Ran(n)
  <2>1. n - 1 \in Nat /\ (n - 1) + 1 = n /\ n <= n
    BY <1>2
  <2> HIDE DEF Ran, T
  <2>2. n - 1 \in T
    BY <1>6, <1>7, <2>1, Induction
  <2>. QED
    BY <2>1, <2>2 DEF T
<1>9. t.p \in Nat /\ t.p >= 1
  BY <1>3, <1>8 DEF IsRun
<1>10. t.parser.nread >= 1
  BY <1>1, <1>3, <1>9
<1>. QED
  BY <1>10 DEF t, P

-----------------------------------------------------------------------------
(* The stream of requests. *)

(* The first k requests. *)
First(k) == FlattenSeq([i \in 1..k |-> wire(sent[i])])

(* They are made of units, like the stream ... *)
LEMMA FirstIsUnits ==
  ASSUME SentOK, NEW k \in Nat, k <= Len(sent)
  PROVE  First(k) \in Seq(Units) /\ Len(First(k)) \in Nat
<1> DEFINE some == [i \in 1..k |-> wire(sent[i])]
<1>1. some \in [1..k -> Seq(Units)]
  BY WireType DEF SentOK
<1> HIDE DEF some
<1>2. FlattenSeq(some) \in Seq(Units)
  BY <1>1, FlattenType
<1>3. First(k) \in Seq(Units)
  BY <1>2 DEF First, some
<1>. QED
  BY <1>3

(* ... and one more lies behind them. *)
LEMMA FirstMore ==
  ASSUME SentOK, NEW k \in Nat, k < Len(sent)
  PROVE  First(k + 1) = First(k) \o wire(sent[k + 1])
<1> DEFINE some == [i \in 1..k |-> wire(sent[i])]
           more == [i \in 1..k + 1 |-> wire(sent[i])]
<1>1. some \in [1..k -> Seq(Units)] /\ more \in [1..k + 1 -> Seq(Units)]
  BY WireType DEF SentOK
<1>2. /\ \A i \in 1..k : more[i] = some[i]
      /\ more[k + 1] = wire(sent[k + 1])
  OBVIOUS
<1> HIDE DEF some, more
<1>3. FlattenSeq(more) = FlattenSeq(some) \o more[k + 1]
  BY <1>1, <1>2, FlattenMore
<1>. QED
  BY <1>2, <1>3 DEF First, some, more

(* All of them are the stream. *)
LEMMA FirstAll == ASSUME SentOK PROVE First(Len(sent)) = stream
BY DEF First, stream, SentOK

(* They are where the stream starts. *)
LEMMA FirstInStream ==
  ASSUME SentOK, NEW k \in Nat, k <= Len(sent)
  PROVE  /\ stream \in Seq(Units) /\ Len(stream) \in Nat
         /\ Len(First(k)) \in Nat /\ Len(First(k)) <= Len(stream)
         /\ \A i \in 1..Len(First(k)) : stream[i] = First(k)[i]
<1>0. Len(sent) \in Nat /\ DOMAIN sent = 1..Len(sent)
  BY DEF SentOK
<1> DEFINE F == First(k)
           G(j) == First(k + j)
           T == {j \in Nat : k + j <= Len(sent) =>
                   /\ Len(F) <= Len(G(j))
                   /\ \A i \in 1..Len(F) : G(j)[i] = F[i]}
<1>1. F \in Seq(Units) /\ Len(F) \in Nat
  BY FirstIsUnits
<1>2. 0 \in T
  <2>1. k + 0 = k
    OBVIOUS
  <2>2. G(0) = F
    BY <2>1
  <2> HIDE DEF G, F
  <2>. QED
    BY <1>1, <2>2
<1>3. ASSUME NEW j \in Nat, j \in T PROVE j + 1 \in T
  <2> SUFFICES ASSUME k + (j + 1) <= Len(sent)
               PROVE  /\ Len(F) <= Len(G(j + 1))
                      /\ \A i \in 1..Len(F) : G(j + 1)[i] = F[i]
    BY DEF T
  <2>1. PICK l \in Nat : l = k + j
    OBVIOUS
  <2>2. l < Len(sent) /\ l <= Len(sent) /\ k + (j + 1) = l + 1 /\ l + 1 \in 1..Len(sent)
    BY <1>0, <2>1
  <2> DEFINE a == First(l)
             b == wire(sent[l + 1])
  <2>3. G(j) = a /\ G(j + 1) = a \o b
    BY <2>1, <2>2, FirstMore
  <2>4. a \in Seq(Units) /\ b \in Seq(Units)
    BY <2>2, FirstIsUnits, WireType DEF SentOK
  <2> HIDE DEF a, b, G, F
  <2>5. /\ Len(a \o b) = Len(a) + Len(b) /\ Len(a) \in Nat /\ Len(b) \in Nat
        /\ \A i \in 1..Len(a) : (a \o b)[i] = a[i]
    BY <2>4, CatIs
  <2>6. Len(F) <= Len(a) /\ \A i \in 1..Len(F) : a[i] = F[i]
    BY <1>3, <2>1, <2>2, <2>3
  <2>7. \A i \in 1..Len(F) : i \in 1..Len(a)
    BY <1>1, <2>5, <2>6
  <2>8. Len(F) <= Len(a \o b)
    BY <1>1, <2>5, <2>6
  <2>. QED
    BY <2>3, <2>5, <2>6, <2>7, <2>8
<1>4. Len(sent) - k \in T /\ k + (Len(sent) - k) = Len(sent)
  <2>1. Len(sent) - k \in Nat /\ k + (Len(sent) - k) = Len(sent)
    BY <1>0
  <2> HIDE DEF T
  <2>2. Len(sent) - k \in T
    BY <1>2, <1>3, <2>1, Induction
  <2>. QED
    BY <2>1, <2>2
<1>5. stream = First(Len(sent))
  BY <1>0 DEF stream, First
<1>6. G(Len(sent) - k) = stream
  BY <1>4, <1>5
<1>7. stream \in Seq(Units) /\ Len(stream) \in Nat
  BY StreamType
<1> HIDE DEF G, F
<1>8. Len(F) <= Len(stream) /\ \A i \in 1..Len(F) : stream[i] = F[i]
  <2>1. k + (Len(sent) - k) <= Len(sent)
    BY <1>0, <1>4
  <2>. QED
    BY <1>4, <1>6, <2>1
<1>. QED
  BY <1>1, <1>7, <1>8 DEF F

(* The next request lies behind them. *)
LEMMA NextInStream ==
  ASSUME SentOK, NEW k \in Nat, k < Len(sent)
  PROVE  LET o == Len(First(k))
             w == wire(sent[k + 1])
         IN  /\ o \in Nat /\ Len(w) \in Nat /\ Len(First(k + 1)) = o + Len(w)
             /\ o + Len(w) <= Len(stream)
             /\ \A i \in 1..Len(w) : stream[o + i] = w[i]
<1>1. Len(sent) \in Nat /\ k <= Len(sent) /\ k + 1 <= Len(sent) /\ k + 1 \in Nat
      /\ k + 1 \in 1..Len(sent)
  BY DEF SentOK
<1> DEFINE a == First(k)
           b == wire(sent[k + 1])
           c == First(k + 1)
<1>2. a \in Seq(Units) /\ b \in Seq(Units) /\ c = a \o b
  BY <1>1, FirstIsUnits, FirstMore, WireType DEF SentOK
<1>3. /\ Len(c) <= Len(stream) /\ \A i \in 1..Len(c) : stream[i] = c[i]
  BY <1>1, FirstInStream
<1> HIDE DEF a, b, c
<1>4. /\ Len(c) = Len(a) + Len(b) /\ Len(a) \in Nat /\ Len(b) \in Nat
      /\ \A i \in 1..Len(b) : c[Len(a) + i] = b[i]
  BY <1>2, CatIs
<1>5. \A i \in 1..Len(b) : Len(a) + i \in 1..Len(c)
  BY <1>4
<1>. QED
  BY <1>3, <1>4, <1>5 DEF a, b, c

(* The requests the parser is made for. *)
LEMMA PlainIs ==
  ASSUME SentOK
  PROVE  /\ plain \in Nat /\ plain <= Len(sent)
         /\ \A i \in 1..plain : /\ sent[i] \in Messages
                                /\ sent[i].version \in Versions /\ sent[i].body = <<>>
<1> DEFINE stop == {i \in DOMAIN sent : malformed(sent[i]) \/ sent[i].body # <<>>}
           c == CHOOSE x \in stop : \A y \in stop : x <= y
<1>1. plain = IF stop = {} THEN Len(sent) ELSE c - 1
  BY Zenon DEF plain, Min
<1>2. Len(sent) \in Nat /\ DOMAIN sent = 1..Len(sent)
      /\ \A i \in 1..Len(sent) : sent[i] \in Messages
  BY DEF SentOK
<1>3. stop \subseteq Nat /\ \A x \in stop : x \in 1..Len(sent)
  BY <1>2
<1>4. \A i \in 1..Len(sent) : i \notin stop =>
        sent[i].version \in Versions /\ sent[i].body = <<>>
  BY <1>2 DEF malformed
<1> HIDE DEF stop
<1>5. stop # {} => c \in stop /\ \A y \in stop : c <= y
  <2> SUFFICES ASSUME stop # {} PROVE c \in stop /\ \A y \in stop : c <= y
    OBVIOUS
  <2>1. \E x \in stop : \A y \in stop : x <= y
    BY <1>3, Least
  <2>. QED
    BY <2>1, Zenon
<1> HIDE DEF c
<1>6. CASE stop = {}
  BY <1>1, <1>2, <1>4, <1>6
<1>7. CASE stop # {}
  <2>1. c \in 1..Len(sent) /\ plain = c - 1
    BY <1>1, <1>3, <1>5, <1>7
  <2>2. plain \in Nat /\ plain <= Len(sent) /\ \A i \in 1..plain : i \in 1..Len(sent) /\ ~(c <= i)
    BY <1>2, <2>1
  <2>3. \A i \in 1..plain : i \notin stop
    BY <1>5, <1>7, <2>2
  <2>. QED
    BY <1>2, <1>4, <2>2, <2>3
<1>. QED
  BY <1>6, <1>7

(* The flag onRequest works out is what the sender asked for. *)
LEMMA MeantClose ==
  ASSUME NEW m \in Messages, m.version \in Versions
  PROVE  flagClose(meant(m)) <=> wantsClose(m)
<1> DEFINE name == "Connection"
           H == {<<n>> : n \in names(m)}
           value(x) == <<valueOf(m, x[1])>>
           req == meant(m)
           connection == getHeader(req, <<name>>)
<1>1. req.headers_ = [x \in H |-> value(x)] /\ req.version_ = versionOf(<<m.version>>, "")
  BY DEF meant
<1>2. <<name>> \in H <=> name \in names(m)
  OBVIOUS
<1>3. value(<<name>>) = <<valueOf(m, name)>>
  OBVIOUS
<1>4. req.version_ = "kHttp10" <=> m.version = "HTTP/1.0"
  BY <1>1, UnitsAssumption DEF versionOf
<1> HIDE DEF H, value, req
<1>5. connection = IF name \in names(m) THEN <<valueOf(m, name)>> ELSE <<>>
  BY <1>1, <1>2, <1>3 DEF getHeader
<1>6. \A v : connection = <<v>> <=> name \in names(m) /\ valueOf(m, name) = v
  BY <1>5
<1>7. flagClose(req) <=> \/ connection = <<"close">>
                         \/ req.version_ = "kHttp10" /\ connection # <<"Keep-Alive">>
  BY DEF flagClose
<1>8. wantsClose(m) <=>
        \/ name \in names(m) /\ valueOf(m, name) = "close"
        \/ /\ m.version = "HTTP/1.0"
           /\ ~(name \in names(m) /\ valueOf(m, name) = "Keep-Alive")
  BY DEF wantsClose
<1> HIDE DEF connection
<1>9. flagClose(req) <=> wantsClose(m)
  BY <1>4, <1>6, <1>7, <1>8
<1>. QED
  BY <1>9 DEF req

(* The units of s behind the first o, up to unit b. *)
Span(t, S, s, o, b) ==
  /\ t = SubSeq(s, o + 1, b) /\ t \in Seq(S) /\ Len(t) = b - o
  /\ \A i \in 1..b - o : t[i] = s[o + i]

(* What is in the buffer and what the next read brings. *)
LEMMA Pieces ==
  ASSUME NEW S, NEW s \in Seq(S), NEW o \in Nat, NEW a \in Nat, NEW b \in Nat,
         o <= a, a <= b, b <= Len(s)
  PROVE  Span(SubSeq(s, o + 1, a) \o SubSeq(s, a + 1, b), S, s, o, b)
<1> DEFINE x == SubSeq(s, o + 1, a)
           y == SubSeq(s, a + 1, b)
           z == SubSeq(s, o + 1, b)
           t == x \o y
<1>0. Len(s) \in Nat
  OBVIOUS
<1>1. x \in Seq(S) /\ Len(x) = a - o /\ \A i \in 1..a - o : x[i] = s[o + i]
  BY <1>0
<1>2. y \in Seq(S) /\ Len(y) = b - a /\ \A i \in 1..b - a : y[i] = s[a + i]
  BY <1>0
<1>3. z \in Seq(S) /\ Len(z) = b - o /\ \A i \in 1..b - o : z[i] = s[o + i]
  BY <1>0
<1> HIDE DEF x, y, z
<1>4. /\ t \in Seq(S) /\ Len(t) = Len(x) + Len(y)
      /\ \A i \in 1..Len(x) : t[i] = x[i]
      /\ \A i \in 1..Len(y) : t[Len(x) + i] = y[i]
  <2>1. x \in Seq(S) /\ y \in Seq(S)
    BY <1>1, <1>2
  <2>. QED
    BY <2>1, CatIs
<1> HIDE DEF t
<1>5. Len(t) = b - o
  BY <1>1, <1>2, <1>4
<1>6. ASSUME NEW i \in 1..b - o PROVE t[i] = s[o + i]
  <2>1. CASE i <= a - o
    <3>1. i \in 1..a - o
      BY <2>1
    <3>. QED
      BY <1>1, <1>4, <3>1
  <2>2. CASE ~(i <= a - o)
    <3>1. PICK j \in 1..b - a : j = i - (a - o)
      BY <2>2
    <3>2. (a - o) + j = i /\ a + j = o + i
      BY <3>1
    <3>3. t[(a - o) + j] = y[j] /\ y[j] = s[a + j]
      BY <1>1, <1>2, <1>4
    <3>. QED
      BY <3>2, <3>3
  <2>. QED
    BY <2>1, <2>2
<1>7. t = z
  <2>1. Len(t) = Len(z) /\ \A i \in 1..Len(t) : t[i] = z[i]
    BY <1>3, <1>5, <1>6
  <2>. QED
    BY <1>3, <1>4, <2>1, SeqEqual
<1>. QED
  BY <1>4, <1>5, <1>6, <1>7 DEF t, x, y, z, Span

(* What is left when l units are taken from it. *)
LEMMA Rest ==
  ASSUME NEW S, NEW s \in Seq(S), NEW o \in Nat, NEW b \in Nat, NEW l \in Nat,
         o + l <= b, b <= Len(s)
  PROVE  LET t == SubSeq(s, o + 1, b)
         IN  SubSeq(t, l + 1, Len(t)) = SubSeq(s, (o + l) + 1, b)
<1> DEFINE t == SubSeq(s, o + 1, b)
           x == SubSeq(t, l + 1, Len(t))
           y == SubSeq(s, (o + l) + 1, b)
<1>0. Len(s) \in Nat
  OBVIOUS
<1>1. t \in Seq(S) /\ Len(t) = b - o /\ \A i \in 1..b - o : t[i] = s[o + i]
  BY <1>0
<1>2. y \in Seq(S) /\ Len(y) = b - (o + l) /\ \A i \in 1..b - (o + l) : y[i] = s[(o + l) + i]
  BY <1>0
<1> HIDE DEF t, y
<1>3. x \in Seq(S) /\ Len(x) = (b - o) - l /\ \A i \in 1..(b - o) - l : x[i] = t[l + i]
  BY <1>1
<1> HIDE DEF x
<1>4. /\ (b - o) - l = b - (o + l)
      /\ \A i \in 1..(b - o) - l : l + i \in 1..b - o /\ o + (l + i) = (o + l) + i
  OBVIOUS
<1>5. Len(x) = Len(y) /\ \A i \in 1..Len(x) : x[i] = y[i]
  BY <1>1, <1>2, <1>3, <1>4
<1>6. x = y
  BY <1>2, <1>3, <1>5, SeqEqual
<1>. QED
  BY <1>6 DEF x, y, t

-----------------------------------------------------------------------------
(* parseRequest between the reads. *)

(* A context that has parsed nothing of its request. *)
Fresh(c) == c = [parser_ |-> http_parser_init(c.parser_.query_start),
                 request_ |-> HttpRequest, nparsed_ |-> 0]

(* parseRequest of a fresh context, by http_parser_execute. *)
LEMMA ParseIs ==
  \A c, buf :
    LET t == http_parser_execute(c.parser_, c.request_, buf, c.nparsed_)
        parsed == parseRequest(c, buf)
    IN  /\ parsed.context.parser_ = t.parser
        /\ parsed.context.request_ = t.request
        /\ parsed.context.nparsed_ = c.nparsed_ + t.parser.nread
        /\ parsed.rest = SubSeq(buf, t.parser.nread + 1, Len(buf))
<1> TAKE c, buf
<1> DEFINE t == http_parser_execute(c.parser_, c.request_, buf, c.nparsed_)
<1>1. parseRequest(c, buf)
        = [context |-> [parser_ |-> t.parser, request_ |-> t.request,
                        nparsed_ |-> c.nparsed_ + t.parser.nread],
           rest |-> SubSeq(buf, t.parser.nread + 1, Len(buf))]
  BY Zenon DEF parseRequest
<1> HIDE DEF t
<1>2. LET parsed == parseRequest(c, buf)
      IN  /\ parsed.context.parser_ = t.parser
          /\ parsed.context.request_ = t.request
          /\ parsed.context.nparsed_ = c.nparsed_ + t.parser.nread
          /\ parsed.rest = SubSeq(buf, t.parser.nread + 1, Len(buf))
  <2>1. PICK x, y : /\ x = [parser_ |-> t.parser, request_ |-> t.request,
                            nparsed_ |-> c.nparsed_ + t.parser.nread]
                    /\ y = SubSeq(buf, t.parser.nread + 1, Len(buf))
    OBVIOUS
  <2>2. parseRequest(c, buf) = [context |-> x, rest |-> y]
    BY <1>1, <2>1, Zenon
  <2>3. parseRequest(c, buf).context = x /\ parseRequest(c, buf).rest = y
    BY <2>2
  <2>4. /\ x.parser_ = t.parser /\ x.request_ = t.request
        /\ x.nparsed_ = c.nparsed_ + t.parser.nread
    BY <2>1
  <2>. QED
    BY <2>1, <2>3, <2>4, Zenon
<1>. QED
  BY <1>2, Zenon DEF t

(* A plain request: the whole of it, or a part of it. *)
LEMMA ParsePlain ==
  ASSUME NEW c, ContextOK(c), Fresh(c), NEW m \in Messages, m.body = <<>>,
         m.version \in Versions, NEW buf \in Seq(Units), Starts(m, buf)
  PROVE  LET parsed == parseRequest(c, buf)
             d == parsed.context
         IN  /\ Len(wire(m)) <= Len(buf) =>
                  /\ d.parser_.cs = "final" /\ d.request_ = meant(m)
                  /\ parsed.rest = SubSeq(buf, Len(wire(m)) + 1, Len(buf))
             /\ Len(buf) < Len(wire(m)) => d.parser_.cs \notin {"final", "error"}
<1>1. PICK q \in Nat : c.parser_ = http_parser_init(q)
  BY DEF ContextOK, Fresh, Parsers
<1>2. c.request_ = HttpRequest /\ c.nparsed_ = 0
  BY DEF Fresh
<1> DEFINE t == http_parser_execute(http_parser_init(q), HttpRequest, buf, 0)
           parsed == parseRequest(c, buf)
<1>3. /\ parsed.context.parser_ = t.parser /\ parsed.context.request_ = t.request
      /\ parsed.rest = SubSeq(buf, t.parser.nread + 1, Len(buf))
  <2>1. t = http_parser_execute(c.parser_, c.request_, buf, c.nparsed_)
    BY <1>1, <1>2
  <2> HIDE DEF t, parsed
  <2>. QED
    BY <2>1, ParseIs DEF parsed
<1>4. /\ Len(wire(m)) <= Len(buf) =>
           /\ t.parser.cs = "final" /\ t.parser.nread = Len(wire(m))
           /\ t.request = meant(m)
      /\ Len(buf) < Len(wire(m)) => t.parser.cs \notin {"final", "error"}
  BY ExecutePlain
<1> HIDE DEF t, parsed
<1>5. /\ Len(wire(m)) <= Len(buf) =>
           /\ parsed.context.parser_.cs = "final" /\ parsed.context.request_ = meant(m)
           /\ parsed.rest = SubSeq(buf, Len(wire(m)) + 1, Len(buf))
      /\ Len(buf) < Len(wire(m)) =>
           parsed.context.parser_.cs \notin {"final", "error"}
  BY <1>3, <1>4
<1>. QED
  BY <1>5 DEF parsed

(* Any request: some of it is parsed. *)
LEMMA ParseSome ==
  ASSUME NEW c, ContextOK(c), Fresh(c), NEW m \in Messages,
         NEW buf \in Seq(Units), Len(buf) >= 1, buf[1] = m.method
  PROVE  parseRequest(c, buf).context.nparsed_ > 0
<1>1. PICK q \in Nat : c.parser_ = http_parser_init(q)
  BY DEF ContextOK, Fresh, Parsers
<1>2. c.request_ = HttpRequest /\ c.nparsed_ = 0 /\ c.nparsed_ <= Len(buf)
  BY DEF Fresh
<1> DEFINE t == http_parser_execute(http_parser_init(q), HttpRequest, buf, 0)
           d == parseRequest(c, buf).context
<1>3. d.parser_ = t.parser /\ d.nparsed_ = 0 + t.parser.nread
  <2>1. t = http_parser_execute(c.parser_, c.request_, buf, c.nparsed_)
    BY <1>1, <1>2
  <2> HIDE DEF t, d
  <2>. QED
    BY <1>2, <2>1, ParseIs DEF d
<1>4. t.parser.nread >= 1
  BY ExecuteSome
<1>5. ContextOK(d)
  BY <1>2, ParseKeeps
<1> HIDE DEF t, d
<1>6. t.parser.nread \in Nat
  BY <1>3, <1>5 DEF ContextOK, Parsers
<1>7. d.nparsed_ > 0
  BY <1>3, <1>4, <1>6
<1>. QED
  BY <1>7 DEF d

(* After an error nothing is parsed any more. *)
LEMMA ParseError ==
  ASSUME NEW c, ContextOK(c), c.parser_.cs = "error", c.nparsed_ > 0,
         NEW buf \in Seq(Units), Len(buf) >= 1, c.nparsed_ <= Len(buf)
  PROVE  LET d == parseRequest(c, buf).context
         IN  d.parser_.cs = "error" /\ d.nparsed_ > 0
<1> DEFINE off == c.nparsed_
           t == http_parser_execute(c.parser_, c.request_, buf, off)
           d == parseRequest(c, buf).context
<1>1. d.parser_ = t.parser /\ d.nparsed_ = off + t.parser.nread
  BY ParseIs
<1>2. off \in Nat /\ c.parser_ \in Parsers /\ Within(c.parser_, Top(off))
  BY DEF ContextOK
<1>3. ContextOK(d)
  BY ParseKeeps
<1> HIDE DEF d
<1>4. t.parser.cs = "error"
  BY <1>2, ExecuteError
<1> HIDE DEF t
<1>5. t.parser.nread \in Nat
  BY <1>1, <1>3 DEF ContextOK, Parsers
<1>6. d.nparsed_ > 0
  <2> HIDE DEF off
  <2>1. off > 0
    BY DEF off
  <2>. QED
    BY <1>1, <1>2, <1>5, <2>1
<1>7. d.parser_.cs = "error"
  BY <1>1, <1>4
<1>. QED
  BY <1>6, <1>7 DEF d

(* reset behind a request makes the context fresh. *)
LEMMA ResetFresh ==
  ASSUME NEW c, NEW m, c.request_ = meant(m)
  PROVE  Fresh(reset(c))
<1>1. PICK q : q = c.parser_.query_start
  OBVIOUS
<1> DEFINE P == http_parser_init(q)
           r == reset(c)
<1>2. P.query_start = q
  BY DEF http_parser_init
<1>3. swap(meant(m), HttpRequest) = HttpRequest
  <2> DEFINE x == meant(m)
  <2>1. x = [method_ |-> x.method_, version_ |-> x.version_, path_ |-> x.path_,
             query_ |-> x.query_, headers_ |-> x.headers_]
    BY DEF meant
  <2> HIDE DEF x
  <2>2. swap(x, HttpRequest) = HttpRequest
    BY <2>1 DEF swap, HttpRequest
  <2>. QED
    BY <2>2 DEF x
<1>4. r = [parser_ |-> P, request_ |-> HttpRequest, nparsed_ |-> 0]
  BY <1>1, <1>3 DEF reset
<1> HIDE DEF P, r
<1>5. r.parser_.query_start = q
  BY <1>2, <1>4
<1>6. Fresh(r)
  BY <1>4, <1>5 DEF Fresh, P
<1>. QED
  BY <1>6 DEF r

-----------------------------------------------------------------------------
(* Requests in order. *)

(* The connection is up. *)
Up == state_ \in {"kConnected", "kDisconnecting"}

(* A sequence, of whatever. *)
IsSeq(s) == Len(s) \in Nat /\ s = [i \in 1..Len(s) |-> s[i]]

(* A request that was handled as it was sent, with the flag it asks for. *)
Answered(h, m) ==
  /\ h.req = meant(m)
  /\ h.resp.by = "onRequest" => h.resp.close_connection_ = flagClose(h.req)

(* Between the reads: the context is fresh and the buffer starts behind the   *)
(* requests handled, or a malformed request has stopped the parser.           *)
Kept ==
  \/ /\ Fresh(context) /\ Len(First(Len(handled))) <= arrived
     /\ input_buffer_ = SubSeq(stream, Len(First(Len(handled))) + 1, arrived)
  \/ context.nparsed_ > 0 /\ context.parser_.cs = "error"

(* HandledAsSent, PipelineKept and ClosesAsAsked with what they rest on. *)
KeptInv ==
  /\ ParseInv
  /\ starved \in BOOLEAN /\ IsSeq(handled)
  /\ state_ \in {"kConnecting", "kConnected", "kDisconnecting", "kDisconnected"}
  /\ state_ = "kConnecting" => input_buffer_ = <<>> /\ arrived = 0 /\ handled = <<>>
  /\ ~Up => context = <<>>
  /\ starved = FALSE =>
       /\ \A i \in 1..Len(handled) : i <= plain => Answered(handled[i], sent[i])
       /\ Up /\ Len(handled) <= plain => Kept

(* One entry more. *)
LEMMA AppendIs ==
  ASSUME NEW s, IsSeq(s), NEW e
  PROVE  LET t == Append(s, e)
         IN  /\ IsSeq(t) /\ Len(t) = Len(s) + 1 /\ t[Len(s) + 1] = e
             /\ \A i \in 1..Len(s) : t[i] = s[i]
<1> DEFINE n == Len(s)
           S == {s[i] : i \in 1..n} \cup {e}
           t == Append(s, e)
<1>1. n \in Nat /\ s = [i \in 1..n |-> s[i]]
  BY DEF IsSeq
<1>2. s \in Seq(S) /\ e \in S
  <2>1. s \in [1..n -> S]
    BY <1>1
  <2> HIDE DEF S, n
  <2>. QED
    BY <1>1, <2>1 DEF S
<1> HIDE DEF S
<1>3. /\ t \in Seq(S) /\ Len(t) = n + 1 /\ t[n + 1] = e
      /\ \A i \in 1..n : t[i] = s[i]
  BY <1>2, AppendProperties
<1> HIDE DEF t
<1>4. IsSeq(t)
  BY <1>3 DEF IsSeq
<1>. QED
  BY <1>3, <1>4 DEF t

(* A request starts with its method. *)
LEMMA WireHead ==
  ASSUME NEW m \in Messages
  PROVE  Len(wire(m)) >= 1 /\ wire(m)[1] = m.method
<1> DEFINE lines == FlattenSeq([i \in DOMAIN m.fields |-> line(m.fields[i])])
           u == <<m.method, Sp, m.path>>
                  \o (IF m.query = <<>> THEN <<>> ELSE <<Qm>> \o m.query)
           c == <<Sp, m.version, Nl>>
           d == <<Nl>>
<1>1. u \in Seq(Units) /\ Len(u) = UriEnd(m) /\ u[1] = m.method
  BY UriIs
<1>2. Len(u) >= 1
  BY <1>1, PartsAre
<1>3. c \in Seq(Units) /\ d \in Seq(Units)
  <2>1. m.version \in Units /\ Sp \in Units /\ Nl \in Units
    BY PartsAre, Classes
  <2>. QED
    BY <2>1, Five
<1>4. lines \in Seq(Units) /\ m.body \in Seq(Units)
  BY PartsAre, LinesAre
<1>5. wire(m) = u \o c \o lines \o d \o m.body
  BY Zenon DEF wire, Sp, Qm, Nl
<1> HIDE DEF u, c, d, lines
<1>6. \A s, t \in Seq(Units) : Len(s) >= 1 =>
        s \o t \in Seq(Units) /\ Len(s \o t) >= 1 /\ (s \o t)[1] = s[1]
  <2> TAKE s, t \in Seq(Units)
  <2> HAVE Len(s) >= 1
  <2>1. /\ s \o t \in Seq(Units) /\ Len(s \o t) = Len(s) + Len(t)
        /\ Len(s) \in Nat /\ Len(t) \in Nat
        /\ \A i \in 1..Len(s) : (s \o t)[i] = s[i]
    BY CatIs
  <2>2. 1 \in 1..Len(s) /\ Len(s) + Len(t) >= 1
    BY <2>1
  <2>. QED
    BY <2>1, <2>2
<1>7. u \o c \in Seq(Units) /\ Len(u \o c) >= 1 /\ (u \o c)[1] = m.method
  BY <1>1, <1>2, <1>3, <1>6
<1> DEFINE uc == u \o c
<1> HIDE DEF uc
<1>8. uc \o lines \in Seq(Units) /\ Len(uc \o lines) >= 1 /\ (uc \o lines)[1] = m.method
  BY <1>4, <1>6, <1>7 DEF uc
<1> DEFINE ucl == uc \o lines
<1> HIDE DEF ucl
<1>9. ucl \o d \in Seq(Units) /\ Len(ucl \o d) >= 1 /\ (ucl \o d)[1] = m.method
  BY <1>3, <1>6, <1>8 DEF ucl
<1> DEFINE all == ucl \o d
<1> HIDE DEF all
<1>10. Len(all \o m.body) >= 1 /\ (all \o m.body)[1] = m.method
  BY <1>4, <1>6, <1>9 DEF all
<1>. QED
  BY <1>5, <1>10 DEF all, ucl, uc

(* The buffer, which goes up to unit b of the stream, holds the request behind *)
(* the first k, or a part of it.                                              *)
NextIn(k, b, buf) ==
  LET m == sent[k + 1]
  IN  /\ k < Len(sent) /\ m \in Messages
      /\ buf \in Seq(Units) /\ Len(buf) >= 1 /\ buf[1] = m.method
      /\ Starts(m, buf)
      /\ Len(wire(m)) <= Len(buf) =>
           /\ Len(First(k + 1)) <= b
           /\ SubSeq(buf, Len(wire(m)) + 1, Len(buf))
                = SubSeq(stream, Len(First(k + 1)) + 1, b)

(* So it does when a fresh context gets it. *)
LEMMA NextArrives ==
  ASSUME SentOK, NEW k \in Nat, k <= Len(sent), NEW a \in Nat, NEW b \in Nat,
         Len(First(k)) <= a, a < b, b <= Len(stream), NEW piece, NEW old, NEW buf,
         old = SubSeq(stream, Len(First(k)) + 1, a),
         piece = SubSeq(stream, a + 1, b), buf = old \o piece
  PROVE  NextIn(k, b, buf)
<1> DEFINE o == Len(First(k))
           m == sent[k + 1]
           w == wire(m)
<1>0. buf = SubSeq(stream, o + 1, a) \o SubSeq(stream, a + 1, b)
  OBVIOUS
<1>1. /\ stream \in Seq(Units) /\ Len(stream) \in Nat /\ o \in Nat /\ Len(sent) \in Nat
  BY FirstInStream DEF SentOK
<1>2. k < Len(sent)
  <2> SUFFICES ASSUME k = Len(sent) PROVE FALSE
    BY <1>1
  <2>1. First(k) = stream
    BY FirstAll
  <2>. QED
    BY <1>1, <2>1
<1>3. m \in Messages
  BY <1>1, <1>2 DEF SentOK
<1>4. /\ Len(w) \in Nat /\ Len(First(k + 1)) = o + Len(w) /\ o + Len(w) <= Len(stream)
      /\ \A i \in 1..Len(w) : stream[o + i] = w[i]
  BY <1>2, NextInStream
<1>5. Len(w) >= 1 /\ w[1] = m.method
  BY <1>3, WireHead
<1> HIDE DEF o, w, m
<1>6. /\ buf = SubSeq(stream, o + 1, b) /\ buf \in Seq(Units) /\ Len(buf) = b - o
      /\ \A i \in 1..b - o : buf[i] = stream[o + i]
  <2>1. o <= a /\ a <= b /\ buf = SubSeq(stream, o + 1, a) \o SubSeq(stream, a + 1, b)
    BY <1>0 DEF o
  <2>2. PICK s \in Seq(Units), x \in Nat : s = stream /\ x = o
    BY <1>1
  <2>3. x <= a /\ a <= b /\ b <= Len(s)
    BY <2>1, <2>2
  <2> DEFINE t == SubSeq(s, x + 1, a) \o SubSeq(s, a + 1, b)
  <2>4. Span(t, Units, s, x, b)
    BY <2>3, Pieces
  <2>5. t = buf
    BY <2>1, <2>2
  <2> HIDE DEF t
  <2>. QED
    BY <2>2, <2>4, <2>5 DEF Span
<1>7. \A i \in 1..b - o : i <= Len(w) => buf[i] = w[i]
  <2>1. \A i \in 1..b - o : i <= Len(w) => i \in 1..Len(w)
    BY <1>4
  <2>. QED
    BY <1>4, <1>6, <2>1
<1>8. b - o >= 1 /\ 1 \in 1..b - o
  BY <1>1 DEF o
<1>9. buf[1] = m.method
  BY <1>5, <1>7, <1>8
<1>10. Starts(m, buf)
  BY <1>6, <1>7 DEF Starts, w
<1>11. ASSUME Len(w) <= Len(buf)
       PROVE  /\ o + Len(w) <= b
              /\ SubSeq(buf, Len(w) + 1, Len(buf)) = SubSeq(stream, (o + Len(w)) + 1, b)
  <2>1. PICK l \in Nat : l = Len(w)
    BY <1>4
  <2>2. o + l <= b
    <3>1. \A x, y, z \in Nat : y <= z - x => x + y <= z
      OBVIOUS
    <3>2. l <= b - o
      BY <1>6, <1>11, <2>1
    <3>. QED
      BY <1>1, <3>1, <3>2
  <2>3. SubSeq(buf, l + 1, Len(buf)) = SubSeq(stream, (o + l) + 1, b)
    <3>1. PICK s \in Seq(Units), x \in Nat : s = stream /\ x = o
      BY <1>1
    <3>2. x + l <= b /\ b <= Len(s)
      BY <2>2, <3>1
    <3>3. SubSeq(SubSeq(s, x + 1, b), l + 1, Len(SubSeq(s, x + 1, b)))
            = SubSeq(s, (x + l) + 1, b)
      BY <3>2, Rest
    <3>4. buf = SubSeq(s, x + 1, b)
      BY <1>6, <3>1
    <3>. QED
      BY <3>1, <3>3, <3>4
  <2>. QED
    BY <2>1, <2>2, <2>3
<1>. QED
  BY <1>2, <1>3, <1>4, <1>6, <1>8, <1>9, <1>10, <1>11 DEF m, w, NextIn

(* A response whose closing the callback left alone. *)
LEMMA LeftAlone ==
  ASSUME NEW flag, NEW resp \in http_cb_(HttpResponse(flag)), resp.by = "onRequest"
  PROVE  resp.close_connection_ = flag
<1> DEFINE first == HttpResponse(flag)
<1>1. first = [by |-> "onRequest", status_code_ |-> 0, close_connection_ |-> flag]
  BY DEF HttpResponse
<1> HIDE DEF first
<1>2. CASE resp = [by |-> "default", status_code_ |-> 404, close_connection_ |-> TRUE]
  BY <1>2
<1>3. CASE resp = [first EXCEPT !.status_code_ = 200]
  BY <1>1, <1>3
<1>4. CASE resp \in [by : {"user"}, status_code_ : {200}, close_connection_ : BOOLEAN]
  BY <1>4
<1>5. resp \in http_cb_(first)
  BY DEF first
<1>. QED
  BY <1>2, <1>3, <1>4, <1>5 DEF http_cb_

(* What a read does, in its four cases. *)
LEMMA ReadDoes ==
  ASSUME NEW n, onMessage(n), NEW buf, NEW parsed,
         buf = input_buffer_ \o SubSeq(stream, arrived + 1, arrived + n),
         parsed = parseRequest(context, buf)
  PROVE  /\ Up /\ sent' = sent /\ arrived' = arrived + n
         /\ \/ /\ context.nparsed_ > Len(buf) /\ state_' = state_
               /\ input_buffer_' = input_buffer_ /\ context' = context
               /\ handled' = handled /\ starved' = starved
            \/ /\ context.nparsed_ <= Len(buf) /\ input_buffer_' = parsed.rest
               /\ \/ /\ parsed.context.parser_.cs = "error" /\ reply(BadRequest, TRUE)
                     /\ context' = parsed.context
                     /\ handled' = handled /\ starved' = starved
                  \/ /\ parsed.context.parser_.cs = "final"
                     /\ onRequest(parsed.context.request_)
                     /\ context' = reset(parsed.context) /\ starved' = starved
                  \/ /\ context' = parsed.context /\ starved' = TRUE
                     /\ state_' = state_ /\ handled' = handled
BY Zenon DEF onMessage, Up, http_parser_has_error, gotAll, http_parser_is_finished

(* An answer leaves the connection up. *)
LEMMA ReplyStaysUp ==
  ASSUME Up, NEW answer, NEW close, reply(answer, close)
  PROVE  Up'
BY DEF Up, reply

(* The connection stays up, and so do the types. *)
LEMMA ReadTypes ==
  ASSUME KeptInv, NEW n \in 1..(Len(stream) - arrived), onMessage(n)
  PROVE  /\ Up' /\ starved' \in BOOLEAN /\ IsSeq(handled')
         /\ starved' = FALSE => starved = FALSE
<1>1. PICK buf : buf = input_buffer_ \o SubSeq(stream, arrived + 1, arrived + n)
  OBVIOUS
<1>2. PICK parsed : parsed = parseRequest(context, buf)
  OBVIOUS
<1>3. Up /\ starved \in BOOLEAN /\ IsSeq(handled)
  BY <1>1, <1>2, ReadDoes DEF KeptInv
<1>4. ASSUME NEW req, onRequest(req) PROVE Up' /\ IsSeq(handled')
  <2>1. PICK resp : /\ handled' = Append(handled, [req |-> req, resp |-> resp])
                    /\ reply(appendToBuffer(resp), resp.close_connection_)
    BY <1>4 DEF onRequest
  <2>2. Up'
    BY <1>3, <2>1, ReplyStaysUp
  <2>. QED
    BY <1>3, <2>1, <2>2, AppendIs
<1>5. reply(BadRequest, TRUE) => Up'
  BY <1>3, ReplyStaysUp
<1>6. state_' = state_ => Up'
  BY <1>3 DEF Up
<1>7. /\ \/ starved' = starved
         \/ starved' = TRUE
      /\ \/ state_' = state_ /\ handled' = handled
         \/ reply(BadRequest, TRUE) /\ handled' = handled
         \/ onRequest(parsed.context.request_)
  BY <1>1, <1>2, ReadDoes, Zenon
<1>. QED
  BY <1>3, <1>4, <1>5, <1>6, <1>7

(* A read keeps what was handled, and what is left. *)
LEMMA ReadKept ==
  ASSUME KeptInv, NEW n \in 1..(Len(stream) - arrived), onMessage(n)
  PROVE  KeptInv'
<1>1. PICK buf : buf = input_buffer_ \o SubSeq(stream, arrived + 1, arrived + n)
  OBVIOUS
<1>2. PICK parsed : parsed = parseRequest(context, buf)
  OBVIOUS
<1>3. /\ ParseInv /\ SentOK /\ Up /\ ContextOK(context) /\ IsSeq(handled)
      /\ arrived \in Nat /\ input_buffer_ \in Seq(Units)
  BY <1>1, <1>2, ReadDoes DEF KeptInv, ParseInv, Up
<1>4. /\ ParseInv' /\ Up' /\ starved' \in BOOLEAN /\ IsSeq(handled')
      /\ starved' = FALSE => starved = FALSE
  BY <1>3, ReadKeeps, ReadTypes
<1>5. /\ sent' = sent /\ arrived' = arrived + n
      /\ stream' = stream /\ plain' = plain /\ \A k : First(k)' = First(k)
  <2>1. sent' = sent /\ arrived' = arrived + n
    BY <1>1, <1>2, ReadDoes
  <2>. QED
    BY <2>1 DEF stream, plain, First
<1> SUFFICES ASSUME starved' = FALSE
             PROVE  /\ \A i \in 1..Len(handled') : i <= plain =>
                         Answered(handled'[i], sent[i])
                    /\ Len(handled') <= plain => Kept'
  BY <1>4, <1>5 DEF KeptInv, Up
<1> DEFINE k == Len(handled)
           o == Len(First(k))
           b == arrived + n
           d == parsed.context
<1>6. /\ \A i \in 1..k : i <= plain => Answered(handled[i], sent[i])
      /\ k <= plain => Kept
      /\ k \in Nat
  BY <1>3, <1>4 DEF KeptInv, IsSeq
<1>7. /\ plain \in Nat /\ plain <= Len(sent) /\ Len(sent) \in Nat
      /\ \A i \in 1..plain : /\ sent[i] \in Messages /\ sent[i].version \in Versions
                            /\ sent[i].body = <<>>
  BY <1>3, PlainIs DEF SentOK
<1>8. stream \in Seq(Units) /\ Len(stream) \in Nat /\ b \in Nat /\ arrived < b
      /\ b <= Len(stream)
  <2>1. stream \in Seq(Units)
    BY <1>3, StreamType
  <2>2. Len(stream) \in Nat
    BY <2>1
  <2>. QED
    BY <1>3, <2>1, <2>2
<1>9. buf \in Seq(Units) /\ Len(buf) \in Nat /\ Len(buf) >= 1
  <2> DEFINE piece == SubSeq(stream, arrived + 1, b)
  <2>1. piece \in Seq(Units) /\ Len(piece) = n
    BY <1>3, <1>8, SubSeqProperties
  <2>2. buf = input_buffer_ \o piece
    BY <1>1
  <2> HIDE DEF piece
  <2>3. /\ buf \in Seq(Units) /\ Len(buf) = Len(input_buffer_) + Len(piece)
        /\ Len(input_buffer_) \in Nat
    BY <1>3, <2>1, <2>2, CatIs
  <2>. QED
    BY <2>1, <2>3
<1>10. context.nparsed_ \in Nat
  BY <1>3 DEF ContextOK
<1> HIDE DEF b, k
\* The next request, if the context is fresh.
<1>11. ASSUME k <= plain, Fresh(context), o <= arrived,
              input_buffer_ = SubSeq(stream, o + 1, arrived)
       PROVE  NextIn(k, b, buf)
  <2>1. k <= Len(sent)
    BY <1>6, <1>7, <1>11
  <2>2. PICK piece : piece = SubSeq(stream, arrived + 1, b)
    OBVIOUS
  <2>3. buf = input_buffer_ \o piece
    BY <1>1, <2>2 DEF b
  <2>4. Len(First(k)) <= arrived /\ input_buffer_ = SubSeq(stream, Len(First(k)) + 1, arrived)
    BY <1>11
  <2> HIDE DEF o
  <2>. QED
    BY <1>3, <1>6, <1>8, <2>1, <2>2, <2>3, <2>4, NextArrives
<1>12. Kept <=> \/ /\ Fresh(context) /\ o <= arrived
                   /\ input_buffer_ = SubSeq(stream, o + 1, arrived)
                \/ context.nparsed_ > 0 /\ context.parser_.cs = "error"
  BY DEF Kept, k
<1> HIDE DEF o
\* An assertion ended the process: nothing has changed.
<1>13. CASE /\ context.nparsed_ > Len(buf) /\ context' = context /\ handled' = handled
  <2>1. ASSUME k <= plain PROVE Kept'
    <3>1. context.nparsed_ # 0
      BY <1>9, <1>10, <1>13
    <3>2. ~Fresh(context)
      BY <3>1 DEF Fresh
    <3>3. context.nparsed_ > 0 /\ context.parser_.cs = "error"
      BY <1>6, <1>12, <2>1, <3>2
    <3>. QED
      BY <1>13, <3>3 DEF Kept
  <2>. QED
    BY <1>6, <1>13, <2>1 DEF k
\* A malformed request.
<1>14. CASE /\ context.nparsed_ <= Len(buf) /\ d.parser_.cs = "error"
            /\ context' = d /\ handled' = handled
  <2>1. ASSUME k <= plain PROVE Kept'
    <3>1. d.nparsed_ > 0
      <4>1. CASE Fresh(context) /\ o <= arrived /\ input_buffer_ = SubSeq(stream, o + 1, arrived)
        <5>1. sent[k + 1] \in Messages /\ buf[1] = sent[k + 1].method
          BY <1>11, <2>1, <4>1 DEF NextIn
        <5>. QED
          BY <1>2, <1>3, <1>9, <4>1, <5>1, ParseSome
      <4>2. CASE context.nparsed_ > 0 /\ context.parser_.cs = "error"
        BY <1>2, <1>3, <1>9, <1>14, <4>2, ParseError
      <4>. QED
        BY <1>6, <1>12, <2>1, <4>1, <4>2
    <3>. QED
      BY <1>14, <3>1 DEF Kept
  <2>. QED
    BY <1>6, <1>14, <2>1 DEF k
\* A whole request.
<1>15. CASE /\ context.nparsed_ <= Len(buf) /\ d.parser_.cs = "final"
            /\ input_buffer_' = parsed.rest
            /\ onRequest(d.request_) /\ context' = reset(d)
  <2> DEFINE m == sent[k + 1]
             req == d.request_
  <2>1. PICK resp \in http_cb_(HttpResponse(flagClose(req))) :
          handled' = Append(handled, [req |-> req, resp |-> resp])
    BY <1>15 DEF onRequest
  <2>2. /\ Len(handled') = k + 1 /\ handled'[k + 1] = [req |-> req, resp |-> resp]
        /\ \A i \in 1..k : handled'[i] = handled[i]
    BY <1>3, <2>1, AppendIs DEF k
  <2>3. ASSUME k + 1 <= plain
        PROVE  /\ req = meant(m) /\ parsed.rest = SubSeq(stream, Len(First(k + 1)) + 1, b)
               /\ Len(First(k + 1)) <= b
    <3>1. k <= plain /\ k + 1 \in 1..plain
      BY <1>6, <1>7, <2>3
    <3>2. Fresh(context) /\ o <= arrived /\ input_buffer_ = SubSeq(stream, o + 1, arrived)
      <4>1. ~(context.nparsed_ > 0 /\ context.parser_.cs = "error")
        <5> SUFFICES ASSUME context.nparsed_ > 0, context.parser_.cs = "error" PROVE FALSE
          OBVIOUS
        <5>1. d.parser_.cs = "error"
          BY <1>2, <1>3, <1>9, <1>15, ParseError
        <5>. QED
          BY <1>15, <5>1
      <4>. QED
        BY <1>6, <1>12, <3>1, <4>1
    <3>3. m \in Messages /\ m.version \in Versions /\ m.body = <<>>
      BY <1>7, <3>1
    <3>4. /\ Starts(m, buf)
          /\ Len(wire(m)) <= Len(buf) =>
               /\ Len(First(k + 1)) <= b
               /\ SubSeq(buf, Len(wire(m)) + 1, Len(buf))
                    = SubSeq(stream, Len(First(k + 1)) + 1, b)
      BY <1>11, <3>1, <3>2 DEF NextIn
    <3> HIDE DEF m
    <3>5. /\ Len(wire(m)) <= Len(buf) =>
               /\ d.parser_.cs = "final" /\ req = meant(m)
               /\ parsed.rest = SubSeq(buf, Len(wire(m)) + 1, Len(buf))
          /\ Len(buf) < Len(wire(m)) => d.parser_.cs \notin {"final", "error"}
      BY <1>2, <1>3, <1>9, <3>2, <3>3, <3>4, ParsePlain
    <3>6. Len(wire(m)) <= Len(buf)
      <4>1. Len(wire(m)) \in Nat
        BY <3>3, WireType
      <4>. QED
        BY <1>9, <1>15, <3>5, <4>1
    <3>. QED
      BY <3>4, <3>5, <3>6
  <2>4. ASSUME k + 1 <= plain PROVE Answered(handled'[k + 1], m)
    <3> DEFINE h == handled'[k + 1]
    <3>1. h.req = req /\ h.resp = resp
      BY <2>2
    <3> HIDE DEF h, req, m
    <3>2. h.resp.by = "onRequest" => h.resp.close_connection_ = flagClose(req)
      BY <3>1, <2>1, LeftAlone
    <3>. QED
      BY <2>3, <2>4, <3>1, <3>2 DEF Answered, h
  <2>5. \A i \in 1..k + 1 : i <= plain => Answered(handled'[i], sent[i])
    <3> TAKE i \in 1..k + 1
    <3> HAVE i <= plain
    <3>1. CASE i \in 1..k
      BY <1>6, <2>2, <3>1
    <3>2. CASE i = k + 1
      BY <2>4, <3>2
    <3>. QED
      BY <1>6, <3>1, <3>2
  <2>6. ASSUME k + 1 <= plain PROVE Kept'
    <3>1. Fresh(context')
      BY <1>15, <2>3, <2>6, ResetFresh
    <3>2. input_buffer_' = SubSeq(stream, Len(First(k + 1)) + 1, b)
          /\ Len(First(k + 1)) <= b
      BY <1>15, <2>3, <2>6
    <3>3. Len(First(Len(handled))') = Len(First(k + 1)) /\ arrived' = b /\ stream' = stream
      BY <1>5, <2>2 DEF b
    <3>. QED
      BY <3>1, <3>2, <3>3 DEF Kept
  <2>. QED
    BY <2>2, <2>5, <2>6
\* A part of a request.
<1>16. CASE starved' = TRUE
  BY <1>16
<1>. QED
  BY <1>1, <1>2, <1>13, <1>14, <1>15, <1>16, ReadDoes

(* KeptInv is inductive. *)
LEMMA KeptHolds == Spec => []KeptInv
<1>1. Init => KeptInv
  <2> SUFFICES ASSUME Init PROVE KeptInv
    OBVIOUS
  <2>1. PICK n \in 1..MaxSent : sent \in [1..n -> Messages]
    BY DEF Init
  <2>2. ParseInv
    BY <2>1 DEF Init, ParseInv, SentOK
  <2>3. handled = <<>> /\ IsSeq(handled) /\ Len(handled) = 0
    BY DEF Init, IsSeq
  <2>4. state_ = "kConnecting" /\ ~Up
    BY DEF Init, Up
  <2>5. /\ starved = FALSE /\ input_buffer_ = <<>> /\ arrived = 0 /\ context = <<>>
        /\ \A i \in 1..Len(handled) : FALSE
    BY <2>3 DEF Init
  <2>. QED
    BY <2>2, <2>3, <2>4, <2>5 DEF KeptInv
<1>2. KeptInv /\ [Next]_vars => KeptInv'
  <2> SUFFICES ASSUME KeptInv, [Next]_vars PROVE KeptInv'
    OBVIOUS
  <2>0. ASSUME sent' = sent
        PROVE  stream' = stream /\ plain' = plain /\ \A k : First(k)' = First(k)
    BY <2>0 DEF stream, plain, First
  <2>1. CASE onConnection
    <3>1. /\ state_ = "kConnecting" /\ state_' = "kConnected" /\ context' = HttpContext
          /\ sent' = sent /\ arrived' = arrived /\ input_buffer_' = input_buffer_
          /\ handled' = handled /\ starved' = starved /\ failed' = failed
      BY <2>1 DEF onConnection
    <3>2. input_buffer_ = <<>> /\ arrived = 0 /\ handled = <<>>
      BY <3>1 DEF KeptInv
    <3>3. ParseInv'
      BY <3>1, FreshKeeps DEF KeptInv, ParseInv, SentOK
    <3>4. Fresh(context')
      BY <3>1 DEF HttpContext, Fresh, http_parser_init
    <3>5. Len(First(Len(handled))) = 0 /\ SubSeq(stream, 0 + 1, 0) = <<>>
      <4>1. First(0) = <<>>
        <5>1. [i \in 1..0 |-> wire(sent[i])] = <<>>
          OBVIOUS
        <5>2. FlattenSeq(<<>>) = <<>>
          BY DEF FlattenSeq
        <5>. QED
          BY <5>1, <5>2 DEF First
      <4>2. Len(handled) = 0
        BY <3>2
      <4>. QED
        BY <4>1, <4>2
    <3>6. Kept'
      <4>1. First(Len(handled))' = First(Len(handled)) /\ stream' = stream
        BY <2>0, <3>1
      <4>. QED
        BY <3>1, <3>2, <3>4, <3>5, <4>1 DEF Kept
    <3>7. \A i \in 1..Len(handled') : FALSE
      BY <3>1, <3>2
    <3>. QED
      BY <3>1, <3>3, <3>6, <3>7 DEF KeptInv, Up
  <2>2. CASE handleClose
    <3>1. /\ state_' = "kDisconnected" /\ context' = <<>> /\ sent' = sent
          /\ arrived' = arrived /\ input_buffer_' = input_buffer_
          /\ handled' = handled /\ starved' = starved /\ failed' = failed
      BY <2>2 DEF handleClose
    <3>2. ParseInv'
      BY <3>1 DEF KeptInv, ParseInv, SentOK
    <3>3. ~Up' /\ plain' = plain
      BY <2>0, <3>1 DEF Up
    <3>. QED
      BY <3>1, <3>2, <3>3 DEF KeptInv
  <2>3. CASE \E n \in 1..(Len(stream) - arrived) : onMessage(n)
    BY <2>3, ReadKept
  <2>4. CASE UNCHANGED vars
    <3>1. /\ state_' = state_ /\ context' = context /\ sent' = sent
          /\ arrived' = arrived /\ input_buffer_' = input_buffer_
          /\ handled' = handled /\ starved' = starved /\ failed' = failed
      BY <2>4 DEF vars
    <3>2. ParseInv'
      BY <3>1 DEF KeptInv, ParseInv, SentOK
    <3>3. Up' = Up /\ plain' = plain /\ stream' = stream
          /\ First(Len(handled))' = First(Len(handled))
      BY <2>0, <3>1 DEF Up
    <3>4. Kept' = Kept
      BY <3>1, <3>3 DEF Kept
    <3>. QED
      BY <3>1, <3>2, <3>3, <3>4 DEF KeptInv
  <2>. QED
    BY <2>1, <2>2, <2>3, <2>4 DEF Next
<1>. QED
  BY <1>1, <1>2, PTL DEF Spec

(* HandledAsSent: as long as no read ends inside a request, http_cb_ sees the *)
(* requests that were sent, each with its own method, path, query, version    *)
(* and headers, for all requests, in whatever number and pieces.              *)
THEOREM RequestsHandledAsSent == Spec => []HandledAsSent
<1>1. KeptInv => HandledAsSent
  <2> SUFFICES ASSUME KeptInv, ~starved, NEW i \in DOMAIN handled, i <= plain
               PROVE  handled[i].req = meant(sent[i])
    BY DEF HandledAsSent
  <2>1. starved = FALSE /\ IsSeq(handled)
    BY DEF KeptInv
  <2>2. i \in 1..Len(handled)
    BY <2>1 DEF IsSeq
  <2>. QED
    BY <2>1, <2>2 DEF KeptInv, Answered
<1>. QED
  BY <1>1, KeptHolds, PTL

(* PipelineKept: until then parseRequest retrieves no more and no less than   *)
(* the request it has handled, so that the input buffer holds exactly what    *)
(* was sent behind it.                                                        *)
THEOREM PipelineStaysKept == Spec => []PipelineKept
<1>1. KeptInv => PipelineKept
  <2> SUFFICES ASSUME KeptInv, ~starved, context # <<>>, context.nparsed_ = 0,
                      Len(handled) <= plain
               PROVE  input_buffer_ = SubSeq(stream,
                        1 + Len(FlattenSeq([i \in DOMAIN handled |-> wire(sent[i])])),
                        arrived)
    BY DEF PipelineKept
  <2>1. starved = FALSE /\ IsSeq(handled) /\ Up
    BY DEF KeptInv
  <2>2. Kept
    BY <2>1 DEF KeptInv
  <2>3. input_buffer_ = SubSeq(stream, Len(First(Len(handled))) + 1, arrived)
    BY <2>2 DEF Kept
  <2>4. FlattenSeq([i \in DOMAIN handled |-> wire(sent[i])]) = First(Len(handled))
    <3>1. DOMAIN handled = 1..Len(handled)
      BY <2>1 DEF IsSeq
    <3>. QED
      BY <3>1 DEF First
  <2>5. Len(First(Len(handled))) \in Nat
    <3>1. SentOK /\ Len(handled) \in Nat
      BY <2>1 DEF KeptInv, ParseInv, IsSeq
    <3>2. plain \in Nat /\ plain <= Len(sent) /\ Len(sent) \in Nat
      BY <3>1, PlainIs DEF SentOK
    <3>3. PICK k \in Nat : k = Len(handled)
      BY <3>1
    <3>4. k <= Len(sent)
      BY <3>2, <3>3
    <3>. QED
      BY <3>1, <3>3, <3>4, FirstIsUnits
  <2>6. Len(First(Len(handled))) + 1 = 1 + Len(First(Len(handled)))
    BY <2>5
  <2>. QED
    BY <2>3, <2>4, <2>6
<1>. QED
  BY <1>1, KeptHolds, PTL

(* ClosesAsAsked: with a callback that leaves the closing alone, onRequest    *)
(* closes the connection exactly when the request, as sent, calls for it.     *)
THEOREM ClosesWhenAsked == Spec => []ClosesAsAsked
<1>1. KeptInv => ClosesAsAsked
  <2> SUFFICES ASSUME KeptInv, ~starved, NEW i \in DOMAIN handled, i <= plain,
                      handled[i].resp.by = "onRequest"
               PROVE  handled[i].resp.close_connection_ <=> wantsClose(sent[i])
    BY DEF ClosesAsAsked
  <2>1. starved = FALSE /\ IsSeq(handled) /\ SentOK
    BY DEF KeptInv, ParseInv
  <2>2. i \in 1..Len(handled) /\ i \in Nat
    BY <2>1 DEF IsSeq
  <2>3. /\ handled[i].req = meant(sent[i])
        /\ handled[i].resp.close_connection_ = flagClose(meant(sent[i]))
    BY <2>1, <2>2 DEF KeptInv, Answered
  <2>4. i \in 1..plain
    BY <2>1, <2>2, PlainIs
  <2>5. sent[i] \in Messages /\ sent[i].version \in Versions
    BY <2>1, <2>4, PlainIs
  <2>6. flagClose(meant(sent[i])) <=> wantsClose(sent[i])
    BY <2>5, MeantClose
  <2>. QED
    BY <2>3, <2>6
<1>. QED
  BY <1>1, KeptHolds, PTL

=============================================================================
