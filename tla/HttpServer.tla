----------------------------- MODULE HttpServer -----------------------------
(***************************************************************************)
(* One connection of an HttpServer: the reads that hand its HttpContext a   *)
(* stream of requests in pieces, the parser between them, and the answers.  *)
(* Everything here happens on the connection's own loop.                    *)
(*                                                                          *)
(* The connection is reduced to what HttpServer uses of it: state_,         *)
(* input_buffer_, and send() and shutdown() called on the loop.             *)
(***************************************************************************)
EXTENDS HttpParser, FiniteSetsExt

CONSTANTS Messages,   \* requests a client may send
          MaxSent,    \* bound: requests on one connection
          MaxReads    \* bound: pieces they arrive in

(* A request as its sender sees it.  A version that is not one of the two    *)
(* makes it malformed; a body is whatever follows the empty line.            *)
ASSUME MessagesAssumption ==
  Messages \subseteq
    [method : Uppers, path : Paths, query : Seq(Text),
     version : Versions \cup Words, fields : Seq(Words \X Words),
     body : Seq(Text)]

VARIABLES
  sent,           \* the requests the client sends, in order
  arrived,        \* how many units of them have been read
  reads,          \* how many reads that took
  state_,         \* TcpConnection::state_
  input_buffer_,  \* TcpConnection::input_buffer_
  context,        \* HttpContext: parser_, request_, nparsed_; none before
  handled,        \* history: what http_cb_ was called with, in order
  answers,        \* what went into the connection's output, in order
  starved,        \* history: a read ended in the middle of a request
  failed          \* the assertion that ended the process, if one did

vars == <<sent, arrived, reads, state_, input_buffer_, context, handled,
          answers, starved, failed>>

-----------------------------------------------------------------------------
(* What a sender puts on the wire, and what it means by it.                  *)

line(f) == <<f[1], ":", " ", f[2], "NL">>

wire(m) ==
  <<m.method, " ", m.path>>
    \o (IF m.query = <<>> THEN <<>> ELSE <<"?">> \o m.query)
    \o <<" ", m.version, "NL">>
    \o FlattenSeq([i \in DOMAIN m.fields |-> line(m.fields[i])])
    \o <<"NL">> \o m.body

stream == FlattenSeq([i \in DOMAIN sent |-> wire(sent[i])])

malformed(m) == m.version \notin Versions

names(m) == {m.fields[i][1] : i \in DOMAIN m.fields}

(* The value of a field: the last one with that name. *)
valueOf(m, name) ==
  m.fields[Max({i \in DOMAIN m.fields : m.fields[i][1] = name})][2]

meant(m) ==
  [method_ |-> methodOf(<<m.method>>), version_ |-> versionOf(<<m.version>>, ""),
   path_ |-> <<m.path>>, query_ |-> m.query,
   headers_ |-> [name \in {<<n>> : n \in names(m)} |->
                   <<valueOf(m, name[1])>>]]

(* The sender wants the connection closed behind the answer. *)
wantsClose(m) ==
  LET asks(v) == "Connection" \in names(m) /\ valueOf(m, "Connection") = v
  IN  \/ asks("close")
      \/ m.version = "HTTP/1.0" /\ ~asks("Keep-Alive")

-----------------------------------------------------------------------------
(* HttpContext.                                                             *)

HttpContext == [parser_ |-> http_parser_init(0), request_ |-> HttpRequest,
                nparsed_ |-> 0]

(* Mutant: the request is not emptied. *)
MutantKeepRequest(c) ==
  [HttpContext EXCEPT !.parser_ = http_parser_init(c.parser_.query_start),
                      !.request_ = c.request_]

(* Mutant: the parser goes back to its start and keeps its counters. *)
MutantRestart(c) == [HttpContext EXCEPT !.parser_ = c.parser_,
                                        !.parser_.cs = "start"]

(* reset, which leaves query_start as it was. *)
reset(c) == [parser_ |-> http_parser_init(c.parser_.query_start),
             request_ |-> swap(c.request_, HttpRequest), nparsed_ |-> 0]

(* Mutant: the whole buffer is retrieved. *)
MutantRetrieveAll(c, buf) ==
  LET run == http_parser_execute(c.parser_, c.request_, buf, c.nparsed_)
  IN  [context |-> [parser_ |-> run.parser, request_ |-> run.request,
                    nparsed_ |-> c.nparsed_ + run.parser.nread],
       rest |-> <<>>]

(* parseRequest on a buffer that is not empty.  The parser starts nparsed_   *)
(* units into it, and what it returns is everything it has read so far.      *)
parseRequest(c, buf) ==
  LET run == http_parser_execute(c.parser_, c.request_, buf, c.nparsed_)
      delta == run.parser.nread
  IN  [context |-> [parser_ |-> run.parser, request_ |-> run.request,
                    nparsed_ |-> c.nparsed_ + delta],
       rest |-> SubSeq(buf, delta + 1, Len(buf))]

gotAll(c) == http_parser_is_finished(c.parser_)

-----------------------------------------------------------------------------
(* HttpResponse.                                                            *)

(* `by' says who decided about the closing: onRequest, in the beginning. *)
HttpResponse(flag_close) ==
  [by |-> "onRequest", status_code_ |-> 0, close_connection_ |-> flag_close]

(* http_cb_ with the response onRequest made: the default one, or one of the *)
(* user's, which may leave the closing alone or decide it.                   *)
http_cb_(resp) ==
  {[by |-> "default", status_code_ |-> 404, close_connection_ |-> TRUE],
   [resp EXCEPT !.status_code_ = 200]}
    \cup [by : {"user"}, status_code_ : {200}, close_connection_ : BOOLEAN]

(* appendToBuffer: a response that does not close carries its length. *)
appendToBuffer(resp) ==
  [code |-> resp.status_code_, sized |-> ~resp.close_connection_]

BadRequest == [code |-> 400, sized |-> FALSE]

-----------------------------------------------------------------------------
Init ==
  /\ sent \in UNION {[1..n -> Messages] : n \in 1..MaxSent}
  /\ arrived = 0 /\ reads = 0
  /\ state_ = "kConnecting"
  /\ input_buffer_ = <<>>
  /\ context = <<>>
  /\ handled = <<>> /\ answers = <<>>
  /\ starved = FALSE
  /\ failed = "none"

(* onConnection for a connection that is up. *)
onConnection ==
  /\ state_ = "kConnecting"
  /\ state_' = "kConnected"
  /\ context' = HttpContext
  /\ UNCHANGED <<sent, arrived, reads, input_buffer_, handled, answers, starved,
                 failed>>

(* Mutant: an answer is sent whatever the state. *)
MutantSendAlways(answer, close) ==
  /\ answers' = Append(answers, answer)
  /\ state_' = IF close /\ state_ = "kConnected" THEN "kDisconnecting"
               ELSE state_

(* send() and shutdown() on the loop, one after the other. *)
reply(answer, close) ==
  /\ answers' = IF state_ = "kConnected" THEN Append(answers, answer)
                ELSE answers
  /\ state_' = IF close /\ state_ = "kConnected" THEN "kDisconnecting"
               ELSE state_

(* Mutant: the version is not looked at. *)
MutantAnyVersion(req) == getHeader(req, <<"Connection">>) # <<"Keep-Alive">>

flagClose(req) ==
  LET connection == getHeader(req, <<"Connection">>)
  IN  \/ connection = <<"close">>
      \/ req.version_ = "kHttp10" /\ connection # <<"Keep-Alive">>

onRequest(req) ==
  \E resp \in http_cb_(HttpResponse(flagClose(req))) :
    /\ handled' = Append(handled, [req |-> req, resp |-> resp])
    /\ reply(appendToBuffer(resp), resp.close_connection_)

(* handleRead takes n units in and calls onMessage.  A finished machine is   *)
(* never in error, so the 400 and onRequest exclude each other.              *)
onMessage(n) ==
  /\ state_ \in {"kConnected", "kDisconnecting"}
  /\ failed = "none"
  /\ reads < MaxReads
  /\ arrived' = arrived + n
  /\ reads' = reads + 1
  /\ LET buf == input_buffer_ \o SubSeq(stream, arrived + 1, arrived + n)
         parsed == parseRequest(context, buf)
         parser == parsed.context.parser_
     IN  \/ /\ context.nparsed_ > Len(buf)
            /\ failed' = "offset past end of buffer"
            /\ UNCHANGED <<state_, input_buffer_, context, handled, answers,
                           starved>>
         \/ /\ context.nparsed_ <= Len(buf)
            /\ failed' = IF Consistent(parser, Len(buf)) THEN failed
                         ELSE "closing assertions"
            /\ input_buffer_' = parsed.rest
            /\ \/ /\ http_parser_has_error(parser)
                  /\ reply(BadRequest, TRUE)
                  /\ context' = parsed.context
                  /\ UNCHANGED <<handled, starved>>
               \/ /\ gotAll(parsed.context)
                  /\ onRequest(parsed.context.request_)
                  /\ context' = reset(parsed.context)
                  /\ UNCHANGED starved
               \/ /\ ~http_parser_has_error(parser)
                  /\ ~gotAll(parsed.context)
                  /\ context' = parsed.context
                  /\ starved' = TRUE
                  /\ UNCHANGED <<state_, handled, answers>>
  /\ UNCHANGED sent

(* The peer closes: handleClose, which frees the context with the connection. *)
handleClose ==
  /\ state_ \in {"kConnected", "kDisconnecting"}
  /\ failed = "none"
  /\ state_' = "kDisconnected"
  /\ context' = <<>>
  /\ UNCHANGED <<sent, arrived, reads, input_buffer_, handled, answers, starved,
                 failed>>

Next ==
  \/ onConnection
  \/ \E n \in 1..(Len(stream) - arrived) : onMessage(n)
  \/ handleClose

Spec == Init /\ [][Next]_vars

-----------------------------------------------------------------------------
(* Properties.                                                              *)

(* The requests up to the first one that is malformed or has a body, which   *)
(* the parser knows nothing of: the server takes it for the next request.    *)
plain ==
  LET stop == {i \in DOMAIN sent : malformed(sent[i]) \/ sent[i].body # <<>>}
  IN  IF stop = {} THEN Len(sent) ELSE Min(stop) - 1

(* However the reads fall, as long as none ends inside a request that the    *)
(* parser has begun, http_cb_ sees exactly the requests that were sent, one  *)
(* by one and in order, each with its own method, path, query, version and   *)
(* headers and nothing left over from the one before (HttpContext::reset).   *)
HandledAsSent ==
  ~starved => \A i \in DOMAIN handled : i <= plain =>
                handled[i].req = meant(sent[i])

(* Until then the input buffer holds exactly the bytes behind the last       *)
(* request handled: parseRequest retrieves neither more nor less than a      *)
(* request, and pipelined requests wait there for the reads to come.         *)
PipelineKept ==
  (~starved /\ context # <<>> /\ context.nparsed_ = 0
            /\ Len(handled) <= plain) =>
    input_buffer_ = SubSeq(stream,
      1 + Len(FlattenSeq([i \in DOMAIN handled |-> wire(sent[i])])), arrived)

(* A client can tell where every answer ends: an answer without a length is  *)
(* the last one on the connection, which the server is then shutting down;   *)
(* pipelined requests behind it are handled but not answered.                *)
AnswersDelimited ==
  \A i \in DOMAIN answers : ~answers[i].sized =>
    i = Len(answers) /\ state_ \in {"kDisconnecting", "kDisconnected"}

(* With a callback that leaves the closing alone, an answer closes the       *)
(* connection exactly when the request as it was sent, by its version and    *)
(* the last of its Connection fields, calls for that (onRequest).            *)
ClosesAsAsked ==
  ~starved => \A i \in DOMAIN handled :
    (i <= plain /\ handled[i].resp.by = "onRequest") =>
      (handled[i].resp.close_connection_ <=> wantsClose(sent[i]))

(* The parser's closing assertions (its marks, its lengths and the body's    *)
(* start lie in the buffer) hold whenever its opening one does, in whatever  *)
(* pieces the requests arrive.                                               *)
ParserAssertsHold == failed # "closing assertions"

(* http_parser_execute: assert(off <= len && "offset past end of buffer").   *)
OffsetInBuffer == failed # "offset past end of buffer"
=============================================================================
