----------------------------- MODULE HttpParser -----------------------------
(***************************************************************************)
(* The machine of http11_parser.cc that takes a request apart, and the      *)
(* HttpRequest its callbacks fill in.                                       *)
(*                                                                          *)
(* An element of a buffer, a `unit', is a run of bytes that the machine     *)
(* takes in one way from every state: a run of capitals, a path, a whole    *)
(* version, a line end.  Offsets count units.  What the machine does inside *)
(* such a run (the spelling of the version, the inside of an authority, the *)
(* twenty bytes a method may have, the place of an error inside the run) is *)
(* left out, and so are the JSON and XML messages of flash sockets, which   *)
(* start with bytes outside the alphabet.                                   *)
(***************************************************************************)
EXTENDS Integers, Sequences, SequencesExt

CONSTANTS Uppers,     \* runs of capitals and digits
          Words,      \* runs of letters that are not all capitals
          Paths,      \* runs that start with a slash
          Versions    \* the two versions the machine knows

Marks == {" ", "?", "#", ":", "NL", "NUL"}

(* The classes are disjoint: a state has one row for a unit, if it has any.  *)
ASSUME UnitsAssumption ==
  /\ {"GET", "POST", "HEAD", "PUT", "DELETE"} \subseteq Uppers
  /\ Versions = {"HTTP/1.0", "HTTP/1.1"}
  /\ Uppers \cap (Words \cup Paths \cup Versions \cup Marks) = {}
  /\ Words \cap (Paths \cup Versions \cup Marks) = {}
  /\ Paths \cap (Versions \cup Marks) = {}

Text == Uppers \cup Words \cup Paths \cup Versions
Units == Text \cup Marks

(* The single marks. *)
Blank == {" "}
Ask == {"?"}
Hash == {"#"}
Colon == {":"}
LineEnd == {"NL"}

(* How a URI may start, with a scheme or with a path. *)
Schemes == Uppers \cup Words
PathStarts == Paths \cup Versions
(* What may stand inside a part of the URI: pchar, "/" ... *)
UriChars == Text \cup Colon
(* ... and also "?" after the first one. *)
QueryChars == UriChars \cup Ask
(* token, which the tables let contain "#" ... *)
Tokens == Uppers \cup Words \cup Hash
(* ... and, after the first one, a line end. *)
NameChars == Tokens \cup LineEnd
(* What a header's value is made of, and what it starts with. *)
Values == Units \ {"NL", "NUL"}
ValueStarts == Values \ Blank

(* The rows of the tables: in state `from', on a unit of `on', the machine   *)
(* does the actions `do', in order, and goes to `to'.                        *)
Row(from, on, to, do) == [from |-> from, on |-> on, to |-> to, do |-> do]

MethodRows ==
  { Row("start",  Uppers, "method", <<"mark">>),
    Row("method", Uppers, "method", <<>>),
    Row("method", Blank,  "uri",    <<"request_method">>) }

UriRows ==
  { Row("uri", Schemes,    "scheme",    <<"mark">>),
    Row("uri", PathStarts, "path",      <<"mark">>),
    Row("uri", Blank,      "version",
        <<"mark", "request_path", "request_uri">>),
    Row("uri", Ask,        "query0",    <<"mark", "request_path">>),
    Row("uri", Hash,       "fragment0",
        <<"mark", "request_path", "request_uri">>),

    Row("scheme", Schemes,    "scheme",    <<>>),
    Row("scheme", PathStarts, "path",      <<>>),
    Row("scheme", Colon,      "hier",      <<>>),
    Row("scheme", Blank,      "version",   <<"request_path", "request_uri">>),
    Row("scheme", Ask,        "query0",    <<"request_path">>),
    Row("scheme", Hash,       "fragment0", <<"request_path", "request_uri">>),

    Row("hier", UriChars, "path",      <<"mark">>),
    Row("hier", Blank,    "version",
        <<"mark", "request_path", "request_uri">>),
    Row("hier", Ask,      "query0",    <<"mark", "request_path">>),
    Row("hier", Hash,     "fragment0",
        <<"mark", "request_path", "request_uri">>),

    Row("path", UriChars, "path",      <<>>),
    Row("path", Blank,    "version",   <<"request_path", "request_uri">>),
    Row("path", Ask,      "query0",    <<"request_path">>),
    Row("path", Hash,     "fragment0", <<"request_path", "request_uri">>),

    Row("query0", QueryChars, "query",     <<"start_query">>),
    Row("query0", Blank,      "version",
        <<"start_query", "query_string", "request_uri">>),
    Row("query0", Hash,       "fragment0",
        <<"start_query", "query_string", "request_uri">>),
    Row("query",  QueryChars, "query",     <<>>),
    Row("query",  Blank,      "version",   <<"query_string", "request_uri">>),
    Row("query",  Hash,       "fragment0", <<"query_string", "request_uri">>),

    Row("fragment0", QueryChars, "fragment", <<"mark">>),
    Row("fragment0", Blank,      "version",  <<"mark", "fragment">>),
    Row("fragment",  QueryChars, "fragment", <<>>),
    Row("fragment",  Blank,      "version",  <<"fragment">>) }

HeaderRows ==
  { Row("version",     Versions, "version_end", <<"mark">>),
    Row("version_end", LineEnd,  "header",      <<"http_version">>),

    Row("header", Tokens,    "name",   <<"start_field">>),
    Row("header", LineEnd,   "final",  <<"start_field", "done">>),
    Row("name",   NameChars, "name",   <<>>),
    Row("name",   Colon,     "value0", <<"write_field">>),

    Row("value0", Blank,       "value0", <<"start_value">>),
    Row("value0", ValueStarts, "value",  <<"start_value">>),
    Row("value0", LineEnd,     "header", <<"start_value", "write_value">>),
    Row("value",  Values,      "value",  <<>>),
    Row("value",  LineEnd,     "header", <<"write_value">>) }

Rows == MethodRows \cup UriRows \cup HeaderRows

States == {r.from : r \in Rows} \cup {"final", "error"}

(* The row for a unit, found by binary search in the code; none is an error. *)
Table ==
  [cs \in States |-> [unit \in Units |->
     LET rows == {r \in Rows : r.from = cs /\ unit \in r.on}
     IN  IF rows = {} THEN Row(cs, {unit}, "error", <<>>)
         ELSE CHOOSE r \in rows : TRUE]]

match(cs, unit) == Table[cs][unit]

-----------------------------------------------------------------------------
(* HttpRequest.                                                             *)

HttpRequest == [method_ |-> "kInvalid", version_ |-> "kUnknown",
                path_ |-> <<>>, query_ |-> <<>>, headers_ |-> <<>>]

Methods == [GET |-> "kGet", POST |-> "kPost", HEAD |-> "kHead",
            PUT |-> "kPut", DELETE |-> "kDelete"]

methodOf(s) == IF Len(s) = 1 /\ s[1] \in DOMAIN Methods
               THEN Methods[s[1]] ELSE "kInvalid"

(* A name that was there before is replaced. *)
addHeader(headers, field, value) ==
  [f \in DOMAIN headers \cup {field} |-> IF f = field THEN value
                                         ELSE headers[f]]

(* getHeader: the empty string when there is none. *)
getHeader(request, field) ==
  IF field \in DOMAIN request.headers_ THEN request.headers_[field] ELSE <<>>

(* swap, which trades every member but the time of receipt. *)
swap(request, that) ==
  [request EXCEPT !.method_ = that.method_, !.version_ = that.version_,
                  !.path_ = that.path_, !.query_ = that.query_,
                  !.headers_ = that.headers_]

-----------------------------------------------------------------------------
(* The callbacks HttpContext gives the parser.                              *)

versionOf(s, old) ==
  CASE s = <<"HTTP/1.0">> -> "kHttp10"
    [] s = <<"HTTP/1.1">> -> "kHttp11"
    [] OTHER -> old

parseHttpVersion(request, at) ==
  [request EXCEPT !.version_ = versionOf(at, @)]

parseRequestMethod(request, at) == [request EXCEPT !.method_ = methodOf(at)]
parseRequestPath(request, at) == [request EXCEPT !.path_ = at]
parseQueryString(request, at) == [request EXCEPT !.query_ = at]

(* A field without a name is dropped. *)
parseHttpField(request, field, value) ==
  IF field = <<>> THEN request
  ELSE [request EXCEPT !.headers_ = addHeader(@, field, value)]

-----------------------------------------------------------------------------
(* http_parser_init: query_start is not reset. *)
http_parser_init(query_start) ==
  [cs |-> "start", mark |-> 0, field_start |-> 0, field_len |-> 0,
   query_start |-> query_start, body_start |-> 0, nread |-> 0]

(* PTR_TO(from), length len. *)
element(buffer, from, len) == SubSeq(buffer, from + 1, from + len)

(* One action of a row at offset p, on the parser and the request its        *)
(* callbacks know; request_uri, fragment and header_done have no callback.   *)
perform(buffer, p, s, action) ==
  LET marked == element(buffer, s.parser.mark, p - s.parser.mark)
      query  == element(buffer, s.parser.query_start, p - s.parser.query_start)
      field  == element(buffer, s.parser.field_start, s.parser.field_len)
  IN CASE action \in {"mark", "start_value"} -> [s EXCEPT !.parser.mark = p]
       [] action = "start_field" -> [s EXCEPT !.parser.field_start = p]
       [] action = "write_field" ->
            [s EXCEPT !.parser.field_len = p - s.parser.field_start]
       [] action = "start_query" -> [s EXCEPT !.parser.query_start = p]
       [] action = "done" -> [s EXCEPT !.parser.body_start = p + 1]
       [] action = "write_value" ->
            [s EXCEPT !.request = parseHttpField(@, field, marked)]
       [] action = "request_method" ->
            [s EXCEPT !.request = parseRequestMethod(@, marked)]
       [] action = "request_path" ->
            [s EXCEPT !.request = parseRequestPath(@, marked)]
       [] action = "query_string" ->
            [s EXCEPT !.request = parseQueryString(@, query)]
       [] action = "http_version" ->
            [s EXCEPT !.request = parseHttpVersion(@, marked)]
       [] OTHER -> s

(* The actions of a row, one after the other. *)
performAll(buffer, p, s, do) ==
  LET acted[i \in 0..Len(do)] ==
        IF i = 0 THEN s ELSE perform(buffer, p, acted[i - 1], do[i])
  IN  acted[Len(do)]

(* The end of a turn at offset p, which goes to state `to': an error does    *)
(* not move p, and `done' leaves the loop behind the unit.                   *)
again(acted, to, p) ==
  [parser  |-> [acted.parser EXCEPT !.cs = to],
   request |-> acted.request,
   p       |-> IF to = "error" THEN p ELSE p + 1,
   out     |-> to \in {"error", "final"}]

(* One turn of the machine's loop at offset p. *)
resume(buffer, s, p) ==
  LET row == match(s.parser.cs, buffer[p + 1])
  IN  IF s.out THEN s
      ELSE again(performAll(buffer, p, s, row.do), row.to, p)

(* The turns from offset off to the end of the buffer. *)
resumeAll(buffer, s, off) ==
  LET turns[i \in 0..(Len(buffer) - off)] ==
        IF i = 0 THEN s ELSE resume(buffer, turns[i - 1], off + i - 1)
  IN  turns[Len(buffer) - off]

(* The count of what was read from offset off. *)
counted(s, off) == [s EXCEPT !.parser.nread = @ + s.p - off]

(* http_parser_execute from offset off, up to its closing assertions. *)
http_parser_execute(parser, request, buffer, off) ==
  counted(resumeAll(buffer,
                    [parser |-> parser, request |-> request, p |-> off,
                     out |-> parser.cs = "error"], off), off)

http_parser_has_error(parser) == parser.cs = "error"
http_parser_is_finished(parser) == parser.cs = "final"

(* The assertions at the end of http_parser_execute. *)
Consistent(parser, len) ==
  /\ parser.nread <= len
  /\ parser.body_start <= len
  /\ parser.mark < len
  /\ parser.field_len <= len
  /\ parser.field_start < len
=============================================================================
