-------------------------- MODULE HttpParserProofs --------------------------
(***************************************************************************)
(* What a run of the machine leaves behind, for every buffer: it ends       *)
(* inside the buffer, with the parser's marks in what it has read; and      *)
(* which row of the table each class of units finds, with what its actions  *)
(* do.                                                                      *)
(*                                                                          *)
(* The runs are recursive functions of the number of turns; the lemmas      *)
(* about them are by induction, stated for a set of numbers.                *)
(***************************************************************************)
EXTENDS HttpParser, SequenceTheorems, WellFoundedInduction, TLAPS

(* Induction. *)

(* The least-number principle. *)
LEMMA Least ==
  ASSUME NEW T, T \subseteq Nat, T # {}
  PROVE  \E n \in T : \A m \in T : n <= m
<1> DEFINE R == OpToRel(<, Nat)
<1>1. IsWellFoundedOn(R, Nat)
  BY NatLessThanWellFounded, Zenon
<1>2. \A x, y \in Nat : <<x, y>> \in R <=> x < y
  BY DEF OpToRel
<1> HIDE DEF R
<1>3. PICK n \in T : \A y \in T : ~ (<<y, n>> \in R)
  BY <1>1, WFMin, Zenon
<1>4. \A y \in T : y \in Nat /\ ~(y < n) /\ n \in Nat
  BY <1>2, <1>3
<1>. QED
  BY <1>4

(* Induction, for a set of numbers. *)
LEMMA Induction ==
  ASSUME NEW T, 0 \in T, \A n \in Nat : n \in T => n + 1 \in T
  PROVE  Nat \subseteq T
<1> SUFFICES ASSUME Nat \ T # {} PROVE FALSE
  OBVIOUS
<1>1. PICK n \in Nat \ T : \A m \in Nat \ T : n <= m
  <2>1. Nat \ T \subseteq Nat
    OBVIOUS
  <2>. QED
    BY <2>1, Least
<1>2. n # 0 /\ n - 1 \in Nat
  BY <1>1
<1>3. n - 1 \in T
  BY <1>1, <1>2
<1>. QED
  BY <1>1, <1>2, <1>3

-----------------------------------------------------------------------------
(* The recursions of the model and of the library. *)

(* The actions do, one after the other, ... *)
Acts(buffer, p, f, do) ==
  \A i \in 1..Len(do) : f[i] = perform(buffer, p, f[i - 1], do[i])

(* ... from s to where performAll ends. *)
Performs(buffer, p, s, do) ==
  \E f : /\ f[0] = s /\ Acts(buffer, p, f, do)
         /\ performAll(buffer, p, s, do) = f[Len(do)]

(* performAll takes them in order. *)
LEMMA PerformAllIs ==
  ASSUME NEW buffer, NEW p, NEW s, NEW do, Len(do) \in Nat
  PROVE  Performs(buffer, p, s, do)
<1> DEFINE Fits(f, n) ==
      f = [i \in 0..n |-> IF i = 0 THEN s ELSE perform(buffer, p, f[i - 1], do[i])]
           T == {n \in Nat : \E f : Fits(f, n)}
<1>1. 0 \in T
  <2>1. Fits([i \in 0..0 |-> s], 0)
    OBVIOUS
  <2>. QED
    BY <2>1
<1>2. ASSUME NEW n \in Nat, n \in T PROVE n + 1 \in T
  <2>1. PICK f : Fits(f, n)
    BY <1>2
  <2> DEFINE g == [i \in 0..n + 1 |-> IF i <= n THEN f[i]
                                    ELSE perform(buffer, p, f[n], do[n + 1])]
  <2>2. ASSUME NEW i \in 0..n + 1
        PROVE  g[i] = IF i = 0 THEN s ELSE perform(buffer, p, g[i - 1], do[i])
    <3>1. CASE i <= n
      <4>1. f[i] = IF i = 0 THEN s ELSE perform(buffer, p, f[i - 1], do[i])
        BY <2>1, <3>1
      <4>2. i # 0 => g[i - 1] = f[i - 1]
        BY <3>1
      <4>. QED
        BY <3>1, <4>1, <4>2
    <3>2. CASE i = n + 1
      <4>1. g[i] = perform(buffer, p, f[n], do[n + 1]) /\ i # 0 /\ i - 1 = n
        BY <3>2
      <4>2. g[n] = f[n]
        OBVIOUS
      <4>. QED
        BY <3>2, <4>1, <4>2
    <3>. QED
      BY <3>1, <3>2
  <2> HIDE DEF g
  <2>3. g = [i \in 0..n + 1 |-> g[i]]
    BY DEF g
  <2>4. Fits(g, n + 1)
    BY <2>2, <2>3, Zenon
  <2>. QED
    BY <2>4
<1> DEFINE F == CHOOSE f : Fits(f, Len(do))
<1>3. \E f : Fits(f, Len(do))
  <2> HIDE DEF Fits
  <2>1. Nat \subseteq T
    <3> HIDE DEF T
    <3>. QED
      BY <1>1, <1>2, Induction
  <2>. QED
    BY <2>1
<1>4. Fits(F, Len(do))
  <2> HIDE DEF Fits
  <2>. QED
    BY <1>3, Zenon
<1>5. performAll(buffer, p, s, do) = F[Len(do)]
  BY Zenon DEF performAll
<1> HIDE DEF F
<1>6. F[0] = s /\ \A i \in 1..Len(do) : F[i] = perform(buffer, p, F[i - 1], do[i])
  BY <1>4
<1>. QED
  BY <1>5, <1>6, Zenon DEF Performs, Acts

(* n turns of the loop from offset off, ... *)
Turns(buffer, f, off, n) ==
  \A i \in 1..n : f[i] = resume(buffer, f[i - 1], off + i - 1)

(* ... from s to where resumeAll ends. *)
Resumes(buffer, s, off, n) ==
  \E f : f[0] = s /\ Turns(buffer, f, off, n) /\ resumeAll(buffer, s, off) = f[n]

(* resumeAll takes one turn for each unit of the buffer. *)
LEMMA ResumeAllIs ==
  ASSUME NEW buffer, NEW s, NEW off, NEW len \in Nat, len = Len(buffer) - off
  PROVE  Resumes(buffer, s, off, len)
<1> DEFINE Fits(f, n) ==
      f = [i \in 0..n |-> IF i = 0 THEN s ELSE resume(buffer, f[i - 1], off + i - 1)]
           T == {n \in Nat : \E f : Fits(f, n)}
<1>1. 0 \in T
  <2>1. Fits([i \in 0..0 |-> s], 0)
    OBVIOUS
  <2>. QED
    BY <2>1
<1>2. ASSUME NEW n \in Nat, n \in T PROVE n + 1 \in T
  <2>1. PICK f : Fits(f, n)
    BY <1>2
  <2> DEFINE g == [i \in 0..n + 1 |-> IF i <= n THEN f[i]
                                    ELSE resume(buffer, f[n], off + (n + 1) - 1)]
  <2>2. ASSUME NEW i \in 0..n + 1
        PROVE  g[i] = IF i = 0 THEN s ELSE resume(buffer, g[i - 1], off + i - 1)
    <3>1. CASE i <= n
      <4>1. f[i] = IF i = 0 THEN s ELSE resume(buffer, f[i - 1], off + i - 1)
        BY <2>1, <3>1
      <4>2. i # 0 => g[i - 1] = f[i - 1]
        BY <3>1
      <4>. QED
        BY <3>1, <4>1, <4>2
    <3>2. CASE i = n + 1
      <4>1. g[i] = resume(buffer, f[n], off + (n + 1) - 1) /\ i # 0 /\ i - 1 = n
        BY <3>2
      <4>2. g[n] = f[n]
        OBVIOUS
      <4>. QED
        BY <3>2, <4>1, <4>2
    <3>. QED
      BY <3>1, <3>2
  <2> HIDE DEF g
  <2>3. g = [i \in 0..n + 1 |-> g[i]]
    BY DEF g
  <2>4. Fits(g, n + 1)
    BY <2>2, <2>3, Zenon
  <2>. QED
    BY <2>4
<1> DEFINE F == CHOOSE f : Fits(f, len)
<1>3. \E f : Fits(f, len)
  <2> HIDE DEF Fits
  <2>1. Nat \subseteq T
    <3> HIDE DEF T
    <3>. QED
      BY <1>1, <1>2, Induction
  <2>. QED
    BY <2>1
<1>4. Fits(F, len)
  <2> HIDE DEF Fits
  <2>. QED
    BY <1>3, Zenon
<1>5. resumeAll(buffer, s, off) = F[len]
  BY DEF resumeAll
<1> HIDE DEF F
<1>6. F[0] = s /\ \A i \in 1..len : F[i] = resume(buffer, F[i - 1], off + i - 1)
  BY <1>4
<1>. QED
  BY <1>5, <1>6, Zenon DEF Resumes, Turns

(* What FlattenSeq computes. *)
LEMMA FlattenIs ==
  ASSUME NEW seqs, NEW len \in Nat \ {0}, len = Len(seqs)
  PROVE  \E f : /\ f[1] = seqs[1]
                /\ \A i \in 2..len : f[i] = f[i - 1] \o seqs[i]
                /\ FlattenSeq(seqs) = f[len]
<1> DEFINE cat(a, c) == a \o c
           Fits(f, n) ==
      f = [i \in 1..n |-> IF i = 1 THEN seqs[i] ELSE cat(f[i - 1], seqs[i])]
           T == {n \in Nat : \E f : Fits(f, n)}
<1> HIDE DEF cat
<1>1. 0 \in T
  <2>1. Fits([i \in 1..0 |-> 0], 0)
    OBVIOUS
  <2>. QED
    BY <2>1
<1>2. ASSUME NEW n \in Nat, n \in T PROVE n + 1 \in T
  <2>1. PICK f : Fits(f, n)
    BY <1>2
  <2> DEFINE g == [i \in 1..n + 1 |-> IF i <= n THEN f[i]
                                    ELSE IF i = 1 THEN seqs[i] ELSE cat(f[n], seqs[i])]
  <2>2. ASSUME NEW i \in 1..n + 1
        PROVE  g[i] = IF i = 1 THEN seqs[i] ELSE cat(g[i - 1], seqs[i])
    <3>1. CASE i <= n
      <4>1. f[i] = IF i = 1 THEN seqs[i] ELSE cat(f[i - 1], seqs[i])
        BY <2>1, <3>1
      <4>2. i # 1 => g[i - 1] = f[i - 1]
        BY <3>1
      <4>. QED
        BY <3>1, <4>1, <4>2
    <3>2. CASE i = n + 1
      <4>1. g[i] = (IF i = 1 THEN seqs[i] ELSE cat(f[n], seqs[i])) /\ i - 1 = n
        BY <3>2
      <4>2. i # 1 => g[n] = f[n]
        BY <3>2
      <4>. QED
        BY <3>2, <4>1, <4>2
    <3>. QED
      BY <3>1, <3>2
  <2> HIDE DEF g
  <2>3. g = [i \in 1..n + 1 |-> g[i]]
    BY DEF g
  <2>4. Fits(g, n + 1)
    BY <2>2, <2>3, Zenon
  <2>. QED
    BY <2>4
<1> DEFINE F == CHOOSE f : Fits(f, len)
<1>3. \E f : Fits(f, len)
  <2> HIDE DEF Fits
  <2>1. Nat \subseteq T
    <3> HIDE DEF T
    <3>. QED
      BY <1>1, <1>2, Induction
  <2>. QED
    BY <2>1
<1>4. Fits(F, len)
  <2> HIDE DEF Fits
  <2>. QED
    BY <1>3, Zenon
<1>5. FlattenSeq(seqs) = F[len]
  BY DEF FlattenSeq, cat
<1> HIDE DEF F
<1>6. F[1] = seqs[1] /\ \A i \in 2..len : F[i] = cat(F[i - 1], seqs[i])
  BY <1>4
<1>. QED
  BY <1>5, <1>6 DEF cat

(* Sequences of units laid end to end are a sequence of units. *)
LEMMA FlattenType ==
  ASSUME NEW S, NEW n \in Nat, NEW seqs \in [1..n -> Seq(S)]
  PROVE  FlattenSeq(seqs) \in Seq(S)
<1>0. seqs \in Seq(Seq(S)) /\ Len(seqs) = n
  OBVIOUS
<1>1. CASE n = 0
  <2>1. FlattenSeq(seqs) = seqs /\ seqs = <<>>
    BY <1>0, <1>1 DEF FlattenSeq
  <2>. QED
    BY <2>1
<1>2. CASE n # 0
  <2>1. PICK f : /\ f[1] = seqs[1]
                 /\ \A i \in 2..n : f[i] = f[i - 1] \o seqs[i]
                 /\ FlattenSeq(seqs) = f[n]
    <3>1. n \in Nat \ {0} /\ n = Len(seqs)
      BY <1>0, <1>2
    <3>. QED
      BY <3>1, FlattenIs, Zenon
  <2> DEFINE T == {i \in Nat : i + 1 <= n => f[i + 1] \in Seq(S)}
  <2>2. 0 \in T
    BY <1>2, <2>1
  <2>3. ASSUME NEW i \in Nat, i \in T PROVE i + 1 \in T
    <3> SUFFICES ASSUME (i + 1) + 1 <= n PROVE f[(i + 1) + 1] \in Seq(S)
      OBVIOUS
    <3>1. (i + 1) + 1 \in 2..n /\ ((i + 1) + 1) - 1 = i + 1 /\ (i + 1) + 1 \in 1..n
      OBVIOUS
    <3>2. f[(i + 1) + 1] = f[i + 1] \o seqs[(i + 1) + 1]
      BY <2>1, <3>1
    <3>3. f[i + 1] \in Seq(S) /\ seqs[(i + 1) + 1] \in Seq(S)
      BY <2>3, <3>1
    <3>. QED
      BY <3>2, <3>3, ConcatProperties
  <2>4. n - 1 \in T
    <3>1. n - 1 \in Nat
      BY <1>2
    <3> HIDE DEF T
    <3>. QED
      BY <2>2, <2>3, <3>1, Induction
  <2>. QED
    BY <1>2, <2>1, <2>4
<1>. QED
  BY <1>1, <1>2

(* Sequences of one, three and five elements. *)
LEMMA Five ==
  ASSUME NEW S
  PROVE  /\ \A a \in S : <<a>> \in Seq(S)
         /\ \A a, b, c \in S : <<a, b, c>> \in Seq(S)
         /\ \A a, b, c, d, e \in S : <<a, b, c, d, e>> \in Seq(S)
OBVIOUS

(* A sequence over a set is one over a larger set. *)
LEMMA SeqOfMore ==
  ASSUME NEW S, NEW T, S \subseteq T, NEW s \in Seq(S)
  PROVE  s \in Seq(T)
<1>1. Len(s) \in Nat /\ s \in [1..Len(s) -> S]
  OBVIOUS
<1>2. s \in [1..Len(s) -> T]
  BY <1>1
<1>. QED
  BY <1>1, <1>2

-----------------------------------------------------------------------------
(* The tables. *)

(* What the rows of the tables may name. *)
Actions == {"mark", "start_value", "start_field", "write_field", "start_query",
            "done", "write_value", "request_method", "request_path",
            "query_string", "http_version", "request_uri", "fragment"}

StateNames ==
  {"start", "method", "uri", "scheme", "hier", "path", "query0", "query",
   "fragment0", "fragment", "version", "version_end", "header", "name",
   "value0", "value", "final", "error"}

(* The parts of a row. *)
LEMMA RowIs ==
  \A from, on, to, do :
    LET r == Row(from, on, to, do)
    IN  r.from = from /\ r.on = on /\ r.to = to /\ r.do = do
BY DEF Row

(* Every row leads to a state of the table, and no row leads to the error. *)
LEMMA RowsOK ==
  /\ \A r \in Rows : r.from \in StateNames \ {"final", "error"}
                     /\ r.to \in StateNames \ {"error"}
  /\ \A r \in Rows : r.do \in Seq(Actions)
<1>1. ASSUME NEW r \in MethodRows
      PROVE  /\ r.from \in StateNames \ {"final", "error"}
             /\ r.to \in StateNames \ {"error"} /\ r.do \in Seq(Actions)
  <2>1. r.from \in StateNames \ {"final", "error"}
    BY <1>1, RowIs DEF MethodRows, StateNames
  <2>2. r.to \in StateNames \ {"error"}
    BY <1>1, RowIs DEF MethodRows, StateNames
  <2> DEFINE S == Seq(Actions)
  <2>3. {<<>>, <<"mark">>, <<"request_method">>} \subseteq S
    BY DEF Actions
  <2> HIDE DEF S
  <2>4. r.do \in S
    BY <1>1, <2>3, RowIs DEF MethodRows
  <2>. QED
    BY <2>1, <2>2, <2>4 DEF S
<1>2. ASSUME NEW r \in UriRows
      PROVE  /\ r.from \in StateNames \ {"final", "error"}
             /\ r.to \in StateNames \ {"error"} /\ r.do \in Seq(Actions)
  <2>1. r.from \in StateNames \ {"final", "error"}
    BY <1>2, RowIs DEF UriRows, StateNames
  <2>2. r.to \in StateNames \ {"error"}
    BY <1>2, RowIs DEF UriRows, StateNames
  <2> DEFINE S == Seq(Actions)
  <2>3. {<<>>, <<"mark">>, <<"mark", "request_path", "request_uri">>,
           <<"mark", "request_path">>, <<"request_path", "request_uri">>,
           <<"request_path">>, <<"start_query">>,
           <<"start_query", "query_string", "request_uri">>,
           <<"query_string", "request_uri">>, <<"mark", "fragment">>,
           <<"fragment">>} \subseteq S
    BY DEF Actions
  <2> HIDE DEF S
  <2>4. r.do \in S
    BY <1>2, <2>3, RowIs DEF UriRows
  <2>. QED
    BY <2>1, <2>2, <2>4 DEF S
<1>3. ASSUME NEW r \in HeaderRows
      PROVE  /\ r.from \in StateNames \ {"final", "error"}
             /\ r.to \in StateNames \ {"error"} /\ r.do \in Seq(Actions)
  <2>1. r.from \in StateNames \ {"final", "error"}
    BY <1>3, RowIs DEF HeaderRows, StateNames
  <2>2. r.to \in StateNames \ {"error"}
    BY <1>3, RowIs DEF HeaderRows, StateNames
  <2> DEFINE S == Seq(Actions)
  <2>3. {<<>>, <<"mark">>, <<"http_version">>, <<"start_field">>,
           <<"start_field", "done">>, <<"write_field">>, <<"start_value">>,
           <<"start_value", "write_value">>, <<"write_value">>} \subseteq S
    BY DEF Actions
  <2> HIDE DEF S
  <2>4. r.do \in S
    BY <1>3, <2>3, RowIs DEF HeaderRows
  <2>. QED
    BY <2>1, <2>2, <2>4 DEF S
<1>. QED
  BY <1>1, <1>2, <1>3 DEF Rows

(* The states that the tables name. *)
LEMMA StatesAre == States = StateNames
<1>1. States \subseteq StateNames
  BY RowsOK DEF States, StateNames
<1>2. {r.from : r \in MethodRows} = {"start", "method"}
  BY RowIs DEF MethodRows
<1>3. {"uri", "scheme", "hier", "path", "query0", "query", "fragment0", "fragment"}
        \subseteq {r.from : r \in UriRows}
  BY RowIs DEF UriRows
<1>4. {"version", "version_end", "header", "name", "value0", "value"}
        \subseteq {r.from : r \in HeaderRows}
  BY RowIs DEF HeaderRows
<1>. QED
  BY <1>1, <1>2, <1>3, <1>4 DEF States, StateNames, Rows

(* What the lookup gives. *)
LEMMA MatchOK ==
  ASSUME NEW cs \in States, NEW unit \in Units
  PROVE  LET row == match(cs, unit)
         IN  /\ row.to \in States /\ row.do \in Seq(Actions)
             /\ row.to = "error" => row.do = <<>>
             /\ row.to = "error" \/ (row \in Rows /\ row.from = cs /\ unit \in row.on)
<1> DEFINE rows == {r \in Rows : r.from = cs /\ unit \in r.on}
           row == match(cs, unit)
<1>1. row = IF rows = {} THEN Row(cs, {unit}, "error", <<>>)
            ELSE CHOOSE r \in rows : TRUE
  BY DEF match, Table
<1>2. CASE rows = {}
  <2>1. row = Row(cs, {unit}, "error", <<>>)
    BY <1>1, <1>2
  <2>. QED
    BY <2>1, StatesAre DEF Row, StateNames
<1>3. CASE rows # {}
  <2>1. row \in rows
    BY <1>1, <1>3, Zenon
  <2>. QED
    BY <2>1, RowsOK, StatesAre
<1>. QED
  BY <1>2, <1>3

-----------------------------------------------------------------------------
(* The run. *)

Parsers == [cs : States, mark : Nat, field_start : Nat, field_len : Nat,
            query_start : Nat, body_start : Nat, nread : Nat]

(* The machine in the middle of its loop. *)
IsRun(s) ==
  /\ s = [parser |-> s.parser, request |-> s.request, p |-> s.p, out |-> s.out]
  /\ s.parser \in Parsers /\ s.p \in Nat /\ s.out \in BOOLEAN

(* The marks lie in the first k units. *)
Within(P, k) ==
  P.mark < k /\ P.field_start < k /\ P.field_len <= k /\ P.body_start <= k

(* The actions change the parser's marks and the request. *)
Same(s, t) ==
  /\ t.p = s.p /\ t.out = s.out
  /\ t.parser.cs = s.parser.cs /\ t.parser.nread = s.parser.nread

(* An action at offset p leaves the marks in the units up to there. *)
LEMMA PerformKeeps ==
  ASSUME NEW buffer, NEW p \in Nat, NEW s, IsRun(s), Within(s.parser, p + 1),
         NEW action \in Actions
  PROVE  LET t == perform(buffer, p, s, action)
         IN  IsRun(t) /\ Same(s, t) /\ Within(t.parser, p + 1)
<1> DEFINE t == perform(buffer, p, s, action)
<1>1. CASE action \in {"mark", "start_value"}
  <2>1. t = [s EXCEPT !.parser.mark = p]
    BY <1>1 DEF perform
  <2>. QED
    BY <2>1 DEF IsRun, Same, Within, Parsers
<1>2. CASE action = "start_field"
  <2>1. t = [s EXCEPT !.parser.field_start = p]
    BY <1>2 DEF perform
  <2>. QED
    BY <2>1 DEF IsRun, Same, Within, Parsers
<1>3. CASE action = "write_field"
  <2>1. t = [s EXCEPT !.parser.field_len = p - s.parser.field_start]
    BY <1>3 DEF perform
  <2>. QED
    BY <2>1 DEF IsRun, Same, Within, Parsers
<1>4. CASE action = "start_query"
  <2>1. t = [s EXCEPT !.parser.query_start = p]
    BY <1>4 DEF perform
  <2>. QED
    BY <2>1 DEF IsRun, Same, Within, Parsers
<1>5. CASE action = "done"
  <2>1. t = [s EXCEPT !.parser.body_start = p + 1]
    BY <1>5 DEF perform
  <2>. QED
    BY <2>1 DEF IsRun, Same, Within, Parsers
<1>6. CASE action \in {"write_value", "request_method", "request_path",
                       "query_string", "http_version", "request_uri", "fragment"}
  <2>1. \E request : t = [s EXCEPT !.request = request]
    BY <1>6 DEF perform, IsRun
  <2>. QED
    BY <2>1 DEF IsRun, Same, Within, Parsers
<1>. QED
  BY <1>1, <1>2, <1>3, <1>4, <1>5, <1>6 DEF Actions

(* ... and so do all actions of a row. *)
LEMMA PerformAllKeeps ==
  ASSUME NEW buffer, NEW p \in Nat, NEW s, IsRun(s), Within(s.parser, p + 1),
         NEW do \in Seq(Actions)
  PROVE  LET t == performAll(buffer, p, s, do)
         IN  IsRun(t) /\ Same(s, t) /\ Within(t.parser, p + 1)
<1> DEFINE n == Len(do)
           Keeps(t) == IsRun(t) /\ Same(s, t) /\ Within(t.parser, p + 1)
<1>0. n \in Nat /\ \A i \in 1..n : do[i] \in Actions
  OBVIOUS
<1>1. PICK f : /\ f[0] = s
               /\ \A i \in 1..n : f[i] = perform(buffer, p, f[i - 1], do[i])
               /\ performAll(buffer, p, s, do) = f[n]
  <2>1. Performs(buffer, p, s, do)
    BY <1>0, PerformAllIs
  <2>. QED
    BY <2>1, Zenon DEF Performs, Acts
<1> DEFINE T == {i \in Nat : i <= n => Keeps(f[i])}
<1>2. 0 \in T
  <2>1. f[0] = s
    BY <1>0, <1>1
  <2>. QED
    BY <2>1 DEF Same
<1>3. ASSUME NEW i \in Nat, i \in T PROVE i + 1 \in T
  <2> SUFFICES ASSUME i + 1 <= n PROVE Keeps(f[i + 1])
    OBVIOUS
  <2>1. f[i + 1] = perform(buffer, p, f[i], do[i + 1]) /\ do[i + 1] \in Actions
    <3>1. i + 1 \in 0..n /\ i + 1 # 0 /\ (i + 1) - 1 = i /\ i + 1 \in 1..n
      BY <1>0
    <3>. QED
      BY <1>0, <1>1, <3>1
  <2>2. Keeps(f[i])
    BY <1>0, <1>3
  <2>. QED
    BY <2>1, <2>2, PerformKeeps DEF Same
<1>4. n \in T
  <2> HIDE DEF T
  <2>. QED
    BY <1>0, <1>2, <1>3, Induction
<1>. QED
  BY <1>0, <1>1, <1>4

(* The marks of a machine that has read q units lie within them. *)
Top(q) == IF q = 0 THEN 1 ELSE q

(* One turn of http_parser_execute, at offset p: the machine moves on by one *)
(* unit or has left the loop, and the marks lie in what it has read.         *)
LEMMA ResumeKeeps ==
  ASSUME NEW buffer, NEW p \in Nat, buffer[p + 1] \in Units,
         NEW s, IsRun(s), s.p <= p, s.out = TRUE \/ s.p = p,
         Within(s.parser, Top(s.p))
  PROVE  LET t == resume(buffer, s, p)
         IN  /\ IsRun(t) /\ Within(t.parser, Top(t.p))
             /\ t.parser.nread = s.parser.nread
             /\ s.p <= t.p /\ t.p <= p + 1 /\ (t.out = TRUE \/ t.p = p + 1)
<1> DEFINE t == resume(buffer, s, p)
           row == match(s.parser.cs, buffer[p + 1])
           acted == performAll(buffer, p, s, row.do)
<1>1. CASE s.out = TRUE
  <2>1. t = s
    BY <1>1 DEF resume
  <2>. QED
    BY <1>1, <2>1 DEF IsRun
<1>2. CASE s.out = FALSE
  <2>1. t = [parser  |-> [acted.parser EXCEPT !.cs = row.to],
             request |-> acted.request,
             p       |-> IF row.to = "error" THEN p ELSE p + 1,
             out     |-> row.to \in {"error", "final"}]
    BY <1>2 DEF resume, again
  <2>2. row.to \in States /\ row.do \in Seq(Actions)
        /\ (row.to = "error" => row.do = <<>>)
    BY MatchOK DEF Parsers, IsRun
  <2>3. Within(s.parser, p + 1) /\ s.p = p
    BY <1>2 DEF Within, Top, Parsers, IsRun
  <2>4. IsRun(acted) /\ Same(s, acted) /\ Within(acted.parser, p + 1)
    BY <2>2, <2>3, PerformAllKeeps
  <2>5. ASSUME row.to = "error" PROVE acted = s
    <3>1. row.do = <<>> /\ Len(row.do) = 0 /\ Len(row.do) \in Nat
      BY <2>2, <2>5
    <3>2. Performs(buffer, p, s, row.do)
      BY <3>1, PerformAllIs
    <3>3. \E f : f[0] = s /\ acted = f[Len(row.do)]
      BY <3>2, Zenon DEF Performs
    <3>. QED
      BY <3>1, <3>3
  <2> HIDE DEF row, acted
  <2>6. /\ t.parser = [acted.parser EXCEPT !.cs = row.to]
        /\ t.p = IF row.to = "error" THEN p ELSE p + 1
        /\ t.out \in BOOLEAN /\ (row.to = "error" => t.out = TRUE)
        /\ t = [parser |-> t.parser, request |-> t.request, p |-> t.p, out |-> t.out]
    <3> DEFINE o == row.to \in {"error", "final"}
    <3>1. o \in BOOLEAN
      OBVIOUS
    <3>2. row.to = "error" => o = TRUE
      OBVIOUS
    <3>3. t = [parser  |-> [acted.parser EXCEPT !.cs = row.to],
               request |-> acted.request,
               p       |-> IF row.to = "error" THEN p ELSE p + 1, out |-> o]
      BY <2>1
    <3> HIDE DEF t, o
    <3>. QED
      BY <3>1, <3>2, <3>3
  <2> HIDE DEF t
  <2>7. t.parser \in Parsers /\ t.parser.nread = s.parser.nread
    BY <2>2, <2>4, <2>6 DEF IsRun, Parsers, Same
  <2>8. Within(t.parser, Top(t.p))
    <3>1. CASE row.to = "error"
      BY <2>2, <2>3, <2>5, <2>6, <3>1 DEF IsRun, Parsers, Within, Top
    <3>2. CASE row.to # "error"
      <4>1. Top(t.p) = p + 1
        BY <2>6, <3>2 DEF Top
      <4>2. /\ t.parser.mark = acted.parser.mark
            /\ t.parser.field_start = acted.parser.field_start
            /\ t.parser.field_len = acted.parser.field_len
            /\ t.parser.body_start = acted.parser.body_start
        BY <2>4, <2>6 DEF IsRun, Parsers
      <4>. QED
        BY <2>4, <4>1, <4>2 DEF Within
    <3>. QED
      BY <3>1, <3>2
  <2>9. t.p \in Nat /\ s.p <= t.p /\ t.p <= p + 1 /\ (t.out = TRUE \/ t.p = p + 1)
    BY <2>3, <2>6
  <2>. QED
    BY <2>6, <2>7, <2>8, <2>9 DEF IsRun, t
<1>. QED
  BY <1>1, <1>2 DEF IsRun

(* The run from offset off: it ends inside the buffer, with the marks in what *)
(* it has read.                                                               *)
LEMMA ExecuteKeeps ==
  ASSUME NEW buffer \in Seq(Units), NEW off \in Nat, off <= Len(buffer),
         NEW parser \in Parsers, Within(parser, Top(off)), NEW request
  PROVE  LET t == http_parser_execute(parser, request, buffer, off)
         IN  /\ IsRun(t) /\ Within(t.parser, Top(t.p))
             /\ off <= t.p /\ t.p <= Len(buffer)
             /\ t.parser.nread = parser.nread + t.p - off
<1> DEFINE first == [parser |-> parser, request |-> request, p |-> off,
                     out |-> parser.cs = "error"]
           n == Len(buffer) - off
           last == resumeAll(buffer, first, off)
           Keeps(t, i) == /\ IsRun(t) /\ Within(t.parser, Top(t.p))
                          /\ t.parser.nread = parser.nread
                          /\ off <= t.p /\ t.p <= off + i
                          /\ t.out = TRUE \/ t.p = off + i
<1>0. n \in Nat
  OBVIOUS
<1> HIDE DEF first, Keeps
<1>1. PICK f : /\ f[0] = first
               /\ \A i \in 1..n : f[i] = resume(buffer, f[i - 1], off + i - 1)
               /\ last = f[n]
  <2>1. n = Len(buffer) - off
    OBVIOUS
  <2> HIDE DEF n
  <2>2. Resumes(buffer, first, off, n)
    BY <1>0, <2>1, ResumeAllIs
  <2>. QED
    BY <2>2, Zenon DEF Resumes, Turns
<1> USE DEF Keeps
<1>2. Keeps(first, 0)
  <2> DEFINE o == parser.cs = "error"
  <2>1. o \in BOOLEAN
    OBVIOUS
  <2>2. first = [parser |-> parser, request |-> request, p |-> off, out |-> o]
    BY DEF first
  <2> HIDE DEF o
  <2>. QED
    BY <2>1, <2>2 DEF IsRun
<1> HIDE DEF Keeps
<1> DEFINE T == {i \in Nat : i <= n => Keeps(f[i], i)}
<1>3. 0 \in T
  BY <1>1, <1>2
<1>4. ASSUME NEW i \in Nat, i \in T PROVE i + 1 \in T
  <2> SUFFICES ASSUME i + 1 <= n PROVE Keeps(f[i + 1], i + 1)
    OBVIOUS
  <2>1. f[i + 1] = resume(buffer, f[i], off + i)
    <3>1. i + 1 \in 1..n /\ (i + 1) - 1 = i /\ off + (i + 1) - 1 = off + i
      OBVIOUS
    <3>. QED
      BY <1>1, <3>1
  <2>2. Keeps(f[i], i)
    BY <1>0, <1>4
  <2>3. off + i \in Nat /\ buffer[(off + i) + 1] \in Units
    <3>1. (off + i) + 1 \in 1..Len(buffer)
      OBVIOUS
    <3>. QED
      BY <3>1
  <2> DEFINE u == f[i]
             t == resume(buffer, u, off + i)
  <2>4. /\ IsRun(u) /\ Within(u.parser, Top(u.p)) /\ u.p \in Nat
        /\ u.p <= off + i /\ (u.out = TRUE \/ u.p = off + i)
        /\ u.parser.nread = parser.nread /\ off <= u.p
    BY <2>2 DEF Keeps, IsRun
  <2>5. /\ IsRun(t) /\ Within(t.parser, Top(t.p))
        /\ t.parser.nread = u.parser.nread
        /\ u.p <= t.p /\ t.p <= (off + i) + 1 /\ (t.out = TRUE \/ t.p = (off + i) + 1)
    BY <2>3, <2>4, ResumeKeeps
  <2> HIDE DEF u, t
  <2>6. t.p \in Nat
    BY <2>5 DEF IsRun
  <2>7. Keeps(t, i + 1)
    BY <2>4, <2>5, <2>6 DEF Keeps
  <2>. QED
    BY <2>1, <2>7 DEF u, t
<1>5. n \in T
  <2> HIDE DEF T
  <2>. QED
    BY <1>0, <1>3, <1>4, Induction
<1>6. Keeps(last, n)
  BY <1>0, <1>1, <1>5
<1> HIDE DEF last
<1> DEFINE t == http_parser_execute(parser, request, buffer, off)
<1>7. t = [last EXCEPT !.parser.nread = @ + last.p - off]
  BY DEF http_parser_execute, counted, first, last
<1> HIDE DEF t
<1>8. /\ last.parser \in Parsers /\ last.p \in Nat
      /\ last.parser.nread + last.p - off \in Nat
  <2>1. last.parser \in Parsers /\ last.p \in Nat /\ off <= last.p
    BY <1>6 DEF Keeps, IsRun
  <2>2. last.parser.nread \in Nat
    BY <2>1 DEF Parsers
  <2>3. \A x, y \in Nat : off <= y => x + y - off \in Nat
    OBVIOUS
  <2>. QED
    BY <2>1, <2>2, <2>3
<1>9. /\ t = [parser |-> t.parser, request |-> t.request, p |-> t.p, out |-> t.out]
      /\ t.parser = [last.parser EXCEPT !.nread = last.parser.nread + last.p - off]
      /\ t.p = last.p /\ t.out = last.out
  BY <1>6, <1>7 DEF Keeps, IsRun
<1>10. t.parser \in Parsers
       /\ t.parser.nread = last.parser.nread + last.p - off
       /\ Within(t.parser, Top(t.p))
  BY <1>6, <1>8, <1>9 DEF Parsers, Within, Keeps
<1>. QED
  BY <1>0, <1>6, <1>9, <1>10 DEF Keeps, IsRun, t

-----------------------------------------------------------------------------
(* Sequences and parts of them. *)

(* Two sequences laid end to end. *)
LEMMA CatIs ==
  ASSUME NEW S, NEW s \in Seq(S), NEW t \in Seq(S)
  PROVE  /\ s \o t \in Seq(S) /\ Len(s \o t) = Len(s) + Len(t)
         /\ Len(s) \in Nat /\ Len(t) \in Nat
         /\ \A i \in 1..Len(s) : (s \o t)[i] = s[i]
         /\ \A i \in 1..Len(t) : (s \o t)[Len(s) + i] = t[i]
OBVIOUS

(* One unit behind the mark. *)
LEMMA OneUnit ==
  ASSUME NEW buffer \in Seq(Units), NEW a \in Nat, a < Len(buffer)
  PROVE  element(buffer, a, 1) = <<buffer[a + 1]>>
<1>1. element(buffer, a, 1) = SubSeq(buffer, a + 1, a + 1)
  BY DEF element
<1>. QED
  BY <1>1

(* One sequence more, laid behind the others. *)
LEMMA FlattenMore ==
  ASSUME NEW S, NEW n \in Nat, NEW some \in [1..n -> Seq(S)],
         NEW more \in [1..n + 1 -> Seq(S)], \A i \in 1..n : more[i] = some[i]
  PROVE  FlattenSeq(more) = FlattenSeq(some) \o more[n + 1]
<1>1. Len(some) = n /\ Len(more) = n + 1 /\ n + 1 \in Nat \ {0} /\ n + 1 \in 1..n + 1
      /\ more[n + 1] \in Seq(S)
  OBVIOUS
<1>2. PICK f : /\ f[1] = more[1]
               /\ \A i \in 2..n + 1 : f[i] = f[i - 1] \o more[i]
               /\ FlattenSeq(more) = f[n + 1]
  <2>1. PICK len \in Nat \ {0} : len = n + 1
    BY <1>1
  <2>2. len = Len(more)
    BY <1>1, <2>1
  <2>3. \E f : /\ f[1] = more[1]
               /\ \A i \in 2..len : f[i] = f[i - 1] \o more[i]
               /\ FlattenSeq(more) = f[len]
    BY <2>2, FlattenIs, Zenon
  <2>. QED
    BY <2>1, <2>3
<1>3. CASE n = 0
  <2>1. FlattenSeq(some) = <<>>
    BY <1>1, <1>3 DEF FlattenSeq
  <2>2. FlattenSeq(more) = more[n + 1]
    BY <1>2, <1>3
  <2>3. \A s \in Seq(S) : <<>> \o s = s
    OBVIOUS
  <2>. QED
    BY <1>1, <2>1, <2>2, <2>3
<1>4. CASE n # 0
  <2>1. PICK g : /\ g[1] = some[1]
                 /\ \A i \in 2..n : g[i] = g[i - 1] \o some[i]
                 /\ FlattenSeq(some) = g[n]
    <3>1. n \in Nat \ {0} /\ n = Len(some)
      BY <1>1, <1>4
    <3>. QED
      BY <3>1, FlattenIs, Zenon
  <2> DEFINE T == {k \in Nat : k + 1 <= n => f[k + 1] = g[k + 1]}
  <2>2. 0 \in T
    BY <1>2, <1>4, <2>1
  <2>3. ASSUME NEW k \in Nat, k \in T PROVE k + 1 \in T
    <3> SUFFICES ASSUME (k + 1) + 1 <= n PROVE f[(k + 1) + 1] = g[(k + 1) + 1]
      OBVIOUS
    <3> DEFINE i == (k + 1) + 1
    <3>1. i \in 2..n /\ i \in 2..n + 1 /\ i \in 1..n /\ i - 1 = k + 1 /\ k + 1 <= n
      OBVIOUS
    <3>2. f[i - 1] = g[i - 1]
      BY <2>3, <3>1
    <3> HIDE DEF i
    <3>3. f[i] = f[i - 1] \o more[i] /\ g[i] = g[i - 1] \o some[i] /\ more[i] = some[i]
      BY <1>2, <2>1, <3>1
    <3>4. f[i] = g[i]
      BY <3>2, <3>3
    <3>. QED
      BY <3>4 DEF i
  <2>4. f[n] = g[n]
    <3>1. n - 1 \in Nat /\ (n - 1) + 1 = n /\ n <= n
      BY <1>4
    <3> HIDE DEF T
    <3>2. n - 1 \in T
      BY <2>2, <2>3, <3>1, Induction
    <3>. QED
      BY <3>1, <3>2 DEF T
  <2>5. f[n + 1] = f[n] \o more[n + 1]
    <3>1. n + 1 \in 2..n + 1 /\ (n + 1) - 1 = n
      BY <1>4
    <3>. QED
      BY <1>2, <3>1
  <2>. QED
    BY <1>2, <2>1, <2>4, <2>5
<1>. QED
  BY <1>3, <1>4

-----------------------------------------------------------------------------
(* The turns that take a request apart: which row each unit finds, and what *)
(* the actions of that row leave.                                            *)

(* Names for the marks, which keep the literals out of the provers' way. *)
Sp == " "
Qm == "?"
Co == ":"
Nl == "NL"

(* Which class a unit is of. *)
LEMMA Classes ==
  /\ \A u \in Uppers : u \in Units /\ u \in Schemes /\ u \in Text /\ u \notin Blank
  /\ \A u \in Paths : /\ u \in Units /\ u \in PathStarts /\ u \notin Schemes
                      /\ u \notin Blank /\ u \notin Ask /\ u \notin Hash
  /\ \A u \in Text : /\ u \in Units /\ u \in QueryChars /\ u \notin Blank
                     /\ u \notin Hash
  /\ \A u \in Versions : u \in Units
  /\ \A u \in Words : /\ u \in Units /\ u \in Tokens /\ u \in ValueStarts
                      /\ u \notin LineEnd /\ u \notin Blank
  /\ Sp \in Units /\ Sp \in Blank /\ Sp \notin Uppers /\ Sp \notin UriChars
     /\ Sp \notin Ask /\ Sp \notin Hash /\ Sp \notin QueryChars
     /\ Sp \notin ValueStarts /\ Sp \notin LineEnd
  /\ Qm \in Units /\ Qm \in Ask /\ Qm \notin UriChars /\ Qm \notin Blank
     /\ Qm \notin Hash
  /\ Co \in Units /\ Co \in Colon /\ Co \notin NameChars
  /\ Nl \in Units /\ Nl \in LineEnd /\ Nl \notin Tokens /\ Nl \notin Values
BY UnitsAssumption DEF Units, Text, Marks, Schemes, PathStarts, UriChars,
   QueryChars, Tokens, NameChars, Values, ValueStarts, Blank, Ask, Hash, Colon,
   LineEnd, Sp, Qm, Co, Nl

(* In state cs a unit leads to state `to' by the actions `do'. *)
Goes(cs, unit, to, do) == match(cs, unit).to = to /\ match(cs, unit).do = do

(* ... if all rows for them agree. *)
LEMMA GoesBy ==
  ASSUME NEW cs \in States, NEW unit \in Units, NEW to, NEW do,
         \E r \in Rows : r.from = cs /\ unit \in r.on,
         \A r \in Rows : r.from = cs /\ unit \in r.on => r.to = to /\ r.do = do
  PROVE  Goes(cs, unit, to, do)
<1> DEFINE rows == {r \in Rows : r.from = cs /\ unit \in r.on}
           c == CHOOSE r \in rows : TRUE
<1>1. match(cs, unit) = IF rows = {} THEN Row(cs, {unit}, "error", <<>>) ELSE c
  BY DEF match, Table
<1>2. rows # {}
  OBVIOUS
<1>3. c \in rows
  BY <1>2, Zenon
<1> HIDE DEF c
<1>. QED
  BY <1>1, <1>2, <1>3 DEF Goes

(* The machine a state belongs to. *)
LEMMA RowsFrom ==
  \A r \in Rows :
    /\ r.from \in {"start", "method"} => r \in MethodRows
    /\ r.from \in {"uri", "path", "query0", "query"} => r \in UriRows
    /\ r.from \in {"version", "version_end", "header", "name", "value0", "value"}
         => r \in HeaderRows
<1>1. \A r \in MethodRows : r.from \in {"start", "method"}
  BY RowIs DEF MethodRows
<1>2. \A r \in UriRows : r.from \in {"uri", "scheme", "hier", "path", "query0",
                                    "query", "fragment0", "fragment"}
  BY RowIs DEF UriRows
<1>3. \A r \in HeaderRows : r.from \in {"version", "version_end", "header", "name",
                                       "value0", "value"}
  BY RowIs DEF HeaderRows
<1>. QED
  BY <1>1, <1>2, <1>3 DEF Rows

(* The turns that take a plain request apart, by the classes of units ... *)
LEMMA LookupRows ==
  /\ \A u \in Units : u \in Uppers =>
       Goes("start", u, "method", <<"mark">>)
  /\ \A u \in Units : u \in Blank /\ u \notin Uppers =>
       Goes("method", u, "uri", <<"request_method">>)
  /\ \A u \in Units : u \in PathStarts /\ u \notin Schemes /\ u \notin Blank /\ u \notin Ask /\ u \notin Hash =>
       Goes("uri", u, "path", <<"mark">>)
  /\ \A u \in Units : u \in Blank /\ u \notin UriChars /\ u \notin Ask /\ u \notin Hash =>
       Goes("path", u, "version", <<"request_path", "request_uri">>)
  /\ \A u \in Units : u \in Ask /\ u \notin UriChars /\ u \notin Blank /\ u \notin Hash =>
       Goes("path", u, "query0", <<"request_path">>)
  /\ \A u \in Units : u \in QueryChars /\ u \notin Blank /\ u \notin Hash =>
       Goes("query0", u, "query", <<"start_query">>)
  /\ \A u \in Units : u \in QueryChars /\ u \notin Blank /\ u \notin Hash =>
       Goes("query", u, "query", <<>>)
  /\ \A u \in Units : u \in Blank /\ u \notin QueryChars /\ u \notin Hash =>
       Goes("query", u, "version", <<"query_string", "request_uri">>)
  /\ \A u \in Units : u \in Versions =>
       Goes("version", u, "version_end", <<"mark">>)
  /\ \A u \in Units : u \in LineEnd =>
       Goes("version_end", u, "header", <<"http_version">>)
  /\ \A u \in Units : u \in Tokens /\ u \notin LineEnd =>
       Goes("header", u, "name", <<"start_field">>)
  /\ \A u \in Units : u \in LineEnd /\ u \notin Tokens =>
       Goes("header", u, "final", <<"start_field", "done">>)
  /\ \A u \in Units : u \in Colon /\ u \notin NameChars =>
       Goes("name", u, "value0", <<"write_field">>)
  /\ \A u \in Units : u \in Blank /\ u \notin ValueStarts /\ u \notin LineEnd =>
       Goes("value0", u, "value0", <<"start_value">>)
  /\ \A u \in Units : u \in ValueStarts /\ u \notin Blank /\ u \notin LineEnd =>
       Goes("value0", u, "value", <<"start_value">>)
  /\ \A u \in Units : u \in LineEnd /\ u \notin Values =>
       Goes("value", u, "header", <<"write_value">>)
<1>0. {"start", "method", "uri", "path", "query0", "query", "version", "version_end",
       "header", "name", "value0", "value"} \subseteq States
  BY StatesAre DEF StateNames
<1>1. ASSUME NEW u \in Units, u \in Uppers
      PROVE  Goes("start", u, "method", <<"mark">>)
  <2>1. ASSUME NEW r \in Rows, r.from = "start", u \in r.on
        PROVE  r.to = "method" /\ r.do = <<"mark">>
    <3>1. r \in MethodRows
      BY <2>1, RowsFrom
    <3>. QED
      BY <1>1, <2>1, <3>1, RowIs DEF MethodRows
  <2>2. \E r \in Rows : r.from = "start" /\ u \in r.on
    BY <1>1, RowIs DEF Rows, MethodRows
  <2>. QED
    BY <1>0, <2>1, <2>2, GoesBy
<1>2. ASSUME NEW u \in Units, u \in Blank, u \notin Uppers
      PROVE  Goes("method", u, "uri", <<"request_method">>)
  <2>1. ASSUME NEW r \in Rows, r.from = "method", u \in r.on
        PROVE  r.to = "uri" /\ r.do = <<"request_method">>
    <3>1. r \in MethodRows
      BY <2>1, RowsFrom
    <3>. QED
      BY <1>2, <2>1, <3>1, RowIs DEF MethodRows
  <2>2. \E r \in Rows : r.from = "method" /\ u \in r.on
    BY <1>2, RowIs DEF Rows, MethodRows
  <2>. QED
    BY <1>0, <2>1, <2>2, GoesBy
<1>3. ASSUME NEW u \in Units, u \in PathStarts, u \notin Schemes, u \notin Blank, u \notin Ask, u \notin Hash
      PROVE  Goes("uri", u, "path", <<"mark">>)
  <2>1. ASSUME NEW r \in Rows, r.from = "uri", u \in r.on
        PROVE  r.to = "path" /\ r.do = <<"mark">>
    <3>1. r \in UriRows
      BY <2>1, RowsFrom
    <3>. QED
      BY <1>3, <2>1, <3>1, RowIs DEF UriRows
  <2>2. \E r \in Rows : r.from = "uri" /\ u \in r.on
    BY <1>3, RowIs DEF Rows, UriRows
  <2>. QED
    BY <1>0, <2>1, <2>2, GoesBy
<1>4. ASSUME NEW u \in Units, u \in Blank, u \notin UriChars, u \notin Ask, u \notin Hash
      PROVE  Goes("path", u, "version", <<"request_path", "request_uri">>)
  <2>1. ASSUME NEW r \in Rows, r.from = "path", u \in r.on
        PROVE  r.to = "version" /\ r.do = <<"request_path", "request_uri">>
    <3>1. r \in UriRows
      BY <2>1, RowsFrom
    <3>. QED
      BY <1>4, <2>1, <3>1, RowIs DEF UriRows
  <2>2. \E r \in Rows : r.from = "path" /\ u \in r.on
    BY <1>4, RowIs DEF Rows, UriRows
  <2>. QED
    BY <1>0, <2>1, <2>2, GoesBy
<1>5. ASSUME NEW u \in Units, u \in Ask, u \notin UriChars, u \notin Blank, u \notin Hash
      PROVE  Goes("path", u, "query0", <<"request_path">>)
  <2>1. ASSUME NEW r \in Rows, r.from = "path", u \in r.on
        PROVE  r.to = "query0" /\ r.do = <<"request_path">>
    <3>1. r \in UriRows
      BY <2>1, RowsFrom
    <3>. QED
      BY <1>5, <2>1, <3>1, RowIs DEF UriRows
  <2>2. \E r \in Rows : r.from = "path" /\ u \in r.on
    BY <1>5, RowIs DEF Rows, UriRows
  <2>. QED
    BY <1>0, <2>1, <2>2, GoesBy
<1>6. ASSUME NEW u \in Units, u \in QueryChars, u \notin Blank, u \notin Hash
      PROVE  Goes("query0", u, "query", <<"start_query">>)
  <2>1. ASSUME NEW r \in Rows, r.from = "query0", u \in r.on
        PROVE  r.to = "query" /\ r.do = <<"start_query">>
    <3>1. r \in UriRows
      BY <2>1, RowsFrom
    <3>. QED
      BY <1>6, <2>1, <3>1, RowIs DEF UriRows
  <2>2. \E r \in Rows : r.from = "query0" /\ u \in r.on
    BY <1>6, RowIs DEF Rows, UriRows
  <2>. QED
    BY <1>0, <2>1, <2>2, GoesBy
<1>7. ASSUME NEW u \in Units, u \in QueryChars, u \notin Blank, u \notin Hash
      PROVE  Goes("query", u, "query", <<>>)
  <2>1. ASSUME NEW r \in Rows, r.from = "query", u \in r.on
        PROVE  r.to = "query" /\ r.do = <<>>
    <3>1. r \in UriRows
      BY <2>1, RowsFrom
    <3>. QED
      BY <1>7, <2>1, <3>1, RowIs DEF UriRows
  <2>2. \E r \in Rows : r.from = "query" /\ u \in r.on
    BY <1>7, RowIs DEF Rows, UriRows
  <2>. QED
    BY <1>0, <2>1, <2>2, GoesBy
<1>8. ASSUME NEW u \in Units, u \in Blank, u \notin QueryChars, u \notin Hash
      PROVE  Goes("query", u, "version", <<"query_string", "request_uri">>)
  <2>1. ASSUME NEW r \in Rows, r.from = "query", u \in r.on
        PROVE  r.to = "version" /\ r.do = <<"query_string", "request_uri">>
    <3>1. r \in UriRows
      BY <2>1, RowsFrom
    <3>. QED
      BY <1>8, <2>1, <3>1, RowIs DEF UriRows
  <2>2. \E r \in Rows : r.from = "query" /\ u \in r.on
    BY <1>8, RowIs DEF Rows, UriRows
  <2>. QED
    BY <1>0, <2>1, <2>2, GoesBy
<1>9. ASSUME NEW u \in Units, u \in Versions
      PROVE  Goes("version", u, "version_end", <<"mark">>)
  <2>1. ASSUME NEW r \in Rows, r.from = "version", u \in r.on
        PROVE  r.to = "version_end" /\ r.do = <<"mark">>
    <3>1. r \in HeaderRows
      BY <2>1, RowsFrom
    <3>. QED
      BY <1>9, <2>1, <3>1, RowIs DEF HeaderRows
  <2>2. \E r \in Rows : r.from = "version" /\ u \in r.on
    BY <1>9, RowIs DEF Rows, HeaderRows
  <2>. QED
    BY <1>0, <2>1, <2>2, GoesBy
<1>10. ASSUME NEW u \in Units, u \in LineEnd
      PROVE  Goes("version_end", u, "header", <<"http_version">>)
  <2>1. ASSUME NEW r \in Rows, r.from = "version_end", u \in r.on
        PROVE  r.to = "header" /\ r.do = <<"http_version">>
    <3>1. r \in HeaderRows
      BY <2>1, RowsFrom
    <3>. QED
      BY <1>10, <2>1, <3>1, RowIs DEF HeaderRows
  <2>2. \E r \in Rows : r.from = "version_end" /\ u \in r.on
    BY <1>10, RowIs DEF Rows, HeaderRows
  <2>. QED
    BY <1>0, <2>1, <2>2, GoesBy
<1>11. ASSUME NEW u \in Units, u \in Tokens, u \notin LineEnd
      PROVE  Goes("header", u, "name", <<"start_field">>)
  <2>1. ASSUME NEW r \in Rows, r.from = "header", u \in r.on
        PROVE  r.to = "name" /\ r.do = <<"start_field">>
    <3>1. r \in HeaderRows
      BY <2>1, RowsFrom
    <3>. QED
      BY <1>11, <2>1, <3>1, RowIs DEF HeaderRows
  <2>2. \E r \in Rows : r.from = "header" /\ u \in r.on
    BY <1>11, RowIs DEF Rows, HeaderRows
  <2>. QED
    BY <1>0, <2>1, <2>2, GoesBy
<1>12. ASSUME NEW u \in Units, u \in LineEnd, u \notin Tokens
      PROVE  Goes("header", u, "final", <<"start_field", "done">>)
  <2>1. ASSUME NEW r \in Rows, r.from = "header", u \in r.on
        PROVE  r.to = "final" /\ r.do = <<"start_field", "done">>
    <3>1. r \in HeaderRows
      BY <2>1, RowsFrom
    <3>. QED
      BY <1>12, <2>1, <3>1, RowIs DEF HeaderRows
  <2>2. \E r \in Rows : r.from = "header" /\ u \in r.on
    BY <1>12, RowIs DEF Rows, HeaderRows
  <2>. QED
    BY <1>0, <2>1, <2>2, GoesBy
<1>13. ASSUME NEW u \in Units, u \in Colon, u \notin NameChars
      PROVE  Goes("name", u, "value0", <<"write_field">>)
  <2>1. ASSUME NEW r \in Rows, r.from = "name", u \in r.on
        PROVE  r.to = "value0" /\ r.do = <<"write_field">>
    <3>1. r \in HeaderRows
      BY <2>1, RowsFrom
    <3>. QED
      BY <1>13, <2>1, <3>1, RowIs DEF HeaderRows
  <2>2. \E r \in Rows : r.from = "name" /\ u \in r.on
    BY <1>13, RowIs DEF Rows, HeaderRows
  <2>. QED
    BY <1>0, <2>1, <2>2, GoesBy
<1>14. ASSUME NEW u \in Units, u \in Blank, u \notin ValueStarts, u \notin LineEnd
      PROVE  Goes("value0", u, "value0", <<"start_value">>)
  <2>1. ASSUME NEW r \in Rows, r.from = "value0", u \in r.on
        PROVE  r.to = "value0" /\ r.do = <<"start_value">>
    <3>1. r \in HeaderRows
      BY <2>1, RowsFrom
    <3>. QED
      BY <1>14, <2>1, <3>1, RowIs DEF HeaderRows
  <2>2. \E r \in Rows : r.from = "value0" /\ u \in r.on
    BY <1>14, RowIs DEF Rows, HeaderRows
  <2>. QED
    BY <1>0, <2>1, <2>2, GoesBy
<1>15. ASSUME NEW u \in Units, u \in ValueStarts, u \notin Blank, u \notin LineEnd
      PROVE  Goes("value0", u, "value", <<"start_value">>)
  <2>1. ASSUME NEW r \in Rows, r.from = "value0", u \in r.on
        PROVE  r.to = "value" /\ r.do = <<"start_value">>
    <3>1. r \in HeaderRows
      BY <2>1, RowsFrom
    <3>. QED
      BY <1>15, <2>1, <3>1, RowIs DEF HeaderRows
  <2>2. \E r \in Rows : r.from = "value0" /\ u \in r.on
    BY <1>15, RowIs DEF Rows, HeaderRows
  <2>. QED
    BY <1>0, <2>1, <2>2, GoesBy
<1>16. ASSUME NEW u \in Units, u \in LineEnd, u \notin Values
      PROVE  Goes("value", u, "header", <<"write_value">>)
  <2>1. ASSUME NEW r \in Rows, r.from = "value", u \in r.on
        PROVE  r.to = "header" /\ r.do = <<"write_value">>
    <3>1. r \in HeaderRows
      BY <2>1, RowsFrom
    <3>. QED
      BY <1>16, <2>1, <3>1, RowIs DEF HeaderRows
  <2>2. \E r \in Rows : r.from = "value" /\ u \in r.on
    BY <1>16, RowIs DEF Rows, HeaderRows
  <2>. QED
    BY <1>0, <2>1, <2>2, GoesBy
<1>. QED
  BY <1>1, <1>2, <1>3, <1>4, <1>5, <1>6, <1>7, <1>8, <1>9, <1>10, <1>11, <1>12, <1>13, <1>14, <1>15, <1>16, Zenon

(* ... and for the units that a request is made of. *)
LEMMA Lookups ==
  /\ \A u \in Uppers : Goes("start", u, "method", <<"mark">>)
  /\ Goes("method", Sp, "uri", <<"request_method">>)
  /\ \A u \in Paths : Goes("uri", u, "path", <<"mark">>)
  /\ Goes("path", Sp, "version", <<"request_path", "request_uri">>)
  /\ Goes("path", Qm, "query0", <<"request_path">>)
  /\ \A u \in Text : Goes("query0", u, "query", <<"start_query">>)
  /\ \A u \in Text : Goes("query", u, "query", <<>>)
  /\ Goes("query", Sp, "version", <<"query_string", "request_uri">>)
  /\ \A u \in Versions : Goes("version", u, "version_end", <<"mark">>)
  /\ Goes("version_end", Nl, "header", <<"http_version">>)
  /\ \A u \in Words : Goes("header", u, "name", <<"start_field">>)
  /\ Goes("header", Nl, "final", <<"start_field", "done">>)
  /\ Goes("name", Co, "value0", <<"write_field">>)
  /\ Goes("value0", Sp, "value0", <<"start_value">>)
  /\ \A u \in Words : Goes("value0", u, "value", <<"start_value">>)
  /\ Goes("value", Nl, "header", <<"write_value">>)
BY LookupRows, Classes

(* Rows of up to two actions. *)
LEMMA DoesNone ==
  ASSUME NEW buffer, NEW p, NEW s, NEW do, Len(do) = 0
  PROVE  performAll(buffer, p, s, do) = s
<1>1. Len(do) = 0 /\ Len(do) \in Nat
  OBVIOUS
<1>2. Performs(buffer, p, s, do)
  BY <1>1, PerformAllIs
<1>3. \E f : f[0] = s /\ performAll(buffer, p, s, do) = f[Len(do)]
  BY <1>2, Zenon DEF Performs
<1>. QED
  BY <1>1, <1>3

(* ... of one ... *)
LEMMA DoesOne ==
  ASSUME NEW buffer, NEW p, NEW s, NEW do, NEW a,
         Len(do) = 1, do[1] = a
  PROVE  performAll(buffer, p, s, do) = perform(buffer, p, s, a)
<1>1. Len(do) = 1 /\ Len(do) \in Nat /\ do[1] = a
  OBVIOUS
<1>2. PICK f : /\ f[0] = s
               /\ \A i \in 1..Len(do) : f[i] = perform(buffer, p, f[i - 1], do[i])
               /\ performAll(buffer, p, s, do) = f[Len(do)]
  <2>1. Performs(buffer, p, s, do)
    BY <1>1, PerformAllIs
  <2>. QED
    BY <2>1, Zenon DEF Performs, Acts
<1>3. f[1] = perform(buffer, p, f[1 - 1], do[1])
  BY <1>1, <1>2
<1>. QED
  BY <1>1, <1>2, <1>3

(* ... and of two. *)
LEMMA DoesTwo ==
  ASSUME NEW buffer, NEW p, NEW s, NEW do, NEW a, NEW b,
         Len(do) = 2, do[1] = a, do[2] = b
  PROVE  performAll(buffer, p, s, do) = perform(buffer, p, perform(buffer, p, s, a), b)
<1>1. Len(do) = 2 /\ Len(do) \in Nat /\ do[1] = a /\ do[2] = b
  OBVIOUS
<1>2. PICK f : /\ f[0] = s
               /\ \A i \in 1..Len(do) : f[i] = perform(buffer, p, f[i - 1], do[i])
               /\ performAll(buffer, p, s, do) = f[Len(do)]
  <2>1. Performs(buffer, p, s, do)
    BY <1>1, PerformAllIs
  <2>. QED
    BY <2>1, Zenon DEF Performs, Acts
<1>3. /\ f[1] = perform(buffer, p, f[1 - 1], do[1])
      /\ f[2] = perform(buffer, p, f[2 - 1], do[2])
  BY <1>1, <1>2
<1>. QED
  BY <1>1, <1>2, <1>3

(* A machine at offset p, still running. *)
At(s, p) == IsRun(s) /\ Within(s.parser, Top(p)) /\ s.p = p /\ s.out = FALSE

(* One turn along a row. *)
LEMMA Turn ==
  ASSUME NEW buffer, NEW p \in Nat, buffer[p + 1] \in Units, NEW s, At(s, p),
         NEW to, NEW do, Goes(s.parser.cs, buffer[p + 1], to, do)
  PROVE  /\ resume(buffer, s, p) = again(performAll(buffer, p, s, do), to, p)
         /\ IsRun(resume(buffer, s, p))
         /\ Within(resume(buffer, s, p).parser, Top(resume(buffer, s, p).p))
         /\ performAll(buffer, p, s, do).parser \in Parsers
<1>1. s.p \in Nat /\ s.p <= p
  BY DEF At, IsRun
<1>2. /\ IsRun(resume(buffer, s, p))
      /\ Within(resume(buffer, s, p).parser, Top(resume(buffer, s, p).p))
  BY <1>1, ResumeKeeps DEF At
<1>3. resume(buffer, s, p) = again(performAll(buffer, p, s, do), to, p)
  BY DEF resume, At, Goes
<1>4. do \in Seq(Actions)
  BY MatchOK DEF Goes, At, IsRun, Parsers
<1>5. performAll(buffer, p, s, do).parser \in Parsers
  <2>1. Within(s.parser, p + 1) /\ IsRun(s)
    BY DEF At, Within, Top, IsRun, Parsers
  <2>. QED
    BY <1>4, <2>1, PerformAllKeeps DEF IsRun
<1>. QED
  BY <1>2, <1>3, <1>5

(* What the end of a turn leaves. *)
LEMMA AgainIs ==
  \A acted, to, p :
    /\ again(acted, to, p).parser = [acted.parser EXCEPT !.cs = to]
    /\ again(acted, to, p).request = acted.request
    /\ to # "error" => again(acted, to, p).p = p + 1
    /\ to # "error" /\ to # "final" => again(acted, to, p).out = FALSE
    /\ to = "final" => again(acted, to, p).out = TRUE
<1> TAKE acted, to, p
<1> DEFINE o == to \in {"error", "final"}
           t == again(acted, to, p)
<1>1. (to # "error" /\ to # "final" => o = FALSE) /\ (to = "final" => o = TRUE)
  OBVIOUS
<1>2. t = [parser |-> [acted.parser EXCEPT !.cs = to], request |-> acted.request,
           p |-> IF to = "error" THEN p ELSE p + 1, out |-> o]
  BY DEF again
<1> HIDE DEF o, t
<1>3. /\ t.parser = [acted.parser EXCEPT !.cs = to] /\ t.request = acted.request
      /\ to # "error" => t.p = p + 1
      /\ t.out = o
  BY <1>2
<1>. QED
  BY <1>1, <1>3 DEF t

(* The machine at offset p, still running, with its marks and its request. *)
Is(s, p, cs, mark, start, len, query, request) ==
  /\ At(s, p) /\ s.parser.cs = cs /\ s.request = request
  /\ s.parser.mark = mark /\ s.parser.field_start = start
  /\ s.parser.field_len = len /\ s.parser.query_start = query

(* One turn, by the actions of its row. *)
LEMMA Moves ==
  ASSUME NEW buffer, NEW p \in Nat, buffer[p + 1] \in Units,
         NEW s, NEW cs, NEW a, NEW b, NEW c, NEW d, NEW r,
         Is(s, p, cs, a, b, c, d, r),
         NEW to, NEW do, Goes(cs, buffer[p + 1], to, do), to # "error", to # "final"
  PROVE  LET t == resume(buffer, s, p)
             marked == element(buffer, a, p - a)
         IN  /\ do = <<>> => Is(t, p + 1, to, a, b, c, d, r)
             /\ do = <<"mark">> => Is(t, p + 1, to, p, b, c, d, r)
             /\ do = <<"start_value">> => Is(t, p + 1, to, p, b, c, d, r)
             /\ do = <<"start_field">> => Is(t, p + 1, to, a, p, c, d, r)
             /\ do = <<"write_field">> => Is(t, p + 1, to, a, b, p - b, d, r)
             /\ do = <<"start_query">> => Is(t, p + 1, to, a, b, c, p, r)
             /\ do = <<"request_method">> =>
                  Is(t, p + 1, to, a, b, c, d, parseRequestMethod(r, marked))
             /\ do = <<"request_path">> =>
                  Is(t, p + 1, to, a, b, c, d, parseRequestPath(r, marked))
             /\ do = <<"request_path", "request_uri">> =>
                  Is(t, p + 1, to, a, b, c, d, parseRequestPath(r, marked))
             /\ do = <<"query_string", "request_uri">> =>
                  Is(t, p + 1, to, a, b, c, d,
                     parseQueryString(r, element(buffer, d, p - d)))
             /\ do = <<"http_version">> =>
                  Is(t, p + 1, to, a, b, c, d, parseHttpVersion(r, marked))
             /\ do = <<"write_value">> =>
                  Is(t, p + 1, to, a, b, c, d,
                     parseHttpField(r, element(buffer, b, c), marked))
<1> DEFINE t == resume(buffer, s, p)
           acted == performAll(buffer, p, s, do)
           marked == element(buffer, a, p - a)
           after(x) == perform(buffer, p, s, x)
<1>1. At(s, p) /\ IsRun(s) /\ s.parser.cs = cs
  BY DEF Is, At
<1>2. /\ At(t, p + 1) /\ t.parser = [acted.parser EXCEPT !.cs = to]
      /\ t.request = acted.request /\ acted.parser \in Parsers
  <2>1. Goes(s.parser.cs, buffer[p + 1], to, do)
    BY <1>1
  <2>2. /\ t = again(acted, to, p) /\ IsRun(t) /\ Within(t.parser, Top(t.p))
        /\ acted.parser \in Parsers
    BY <1>1, <2>1, Turn
  <2> HIDE DEF t, acted
  <2>3. /\ t.parser = [acted.parser EXCEPT !.cs = to]
        /\ t.request = acted.request /\ t.p = p + 1 /\ t.out = FALSE
    BY <2>2, AgainIs
  <2>. QED
    BY <2>2, <2>3, Zenon DEF At
<1> HIDE DEF t, acted
<1>3. /\ t.parser.cs = to /\ t.parser.mark = acted.parser.mark
      /\ t.parser.field_start = acted.parser.field_start
      /\ t.parser.field_len = acted.parser.field_len
      /\ t.parser.query_start = acted.parser.query_start
  BY <1>2 DEF Parsers
<1>4. ASSUME NEW x, do = <<x>> PROVE acted = after(x)
  <2>1. Len(do) = 1 /\ do[1] = x
    BY <1>4
  <2>. QED
    BY <2>1, DoesOne DEF acted, after
<1>5. ASSUME NEW x, NEW y, do = <<x, y>>
      PROVE  acted = perform(buffer, p, after(x), y)
  <2>1. Len(do) = 2 /\ do[1] = x /\ do[2] = y
    BY <1>5
  <2>. QED
    BY <2>1, DoesTwo DEF acted, after
<1>7. \A x : perform(buffer, p, after(x), "request_uri") = after(x)
  BY DEF perform
<1>8. s.parser \in Parsers
  BY <1>1 DEF IsRun
<1>9. s.parser.mark = a /\ s.parser.field_start = b /\ s.parser.field_len = c
      /\ s.parser.query_start = d /\ s.request = r
  BY DEF Is
<1> HIDE DEF after, marked
<1>11. ASSUME do = <<>> PROVE Is(t, p + 1, to, a, b, c, d, r)
  <2>1. acted = s
    <3>1. Len(do) = 0
      BY <1>11
    <3>. QED
      BY <3>1, DoesNone DEF acted
  <2>. QED
    BY <1>2, <1>3, <1>9, <2>1 DEF Is
<1>12. ASSUME do = <<"mark">> PROVE Is(t, p + 1, to, p, b, c, d, r)
  <2>1. acted = after("mark")
    BY <1>4, <1>12
  <2>2. acted.parser = [s.parser EXCEPT !.mark = p] /\ acted.request = r
    BY <1>1, <1>9, <2>1 DEF after, perform, IsRun
  <2>. QED
    BY <1>2, <1>3, <1>8, <1>9, <2>2 DEF Is, Parsers
<1>13. ASSUME do = <<"start_value">> PROVE Is(t, p + 1, to, p, b, c, d, r)
  <2>1. acted = after("start_value")
    BY <1>4, <1>13
  <2>2. acted.parser = [s.parser EXCEPT !.mark = p] /\ acted.request = r
    BY <1>1, <1>9, <2>1 DEF after, perform, IsRun
  <2>. QED
    BY <1>2, <1>3, <1>8, <1>9, <2>2 DEF Is, Parsers
<1>14. ASSUME do = <<"start_field">> PROVE Is(t, p + 1, to, a, p, c, d, r)
  <2>1. acted = after("start_field")
    BY <1>4, <1>14
  <2>2. acted.parser = [s.parser EXCEPT !.field_start = p] /\ acted.request = r
    BY <1>1, <1>9, <2>1 DEF after, perform, IsRun
  <2>. QED
    BY <1>2, <1>3, <1>8, <1>9, <2>2 DEF Is, Parsers
<1>15. ASSUME do = <<"write_field">> PROVE Is(t, p + 1, to, a, b, p - b, d, r)
  <2>1. acted = after("write_field")
    BY <1>4, <1>15
  <2>2. acted.parser = [s.parser EXCEPT !.field_len = p - b] /\ acted.request = r
    BY <1>1, <1>9, <2>1 DEF after, perform, IsRun
  <2>. QED
    BY <1>2, <1>3, <1>8, <1>9, <2>2 DEF Is, Parsers
<1>16. ASSUME do = <<"start_query">> PROVE Is(t, p + 1, to, a, b, c, p, r)
  <2>1. acted = after("start_query")
    BY <1>4, <1>16
  <2>2. acted.parser = [s.parser EXCEPT !.query_start = p] /\ acted.request = r
    BY <1>1, <1>9, <2>1 DEF after, perform, IsRun
  <2>. QED
    BY <1>2, <1>3, <1>8, <1>9, <2>2 DEF Is, Parsers
<1>17. ASSUME do = <<"request_method">>
       PROVE  Is(t, p + 1, to, a, b, c, d, parseRequestMethod(r, marked))
  <2>1. acted = after("request_method")
    BY <1>4, <1>17
  <2>2. acted.parser = s.parser /\ acted.request = parseRequestMethod(r, marked)
    BY <1>1, <1>9, <2>1 DEF after, perform, IsRun, marked
  <2>. QED
    BY <1>2, <1>3, <1>9, <2>2 DEF Is
<1>18. ASSUME do = <<"request_path">> \/ do = <<"request_path", "request_uri">>
       PROVE  Is(t, p + 1, to, a, b, c, d, parseRequestPath(r, marked))
  <2>1. acted = after("request_path")
    BY <1>4, <1>5, <1>7, <1>18
  <2>2. acted.parser = s.parser /\ acted.request = parseRequestPath(r, marked)
    BY <1>1, <1>9, <2>1 DEF after, perform, IsRun, marked
  <2>. QED
    BY <1>2, <1>3, <1>9, <2>2 DEF Is
<1>19. ASSUME do = <<"query_string", "request_uri">>
       PROVE  Is(t, p + 1, to, a, b, c, d,
                 parseQueryString(r, element(buffer, d, p - d)))
  <2>1. acted = after("query_string")
    BY <1>5, <1>7, <1>19
  <2>2. /\ acted.parser = s.parser
        /\ acted.request = parseQueryString(r, element(buffer, d, p - d))
    BY <1>1, <1>9, <2>1 DEF after, perform, IsRun
  <2>. QED
    BY <1>2, <1>3, <1>9, <2>2 DEF Is
<1>20. ASSUME do = <<"http_version">>
       PROVE  Is(t, p + 1, to, a, b, c, d, parseHttpVersion(r, marked))
  <2>1. acted = after("http_version")
    BY <1>4, <1>20
  <2>2. acted.parser = s.parser /\ acted.request = parseHttpVersion(r, marked)
    BY <1>1, <1>9, <2>1 DEF after, perform, IsRun, marked
  <2>. QED
    BY <1>2, <1>3, <1>9, <2>2 DEF Is
<1>21. ASSUME do = <<"write_value">>
       PROVE  Is(t, p + 1, to, a, b, c, d,
                 parseHttpField(r, element(buffer, b, c), marked))
  <2>1. acted = after("write_value")
    BY <1>4, <1>21
  <2>2. /\ acted.parser = s.parser
        /\ acted.request = parseHttpField(r, element(buffer, b, c), marked)
    BY <1>1, <1>9, <2>1 DEF after, perform, IsRun, marked
  <2>. QED
    BY <1>2, <1>3, <1>9, <2>2 DEF Is
<1>. QED
  BY <1>11, <1>12, <1>13, <1>14, <1>15, <1>16, <1>17, <1>18, <1>19, <1>20, <1>21,
     Zenon DEF t, marked

(* The turn that ends a request. *)
LEMMA Ends ==
  ASSUME NEW buffer, NEW p \in Nat, buffer[p + 1] \in Units,
         NEW s, NEW cs, NEW a, NEW b, NEW c, NEW d, NEW r,
         Is(s, p, cs, a, b, c, d, r),
         Goes(cs, buffer[p + 1], "final", <<"start_field", "done">>)
  PROVE  LET t == resume(buffer, s, p)
         IN  /\ t.parser.cs = "final" /\ t.request = r /\ t.p = p + 1
             /\ t.out = TRUE
<1> DEFINE t == resume(buffer, s, p)
           do == <<"start_field", "done">>
           acted == performAll(buffer, p, s, do)
           first == perform(buffer, p, s, "start_field")
<1>1. At(s, p) /\ IsRun(s) /\ s.parser.cs = cs /\ s.request = r
  BY DEF Is, At
<1>2. /\ t.parser = [acted.parser EXCEPT !.cs = "final"] /\ t.p = p + 1
      /\ t.request = acted.request /\ acted.parser \in Parsers /\ t.out = TRUE
  <2>1. Goes(s.parser.cs, buffer[p + 1], "final", do)
    BY <1>1
  <2> HIDE DEF do
  <2>2. t = again(acted, "final", p) /\ acted.parser \in Parsers
    BY <1>1, <2>1, Turn
  <2> HIDE DEF t, acted
  <2>3. "final" # "error"
    OBVIOUS
  <2>. QED
    BY <2>2, <2>3, AgainIs
<1>3. acted = perform(buffer, p, first, "done")
  <2>1. Len(do) = 2 /\ do[1] = "start_field" /\ do[2] = "done"
    OBVIOUS
  <2> HIDE DEF do
  <2>. QED
    BY <2>1, DoesTwo
<1>4. IsRun(first) /\ first.request = r
  <2>1. Within(s.parser, p + 1)
    BY <1>1 DEF At, Within, Top, IsRun, Parsers
  <2>2. "start_field" \in Actions
    BY DEF Actions
  <2>3. IsRun(first)
    BY <1>1, <2>1, <2>2, PerformKeeps
  <2>4. first.request = r
    BY <1>1 DEF perform, IsRun
  <2>. QED
    BY <2>3, <2>4
<1> HIDE DEF first
<1>5. acted.request = r
  BY <1>3, <1>4 DEF perform, IsRun
<1> HIDE DEF acted, t
<1>6. t.parser.cs = "final"
  BY <1>2 DEF Parsers
<1>. QED
  BY <1>1, <1>2, <1>5, <1>6 DEF t

-----------------------------------------------------------------------------
(* http_parser_execute as the turns of its loop. *)

(* A machine that has left its loop ... *)
Out(s) == s.out = TRUE

(* ... stays as it is. *)
LEMMA OutStays ==
  ASSUME NEW buffer, NEW f, NEW off, NEW from \in Nat, NEW to \in Nat, from <= to,
         Turns(buffer, f, off, to), Out(f[from])
  PROVE  f[to] = f[from]
<1> DEFINE T == {k \in Nat : from + k <= to => f[from + k] = f[from]}
<1>1. 0 \in T
  OBVIOUS
<1>2. ASSUME NEW k \in Nat, k \in T PROVE k + 1 \in T
  <2> SUFFICES ASSUME from + (k + 1) <= to PROVE f[from + (k + 1)] = f[from]
    OBVIOUS
  <2> DEFINE i == from + (k + 1)
  <2>1. i \in 1..to /\ i - 1 = from + k /\ from + k <= to
    OBVIOUS
  <2>2. f[i - 1] = f[from]
    BY <1>2, <2>1
  <2> HIDE DEF i
  <2>3. f[i] = resume(buffer, f[from], off + i - 1)
    BY <2>1, <2>2 DEF Turns
  <2>4. resume(buffer, f[from], off + i - 1) = f[from]
    BY DEF resume, Out
  <2>. QED
    BY <2>3, <2>4 DEF i
<1>3. to - from \in T
  <2>1. to - from \in Nat
    OBVIOUS
  <2> HIDE DEF T
  <2>. QED
    BY <1>1, <1>2, <2>1, Induction
<1>4. from + (to - from) = to /\ to <= to
  OBVIOUS
<1>. QED
  BY <1>3, <1>4

(* http_parser_execute from offset off, which ends in t, by the n turns of its *)
(* loop.                                                                      *)
Runs(parser, request, buffer, off, n, t, f) ==
  /\ f[0] = [parser |-> parser, request |-> request, p |-> off,
             out |-> parser.cs = "error"]
  /\ Turns(buffer, f, off, n)
  /\ t.parser.cs = f[n].parser.cs /\ t.request = f[n].request /\ t.p = f[n].p
  /\ t.parser.nread = parser.nread + t.p - off

(* Its turns, and the count at its end. *)
Loops(parser, request, buffer, off, n, f) ==
  /\ f[0] = [parser |-> parser, request |-> request, p |-> off,
             out |-> parser.cs = "error"]
  /\ Turns(buffer, f, off, n)
  /\ http_parser_execute(parser, request, buffer, off) = counted(f[n], off)

(* A call of the parser is made of them. *)
LEMMA ExecuteLoops ==
  ASSUME NEW parser, NEW request, NEW buffer, NEW off, NEW n \in Nat,
         n = Len(buffer) - off
  PROVE  \E f : Loops(parser, request, buffer, off, n, f)
<1>1. PICK first : first = [parser |-> parser, request |-> request, p |-> off,
                            out |-> parser.cs = "error"]
  OBVIOUS
<1>2. http_parser_execute(parser, request, buffer, off)
        = counted(resumeAll(buffer, first, off), off)
  BY <1>1, Zenon DEF http_parser_execute
<1>3. PICK f : /\ f[0] = first /\ Turns(buffer, f, off, n)
               /\ resumeAll(buffer, first, off) = f[n]
  <2>1. Resumes(buffer, first, off, n)
    BY ResumeAllIs
  <2>. QED
    BY <2>1, Zenon DEF Resumes
<1>4. Loops(parser, request, buffer, off, n, f)
  BY <1>1, <1>2, <1>3, Zenon DEF Loops
<1>. QED
  BY <1>4

(* Every call is such a run. *)
LEMMA ExecuteIs ==
  ASSUME NEW parser \in Parsers, NEW request, NEW buffer \in Seq(Units),
         NEW off \in Nat, off <= Len(buffer), Within(parser, Top(off)),
         NEW n \in Nat, n = Len(buffer) - off
  PROVE  \E f : Runs(parser, request, buffer, off, n,
                     http_parser_execute(parser, request, buffer, off), f)
<1> DEFINE t == http_parser_execute(parser, request, buffer, off)
<1>1. t.parser.nread = parser.nread + t.p - off /\ IsRun(t)
  BY ExecuteKeeps
<1> HIDE DEF t
<1>2. PICK f : Loops(parser, request, buffer, off, n, f)
  BY ExecuteLoops
<1> DEFINE u == f[n]
<1>3. t = [u EXCEPT !.parser.nread = @ + u.p - off]
  BY <1>2 DEF counted, Loops, t
<1> HIDE DEF u
<1>4. t.parser.cs = u.parser.cs /\ t.request = u.request /\ t.p = u.p
  BY <1>1, <1>3 DEF IsRun, Parsers
<1>5. Runs(parser, request, buffer, off, n, t, f)
  BY <1>1, <1>2, <1>4, Zenon DEF Loops, u, Runs
<1>. QED
  BY <1>5 DEF t

(* A fresh machine. *)
LEMMA InitIs ==
  \A q \in Nat : LET P == http_parser_init(q)
                 IN  /\ P \in Parsers /\ Within(P, Top(0)) /\ P.cs = "start"
                     /\ P.nread = 0 /\ P.mark = 0 /\ P.field_start = 0
                     /\ P.field_len = 0 /\ P.query_start = q
BY StatesAre DEF http_parser_init, Parsers, Within, Top, StateNames

(* A machine in error stays there. *)
LEMMA ExecuteError ==
  ASSUME NEW parser \in Parsers, parser.cs = "error", NEW request,
         NEW buffer \in Seq(Units), NEW off \in Nat, off <= Len(buffer),
         Within(parser, Top(off))
  PROVE  http_parser_execute(parser, request, buffer, off).parser.cs = "error"
<1> DEFINE t == http_parser_execute(parser, request, buffer, off)
           o == parser.cs = "error"
           n == Len(buffer) - off
<1>6. PICK f : Runs(parser, request, buffer, off, n, t, f)
  <2>1. n \in Nat /\ n = Len(buffer) - off
    OBVIOUS
  <2> HIDE DEF n
  <2>. QED
    BY <2>1, ExecuteIs
<1>1. /\ f[0] = [parser |-> parser, request |-> request, p |-> off, out |-> o]
      /\ Turns(buffer, f, off, n) /\ t.parser.cs = f[n].parser.cs
  BY <1>6 DEF Runs
<1>2. o = TRUE /\ n \in Nat
  OBVIOUS
<1> HIDE DEF o, t
<1>3. Out(f[0]) /\ f[0].parser = parser
  BY <1>1, <1>2 DEF Out
<1>4. f[n] = f[0]
  <2>1. PICK from \in Nat, to \in Nat : from = 0 /\ to = n /\ from <= to
    <3> HIDE DEF n
    <3>. QED
      BY <1>2
  <2>2. Turns(buffer, f, off, to) /\ Out(f[from])
    BY <1>1, <1>3, <2>1
  <2>3. f[to] = f[from]
    BY <2>1, <2>2, OutStays
  <2>. QED
    BY <2>1, <2>3
<1>5. t.parser.cs = "error"
  BY <1>1, <1>3, <1>4
<1>. QED
  BY <1>5 DEF t

=============================================================================
