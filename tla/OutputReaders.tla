---------------------------- MODULE OutputReaders ---------------------------
(***************************************************************************)
(* What another program reads in the output: a JSON parser (RFC 8259) and  *)
(* a CSV parser (RFC 4180), neither of them code of the repository.  They  *)
(* take the text one token after the other.                                *)
(***************************************************************************)
EXTENDS Render, FiniteSets

Str(s)  == [type |-> "string", is |-> s]
Bare(s) == [type |-> "bare", is |-> s]

\* The state of a parser that starts as Start and steps over every token of s.
Parse(Step(_, _), Start, s) ==
    LET after[k \in 0..Len(s)] == IF k = 0 THEN Start ELSE Step(after[k - 1], s[k])
    IN  after[Len(s)]

\* The lines of s that are complete, without their newline.
WholeLines(s) ==
    LET ends   == {k \in DOMAIN s : s[k] = "\n"}
        end(n) == IF n = 0 THEN 0
                  ELSE CHOOSE k \in ends : Cardinality({m \in ends : m <= k}) = n
    IN  [n \in 1..Cardinality(ends) |-> SubSeq(s, end(n - 1) + 1, end(n) - 1)]

-----------------------------------------------------------------------------
JsonStart == [at |-> "out", chars |-> <<>>, code |-> <<>>, items |-> <<>>]

Digit(d)   == (CHOOSE k \in DOMAIN Digits : Digits[k] = d) - 1
Char(code) == CHOOSE c \in DOMAIN CodePoint :
                  CodePoint[c] = 4096 * Digit(code[1]) + 256 * Digit(code[2])
                                   + 16 * Digit(code[3]) + Digit(code[4])

JsonStep(p, c) ==
    CASE p.at = "out" /\ c = "\""    -> [p EXCEPT !.at = "string", !.chars = <<>>]
      [] p.at = "out" /\ c # "\""    -> [p EXCEPT !.items = Append(@, Bare(<<c>>))]
      [] p.at = "string" /\ c = "\"" -> [p EXCEPT !.at = "out", !.items = Append(@, Str(p.chars))]
      [] p.at = "string" /\ c = "\\" -> [p EXCEPT !.at = "escape"]
      [] p.at = "string" /\ c \notin {"\"", "\\"} /\ ~IsControl(c) ->
            [p EXCEPT !.chars = Append(@, c)]
      [] p.at = "escape" /\ c = "u"  -> [p EXCEPT !.at = "code", !.code = <<>>]
      [] p.at = "escape" /\ c \in Range(Escapes) ->
            [p EXCEPT !.at = "string",
                      !.chars = Append(@, CHOOSE e \in DOMAIN Escapes : Escapes[e] = c)]
      [] p.at = "code" /\ c \in Range(Digits) ->
            IF Len(p.code) < 3 THEN [p EXCEPT !.code = Append(@, c)]
            ELSE [p EXCEPT !.at = "string", !.chars = Append(@, Char(Append(p.code, c)))]
      [] OTHER -> [p EXCEPT !.at = "invalid"]

\* The object that line holds, a set of at most one: a function from the names
\* of its members to their values.
ReadObject(line) ==
    LET p     == Parse(JsonStep, JsonStart, line)
        n     == Len(p.items) \div 4
        items == p.items
        names == {items[4 * k - 2].is[1] : k \in 1..n}
        sound == /\ p.at = "out" /\ Len(items) = 4 * n + 1 /\ Cardinality(names) = n
                 /\ items[1] = Bare(<<"{">>)
                 /\ \A k \in 1..n : /\ items[4 * k - 2].type = "string"
                                    /\ items[4 * k - 1] = Bare(<<":">>)
                                    /\ items[4 * k + 1] = Bare(IF k = n THEN <<"}">> ELSE <<",">>)
    IN  IF ~sound THEN {}
        ELSE {[name \in names |->
                  items[4 * CHOOSE k \in 1..n : items[4 * k - 2].is[1] = name]]}

-----------------------------------------------------------------------------
CsvStart == [at |-> "start", cell |-> <<>>, row |-> <<>>, rows |-> <<>>]

AddCell(p) == [p EXCEPT !.at = "start", !.cell = <<>>, !.row = Append(@, p.cell)]
AddRow(p)  == [p EXCEPT !.at = "start", !.cell = <<>>, !.row = <<>>,
                        !.rows = Append(@, Append(p.row, p.cell))]
AddChar(p, at, c) == [p EXCEPT !.at = at, !.cell = Append(@, c)]

CsvStep(p, c) ==
    CASE p.at = "quoted" /\ c = "\"" -> [p EXCEPT !.at = "quote"]
      [] p.at = "quoted" /\ c # "\"" -> AddChar(p, "quoted", c)
      [] p.at = "quote" /\ c = "\""  -> AddChar(p, "quoted", c)
      [] p.at = "start" /\ c = "\""  -> [p EXCEPT !.at = "quoted"]
      [] p.at \in {"start", "plain", "quote"} /\ c = ","  -> AddCell(p)
      [] p.at \in {"start", "plain", "quote"} /\ c = "\n" -> AddRow(p)
      [] p.at \in {"start", "plain"} /\ c \notin {",", "\"", "\n", "\r"} ->
            AddChar(p, "plain", c)
      [] OTHER -> [p EXCEPT !.at = "invalid"]

\* The rows of output, each a sequence of cells; an output that does not end
\* with a row has none.
ReadRows(output) == LET p == Parse(CsvStep, CsvStart, output)
                    IN  IF p.at = "start" /\ p.row = <<>> THEN p.rows ELSE <<>>
=============================================================================
