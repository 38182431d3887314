------------------------------ MODULE CifWriter ------------------------------
(***************************************************************************)
(* The structured writer of IMP.pmi.mmcif: CifWriter._repr, CifLoopWriter  *)
(* and the _LineWriter that lays out one loop row.                         *)
(*                                                                         *)
(* A value is abstracted to its Python type, its length (for a string the *)
(* number of characters; for any other type the length of its rendering)  *)
(* and whether a string holds a space, a single quote or a double quote.   *)
(* The output is a sequence of lines; a data line is a sequence of         *)
(* rendered tokens, each written with or without a space before it; a      *)
(* multi-line text field is one line record holding its chunk lengths.    *)
(***************************************************************************)
EXTENDS Naturals, Sequences, SequencesExt

CONSTANTS
  Values,          \* the values callers pass for a field
  NKeys,           \* the number of columns of the loop
  line_len,        \* _LineWriter line_len (80)
  multi_line_len,  \* _LineWriter multi_line_len (70)
  MaxRows,         \* rows written in a behaviour
  MaxLoops         \* loops opened in a behaviour

Value == [type : {"str", "float", "bool", "int"}, len : Nat,
          space : BOOLEAN, sq : BOOLEAN, dq : BOOLEAN]

ASSUME ValuesAssumption == Values \subseteq Value
ASSUME WidthAssumption == multi_line_len \in Nat \ {0} /\ line_len \in Nat

Keys == 1..NKeys

(* CifWriter.omitted, the value kwargs.get gives a missing column.        *)
omitted == [type |-> "str", len |-> 1, space |-> FALSE, sq |-> FALSE, dq |-> FALSE]

Tok == [val : Values \cup {omitted}, len : Nat, sep : BOOLEAN]
Line == [kind : {"hash", "loop", "key", "data", "text"}, toks : Seq(Tok),
         chunks : Seq(Nat)]

VARIABLES
  out,         \* the lines written to fh, each ended by a newline
  empty_loop,  \* CifLoopWriter._empty_loop of the open loop
  inLoop,      \* a loop's with-block is open
  nLoops,      \* loops opened so far
  written      \* history: every row passed to write, in key order

vars == <<out, empty_loop, inLoop, nLoops, written>>

TypeOK ==
  /\ out \in Seq(Line)
  /\ empty_loop \in BOOLEAN
  /\ inLoop \in BOOLEAN
  /\ nLoops \in 0..MaxLoops
  /\ written \in Seq([Keys -> Values \cup {omitted}])

-----------------------------------------------------------------------------
(* CifWriter._repr: a string with no quote and no space is written as it  *)
(* is; a float as "%.3f"; a bool as NO/YES; anything else as Python's      *)
(* repr, which for a string adds the enclosing quotes and, when the        *)
(* string holds both kinds of quote, backslash-escapes the single quotes.  *)
Plain(v) == v.type = "str" /\ ~v.sq /\ ~v.dq /\ ~v.space

ReprLen(v) ==
  IF v.type = "str" /\ ~Plain(v)
    THEN v.len + 2 + (IF v.sq /\ v.dq THEN 1 ELSE 0)
    ELSE v.len

(* CIF has no backslash escapes: such a token does not read back as v.    *)
Escaped(v) == v.type = "str" /\ v.sq /\ v.dq

Long(v) == v.type = "str" /\ v.len > multi_line_len

(* The chunk lengths of range(0, len(val), multi_line_len).                *)
Chunks(n) ==
  [i \in 1..((n + multi_line_len - 1) \div multi_line_len) |->
     IF i * multi_line_len <= n THEN multi_line_len ELSE n - (i - 1) * multi_line_len]

DataLine(toks) == [kind |-> "data", toks |-> toks, chunks |-> << >>]
Marker(k) == [kind |-> k, toks |-> << >>, chunks |-> << >>]
TextField(v) == [kind |-> "text", toks |-> <<[val |-> v, len |-> v.len, sep |-> FALSE]>>,
                 chunks |-> Chunks(v.len)]

(* The state of one _LineWriter: lines ended so far, the tokens of the    *)
(* line being written, and self.column.                                    *)
Put(st, v, n, sep, col) ==
  [st EXCEPT !.cur = Append(st.cur, [val |-> v, len |-> n, sep |-> sep]), !.column = col]

(* Mutation: the width test lets a token end one column past line_len.    *)
LineWrite_offByOne(st, v) ==
  IF Long(v)
    THEN [out |-> st.out \o <<DataLine(st.cur), TextField(v)>>, cur |-> << >>, column |-> 0]
    ELSE LET n == ReprLen(v) IN
         IF st.column > 0
           THEN IF st.column + n > line_len
                  THEN [out |-> Append(st.out, DataLine(st.cur)),
                        cur |-> <<[val |-> v, len |-> n, sep |-> FALSE]>>, column |-> n]
                  ELSE Put(st, v, n, TRUE, st.column + 1 + n)
           ELSE Put(st, v, n, FALSE, st.column + n)

(* Mutation: no space is written between two values of a line.            *)
LineWrite_noSpace(st, v) ==
  IF Long(v)
    THEN [out |-> st.out \o <<DataLine(st.cur), TextField(v)>>, cur |-> << >>, column |-> 0]
    ELSE LET n == ReprLen(v) IN
         IF st.column > 0 /\ st.column + n + 1 > line_len
           THEN [out |-> Append(st.out, DataLine(st.cur)),
                 cur |-> <<[val |-> v, len |-> n, sep |-> FALSE]>>, column |-> n]
           ELSE Put(st, v, n, FALSE, st.column + n)

(* _LineWriter.write(val): a string longer than multi_line_len becomes a  *)
(* text field ("\n;", one chunk per line, ";\n") and resets the column;   *)
(* any other value is rendered by _repr and goes on the current line      *)
(* after a space, or on a new line when it would pass line_len.           *)
LineWrite(st, v) ==
  IF Long(v)
    THEN [out |-> st.out \o <<DataLine(st.cur), TextField(v)>>, cur |-> << >>, column |-> 0]
    ELSE LET n == ReprLen(v) IN
         IF st.column > 0
           THEN IF st.column + n + 1 > line_len
                  THEN [out |-> Append(st.out, DataLine(st.cur)),
                        cur |-> <<[val |-> v, len |-> n, sep |-> FALSE]>>, column |-> n]
                  ELSE Put(st, v, n, TRUE, st.column + 1 + n)
           ELSE Put(st, v, n, FALSE, st.column + n)

(* CifWriter.loop(category, keys) entered by a with-statement.            *)
loop ==
  /\ ~inLoop
  /\ nLoops < MaxLoops
  /\ inLoop' = TRUE
  /\ empty_loop' = TRUE
  /\ nLoops' = nLoops + 1
  /\ UNCHANGED <<out, written>>

(* CifLoopWriter.write(kwargs): the loop header before the first row,     *)
(* then a fresh _LineWriter writes the value of every key in key order    *)
(* (omitted where kwargs has none), then a newline.                       *)
write(kwargs) ==
  LET vals == [k \in Keys |-> IF k \in DOMAIN kwargs THEN kwargs[k] ELSE omitted]
      hdr == IF empty_loop
               THEN out \o <<Marker("hash"), Marker("loop")>> \o [k \in Keys |-> Marker("key")]
               ELSE out
      st == FoldLeft(LineWrite, [out |-> hdr, cur |-> << >>, column |-> 0], vals)
  IN
  /\ inLoop
  /\ Len(written) < MaxRows
  /\ out' = Append(st.out, DataLine(st.cur))
  /\ empty_loop' = FALSE
  /\ written' = Append(written, vals)
  /\ UNCHANGED <<inLoop, nLoops>>

(* CifLoopWriter.__exit__: the closing "#" of a loop that has a row.      *)
exit ==
  /\ inLoop
  /\ out' = IF empty_loop THEN out ELSE Append(out, Marker("hash"))
  /\ inLoop' = FALSE
  /\ UNCHANGED <<empty_loop, nLoops, written>>

Init ==
  /\ out = << >>
  /\ empty_loop = TRUE
  /\ inLoop = FALSE
  /\ nLoops = 0
  /\ written = << >>

Next ==
  \/ loop
  \/ \E S \in SUBSET Keys : \E kwargs \in [S -> Values] : write(kwargs)
  \/ exit

Spec == Init /\ [][Next]_vars

-----------------------------------------------------------------------------
(* A CIF reader's view of the output. On a data line a word starts at the *)
(* first token and at every token written after a space; a word of one   *)
(* empty token is nothing; a word glued from several tokens, or holding a *)
(* backslash-escaped string, is not any written value. A text field is    *)
(* one word whose value is its chunks joined.                             *)
Garbled == [type |-> "garbled", len |-> 0, space |-> FALSE, sq |-> FALSE, dq |-> FALSE]

WordStarts(l) == {i \in DOMAIN l.toks : i = 1 \/ l.toks[i].sep}

WordAt(l, i) ==
  LET ends == {j \in WordStarts(l) : j > i}
      last == IF ends = {} THEN Len(l.toks) ELSE Min(ends) - 1
  IN SubSeq(l.toks, i, last)

ReadWord(w) ==
  IF Len(w) = 1 /\ ~Escaped(w[1].val) THEN w[1].val ELSE Garbled

LineWords(l) ==
  IF l.kind = "text"
    THEN <<IF FoldSeq(+, 0, l.chunks) = l.toks[1].val.len THEN l.toks[1].val ELSE Garbled>>
    ELSE LET ws == SetToSortSeq(WordStarts(l), <)
             nonEmpty == SelectSeq(ws, LAMBDA i : ~(Len(WordAt(l, i)) = 1 /\ WordAt(l, i)[1].len = 0))
         IN [j \in DOMAIN nonEmpty |-> ReadWord(WordAt(l, nonEmpty[j]))]

(* The values read from the loop bodies, in order.                        *)
ReadValues == FlattenSeq([i \in DOMAIN out |->
                IF out[i].kind \in {"data", "text"} THEN LineWords(out[i]) ELSE << >>])

(* Every row reads back: the values a CIF reader finds in the loop bodies *)
(* are exactly the values of the rows written, row after row and in key   *)
(* order, with omitted ('.') for a column the call did not give.          *)
RowsReadBack ==
  ReadValues = FlattenSeq(written)

(* No data line is wider than line_len and no text-field line wider than *)
(* line_len: _LineWriter breaks the line before a value that would not   *)
(* fit, and a value it cannot fit alone is folded.                        *)
LinesWithinWidth ==
  \A i \in DOMAIN out :
    /\ out[i].kind = "data" =>
         FoldSeq(LAMBDA t, acc : acc + t.len + (IF t.sep THEN 1 ELSE 0), 0, out[i].toks) <= line_len
    /\ out[i].kind = "text" => \A j \in DOMAIN out[i].chunks : out[i].chunks[j] + 1 <= line_len

=============================================================================
