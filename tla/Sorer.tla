-------------------------------- MODULE Sorer --------------------------------
(***************************************************************************)
(* The reader of SOR files (sorer/parser.h, sorer/columnset.h).  A         *)
(* LineReader hands out the lines of a part of the file from a buffer of   *)
(* Buf bytes.  A SorParser goes over them three times: to count columns,   *)
(* to guess their types (both on the first GuessLines lines), and to       *)
(* append every field to its column.  The columns then become a data frame.*)
(*                                                                         *)
(* A byte is a one-character string, a line or a field a sequence of them. *)
(* The value of a field is the part of its text that was read, so a        *)
(* conversion that stops early shows.                                      *)
(***************************************************************************)
EXTENDS Integers, Sequences, SequencesExt

Newline == "n"
Quote == "q"
Space == " "
Digits == [d \in {"0", "1", "5"} |-> CASE d = "0" -> 0 [] d = "1" -> 1 [] d = "5" -> 5]
Numeric == {"-", "+", "."} \cup DOMAIN Digits
Bytes == {Newline, Quote, Space, "<", ">", "a"} \cup Numeric

CONSTANTS
  Buf,          \* the size of LineReader::_buf
  GuessLines,   \* GUESS_SCHEMA_LINES
  MaxString,    \* MAX_STRING
  Files,        \* the files, sequences of bytes
  Slices(_),    \* for a file, the bounds <<from, to>> given to the reader
  None          \* the null pointer

ASSUME SorerAssumption ==
  /\ Buf \in Nat \ {0} /\ GuessLines \in Nat \ {0} /\ MaxString \in Nat
  /\ None \notin Seq(Bytes)
  /\ \A f \in Files : f \in Seq(Bytes)
  /\ \A f \in Files : \A s \in Slices(f) :
       s[1] \in Nat /\ s[2] \in Nat /\ s[1] < s[2] /\ s[2] <= Len(f)

VARIABLES
  file, from, to,   \* LineReader::_file, _file_start, _file_end
  pass,             \* what the parser is doing: ParserMode, then the outcome
  buf, pos,         \* LineReader::_buf (the part read), _pos
  read_size,        \* LineReader::_read_size
  current_line,     \* LineReader::_current_line
  skip,             \* readLine: skip_line
  lines,            \* the lines handed out in this pass
  num_columns,      \* max_columns, then SorParser::_num_columns
  guesses,          \* SorParser::_typeGuesses
  columns           \* SorParser::_columns, the values of each

reader == <<buf, pos, read_size, current_line, skip>>
parsed == <<num_columns, guesses, columns>>
vars == <<file, from, to, pass, reader, lines, parsed>>

Types == {"UNKNOWN", "BOOL", "INTEGER", "DOUBLE", "STRING"}

\* The place of i in the order of a set S of numbers, and the k-th of them.
Rank(S, i) == Cardinality({j \in S : j <= i})
Nth(S, k) == CHOOSE i \in S : Rank(S, i) = k

-----------------------------------------------------------------------------
(* Slices of a line.                                                       *)

\* trim, on both sides.
Trim(s, c) ==
  LET kept == {i \in 1 .. Len(s) : s[i] # c}
  IN IF kept = {} THEN <<>> ELSE SubSeq(s, Min(kept), Max(kept))

\* The number at the beginning of s: a sign, then characters of cs, some digit
\* among them and at most one dot (atof's exponents are left out); else nothing.
Prefix(s, cs) ==
  LET number(n) ==
        /\ \A i \in 1 .. n : s[i] \in cs \/ (i = 1 /\ s[i] \in {"-", "+"})
        /\ \E i \in 1 .. n : s[i] \in DOMAIN Digits
        /\ \A i, j \in 1 .. n : s[i] = "." /\ s[j] = "." => i = j
  IN SubSeq(s, 1, Max({0} \cup {n \in 1 .. Len(s) : number(n)}))

\* toInt, which stops at the first character that is no digit; that the result is
\* cut to the width of an int is left out.
ToInt(s) ==
  LET digits == SelectSeq(Prefix(s, DOMAIN Digits), LAMBDA c : c \in DOMAIN Digits)
      value == FoldLeft(LAMBDA n, c : 10 * n + Digits[c], 0, digits)
  IN IF s # <<>> /\ s[1] = "-" THEN -value ELSE value

\* in_field and in_string behind each byte of a line ...
Scanned(line) ==
  LET step(was, b) ==
        IF was = "out" THEN (IF b = "<" THEN "in" ELSE "out")
        ELSE IF b = Quote THEN (IF was = "in" THEN "string" ELSE "in")
        ELSE IF b = ">" /\ was = "in" THEN "out" ELSE was
      at[i \in 0 .. Len(line)] == IF i = 0 THEN "out" ELSE step(at[i-1], line[i])
  IN at

\* ... and its fields, with their spaces: what lies between this_field_start and
\* the > that leads out.
Fields(line) ==
  LET at == Scanned(line)
      ends == {i \in 1 .. Len(line) : at[i-1] = "in" /\ at[i] = "out"}
      this_field_start(e) == Max({0} \cup {i \in 1 .. e : at[i-1] = "out"})
  IN [k \in 1 .. Cardinality(ends) |->
        SubSeq(line, this_field_start(Nth(ends, k)) + 1, Nth(ends, k) - 1)]

\* Mutant: 0 and 1 turn a column of other numbers into booleans.
Guess_AnyBool(guess, field) ==
  LET s == Trim(field, Space)
      chars == ToSet(s)
  IN IF s = <<>> \/ guess = "STRING" THEN guess
     ELSE IF chars \cap Numeric = {} THEN "STRING"
     ELSE IF "." \in chars THEN "DOUBLE"
     ELSE IF ToInt(s) \in {0, 1} /\ guess # "DOUBLE" THEN "BOOL"
     ELSE IF guess = "DOUBLE" THEN "DOUBLE" ELSE "INTEGER"

\* _guessFieldType.
Guess(guess, field) ==
  LET s == Trim(field, Space)
      chars == ToSet(s)
  IN IF s = <<>> \/ guess = "STRING" THEN guess
     ELSE IF chars \cap Numeric = {} THEN "STRING"
     ELSE IF "." \in chars THEN "DOUBLE"
     ELSE IF ToInt(s) \in {0, 1} /\ guess \notin {"INTEGER", "DOUBLE"} THEN "BOOL"
     ELSE IF guess = "DOUBLE" THEN "DOUBLE" ELSE "INTEGER"

\* _appendField: what a column of type t gets from a field ...
Appended(t, field) ==
  LET s == Trim(field, Space)
  IN CASE t = "STRING" -> Trim(s, Quote)
       [] t = "DOUBLE" -> Prefix(s, DOMAIN Digits \cup {"."})
       [] t \in {"INTEGER", "BOOL"} -> Prefix(s, DOMAIN Digits)

\* ... and its assertions, with those of getColumn.
Accepts(field, c) ==
  LET s == Trim(field, Space)
  IN /\ c <= num_columns
     /\ s # <<>>
     /\ guesses[c] = "STRING" => Len(Trim(s, Quote)) <= MaxString
     /\ guesses[c] = "BOOL" => ToInt(s) \in {0, 1}

-----------------------------------------------------------------------------
(* The line reader.                                                        *)

Reset ==
  /\ buf' = <<>> /\ pos' = 0 /\ read_size' = 0
  /\ current_line' = None
  /\ skip' = (from # 0)
  /\ lines' = <<>>

Init ==
  /\ file \in Files
  /\ \E s \in Slices(file) : from = s[1] /\ to = s[2]
  /\ pass = "count"
  /\ buf = <<>> /\ pos = 0 /\ read_size = 0 /\ current_line = None
  /\ skip = (from # 0)
  /\ lines = <<>>
  /\ num_columns = 0 /\ guesses = <<>> /\ columns = <<>>

\* The parser asks for another line.
Reading == \/ pass = "parse"
           \/ pass \in {"count", "guess"} /\ Len(lines) < GuessLines

Over == pos = Len(buf) /\ read_size >= to - from
Newlines == {i \in pos + 1 .. Len(buf) : buf[i] = Newline}
Grown(n) == (IF current_line = None THEN <<>> ELSE current_line) \o SubSeq(buf, pos + 1, n)

\* Mutant: a line that continues in the next buffer starts anew there.
Refill_DropsLine ==
  /\ Reading /\ pos = Len(buf) /\ ~Over
  /\ LET to_read == IF from + Buf > to THEN to - from ELSE Buf
         start == from + read_size
     IN buf' = SubSeq(file, start + 1, Min({start + to_read, Len(file)}))
  /\ pos' = 0
  /\ read_size' = read_size + Len(buf')
  /\ current_line' = None
  /\ UNCHANGED <<file, from, to, pass, skip, lines, parsed>>

\* Mutant: what was asked of fread counts as read.
Refill_CountsAsked ==
  /\ Reading /\ pos = Len(buf) /\ ~Over
  /\ LET to_read == IF from + Buf > to THEN to - from ELSE Buf
         start == from + read_size
     IN /\ buf' = SubSeq(file, start + 1, Min({start + to_read, Len(file)}))
        /\ read_size' = read_size + to_read
  /\ pos' = 0
  /\ UNCHANGED <<file, from, to, pass, current_line, skip, lines, parsed>>

\* readLine: fread.  The bound on to_read does not count what was read before.
Refill ==
  /\ Reading /\ pos = Len(buf) /\ ~Over
  /\ LET to_read == IF from + Buf > to THEN to - from ELSE Buf
         start == from + read_size
     IN buf' = SubSeq(file, start + 1, Min({start + to_read, Len(file)}))
  /\ pos' = 0
  /\ read_size' = read_size + Len(buf')
  /\ UNCHANGED <<file, from, to, pass, current_line, skip, lines, parsed>>

\* readLine: no newline in the rest of the buffer.
KeepRest ==
  /\ Reading /\ pos < Len(buf) /\ Newlines = {}
  /\ current_line' = Grown(Len(buf))
  /\ pos' = Len(buf)
  /\ UNCHANGED <<file, from, to, pass, buf, read_size, skip, lines, parsed>>

\* readLine: the first line of a part that does not start the file is dropped,
\* and an empty rest of the buffer is kept as the beginning of the next line.
SkipLine ==
  /\ Reading /\ skip /\ Newlines # {}
  /\ pos' = Min(Newlines)
  /\ current_line' = IF pos' = Len(buf) THEN <<>> ELSE None
  /\ skip' = FALSE
  /\ UNCHANGED <<file, from, to, pass, buf, read_size, lines, parsed>>

-----------------------------------------------------------------------------
(* The parser.                                                             *)

\* _scanLine, in each of its modes.
ScanLine(line) ==
  LET fields == Fields(line)
      accepted == \A i \in 1 .. Len(fields) : Accepts(fields[i], i)
  IN /\ lines' = Append(lines, line)
     /\ \/ /\ pass = "count"
           /\ num_columns' = Max({num_columns, Len(fields)})
           /\ UNCHANGED <<pass, guesses, columns>>
        \/ /\ pass = "guess"
           /\ guesses' = [c \in 1 .. num_columns |->
                            IF c <= Len(fields) THEN Guess(guesses[c], fields[c])
                                                ELSE guesses[c]]
           /\ UNCHANGED <<pass, num_columns, columns>>
        \/ /\ pass = "parse" /\ accepted
           /\ columns' = [c \in 1 .. num_columns |->
                            IF c <= Len(fields)
                            THEN Append(columns[c], Appended(guesses[c], fields[c]))
                            ELSE columns[c]]
           /\ UNCHANGED <<pass, num_columns, guesses>>
        \/ pass = "parse" /\ ~accepted /\ pass' = "failed" /\ UNCHANGED parsed

\* readLine returns the line that ends at the next newline of the buffer.
TakeLine ==
  /\ Reading /\ ~skip /\ Newlines # {}
  /\ ScanLine(Grown(Min(Newlines) - 1))
  /\ pos' = Min(Newlines)
  /\ current_line' = None
  /\ UNCHANGED <<file, from, to, buf, read_size, skip>>

\* readLine returns what follows the last newline of the file.
TakeRest ==
  /\ Reading /\ Over /\ to = Len(file) /\ current_line # None
  /\ ScanLine(current_line)
  /\ current_line' = None
  /\ UNCHANGED <<file, from, to, buf, pos, read_size, skip>>

\* readLine returns a null pointer, or was called GuessLines times.
PassOver ==
  /\ pass \in {"count", "guess", "parse"}
  /\ Reading => Over /\ (to = Len(file) => current_line = None)
  /\ UNCHANGED <<file, from, to>>

\* guessSchema: from the first loop to the second.
EndCount ==
  /\ pass = "count" /\ PassOver
  /\ IF num_columns = 0
     THEN pass' = "failed" /\ UNCHANGED <<reader, lines, parsed>>
     ELSE /\ pass' = "guess"
          /\ guesses' = [c \in 1 .. num_columns |-> "UNKNOWN"]
          /\ Reset
          /\ UNCHANGED <<num_columns, columns>>

\* guessSchema: the columns are created; parseFile starts.
EndGuess ==
  /\ pass = "guess" /\ PassOver
  /\ pass' = "parse"
  /\ guesses' = [c \in 1 .. num_columns |-> IF guesses[c] = "UNKNOWN" THEN "BOOL" ELSE guesses[c]]
  /\ columns' = [c \in 1 .. num_columns |-> <<>>]
  /\ Reset
  /\ UNCHANGED num_columns

\* Mutant: the data frame takes columns of any length.
EndParse_AnyLength ==
  /\ pass = "parse" /\ PassOver
  /\ pass' = "frame"
  /\ UNCHANGED <<reader, lines, parsed>>

\* fromSorFile: the data frame's constructor asserts that columns have one
\* length.
EndParse ==
  /\ pass = "parse" /\ PassOver
  /\ pass' = IF \A c \in 1 .. num_columns : Len(columns[c]) = Len(columns[1])
             THEN "frame" ELSE "failed"
  /\ UNCHANGED <<reader, lines, parsed>>

\* The caller has its frame, or the program has aborted.
Stop == pass \in {"frame", "failed"} /\ UNCHANGED vars

Next == \/ Refill \/ KeepRest \/ SkipLine \/ TakeLine \/ TakeRest
        \/ EndCount \/ EndGuess \/ EndParse \/ Stop

Spec == Init /\ [][Next]_vars

-----------------------------------------------------------------------------
(* Properties.                                                             *)

\* The parser's state has its types, and the reader stays within the file.
TypeOK ==
  /\ pass \in {"count", "guess", "parse", "frame", "failed"}
  /\ pos \in 0 .. Len(buf) /\ Len(buf) <= Buf
  /\ read_size <= Len(file) - from
  /\ current_line = None \/ current_line \in Seq(Bytes \ {Newline})
  /\ num_columns \in Nat
  /\ guesses \in Seq(Types)
  /\ pass \in {"parse", "frame"} => \A c \in 1 .. num_columns : columns[c] \in Seq(Seq(Bytes))

\* The lines of the part of a file between a and b: each ends before a newline
\* or, the last one, with the file, and begins behind the newline before it or
\* with the part.  The first line is left out where it may be cut.
Ends(f, a, b) ==
  {e \in a + 1 .. b + 1 : IF e <= b THEN f[e] = Newline ELSE b = Len(f) /\ f[b] # Newline}
Whole(f, a, b) == {e \in Ends(f, a, b) : a = 0 \/ \E d \in Ends(f, a, b) : d < e}
Break(f, a, e) == Max({a} \cup {i \in a + 1 .. e : f[i] = Newline})
LineTo(f, a, e) == SubSeq(f, Break(f, a, e - 1) + 1, e - 1)
LinesTo(f, a, ends) == [k \in 1 .. Cardinality(ends) |-> LineTo(f, a, Nth(ends, k))]
LinesOf(f, a, b) == LinesTo(f, a, Whole(f, a, b))

\* The parts of a file that the reader reads right: those that end with it and
\* have a newline to skip to before their last byte, and those that fit in one
\* buffer.
Readable(f, a, b) ==
  IF b = Len(f) THEN a = 0 \/ \E i \in a + 1 .. b - 1 : f[i] = Newline
                ELSE b - a <= Buf

\* However lines lie across buffers, and in every pass over the file, the
\* reader hands out the lines of the part it was given, each once and whole:
\* the first ones while a pass runs, all that the pass asks for when it ends.
HandsOutLines ==
  [][/\ IsPrefix(lines', LinesOf(file, from, to))
     /\ EndCount \/ EndGuess \/ EndParse =>
          Len(lines) = IF pass = "parse" THEN Len(LinesOf(file, from, to))
                       ELSE Min({GuessLines, Len(LinesOf(file, from, to))})]_vars

\* What the lines say of the type of column c, and the type that fits it.
TextsIn(ls, c) ==
  {Trim(Fields(ls[k])[c], Space) : k \in {j \in 1 .. Len(ls) : c <= Len(Fields(ls[j]))}} \ {<<>>}
TypeOf(texts) ==
  IF \E s \in texts : ToSet(s) \cap Numeric = {} THEN "STRING"
  ELSE IF \E s \in texts : "." \in ToSet(s) THEN "DOUBLE"
  ELSE IF \E s \in texts : ToInt(s) \notin {0, 1} THEN "INTEGER" ELSE "BOOL"

\* The schema does not depend on the order of the lines it is guessed from:
\* a column holds strings if some field has no numeric character, else doubles
\* if some field has a dot, else integers if some is neither 0 nor 1, else
\* booleans.
SchemaIsJoin ==
  LET all == LinesOf(file, from, to)
      seen == SubSeq(all, 1, Min({GuessLines, Len(all)}))
  IN pass \in {"parse", "frame"} =>
       \A c \in 1 .. num_columns : guesses[c] = TypeOf(TextsIn(seen, c))

Rows == {k \in 1 .. Len(lines) : Fields(lines[k]) # <<>>}

\* A file whose columns become a data frame has in row r of each column the
\* value of that field of its r-th line that has fields: nothing is shifted by
\* lines with fewer fields, which append to some columns only.
RowsAreLines ==
  pass = "frame" =>
    \A c \in 1 .. num_columns :
      /\ Len(columns[c]) = Cardinality(Rows)
      /\ \A k \in Rows :
           /\ Len(Fields(lines[k])) = num_columns
           /\ columns[c][Rank(Rows, k)] = Appended(guesses[c], Fields(lines[k])[c])

\* guessSchema "Check[s] if the slice consists of only numeric chars"
\* (parser.h:447), so no field of a frame is cut off by a numeric column.
KeepsTexts ==
  pass = "frame" =>
    \A c \in 1 .. num_columns : \A k \in Rows :
      columns[c][Rank(Rows, k)] = Trim(Trim(Fields(lines[k])[c], Space), Quote)
=============================================================================
