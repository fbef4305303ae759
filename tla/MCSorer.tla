------------------------------- MODULE MCSorer -------------------------------
(* Files and parts of files for the reader.                                *)
EXTENDS Sorer

\* Fields: booleans, numbers, doubles, words, words with digits, a quoted >, an
\* empty one; and those that tell the types apart.
Texts == {<<"0">>, <<"1", Space>>, <<"-", "5">>, <<"5", ".">>, <<"a">>, <<"a", "5">>,
          <<Quote, ">", Quote>>, <<>>}
Short == {<<"1">>, <<"5">>, <<"5", ".">>, <<"a">>}

Line(fields) == FlattenSeq([i \in 1 .. Len(fields) |-> <<"<">> \o fields[i] \o <<">">>])
LinesOver(texts) == {Line(f) : f \in BoundedSeq(texts, 2)} \cup {<<"a", "<", "1">>}
Ended(f) == {f, Append(f, Newline)}

\* Two lines of any fields, three of short ones, with a last newline or not.
TwoLines == {l \o <<Newline>> \o k : l \in LinesOver(Texts), k \in LinesOver(Texts)}
ThreeLines == LET ls == {Line(<<t>>) : t \in Short} \cup {<<>>}
              IN {l \o <<Newline>> \o k \o <<Newline>> \o m : l \in ls, k \in ls, m \in ls}
SomeFiles == UNION {Ended(f) : f \in TwoLines \cup ThreeLines} \ {<<>>}

AllOf(f) == {<<0, Len(f)>>}

\* The whole of a file, and parts of the files of three lines.
Everywhere(f) == {s \in (0 .. Len(f)) \X (0 .. Len(f)) : s[1] < s[2]}
WholeAndParts(f) ==
  AllOf(f) \cup IF f \in ThreeLines THEN {s \in Everywhere(f) : Readable(f, s[1], s[2])} ELSE {}
=============================================================================
