---------------------------- MODULE MCTransport ----------------------------
(* Message scripts for Transport: which side sends how much. *)
EXTENDS Transport

\* Side 1 sends bulk: PUTs, and answers to side 2's requests.  What side 2 sends
\* fits the buffer at any time.
OneWay == <<
  << Message("put", 3, 0), Message("ask", 1, 1), Message("put", 2, 0) >>,
  << Message("ask", 1, 3), Message("ask", 1, 2) >> >>

\* Both applications PUT a value that does not fit the buffer.
Crossing == << << Message("put", 3, 0) >>, << Message("put", 3, 0) >> >>
=============================================================================
