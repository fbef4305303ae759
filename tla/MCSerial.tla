------------------------------ MODULE MCSerial ------------------------------
\* Messages of each kind, arrays of up to three items, frames of up to three
\* columns: among them what fills the buffer exactly, what needs one byte more,
\* and strings and values that a doubled buffer does not hold.
EXTENDS Serial

Str(n) == [i \in 1 .. n |-> <<"a", "b", "c">>[(i % 3) + 1]]
Keys == [k : {Str(1), Str(8)}, node : 0 .. 1]
Blob(n) == [i \in 1 .. n |-> <<"blob", n, i>>]
Addr == [ip : {1, 2}, port : {1, 2}]
UpTo(n, S) == UNION {[1 .. k -> S] : k \in 0 .. n}

MCMessages ==
  [kind : {"PUT"}, key : Keys, v : {Blob(n) : n \in {0, 1, 3, 40}}]
    \cup [kind : {"GET", "WAITANDGET"}, key : Keys]
    \cup [kind : {"REPLY"}, v : {Blob(n) : n \in 0 .. 20}]
    \cup [kind : {"REGISTER"}, node : 0 .. 1, address : Addr]
    \cup [kind : {"DIRECTORY"}, addresses : UpTo(3, Addr)]
    \cup [kind : {"STATUS"}, message : {Str(n) : n \in {0, 1, 20}}]
    \cup {[kind |-> "KILL"]}

MCArrays ==
  [kind : {"array"}, type : {"I", "D"}, items : UpTo(3, 1 .. 2)]
    \cup [kind : {"array"}, type : {"B"}, items : UpTo(3, BOOLEAN)]
    \cup [kind : {"array"}, type : {"S"}, items : UpTo(3, {Str(n) : n \in {0, 1, 2, 17}})]

MCColumns == [size : {0, 3}, id : {Str(9), Str(10)}, segments : UpTo(2, [k : {Str(12)}, node : 0 .. 1]) \ {<<>>}]
MCFrames ==
  {[kind |-> "frame", types |-> t, rows |-> 3, columns |-> c] :
     t \in {<<"I">>, <<"S">>}, c \in [1 .. 1 -> MCColumns]}
    \cup {[kind |-> "frame", types |-> <<"S", "B", "D">>, rows |-> 3, columns |-> <<c, d, c>>] :
            c, d \in {x \in MCColumns : x.size = 3}}

MCObjects == MCMessages \cup MCArrays \cup MCFrames
=============================================================================
