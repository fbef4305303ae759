------------------------------- MODULE Serial -------------------------------
(***************************************************************************)
(* What is put in a Serializer and taken from a Deserializer: the messages *)
(* between nodes (network/message.h), with keys, values and addresses, and *)
(* what is kept in values: the arrays of columns (util/array.h) and the    *)
(* descriptors of frames (dataframe/dataframe.h, schema.h, column.h).      *)
(*                                                                         *)
(* A byte is <<type, value, i>>, the i-th byte of a value of that type; a  *)
(* read that does not get the bytes of one value of its type, in order,    *)
(* gets Garbage.                                                           *)
(***************************************************************************)
EXTENDS Serializer, SequencesExt

CONSTANTS
  Objects,      \* what programs serialize
  Garbage,
  Nothing

VARIABLES
  object,       \* what is serialized, later read
  payload,      \* what the value in a message holds, when that matters
  toAdd,        \* the bytes of each call left to make
  place,        \* "writing", "read" or "aborted"
  received      \* what the Deserializer returned, and the bytes it has left

serial_vars == <<bytes, size, capacity, object, payload, toAdd, place, received>>

Width == [msg_type |-> 4, size_t |-> 8, int |-> 4, double |-> 8, bool |-> 1,
          uint16 |-> 2, uint32 |-> 4, char |-> 1]
Encoded(type, v) == [i \in 1 .. Width[type] |-> <<type, v, i>>]
-----------------------------------------------------------------------------
(***************************************************************************)
(* serialize: a sequence of calls of the Serializer, each the bytes it adds*)
(***************************************************************************)
Value(v) == <<Encoded("size_t", Len(v)), v>>
String(s) == Value([i \in DOMAIN s |-> <<"char", s[i], 1>>])
Key(k) == Append(String(k.k), Encoded("size_t", k.node))
Address(a) == <<Encoded("uint32", a.ip), Encoded("uint16", a.port)>>

\* A length, and the calls for each item.
Many(each) == <<Encoded("size_t", Len(each))>> \o FlattenSeq(each)

\* IntArray, DoubleArray, BoolArray and StringArray; a column of type t has an
\* array of that type.
ItemType == [I |-> "int", D |-> "double", B |-> "bool"]
Item(type, x) == IF type = "S" THEN String(x) ELSE <<Encoded(ItemType[type], x)>>
Array(a) == Many([i \in DOMAIN a.items |-> Item(a.type, a.items[i])])

Schema(f) ==
  Append(Many([i \in DOMAIN f.types |-> <<Encoded("int", f.types[i])>>]), Encoded("size_t", f.rows))

Column(c) ==
  <<Encoded("size_t", c.size)>> \o String(c.id)
    \o Many([i \in DOMAIN c.segments |-> Key(c.segments[i])])

DataFrame(f) == Schema(f) \o FlattenSeq([i \in DOMAIN f.columns |-> Column(f.columns[i])])

Header(kind) == <<Encoded("msg_type", kind)>> \o [i \in 1 .. 3 |-> Encoded("size_t", 0)]
Message(m) ==
  Header(m.kind) \o
      CASE m.kind = "PUT" -> Key(m.key) \o Value(m.v)
        [] m.kind \in {"GET", "WAITANDGET"} -> Key(m.key)
        [] m.kind = "REPLY" -> Value(m.v)
        [] m.kind = "REGISTER" -> <<Encoded("size_t", m.node)>> \o Address(m.address)
        [] m.kind = "DIRECTORY" -> Many([i \in DOMAIN m.addresses |-> Address(m.addresses[i])])
        [] m.kind = "STATUS" -> String(m.message)
        [] m.kind = "KILL" -> <<>>

Serialize(o) ==
  CASE o.kind = "array" -> Array(o)
    [] o.kind = "frame" -> DataFrame(o)
    [] OTHER -> Message(o)
-----------------------------------------------------------------------------
(***************************************************************************)
(* Reading: what a constructor takes from the bytes left, d.  A failed     *)
(* assertion leaves Garbage and nothing to read.                           *)
(***************************************************************************)
Failed == [val |-> Garbage, rest |-> <<>>]
From(n, d) == SubSeq(d, n + 1, Len(d))

\* get_int, get_size_t, ...
Get(type, d) ==
  LET w == Width[type] IN
  IF Len(d) >= w /\ SubSeq(d, 1, w) = Encoded(type, d[1][2])
  THEN [val |-> d[1][2], rest |-> From(w, d)]
  ELSE Failed
GetSize(d) == Get("size_t", d)

GetBuffer(n, d) ==
  IF n # Garbage /\ n > 0 /\ Len(d) >= n
  THEN [val |-> SubSeq(d, 1, n), rest |-> From(n, d)]
  ELSE Failed

ReadValue(d) == LET n == GetSize(d) IN GetBuffer(n.val, n.rest)
ReadString(d) ==
  LET b == ReadValue(d) IN
  IF b = Failed THEN Failed ELSE [val |-> [i \in DOMAIN b.val |-> b.val[i][2]], rest |-> b.rest]

\* (mutant) the node before the name.
ReadKey_NodeFirst(d) ==
  LET n == GetSize(d)
      k == ReadString(n.rest)
  IN  [val |-> [k |-> k.val, node |-> n.val], rest |-> k.rest]

ReadKey(d) ==
  LET k == ReadString(d)
      n == GetSize(k.rest)
  IN  [val |-> [k |-> k.val, node |-> n.val], rest |-> n.rest]

ReadAddress(d) ==
  LET ip == Get("uint32", d)
      port == Get("uint16", ip.rest)
  IN  [val |-> [ip |-> ip.val, port |-> port.val], rest |-> port.rest]

\* n reads, one after the other.
ReadTimes(Read(_), n, d) ==
  LET after[i \in 0 .. n] ==
        IF i = 0 THEN [val |-> <<>>, rest |-> d]
        ELSE LET r == Read(after[i-1].rest)
             IN  [val |-> Append(after[i-1].val, r.val), rest |-> r.rest]
  IN  IF n = Garbage THEN Failed ELSE after[n]
ReadMany(Read(_), d) == LET n == GetSize(d) IN ReadTimes(Read, n.val, n.rest)

ReadItem(type, d) == IF type = "S" THEN ReadString(d) ELSE Get(ItemType[type], d)
ReadArray(type, d) ==
  LET items == ReadMany(LAMBDA r : ReadItem(type, r), d)
  IN  [val |-> [kind |-> "array", type |-> type, items |-> items.val], rest |-> items.rest]

ReadColumn(d) ==
  LET n == GetSize(d)
      id == ReadString(n.rest)
      segments == ReadMany(ReadKey, id.rest)
  IN  [val |-> [size |-> n.val, id |-> id.val, segments |-> segments.val],
       rest |-> segments.rest]

\* The number of columns is that of the schema.
ReadFrame(d) ==
  LET types == ReadMany(LAMBDA r : Get("int", r), d)
      rows == GetSize(types.rest)
      cols == ReadTimes(ReadColumn, Len(types.val), rows.rest)
  IN  [val |-> [kind |-> "frame", types |-> types.val, rows |-> rows.val, columns |-> cols.val],
       rest |-> cols.rest]

\* Connection::handle_message_ and its like for registration: the kind, then
\* the constructor it calls for.  Of a KILL no more is read.
ReadMessage(d) ==
  LET kind == Get("msg_type", d)
      header == ReadTimes(GetSize, 3, kind.rest)
      key == ReadKey(header.rest)
      v == ReadValue(IF kind.val = "PUT" THEN key.rest ELSE header.rest)
      node == GetSize(header.rest)
      address == ReadAddress(node.rest)
      addresses == ReadMany(ReadAddress, header.rest)
      message == ReadString(header.rest)
  IN  CASE kind.val = "PUT" ->
             [val |-> [kind |-> "PUT", key |-> key.val, v |-> v.val], rest |-> v.rest]
        [] kind.val \in {"GET", "WAITANDGET"} ->
             [val |-> [kind |-> kind.val, key |-> key.val], rest |-> key.rest]
        [] kind.val = "REPLY" -> [val |-> [kind |-> "REPLY", v |-> v.val], rest |-> v.rest]
        [] kind.val = "REGISTER" ->
             [val |-> [kind |-> "REGISTER", node |-> node.val, address |-> address.val],
              rest |-> address.rest]
        [] kind.val = "DIRECTORY" ->
             [val |-> [kind |-> "DIRECTORY", addresses |-> addresses.val], rest |-> addresses.rest]
        [] kind.val = "STATUS" ->
             [val |-> [kind |-> "STATUS", message |-> message.val], rest |-> message.rest]
        [] kind.val = "KILL" -> [val |-> [kind |-> "KILL"], rest |-> <<>>]
        [] OTHER -> Failed

\* The reader of a segment or a frame knows what it asked for.
Deserialize(o, d) ==
  CASE o.kind = "array" -> ReadArray(o.type, d)
    [] o.kind = "frame" -> ReadFrame(d)
    [] OTHER -> ReadMessage(d)
-----------------------------------------------------------------------------
SerialInit ==
  /\ SInit
  /\ object \in Objects
  /\ payload = Nothing
  /\ toAdd = Serialize(object)
  /\ place = "writing"
  /\ received = Nothing

AddNext ==
  /\ place = "writing"
  /\ toAdd # <<>>
  /\ Head(toAdd) # <<>>
  /\ Add(Head(toAdd))
  /\ toAdd' = Tail(toAdd)
  /\ UNCHANGED <<object, payload, place, received>>

\* add_buffer asserts that there is something to add.
AddNothing ==
  /\ place = "writing"
  /\ toAdd # <<>>
  /\ Head(toAdd) = <<>>
  /\ place' = "aborted"
  /\ UNCHANGED <<bytes, size, capacity, object, payload, toAdd, received>>

Serialized == place = "writing" /\ toAdd = <<>>
InValue == SubSeq(bytes, 1, size)

\* A segment or a frame becomes a Value; when its key is homed elsewhere it is
\* sent in a PUT, or later in the Reply to a GET.
Send ==
  /\ Serialized
  /\ object.kind \in {"array", "frame"}
  /\ \E m \in {[kind |-> "PUT", key |-> [k |-> <<"k">>, node |-> 1], v |-> InValue],
               [kind |-> "REPLY", v |-> InValue]} :
       /\ object' = m
       /\ toAdd' = Serialize(m)
  /\ payload' = object
  /\ Renew
  /\ UNCHANGED <<place, received>>

\* The bytes are read, here or at the node they were sent to.
Receive ==
  /\ Serialized
  /\ received' = Deserialize(object, InValue)
  /\ place' = "read"
  /\ UNCHANGED <<bytes, size, capacity, object, payload, toAdd>>

\* What the received Value holds is read.
Unpack ==
  /\ place = "read"
  /\ payload # Nothing
  /\ object' = payload
  /\ received' = Deserialize(payload, received.val.v)
  /\ payload' = Nothing
  /\ UNCHANGED <<bytes, size, capacity, toAdd, place>>

SerialNext == AddNext \/ AddNothing \/ Send \/ Receive \/ Unpack

SerialSpec == SerialInit /\ [][SerialNext]_serial_vars
-----------------------------------------------------------------------------
(***************************************************************************)
(* Properties                                                              *)
(***************************************************************************)

\* A string or value of no bytes: add_buffer refuses it.
Sendable(o) ==
  CASE o.kind \in {"PUT", "REPLY"} -> o.v # <<>>
    [] o.kind = "STATUS" -> o.message # <<>>
    [] o.kind = "array" -> o.type = "S" => <<>> \notin Range(o.items)
    [] OTHER -> TRUE

\* What is read is what was written, to the last byte, through a message as
\* well: no count, width or order differs between serialize and the
\* constructors (message.h, key.h, value.h, array.h, column.h, dataframe.h).
\* Nothing aborts but on an empty string or value.
RoundTrip ==
  /\ place = "read" => received = [val |-> object, rest |-> <<>>]
  /\ place = "aborted" => ~Sendable(object)

\* "Returns a nullptr if Value is empty" (value.h:46): an empty Value is one,
\* and so can be sent as any other.
EmptyValuesSent == place # "aborted"
=============================================================================
