------------------------------- MODULE Layout -------------------------------
(***************************************************************************)
(* The three forms in which the SDK holds the members of a payload, an     *)
(* input, an output or a program: the object, the bytes of a ByteStream,   *)
(* and the JSON value that the host application carries around.            *)
(*                                                                         *)
(* A member is its name.  An object is a function from member names to     *)
(* values; a member that was never set has the value Unset.  A layout is   *)
(* the sequence of write (or read) calls of a Serialize (or Deserialize)   *)
(* function, each a pair of the kind of the call and the member it is      *)
(* about.  Bytes are symbolic: a stream is the sequence of pairs of a kind *)
(* and a value.  A nested object, or a vector of them, is one call whose   *)
(* kind is the name of its class: that class has a layout of its own.      *)
(***************************************************************************)
EXTENDS Naturals, Sequences

Unset == ""

(***************************************************************************)
(* The calls of ByteStream.  A string and a byte vector have the same      *)
(* bytes, a count and then the content; WriteByte, WriteUint8 and          *)
(* WriteBytes(&x, 1) are the same call.                                    *)
(***************************************************************************)
Uint8(m)    == <<"Uint8", m>>
Uint16(m)   == <<"Uint16", m>>
Uint32(m)   == <<"Uint32", m>>
Uint64(m)   == <<"Uint64", m>>
VarUint(m)  == <<"VarUint", m>>
VarBytes(m) == <<"VarBytes", m>>
Hash168(m)  == <<"Hash168", m>>
Hash256(m)  == <<"Hash256", m>>
Nested(c, m) == <<c, m>>

\* Calls made only under a condition.
When(c, calls) == IF c THEN calls ELSE <<>>

\* A Deserialize that returns false whatever the stream holds.
Refuse == << <<"false", Unset>> >>

\* The members a layout is about.
MembersOf(layout) == {layout[i][2] : i \in DOMAIN layout} \ {Unset}

\* What a Serialize function with this layout writes for an object.
Written(layout, val) == [i \in DOMAIN layout |-> <<layout[i][1], val[layout[i][2]]>>]

\* Whether a Deserialize function with this layout gets through the stream,
\* leaving nothing of it.
Fits(layout, stream) ==
  /\ Len(layout) = Len(stream)
  /\ \A i \in DOMAIN layout : layout[i][1] = stream[i][1]

\* The object that Deserialize fills, a new one with the given members.
ReadBack(layout, stream, members) ==
  [m \in members |->
     LET calls == {i \in DOMAIN layout : layout[i][2] = m}
     IN  IF calls = {} THEN Unset ELSE stream[CHOOSE i \in calls : TRUE][2]]

(***************************************************************************)
(* JSON.  ToJson and FromJson are sequences of pairs of a key and the      *)
(* member stored under it.  Reading a key that is not there throws.        *)
(***************************************************************************)
KeysOf(pairs) == {pairs[i][1] : i \in DOMAIN pairs}

JsonOf(pairs, val) ==
  [k \in KeysOf(pairs) |-> val[pairs[CHOOSE i \in DOMAIN pairs : pairs[i][1] = k][2]]]

FromJsonOf(pairs, json, members) ==
  [m \in members |->
     LET reads == {i \in DOMAIN pairs : pairs[i][2] = m}
     IN  IF reads = {} THEN Unset ELSE json[pairs[CHOOSE i \in reads : TRUE][1]]]
=============================================================================
