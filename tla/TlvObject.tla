------------------------------ MODULE TlvObject ------------------------------
(***************************************************************************)
(* The BER-TLV walker of src/src/driver/tlv_object.c.  A TLV_Object holds  *)
(* the address of a data object in some memory, its tag, its value address *)
(* and length; every byte it needs is fetched through the get_data         *)
(* callback the creator passes in.  Here that callback is the constant     *)
(* operator GetData(st, address, length): from a caller state st it gives  *)
(* the set of results [ret, st] the fetch may have, the bytes read being   *)
(* left in st.buf.  The walker's functions are operators from a caller     *)
(* state to the set of their possible results, so that a failing fetch,    *)
(* and what the fetch did to the caller's state (a card powered up or     *)
(* down), are kept.                                                        *)
(***************************************************************************)
EXTENDS Integers, Sequences, Bitwise

CONSTANT GetData(_, _, _)

\* A TLV_Object; "found" is FALSE for the NULL the functions return.
Tlv(dl, a, tag, len, v) ==
  [found |-> TRUE, data_length |-> dl, address |-> a, tag |-> tag,
   length |-> len, value |-> v]

NoTlv == [found |-> FALSE, data_length |-> 0, address |-> 0, tag |-> 0,
          length |-> 0, value |-> 0]

\* A result: the object made (or NULL) and the caller state after it.
Tv(t, st) == [tlv |-> t, st |-> st]

\* "if (!get_data (data, a, n, buffer)) { free (tlv); return NULL; }":
\* the caller states after a fetch that succeeded, and the NULL results of
\* one that failed.
Fetched(st, a, n) == {r.st : r \in {r \in GetData(st, a, n) : r.ret = "OK"}}

Failed(st, a, n) ==
  {Tv(NoTlv, r.st) : r \in {r \in GetData(st, a, n) : r.ret # "OK"}}

\* (Mutation helper) the length taken as encoded, not rounded to the data.
RoundedNot(len, dl, v) == len

\* The length is rounded to fit within the available data (line 140).
Rounded(len, dl, v) == IF len < dl - v THEN len ELSE dl - v

\* The value starts at v, which must lie within the data (lines 131-140).
Made(st, dl, a, tag, len, v) ==
  IF v >= dl THEN {Tv(NoTlv, st)}
  ELSE {Tv(Tlv(dl, a, tag, Rounded(len, dl, v), v), st)}

\* The length field at a + i (lines 76-128): one byte below 128, else 0x81
\* and one byte, or 0x82 and two bytes, anything else is refused; s1 is
\* the state after the first length byte was fetched.
LongLength(s1, dl, a, i, tag) ==
  LET b == s1.buf[1] IN
  IF (b & \h80) # \h80 THEN Made(s1, dl, a, tag, b & \h7F, a + i + 1)
  ELSE IF (b & \h7F) = \h01
  THEN IF a + i + 1 >= dl THEN {Tv(NoTlv, s1)}
       ELSE Failed(s1, a + i + 1, 1) \cup
            UNION {Made(s2, dl, a, tag, s2.buf[1], a + i + 2) :
                     s2 \in Fetched(s1, a + i + 1, 1)}
  ELSE IF (b & \h7F) = \h02
  THEN IF a + i + 2 >= dl THEN {Tv(NoTlv, s1)}
       ELSE Failed(s1, a + i + 1, 2) \cup
            UNION {Made(s2, dl, a, tag, s2.buf[1] * 256 + s2.buf[2], a + i + 3) :
                     s2 \in Fetched(s1, a + i + 1, 2)}
  ELSE {Tv(NoTlv, s1)}

LengthField(st, dl, a, i, tag) ==
  IF a + i >= dl THEN {Tv(NoTlv, st)}
  ELSE Failed(st, a + i, 1) \cup
       UNION {LongLength(s1, dl, a, i, tag) : s1 \in Fetched(st, a + i, 1)}

\* The tag (lines 44-74): one byte, or two when the low five bits of the
\* first are all set; s1 is the state after the first byte was fetched.
TagField(s1, dl, a) ==
  LET b == s1.buf[1] IN
  IF (b & \h1F) = \h1F
  THEN IF a + 1 >= dl THEN {Tv(NoTlv, s1)}
       ELSE Failed(s1, a + 1, 1) \cup
            UNION {LengthField(s2, dl, a, 2, b * 256 + s2.buf[1]) :
                     s2 \in Fetched(s1, a + 1, 1)}
  ELSE LengthField(s1, dl, a, 1, b)

\* TLV_Object_New (lines 33-144).
New(st, dl, a) ==
  IF a >= dl THEN {Tv(NoTlv, st)}
  ELSE Failed(st, a, 1) \cup UNION {TagField(s1, dl, a) : s1 \in Fetched(st, a, 1)}

\* TLV_Object_GetValue (lines 164-173): the caller's length is cut to the
\* object's, and nothing is fetched for length 0.  A result carries the
\* fetch's verdict (ok), the cut length and the bytes fetched.
GetValue(t, st, len) ==
  LET n == IF len < t.length THEN len ELSE t.length IN
  IF n = 0 THEN {[ok |-> TRUE, len |-> 0, st |-> [st EXCEPT !.buf = <<>>]]}
  ELSE {[ok |-> r.ret = "OK", len |-> n, st |-> r.st] :
          r \in GetData(st, t.value, n)}

\* TLV_Object_CompareValue (lines 175-189): the value is compared with the
\* first len bytes of the caller's buffer, len being cut by GetValue first;
\* the cut length is handed back to the caller.
CompareValue(t, st, value, len) ==
  {[ok |-> g.ok /\ SubSeq(value, 1, g.len) = SubSeq(g.st.buf, 1, g.len),
    len |-> g.len, st |-> g.st] : g \in GetValue(t, st, len)}

\* TLV_Object_Shift (lines 191-201): the object that follows.
Shift(t, st) == New(st, t.data_length, t.value + t.length)

\* The object ends before the end of the enclosing one.
EndsInside(aux, t) == aux.value + aux.length < t.value + t.length

\* TLV_Object_Iterate (lines 203-226): the first object inside t, or the
\* one after the iterator while that ends inside t.
Iterate(t, it, st) ==
  IF ~it.found THEN New(st, t.data_length, t.value)
  ELSE IF EndsInside(it, t) THEN Shift(it, st)
  ELSE {Tv(NoTlv, st)}

\* TLV_Object_GetObjectByTag (lines 228-248): walk the objects inside t
\* until one has the tag.
RECURSIVE SeekTag(_, _, _)
SeekTag(t, tag, r) ==
  IF ~r.tlv.found \/ r.tlv.tag = tag THEN {r}
  ELSE IF EndsInside(r.tlv, t)
  THEN UNION {SeekTag(t, tag, r2) : r2 \in Shift(r.tlv, r.st)}
  ELSE {Tv(NoTlv, r.st)}

GetObjectByTag(t, st, tag) ==
  UNION {SeekTag(t, tag, r) : r \in New(st, t.data_length, t.value)}

\* TLV_Object_GetRawLength and TLV_Object_GetAddress (lines 273-283).
GetRawLength(t) == t.length + (t.value - t.address)
GetAddress(t) == t.address

=============================================================================
