----------------------------- MODULE WireFormat -----------------------------
(***************************************************************************)
(* The schema IDs that a message carries (pkg/consumer.go): in front of    *)
(* its key or value, after a magic byte, or in a header.  A message is     *)
(* [key, value, headers], the first two being sequences of bytes; a header *)
(* is [name, value], its name in lower case.  A use is <<ID, role>>.       *)
(***************************************************************************)
EXTENDS Integers, Sequences

MagicByte == 0
MessageOffset == 5
MaxInt32 == 2147483647

KeySchemaIDHeaders == {"key.schema.id", "sr.key.schema.id"}
ValueSchemaIDHeaders == {"value.schema.id", "sr.value.schema.id", "schema.id"}

\* int32 of four big-endian bytes: from 128 on the first one is a sign.
BigEndian(b) ==
    (((IF b[1] < 128 THEN b[1] ELSE b[1] - 256) * 256 + b[2]) * 256 + b[3]) * 256 + b[4]

\* Mutant: a payload must go on after the ID.
PayloadIDBeforeData(data, role) ==
    IF Len(data) > MessageOffset /\ data[1] = MagicByte
    THEN {<<BigEndian(SubSeq(data, 2, MessageOffset)), role>>}
    ELSE {}

SchemaIDFromPayload(data, role) ==
    IF Len(data) >= MessageOffset /\ data[1] = MagicByte
    THEN {<<BigEndian(SubSeq(data, 2, MessageOffset)), role>>}
    ELSE {}

\* The number that digits make, -1 when it is beyond 32 bits.
ParseDigits(digits) ==
    LET value[n \in 0 .. Len(digits)] ==
          IF n = 0 THEN 0
          ELSE LET d == digits[n] - 48
               IN IF value[n - 1] = -1 \/ value[n - 1] > (MaxInt32 - d) \div 10
                  THEN -1
                  ELSE 10 * value[n - 1] + d
    IN value[Len(digits)]

\* strconv.ParseInt in base 10: an optional sign and digits.  What is no such
\* text, negative or out of range is as good as 0 to the caller.
ParseInt(v) ==
    LET digits == IF v[1] = 43 THEN Tail(v) ELSE v
    IN IF /\ digits # << >> /\ \A n \in DOMAIN digits : digits[n] \in 48 .. 57
          /\ ParseDigits(digits) > 0
       THEN ParseDigits(digits)
       ELSE 0

\* Four bytes are always taken for a binary ID.
SchemaIDFromHeaderValue(v) ==
    CASE v = << >> -> 0
      [] Len(v) = 4 -> BigEndian(v)
      [] OTHER -> ParseInt(v)

RoleOfHeader(name) ==
    IF name \in KeySchemaIDHeaders THEN {"key"}
    ELSE IF name \in ValueSchemaIDHeaders THEN {"value"} ELSE {}

SchemaIDsFromHeaders(headers) ==
    UNION { {<<SchemaIDFromHeaderValue(headers[n].value), r>> : r \in RoleOfHeader(headers[n].name)} :
              n \in {j \in DOMAIN headers : SchemaIDFromHeaderValue(headers[j].value) > 0} }

\* handlePollEvent, for a message.
UsesOfMessage(m) ==
    SchemaIDFromPayload(m.key, "key")
      \cup SchemaIDFromPayload(m.value, "value")
      \cup SchemaIDsFromHeaders(m.headers)
=============================================================================
