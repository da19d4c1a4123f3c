----------------------------- MODULE MCCleanup -----------------------------
(***************************************************************************)
(* Instances of Cleanup: two topics, one named like a key subject of the   *)
(* other, the keys and values of one and the values of the other, every    *)
(* form in which a serializer may write an ID, and bytes that are none.    *)
(***************************************************************************)
EXTENDS Cleanup

MCDotted == {}
MCBegins == {}

Orders == <<"orders">>
OrdersDashKey == <<"orders", "key">>
MCTopics == {Orders, OrdersDashKey}

\* On Cloud the listing for orders-key contains orders-key-value.
Subject(raw) == [prefix |-> << >>, raw |-> raw]
OrdersKey == Subject(<<"orders", "key">>)
OrdersValue == Subject(<<"orders", "value">>)
OrdersKeyValue == Subject(<<"orders", "key", "value">>)
MCSubjects == {OrdersKey, OrdersValue, OrdersKeyValue}

Version(id, imports) == [id |-> id, imports |-> imports, rules |-> {}]
Registry(keyId, valueId, keyValueId) ==
    LET all == {<<OrdersKey, 1>>, <<OrdersValue, 1>>, <<OrdersKeyValue, 1>>}
    IN [k \in all |-> CASE k[1] = OrdersKey -> Version(keyId, {})
                        [] k[1] = OrdersValue -> Version(valueId, {})
                        [] OTHER -> Version(keyValueId, {<<OrdersValue, 1>>})]

MCRegistered == Registry(7, 300, 65536)

\* How serializers write an ID: four bytes, or decimal digits.
Bytes(id) == <<id \div 2^24, (id \div 2^16) % 256, (id \div 2^8) % 256, id % 256>>
Text(id) ==
    LET digits[n \in 0 .. id] ==
          IF n < 10 THEN <<48 + n>> ELSE Append(digits[n \div 10], 48 + (n % 10))
    IN digits[id]

Message(topic, uses, key, value, headers) ==
    [topic |-> topic, uses |-> uses, raw |-> [key |-> key, value |-> value, headers |-> headers]]
Header(name, value) == [name |-> name, value |-> value]

\* How one use is written: in the payload, which may end with the ID, or in
\* a header.
Payloads(id) == {<<0>> \o Bytes(id), <<0>> \o Bytes(id) \o <<10>>}
Forms(id, plain, names) ==
    {[payload |-> p, headers |-> << >>] : p \in Payloads(id)}
      \cup {[payload |-> plain, headers |-> <<Header(n, v)>>] : n \in names, v \in {Bytes(id), Text(id)}}
KeyForms(id) == Forms(id, <<107>>, KeySchemaIDHeaders)
ValueForms(id) == Forms(id, <<123, 125>>, ValueSchemaIDHeaders)

\* Key and value of one message, in equal or in different forms.
Pairs(topic, keyId, valueId) ==
    {Message(topic, {<<keyId, "key">>, <<valueId, "value">>}, k.payload, v.payload,
             <<Header("trace", <<49>>)>> \o v.headers \o k.headers) :
       k \in KeyForms(keyId), v \in ValueForms(valueId)}

\* A value without a key.
Values(topic, id) ==
    {Message(topic, {<<id, "value">>}, << >>, v.payload, v.headers) : v \in ValueForms(id)}

\* No schema at all, in bytes that are no ID but for one payload, which is
\* taken for one.
Lookalike(topic, id) ==
    Message(topic, {}, <<0, 1>>, <<0>> \o Bytes(id),
            <<Header("schema.id", << >>), Header("key.schema.id", <<45, 55>>)>>)

MCMessages == Pairs(Orders, 7, 300) \cup Values(OrdersDashKey, 65536) \cup {Lookalike(OrdersDashKey, 300)}

\* An ID of four digits, as text in a header.
StringRegistered == Registry(7, 1234, 65536)
StringMessages == {m \in Values(Orders, 1234) : m.raw.headers # << >>}
=============================================================================
