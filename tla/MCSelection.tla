----------------------------- MODULE MCSelection -----------------------------
(***************************************************************************)
(* Instances of Selection: topics whose names begin with one another or    *)
(* end like a suffix, the same topic in two clusters, clusters of one      *)
(* name, a context, and subjects that begin with one another.              *)
(***************************************************************************)
EXTENDS Selection

MCDotted == {"com.Order"}
MCBegins == {<<"value", "values">>}
MCUnderscored == {"_audit"}
MCDefaultNames == <<"cluster-0", "cluster-1">>

Orders == <<"orders">>
OrdersEu == <<"orders", "eu">>
OrdersKey == <<"orders", "key">>
OrdersValues == <<"orders", "values">>
Audit == <<"_audit">>

Plain(raw) == [prefix |-> << >>, raw |-> raw]
Staging(raw) == [prefix |-> <<"staging">>, raw |-> raw]

ByTopic ==
    { Plain(<<"orders", "value">>), Plain(<<"orders", "key">>), Plain(<<"orders", "key", "value">>),
      Plain(<<"orders", "values", "key">>), Staging(<<"orders", "value">>), Plain(<<"_audit", "value">>) }
ByTopicRecord ==
    { Plain(<<"orders", "com.Order">>), Plain(<<"orders", "eu", "com.Order">>),
      Staging(<<"orders", "eu", "com.Order">>), Plain(<<"invoices", "com.Order">>) }
ByRecord == {Plain(<<"com.Order">>), Staging(<<"com.Order">>)}

Registered(strategy) ==
    CASE strategy = "topic-name" -> ByTopic
      [] strategy = "topic-record-name" -> ByTopicRecord \cup {Plain(<<"orders", "value">>)}
      [] OTHER -> ByRecord

\* One subject, or all of them, in one context or in any.
Chosen(strategy) ==
    {<<<< >>, c>> : c \in {<< >>, <<"">>, <<"staging">>}}
      \cup {<<<<s>>, << >>>> : s \in Registered(strategy) \cap {Plain(<<"orders", "value">>), Plain(<<"orders", "eu", "com.Order">>), Staging(<<"com.Order">>)}}

TopicFlags == {<<{}, FALSE>>, <<{}, TRUE>>, <<{Orders, OrdersKey}, FALSE>>}

Cluster(name, topics) == [name |-> name, topics |-> topics]

\* Two clusters of Cloud; on CP also without names and with the same name.
Surroundings ==
    {<<"cloud", <<Cluster("lkc-1", x), Cluster("lkc-2", {Orders, OrdersKey})>>>> : x \in {{Orders, OrdersEu}, {OrdersValues}}}
      \cup {<<"cp", <<Cluster(n, {Orders, OrdersEu, Audit}), Cluster(m, {Orders, OrdersKey})>>>> :
              n \in {"", "cluster-1"}, m \in {"", "main"}}

MCRuns ==
    UNION {{ [platform |-> e[1], strategy |-> st, force |-> f, subject |-> s[1], context |-> s[2],
              topics |-> t[1], allTopics |-> t[2], registry |-> Registered(st), clusters |-> e[2],
              credentials |-> IF st = "record-name" THEN {"lkc-1"} ELSE {"lkc-1", "lkc-2"}] :
               e \in Surroundings, f \in BOOLEAN, s \in Chosen(st), t \in TopicFlags } :
               st \in Strategies}

\* Where a listing brings in more than was selected.
PrefixRuns == {r \in MCRuns : r.platform = "cloud" /\ r.strategy = "topic-name"}

MCCreations == {<<2, OrdersEu>>}
=============================================================================
