------------------------------- MODULE Naming -------------------------------
(***************************************************************************)
(* Names of subjects and topics (pkg/strategy.go, pkg/context_utils.go,    *)
(* pkg/utils.go).  A name is the sequence of what stands between its       *)
(* hyphens, so that "a name begins with t-" is "t is a proper prefix", and *)
(* of two such prefixes the longer string is the longer sequence.  A       *)
(* subject is [prefix, raw], prefix being << >> or <<c>> for ":.c:".       *)
(***************************************************************************)
EXTENDS Integers, Sequences

CONSTANTS
    Dotted,  \* segments that contain a dot
    Begins   \* <<a, b>>: segment b begins with the different segment a

Names == Seq(STRING) \ {<< >>}
SubjectNames == [prefix : Seq(STRING), raw : Names]

Strategies == {"topic-name", "record-name", "topic-record-name"}

\* ParseContext: without a prefix the context is the default one, "".
GetContextFromSubject(s) == IF s.prefix = << >> THEN "" ELSE s.prefix[1]
GetRawSubject(s) == s.raw

HasSuffix(raw, segment) == Len(raw) > 1 /\ raw[Len(raw)] = segment
IsKeySchema(raw) == HasSuffix(raw, "key")
IsValueSchema(raw) == HasSuffix(raw, "value")
VerifySubject(s) == IsValueSchema(s.raw) \/ IsKeySchema(s.raw)

VerifySubjectForStrategy(s, strategy) ==
    LET raw == GetRawSubject(s)
    IN CASE strategy = "record-name" -> raw # <<"">>
         [] strategy = "topic-record-name" ->
              raw[1] # "" /\ \E n \in 2 .. Len(raw) : raw[n] \in Dotted
         [] OTHER -> IsValueSchema(raw) \/ IsKeySchema(raw)

\* The name of subject s begins with the whole name of p (--subject-prefix).
NameBegins(s, p) ==
    LET n == Len(p.raw)
    IN /\ s.prefix = p.prefix
       /\ n <= Len(s.raw)
       /\ \A j \in 1 .. n - 1 : s.raw[j] = p.raw[j]
       /\ s.raw[n] = p.raw[n] \/ <<p.raw[n], s.raw[n]>> \in Begins

\* Mutant: every suffix goes, so that a topic x-key is lost.
TopicWithoutSuffixes(s) ==
    LET raw == GetRawSubject(s)
        m == CHOOSE m \in 1 .. Len(raw) :
               /\ \A j \in m + 1 .. Len(raw) : raw[j] \in {"key", "value"}
               /\ m = 1 \/ raw[m] \notin {"key", "value"}
    IN SubSeq(raw, 1, m)

\* Exactly one suffix goes.
TopicFromSubject(s) ==
    LET raw == GetRawSubject(s)
    IN IF IsValueSchema(raw) \/ IsKeySchema(raw) THEN SubSeq(raw, 1, Len(raw) - 1) ELSE raw

\* raw begins with t followed by a hyphen.
IsTopicPrefix(t, raw) == Len(t) < Len(raw) /\ SubSeq(raw, 1, Len(t)) = t

\* At most one topic: longestPrefixTopic over topicsByDescendingLength.
LongestPrefixTopic(raw, topics) ==
    {t \in topics : /\ IsTopicPrefix(t, raw)
                    /\ \A u \in topics : IsTopicPrefix(u, raw) => Len(u) <= Len(t)}

\* By its naming strategy, subject s is for messages of topic t.  The name of
\* a record may be anything, a JSON schema's title for one.
Holds(t, s, strategy) ==
    CASE strategy = "record-name" -> TRUE
      [] strategy = "topic-record-name" -> IsTopicPrefix(t, s.raw)
      [] OTHER -> s.raw \in {Append(t, "key"), Append(t, "value")}

\* A longer one of the topics begins the name of s as well: subject
\* orders-eu-com.Order is a record eu-com.Order of topic orders, or a record
\* com.Order of topic orders-eu, and the code takes it for the latter.
Shadowed(t, s, topics, strategy) ==
    /\ strategy = "topic-record-name"
    /\ \E u \in topics : IsTopicPrefix(u, s.raw) /\ Len(t) < Len(u)

\* Mutant: a failed topic takes the subjects of longer ones with it.
SubjectsOfAnyPrefix(failedTopics, subjects, topics, strategy) ==
    {s \in subjects : \E t \in failedTopics : IsTopicPrefix(t, GetRawSubject(s))}

\* The subjects whose usage is unknown when failedTopics of topics failed.
SubjectsForFailedTopics(failedTopics, subjects, topics, strategy) ==
    IF failedTopics = {} THEN {}
    ELSE CASE strategy = "record-name" -> subjects
           [] strategy = "topic-record-name" ->
                {s \in subjects : LongestPrefixTopic(GetRawSubject(s), topics) \cap failedTopics # {}}
           [] OTHER -> {s \in subjects : TopicFromSubject(s) \in failedTopics}
=============================================================================
