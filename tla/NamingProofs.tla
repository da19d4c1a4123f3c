---------------------------- MODULE NamingProofs ----------------------------
(***************************************************************************)
(* What the naming strategies owe to a partial scan: whatever the failed   *)
(* topics, the known topics and the subjects are called.                   *)
(***************************************************************************)
EXTENDS Naming, SequenceTheorems, WellFoundedInduction, TLAPS

\* A name and one more segment: what comes before it, and what it is.
LEMMA AppendedName ==
  ASSUME NEW t \in Seq(STRING), NEW x \in STRING
  PROVE  /\ Len(Append(t, x)) = Len(t) + 1
         /\ Append(t, x)[Len(t) + 1] = x
         /\ SubSeq(Append(t, x), 1, Len(t)) = t
         /\ Len(t) \in Nat
<1>1. Append(t, x) \in Seq(STRING) /\ Len(Append(t, x)) = Len(t) + 1 /\ Len(t) \in Nat
  BY AppendProperties, LenProperties
<1>2. \A j \in 1 .. Len(t) : Append(t, x)[j] = t[j]
  BY AppendProperties
<1>3. SubSeq(Append(t, x), 1, Len(t)) = t
  <2>1. SubSeq(Append(t, x), 1, Len(t)) \in Seq(STRING)
        /\ Len(SubSeq(Append(t, x), 1, Len(t))) = Len(t)
        /\ \A j \in 1 .. Len(t) : SubSeq(Append(t, x), 1, Len(t))[j] = Append(t, x)[j]
    BY <1>1, SubSeqProperties
  <2> QED
    BY <1>1, <1>2, <2>1, SeqEqual
<1> QED
  BY <1>1, <1>3, AppendProperties

\* The topic of a record is found unless a longer one shadows it.
LEMMA OwnTopicFound ==
  ASSUME NEW topics \in SUBSET Names, NEW t \in topics, NEW s,
         Holds(t, s, "topic-record-name"), ~Shadowed(t, s, topics, "topic-record-name")
  PROVE  t \in LongestPrefixTopic(s.raw, topics)
<1>1. IsTopicPrefix(t, s.raw)
  BY DEF Holds
<1>2. \A u \in topics : Len(u) \in Nat
  BY LenProperties DEF Names
<1>3. \A u \in topics : IsTopicPrefix(u, s.raw) => ~(Len(t) < Len(u))
  BY DEF Shadowed, GetRawSubject
<1>4. \A u \in topics : IsTopicPrefix(u, s.raw) => Len(u) <= Len(t)
  BY <1>2, <1>3
<1> QED
  BY <1>1, <1>4 DEF LongestPrefixTopic

\* Taking one suffix away gives the topic back, whatever it ends in.
LEMMA OwnTopicLeft ==
  ASSUME NEW t \in Names, NEW s, Holds(t, s, "topic-name")
  PROVE  TopicFromSubject(s) = t
<1>1. t \in Seq(STRING) /\ Len(t) \in Nat /\ Len(t) > 0
  BY LenProperties, EmptySeq DEF Names
<1>2. PICK x \in {"key", "value"} : s.raw = Append(t, x)
  BY DEF Holds
<1>3. Len(s.raw) = Len(t) + 1 /\ s.raw[Len(t) + 1] = x /\ SubSeq(s.raw, 1, Len(t)) = t
  BY <1>1, <1>2, AppendedName
<1>4. Len(s.raw) > 1 /\ Len(s.raw) - 1 = Len(t)
  BY <1>1, <1>3
<1>5. IsKeySchema(s.raw) \/ IsValueSchema(s.raw)
  BY <1>3, <1>4 DEF IsKeySchema, IsValueSchema, HasSuffix
<1>6. TopicFromSubject(s) = SubSeq(s.raw, 1, Len(s.raw) - 1)
  BY <1>5 DEF TopicFromSubject, GetRawSubject
<1> QED
  BY <1>3, <1>4, <1>6

\* A set of naturals has a least element.
LEMMA LeastNatural ==
  ASSUME NEW T \in SUBSET Nat, T # {}
  PROVE  \E x \in T : \A y \in T : x <= y
<1> DEFINE R == OpToRel(<, Nat)
<1>1. IsWellFoundedOn(R, Nat)
  BY NatLessThanWellFounded
<1>2. \A x, y \in Nat : y < x => <<y, x>> \in R
  BY DEF OpToRel
<1> HIDE DEF R
<1>3. PICK x \in T : \A y \in T : ~(<<y, x>> \in R)
  BY <1>1, WFMin
<1>4. \A y \in T : ~(y < x) /\ y \in Nat /\ x \in Nat
  BY <1>2, <1>3
<1>5. \A y \in T : x <= y
  BY <1>4
<1> QED
  BY <1>5

\* If any topic prefixes a name, a longest one does.
LEMMA LongestExists ==
  ASSUME NEW topics \in SUBSET Names, NEW raw \in Seq(STRING),
         NEW u \in topics, IsTopicPrefix(u, raw)
  PROVE  LongestPrefixTopic(raw, topics) # {}
<1> DEFINE Prefixes == {t \in topics : IsTopicPrefix(t, raw)}
           Missing == {Len(raw) - Len(t) : t \in Prefixes}
<1>1. Len(raw) \in Nat /\ \A t \in topics : Len(t) \in Nat
  BY LenProperties DEF Names
<1>2. \A t \in Prefixes : Len(t) < Len(raw)
  BY DEF IsTopicPrefix
<1>3. Missing \in SUBSET Nat /\ Missing # {}
  BY <1>1, <1>2
<1>4. PICK t \in Prefixes : \A v \in Prefixes : Len(raw) - Len(t) <= Len(raw) - Len(v)
  <2>1. PICK x \in Missing : \A y \in Missing : x <= y
    BY <1>3, LeastNatural
  <2> QED
    BY <2>1
<1>5. \A v \in topics : IsTopicPrefix(v, raw) => Len(v) <= Len(t)
  BY <1>1, <1>4
<1> QED
  BY <1>4, <1>5 DEF LongestPrefixTopic

\* ... and only one: two prefixes of one length are the same.
LEMMA LongestUnique ==
  ASSUME NEW topics \in SUBSET Names, NEW raw,
         NEW t \in LongestPrefixTopic(raw, topics), NEW u \in LongestPrefixTopic(raw, topics)
  PROVE  t = u
<1>1. /\ t \in topics /\ u \in topics
      /\ Len(t) <= Len(u) /\ Len(u) <= Len(t)
      /\ SubSeq(raw, 1, Len(t)) = t /\ SubSeq(raw, 1, Len(u)) = u
  BY DEF LongestPrefixTopic, IsTopicPrefix
<1>2. Len(t) \in Nat /\ Len(u) \in Nat
  BY <1>1, LenProperties DEF Names
<1>3. Len(t) = Len(u)
  <2>1. \A m, n \in Nat : m <= n /\ n <= m => m = n
    OBVIOUS
  <2> QED
    BY <1>1, <1>2, <2>1
<1> QED
  BY <1>1, <1>3

\* The longest topic of a name is found again in any choice of the topics
\* that has it: the other ones do not matter.
LEMMA LongestKept ==
  ASSUME NEW topics \in SUBSET Names, NEW some \in SUBSET topics, NEW raw \in Seq(STRING),
         LongestPrefixTopic(raw, topics) \subseteq some
  PROVE  LongestPrefixTopic(raw, some) = LongestPrefixTopic(raw, topics)
<1>1. some \in SUBSET Names
  OBVIOUS
<1>2. LongestPrefixTopic(raw, topics) \subseteq LongestPrefixTopic(raw, some)
  BY DEF LongestPrefixTopic
<1>3. ASSUME NEW t \in LongestPrefixTopic(raw, some)
      PROVE  t \in LongestPrefixTopic(raw, topics)
  <2>1. t \in topics /\ IsTopicPrefix(t, raw)
    BY DEF LongestPrefixTopic
  <2>2. PICK u \in LongestPrefixTopic(raw, topics) : TRUE
    BY <2>1, LongestExists
  <2>3. t = u
    BY <1>1, <1>2, <2>2, LongestUnique
  <2> QED
    BY <2>2, <2>3
<1> QED
  BY <1>2, <1>3

(* When one of the topics that a subject's messages may be in has failed,   *)
(* the subject is among those whose usage is unknown: no naming strategy    *)
(* lets it slip through, however alike the names of topics are - unless the *)
(* name of a longer topic, followed by a hyphen, begins the subject's, too. *)
THEOREM FailedTopicCovers ==
  ASSUME NEW strategy \in Strategies,
         NEW topics \in SUBSET Names, NEW failed, NEW t \in topics \cap failed,
         NEW subjects, NEW s \in subjects,
         Holds(t, s, strategy), ~Shadowed(t, s, topics, strategy)
  PROVE  s \in SubjectsForFailedTopics(failed, subjects, topics, strategy)
<1>1. CASE strategy = "record-name"
  BY <1>1 DEF SubjectsForFailedTopics
<1>2. CASE strategy = "topic-record-name"
  <2>1. t \in LongestPrefixTopic(s.raw, topics)
    BY <1>2, OwnTopicFound
  <2> QED
    BY <1>2, <2>1 DEF SubjectsForFailedTopics, GetRawSubject
<1>3. CASE strategy = "topic-name"
  <2>1. TopicFromSubject(s) = t
    BY <1>3, OwnTopicLeft
  <2> QED
    BY <1>3, <2>1 DEF SubjectsForFailedTopics
<1> QED
  BY <1>1, <1>2, <1>3 DEF Strategies
=============================================================================
