----------------------------- MODULE MCTopicScan -----------------------------
(* Instances of TopicScan for TLC.                                         *)
EXTENDS TopicScan

CONSTANTS u1, u2

MCUses == {u1, u2}

\* A message that names one schema, and one without a schema ID.
MCContents == {{u1}, {}}

\* A payload that names one schema and a header that names two.
MCContentsBoth == {{u1}, {u1, u2}}

MCContentsOne == {{u1}}
=============================================================================
