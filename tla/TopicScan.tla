------------------------------ MODULE TopicScan ------------------------------
(***************************************************************************)
(* The scan of one topic (pkg/consumer.go): scanActiveSchemas asks for the *)
(* topic's metadata and watermarks, assigns every partition from its       *)
(* beginning and polls until every partition has reported EOF, or until    *)
(* the deadline of --scan-timeout.  It runs beside the topic's producers,  *)
(* its transactions and its log cleaner, none of which wait for it.        *)
(*                                                                         *)
(* A partition's log is a sequence of entries: offset i of the broker is   *)
(* index i+1 here.  A "use" stands for one pair (schema ID, key or value)  *)
(* a message mentions in its payload, its key or its headers; the map      *)
(* activeSchemas, which ORs role bits per ID, is the set of pairs seen.    *)
(***************************************************************************)
EXTENDS Integers, Sequences

CONSTANTS
    NumPartitions,  \* partitions of the topic when its metadata is read
    Uses,           \* (schema ID, role) pairs
    Contents,       \* the sets of uses that one message may carry
    MaxLen          \* bound: offsets per partition, control records included

ASSUME ScanAssumption ==
    /\ NumPartitions \in Nat \ {0}
    /\ Contents \subseteq SUBSET Uses
    /\ MaxLen \in Nat

Partitions == 0 .. NumPartitions - 1

(***************************************************************************)
(* "committed": deliverable (not transactional, or its transaction has     *)
(* committed).  "open": its transaction is undecided.  "control": the      *)
(* marker that ended a transaction.  "removed": taken by compaction or by  *)
(* retention; it was "committed" before.                                   *)
(***************************************************************************)
EntryStates == {"committed", "open", "aborted", "control", "removed"}
Entries == [uses : SUBSET Uses, state : EntryStates]

VARIABLES
    pc,        \* where scanActiveSchemas stands
    next,      \* the partition the watermark loop queries next
    totalMsg,  \* the sum of high - low so far
    log,       \* the broker: the entries of every partition
    end,       \* the client: end offset of its last fetch, NoFetch before
    pos,       \* the client: offsets already handed out by Poll
    eof,       \* eofPartitions
    active,    \* activeSchemas
    expired,   \* the deadline has passed
    begin,     \* history: the last stable offset when the scan began
    written    \* history: the end of the log when the scan began

vars == <<pc, next, totalMsg, log, end, pos, eof, active, expired, begin, written>>
broker  == <<log>>
history == <<begin, written>>

NoFetch == -1

TypeOK ==
    /\ pc \in {"metadata", "watermarks", "loop", "poll", "done", "failed"}
    /\ next \in 0 .. NumPartitions
    /\ totalMsg \in Nat
    /\ log \in [Partitions -> Seq(Entries)]
    /\ \A p \in Partitions : Len(log[p]) <= MaxLen
    /\ end \in [Partitions -> NoFetch .. MaxLen]
    /\ pos \in [Partitions -> 0 .. MaxLen]
    /\ eof \subseteq Partitions
    /\ active \subseteq Uses
    /\ expired \in BOOLEAN
    /\ begin \in [Partitions -> 0 .. MaxLen]
    /\ written \in [Partitions -> 0 .. MaxLen]

Init ==
    /\ pc = "metadata"
    /\ next = 0
    /\ totalMsg = 0
    /\ log = [p \in Partitions |-> << >>]
    /\ end = [p \in Partitions |-> NoFetch]
    /\ pos = [p \in Partitions |-> 0]
    /\ eof = {}
    /\ active = {}
    /\ expired = FALSE
    /\ begin = [p \in Partitions |-> 0]
    /\ written = [p \in Partitions |-> 0]

-----------------------------------------------------------------------------
(***************************************************************************)
(* The last stable offset: the first undecided entry, or the end of the    *)
(* log.  A read_committed consumer is served nothing beyond it.            *)
(***************************************************************************)
IsStable(p, n) == \A i \in 1 .. n : log[p][i].state # "open"
IsLSO(p, n) ==
    /\ n <= Len(log[p])
    /\ IsStable(p, n)
    /\ n < Len(log[p]) => log[p][n + 1].state = "open"

\* Mutant: the messages of aborted transactions are delivered as well.
DeliverableAborted(p, i) == log[p][i].state \in {"committed", "aborted"}

\* read_committed, set in both platforms' consumer configurations: of the
\* entries below the last stable offset only these reach Poll.
Deliverable(p, i) == log[p][i].state = "committed"

-----------------------------------------------------------------------------
(* The producers, the transaction coordinator and the log cleaner.  They   *)
(* are followed until the scan returns: nothing is read after that.        *)

Finished == pc \in {"done", "failed"}

Marked(entry, s) == [uses |-> entry.uses, state |-> s]

Produce(p) ==
    /\ ~Finished
    /\ Len(log[p]) < MaxLen
    /\ \E c \in Contents, s \in {"committed", "open"} :
         log' = [log EXCEPT ![p] = Append(@, [uses |-> c, state |-> s])]
    /\ UNCHANGED <<pc, next, totalMsg, end, pos, eof, active, expired, history>>

\* The open transaction of a partition ends and leaves its marker.
EndTransaction(p) ==
    /\ ~Finished
    /\ Len(log[p]) < MaxLen
    /\ \E i \in 1 .. Len(log[p]) : log[p][i].state = "open"
    /\ \E s \in {"committed", "aborted"} :
         log' = [log EXCEPT ![p] =
                   Append([i \in 1 .. Len(@) |->
                             IF @[i].state = "open" THEN Marked(@[i], s) ELSE @[i]],
                          [uses |-> {}, state |-> "control"])]
    /\ UNCHANGED <<pc, next, totalMsg, end, pos, eof, active, expired, history>>

Remove(p) ==
    /\ ~Finished
    /\ \E i \in 1 .. Len(log[p]) :
         /\ log[p][i].state = "committed"
         /\ log' = [log EXCEPT ![p][i] = Marked(@, "removed")]
    /\ UNCHANGED <<pc, next, totalMsg, end, pos, eof, active, expired, history>>

-----------------------------------------------------------------------------
(* scanActiveSchemas, up to the assignment.                                *)

GetMetadata ==
    /\ pc = "metadata"
    /\ pc' = "watermarks"
    /\ \E b \in [Partitions -> 0 .. MaxLen] :
         /\ \A p \in Partitions : IsLSO(p, b[p])
         /\ begin' = b
    /\ written' = [p \in Partitions |-> Len(log[p])]
    /\ UNCHANGED <<next, totalMsg, broker, end, pos, eof, active, expired>>

\* A metadata or watermark error, no partition in the answer, a refused Assign.
SetupFails ==
    /\ pc \in {"metadata", "watermarks"}
    /\ pc' = "failed"
    /\ UNCHANGED <<next, totalMsg, broker, end, pos, eof, active, expired, history>>

(***************************************************************************)
(* One QueryWatermarkOffsets.  The low watermark moves over offsets that   *)
(* retention has deleted (it may lag behind, compaction does not move it); *)
(* the high one is the last stable offset or the end of the log, as the    *)
(* protocol version decides.                                               *)
(***************************************************************************)
Lows(p) == {n \in 0 .. Len(log[p]) : \A i \in 1 .. n : log[p][i].state = "removed"}
Highs(p) == {n \in 0 .. Len(log[p]) : IsLSO(p, n)} \cup {Len(log[p])}

\* Mutant: the operands are swapped.
MessagesSwapped(low, high) == low - high

Messages(low, high) == high - low

QueryWatermarks ==
    /\ pc = "watermarks"
    /\ next < NumPartitions
    /\ \E low \in Lows(next), high \in Highs(next) :
         /\ low <= high
         /\ totalMsg' = totalMsg + Messages(low, high)
    /\ next' = next + 1
    /\ UNCHANGED <<pc, broker, end, pos, eof, active, expired, history>>

NoMessages ==
    /\ pc = "watermarks"
    /\ next = NumPartitions
    /\ totalMsg = 0
    /\ pc' = "done"
    /\ UNCHANGED <<next, totalMsg, broker, end, pos, eof, active, expired, history>>

Assign ==
    /\ pc = "watermarks"
    /\ next = NumPartitions
    /\ totalMsg > 0
    /\ pc' = "loop"
    /\ UNCHANGED <<next, totalMsg, broker, end, pos, eof, active, expired, history>>

-----------------------------------------------------------------------------
(* The poll loop, and the client's fetcher beside it.                      *)

\* The fetcher learns the current end of an assigned partition, which is the
\* last stable offset under read_committed.
Fetch(p) ==
    /\ pc \in {"loop", "poll"}
    /\ \E n \in 0 .. Len(log[p]) :
         /\ IsLSO(p, n)
         /\ end[p] < n
         /\ end' = [end EXCEPT ![p] = n]
    /\ UNCHANGED <<pc, next, totalMsg, broker, pos, eof, active, expired, history>>

\* Mutant: one partition's end is taken for the topic's.
AnyPartitionReachedEOF == \E p \in Partitions : p \in eof

AllPartitionsReachedEOF == \A p \in Partitions : p \in eof

\* Mutant: the deadline is not looked at.
DeadlineIgnored == FALSE

DeadlineExceeded == expired

LoopDone ==
    /\ pc = "loop"
    /\ AllPartitionsReachedEOF
    /\ pc' = "done"
    /\ UNCHANGED <<next, totalMsg, broker, end, pos, eof, active, expired, history>>

LoopExpired ==
    /\ pc = "loop"
    /\ ~AllPartitionsReachedEOF
    /\ DeadlineExceeded
    /\ pc' = "failed"
    /\ UNCHANGED <<next, totalMsg, broker, end, pos, eof, active, expired, history>>

LoopPoll ==
    /\ pc = "loop"
    /\ ~AllPartitionsReachedEOF
    /\ ~DeadlineExceeded
    /\ pc' = "poll"
    /\ UNCHANGED <<next, totalMsg, broker, end, pos, eof, active, expired, history>>

\* The next deliverable entry of what was fetched; the client skips the rest.
PollMessage(p) ==
    /\ pc = "poll"
    /\ \E i \in pos[p] + 1 .. end[p] :
         /\ Deliverable(p, i)
         /\ \A j \in pos[p] + 1 .. i - 1 : ~Deliverable(p, j)
         /\ pos' = [pos EXCEPT ![p] = i]
         /\ active' = active \cup log[p][i].uses
    /\ pc' = "loop"
    /\ UNCHANGED <<next, totalMsg, broker, end, eof, expired, history>>

\* The end of what was fetched; entries produced meanwhile do not delay it.
PollEOF(p) ==
    /\ pc = "poll"
    /\ end[p] # NoFetch
    /\ pos[p] <= end[p]
    /\ \A j \in pos[p] + 1 .. end[p] : ~Deliverable(p, j)
    /\ pos' = [pos EXCEPT ![p] = end[p]]
    /\ eof' = eof \cup {p}
    /\ pc' = "loop"
    /\ UNCHANGED <<next, totalMsg, broker, end, active, expired, history>>

\* Nothing within scanPollTimeoutMs, or an error that is only logged.
PollQuiet ==
    /\ pc = "poll"
    /\ pc' = "loop"
    /\ UNCHANGED <<next, totalMsg, broker, end, pos, eof, active, expired, history>>

\* A fatal error, or one of terminalScanErrors.
PollTerminalError ==
    /\ pc = "poll"
    /\ pc' = "failed"
    /\ UNCHANGED <<next, totalMsg, broker, end, pos, eof, active, expired, history>>

Expire ==
    /\ pc \in {"loop", "poll"}
    /\ ~expired
    /\ expired' = TRUE
    /\ UNCHANGED <<pc, next, totalMsg, broker, end, pos, eof, active, history>>

-----------------------------------------------------------------------------
Setup == GetMetadata \/ SetupFails \/ QueryWatermarks \/ NoMessages \/ Assign
Loop  == LoopDone \/ LoopExpired \/ LoopPoll
Poll  == \/ \E p \in Partitions : PollMessage(p) \/ PollEOF(p)
         \/ PollQuiet \/ PollTerminalError
Environment == \E p \in Partitions : Produce(p) \/ EndTransaction(p) \/ Remove(p)

Next ==
    \/ Setup \/ Loop \/ Poll \/ Expire
    \/ \E p \in Partitions : Fetch(p)
    \/ Environment

Spec == Init /\ [][Next]_vars

(***************************************************************************)
(* Every call of the setup has a timeout (5 s and 10 s), Poll returns      *)
(* within scanPollTimeoutMs, the loop runs in a goroutine of its own and   *)
(* time passes.  Nothing is assumed of the broker.                         *)
(***************************************************************************)
FairSpec == Spec /\ WF_vars(Setup) /\ WF_vars(Loop) /\ WF_vars(Poll) /\ WF_vars(Expire)

-----------------------------------------------------------------------------
(* Every use in a committed message that was readable when the scan began  *)
(* and is still there is in the result of a scan that returns without an   *)
(* error, whatever was produced, committed or compacted meanwhile.         *)
CompleteScan ==
    pc = "done" =>
      \A p \in Partitions : \A i \in 1 .. begin[p] :
        log[p][i].state = "committed" => log[p][i].uses \subseteq active

(* A schema is reported as used only because of a message that had been    *)
(* committed: neither aborted nor undecided transactions count.            *)
NoPhantomUse ==
    \A u \in active : \E p \in Partitions : \E i \in 1 .. pos[p] :
      log[p][i].state \in {"committed", "removed"} /\ u \in log[p][i].uses

(* A topic's scan ends, even if a partition never reports EOF and the      *)
(* producers outpace it.                                                   *)
ScanEnds == <>Finished

(* ScanActiveSchemas "scans all messages in a topic": the doc's reading of *)
(* CompleteScan, with every committed message that had been written when   *)
(* the scan began.  It fails behind an undecided transaction.              *)
AllMessagesScanned ==
    pc = "done" =>
      \A p \in Partitions : \A i \in 1 .. written[p] :
        log[p][i].state = "committed" => log[p][i].uses \subseteq active
=============================================================================
