-------------------------- MODULE TopicScanProofs --------------------------
(***************************************************************************)
(* Proofs about TopicScan, for every number of partitions, every log       *)
(* length and every content of the messages: type correctness, that a scan *)
(* which returns without an error is complete, and that it reports nothing *)
(* but uses of committed messages.                                         *)
(***************************************************************************)
EXTENDS TopicScan, TLAPS

\* Nothing up to the end of a fetch, or up to the last stable offset that the
\* scan began with, is undecided; fetches come after the beginning.
Decided ==
    \A p \in Partitions :
      /\ begin[p] <= Len(log[p]) /\ IsStable(p, begin[p])
      /\ end[p] <= Len(log[p]) /\ IsStable(p, end[p])
      /\ end[p] # NoFetch => begin[p] <= end[p]
      /\ pos[p] = 0 \/ pos[p] <= end[p]

\* Before the loop nothing is fetched, read or at its end.
NotReading ==
    pc \in {"metadata", "watermarks"} =>
      /\ eof = {}
      /\ \A p \in Partitions : end[p] = NoFetch
      /\ pc = "metadata" => next = 0

\* Everything committed below a partition's position has been recorded, and
\* at its EOF the position has passed all that the scan promised to read.
ReadSoFar ==
    \A p \in Partitions :
      /\ \A i \in 1 .. pos[p] : log[p][i].state = "committed" => log[p][i].uses \subseteq active
      /\ p \in eof => begin[p] <= pos[p]

\* A total of zero so far: nothing is left in the partitions queried.
EmptySoFar ==
    pc = "watermarks" /\ totalMsg = 0 =>
      \A p \in Partitions : p < next =>
        \A i \in 1 .. begin[p] : log[p][i].state = "removed"

IInv ==
    /\ TypeOK /\ Decided /\ NotReading /\ ReadSoFar /\ EmptySoFar
    /\ CompleteScan /\ NoPhantomUse

-----------------------------------------------------------------------------
(* What producers, transactions and the log cleaner can do to a log: it    *)
(* only grows, contents stay, and no entry that was decided becomes        *)
(* undecided or committed.                                                 *)
LogEvolves ==
    \A p \in Partitions :
      /\ Len(log[p]) <= Len(log'[p])
      /\ \A i \in 1 .. Len(log[p]) :
           /\ log'[p][i].uses = log[p][i].uses
           /\ log[p][i].state # "open" => log'[p][i].state \in {log[p][i].state, "removed"}
           /\ log'[p][i].state = "removed" => log[p][i].state \in {"committed", "removed"}

LEMMA MarkedType ==
  ASSUME NEW entry \in Entries, NEW s \in EntryStates
  PROVE  /\ Marked(entry, s) \in Entries
         /\ Marked(entry, s).uses = entry.uses
         /\ Marked(entry, s).state = s
BY DEF Marked, Entries

LEMMA ProduceEvolves ==
  ASSUME TypeOK, NEW p \in Partitions, Produce(p)
  PROVE  TypeOK' /\ LogEvolves
<1> PICK c \in Contents, s \in {"committed", "open"} :
           log' = [log EXCEPT ![p] = Append(@, [uses |-> c, state |-> s])]
  BY DEF Produce
<1> DEFINE e == [uses |-> c, state |-> s]
<1>1. e \in Entries
  BY ScanAssumption DEF Entries, EntryStates
<1>2. log[p] \in Seq(Entries) /\ Len(log[p]) < MaxLen
  BY DEF TypeOK, Produce
<1>3. Append(log[p], e) \in Seq(Entries) /\ Len(Append(log[p], e)) = Len(log[p]) + 1
  BY <1>1, <1>2
<1>4. log' \in [Partitions -> Seq(Entries)]
  BY <1>3 DEF TypeOK
<1>5. \A q \in Partitions : Len(log'[q]) <= MaxLen
  BY <1>2, <1>3, ScanAssumption DEF TypeOK
<1>6. TypeOK'
  BY <1>4, <1>5 DEF TypeOK, Produce, history
<1>7. LogEvolves
  <2> SUFFICES ASSUME NEW q \in Partitions
               PROVE  /\ Len(log[q]) <= Len(log'[q])
                      /\ \A i \in 1 .. Len(log[q]) : log'[q][i] = log[q][i]
    BY DEF LogEvolves
  <2>1. CASE q = p
    BY <1>1, <1>2, <1>3, <2>1 DEF TypeOK
  <2>2. CASE q # p
    BY <2>2 DEF TypeOK
  <2> QED
    BY <2>1, <2>2
<1> QED
  BY <1>6, <1>7

LEMMA EndTransactionEvolves ==
  ASSUME TypeOK, NEW p \in Partitions, EndTransaction(p)
  PROVE  TypeOK' /\ LogEvolves
<1> PICK s \in {"committed", "aborted"} :
           log' = [log EXCEPT ![p] =
                     Append([i \in 1 .. Len(@) |->
                               IF @[i].state = "open" THEN Marked(@[i], s) ELSE @[i]],
                            [uses |-> {}, state |-> "control"])]
  BY DEF EndTransaction
<1> DEFINE ended == [i \in 1 .. Len(log[p]) |->
                       IF log[p][i].state = "open" THEN Marked(log[p][i], s) ELSE log[p][i]]
           marker == [uses |-> {}, state |-> "control"]
<1>1. marker \in Entries
  BY DEF Entries, EntryStates
<1>2. log[p] \in Seq(Entries) /\ Len(log[p]) < MaxLen /\ Len(log[p]) \in Nat
  BY DEF TypeOK, EndTransaction
<1>3. \A i \in 1 .. Len(log[p]) : log[p][i] \in Entries /\ ended[i] \in Entries
  <2>1. \A i \in 1 .. Len(log[p]) : log[p][i] \in Entries
    BY <1>2
  <2> QED
    BY <2>1, MarkedType DEF EntryStates
<1>4. ended \in Seq(Entries) /\ Len(ended) = Len(log[p])
  <2>1. ended \in [1 .. Len(log[p]) -> Entries]
    BY <1>3
  <2> HIDE DEF ended
  <2> QED
    BY <2>1, <1>2
<1>5. log' = [log EXCEPT ![p] = Append(ended, marker)]
  OBVIOUS
<1> HIDE DEF marker
<1>6. Append(ended, marker) \in Seq(Entries) /\ Len(Append(ended, marker)) = Len(log[p]) + 1
  <2> HIDE DEF ended
  <2> QED
    BY <1>1, <1>4
<1>7. log' \in [Partitions -> Seq(Entries)]
  BY <1>5, <1>6 DEF TypeOK
<1>8. \A q \in Partitions : Len(log'[q]) <= MaxLen
  <2> HIDE DEF ended
  <2> QED
    BY <1>2, <1>5, <1>6, ScanAssumption DEF TypeOK
<1>9. TypeOK'
  BY <1>7, <1>8 DEF TypeOK, EndTransaction, history
<1>10. LogEvolves
  <2> SUFFICES ASSUME NEW q \in Partitions
               PROVE  /\ Len(log[q]) <= Len(log'[q])
                      /\ \A i \in 1 .. Len(log[q]) :
                           \/ log'[q][i] = log[q][i]
                           \/ /\ log[q][i].state = "open"
                              /\ log'[q][i].uses = log[q][i].uses
                              /\ log'[q][i].state = s
    BY DEF LogEvolves
  <2>1. CASE q = p
    <3>1. log'[p] = Append(ended, marker)
      BY <1>5 DEF TypeOK
    <3>2. \A i \in 1 .. Len(log[p]) : Append(ended, marker)[i] = ended[i]
      <4> HIDE DEF ended
      <4> QED
        BY <1>1, <1>4
    <3>3. \A i \in 1 .. Len(log[p]) : log'[p][i] = ended[i]
      BY <3>1, <3>2
    <3>4. Len(log[p]) <= Len(log'[p])
      <4> HIDE DEF ended
      <4> QED
        BY <1>2, <1>6, <3>1
    <3> QED
      BY <2>1, <3>3, <3>4 DEF Marked
  <2>2. CASE q # p
    BY <2>2 DEF TypeOK
  <2> QED
    BY <2>1, <2>2
<1> QED
  BY <1>9, <1>10

LEMMA RemoveEvolves ==
  ASSUME TypeOK, NEW p \in Partitions, Remove(p)
  PROVE  TypeOK' /\ LogEvolves
<1> PICK i \in 1 .. Len(log[p]) :
           /\ log[p][i].state = "committed"
           /\ log' = [log EXCEPT ![p][i] = Marked(@, "removed")]
  BY DEF Remove
<1> DEFINE gone == Marked(log[p][i], "removed")
<1>1. log[p] \in Seq(Entries)
  BY DEF TypeOK
<1>2. gone \in Entries /\ gone.uses = log[p][i].uses /\ gone.state = "removed"
  <2>1. log[p][i] \in Entries
    BY <1>1
  <2> QED
    BY <2>1, MarkedType DEF EntryStates
<1>3. log' = [log EXCEPT ![p] = [log[p] EXCEPT ![i] = gone]]
  OBVIOUS
<1> HIDE DEF gone
<1>4. /\ [log[p] EXCEPT ![i] = gone] \in Seq(Entries)
      /\ Len([log[p] EXCEPT ![i] = gone]) = Len(log[p])
  BY <1>1, <1>2
<1>5. log' \in [Partitions -> Seq(Entries)]
  BY <1>3, <1>4 DEF TypeOK
<1>6. \A q \in Partitions : Len(log'[q]) = Len(log[q])
  BY <1>3, <1>4 DEF TypeOK
<1>7. TypeOK'
  BY <1>5, <1>6 DEF TypeOK, Remove, history
<1>8. \A q \in Partitions : \A j \in 1 .. Len(log[q]) :
        log'[q][j] = IF q = p /\ j = i THEN gone ELSE log[q][j]
  BY <1>1, <1>3 DEF TypeOK
<1>9. \A q \in Partitions : Len(log[q]) \in Nat
  BY DEF TypeOK
<1>10. LogEvolves
  BY <1>2, <1>6, <1>8, <1>9 DEF LogEvolves
<1> QED
  BY <1>7, <1>10

-----------------------------------------------------------------------------
\* All but the log.
scanner == <<pc, next, totalMsg, end, pos, eof, active, expired, begin, written>>

(* The environment preserves the invariant, whatever the scan is doing.    *)
LEMMA EvolvingIInv ==
  ASSUME IInv, TypeOK', LogEvolves, UNCHANGED scanner, ~Finished
  PROVE  IInv'
<1> USE DEF IInv, scanner
<1>1. \A p \in Partitions : Len(log[p]) \in Nat /\ end[p] \in Int /\ begin[p] \in Nat /\ pos[p] \in Nat
  BY DEF TypeOK, NoFetch
<1>2. Decided'
  <2> SUFFICES ASSUME NEW p \in Partitions
               PROVE  /\ Len(log[p]) <= Len(log'[p]) /\ Len(log'[p]) \in Nat
                      /\ \A i \in 1 .. begin[p] : log'[p][i].state # "open"
                      /\ \A i \in 1 .. end[p] : log'[p][i].state # "open"
    BY <1>1 DEF Decided, IsStable
  <2>1. \A i \in 1 .. Len(log[p]) : log[p][i].state # "open" => log'[p][i].state # "open"
    BY DEF LogEvolves
  <2>2. Len(log[p]) <= Len(log'[p]) /\ Len(log'[p]) \in Nat
    BY DEF LogEvolves, TypeOK
  <2>3. begin[p] <= Len(log[p]) /\ end[p] <= Len(log[p])
    BY DEF Decided
  <2> QED
    BY <1>1, <2>1, <2>2, <2>3 DEF Decided, IsStable
<1>3. NotReading'
  BY DEF NotReading
<1>4. ReadSoFar'
  <2> SUFFICES ASSUME NEW p \in Partitions, NEW i \in 1 .. pos[p], log'[p][i].state = "committed"
               PROVE  log'[p][i].uses \subseteq active
    BY DEF ReadSoFar
  <2>1. i \in 1 .. Len(log[p]) /\ i \in 1 .. end[p]
    BY <1>1 DEF Decided, NoFetch
  <2>2. log[p][i].state # "open"
    BY <2>1 DEF Decided, IsStable
  <2>3. log[p][i].state = "committed" /\ log'[p][i].uses = log[p][i].uses
    BY <2>1, <2>2 DEF LogEvolves
  <2> QED
    BY <2>3 DEF ReadSoFar
<1>5. EmptySoFar'
  <2> SUFFICES ASSUME pc = "watermarks", totalMsg = 0, NEW p \in Partitions, p < next,
                      NEW i \in 1 .. begin[p]
               PROVE  log'[p][i].state = "removed"
    BY DEF EmptySoFar
  <2>1. i \in 1 .. Len(log[p])
    BY <1>1 DEF Decided
  <2>2. log[p][i].state = "removed"
    BY DEF EmptySoFar
  <2> QED
    BY <2>1, <2>2 DEF LogEvolves
<1>6. CompleteScan'
  BY DEF CompleteScan, Finished
<1>7. NoPhantomUse'
  <2> SUFFICES ASSUME NEW u \in active
               PROVE  \E p \in Partitions : \E i \in 1 .. pos[p] :
                        log'[p][i].state \in {"committed", "removed"} /\ u \in log'[p][i].uses
    BY DEF NoPhantomUse
  <2> PICK p \in Partitions : \E i \in 1 .. pos[p] :
             log[p][i].state \in {"committed", "removed"} /\ u \in log[p][i].uses
    BY DEF NoPhantomUse
  <2> PICK i \in 1 .. pos[p] :
             log[p][i].state \in {"committed", "removed"} /\ u \in log[p][i].uses
    OBVIOUS
  <2>1. i \in 1 .. Len(log[p])
    BY <1>1 DEF Decided, NoFetch
  <2>2. log'[p][i].state \in {"committed", "removed"} /\ u \in log'[p][i].uses
    BY <2>1 DEF LogEvolves
  <2> QED
    BY <2>2
<1> QED
  BY <1>2, <1>3, <1>4, <1>5, <1>6, <1>7

LEMMA EnvironmentIInv == IInv /\ Environment => IInv'
<1> SUFFICES ASSUME IInv, NEW p \in Partitions, Produce(p) \/ EndTransaction(p) \/ Remove(p)
             PROVE  IInv'
  BY DEF Environment
<1>1. UNCHANGED scanner /\ ~Finished
  BY DEF Produce, EndTransaction, Remove, scanner, history
<1>2. TypeOK' /\ LogEvolves
  BY ProduceEvolves, EndTransactionEvolves, RemoveEvolves DEF IInv
<1> QED
  BY <1>1, <1>2, EvolvingIInv

-----------------------------------------------------------------------------
LEMMA InitIInv == Init => IInv
<1> SUFFICES ASSUME Init PROVE IInv
  OBVIOUS
<1>1. TypeOK
  <2>1. << >> \in Seq(Entries) /\ Len(<< >>) = 0
    OBVIOUS
  <2>2. log \in [Partitions -> Seq(Entries)] /\ \A p \in Partitions : Len(log[p]) = 0
    BY <2>1 DEF Init
  <2>3. /\ next \in 0 .. NumPartitions
        /\ end \in [Partitions -> NoFetch .. MaxLen]
        /\ pos \in [Partitions -> 0 .. MaxLen]
        /\ begin \in [Partitions -> 0 .. MaxLen]
        /\ written \in [Partitions -> 0 .. MaxLen]
    BY ScanAssumption DEF Init, NoFetch
  <2>4. \A p \in Partitions : Len(log[p]) <= MaxLen
    BY <2>2, ScanAssumption
  <2> QED
    BY <2>2, <2>3, <2>4 DEF Init, TypeOK
<1>2. Decided /\ NotReading /\ ReadSoFar /\ EmptySoFar
  BY DEF Init, Decided, IsStable, NotReading, ReadSoFar, EmptySoFar, NoFetch
<1>3. CompleteScan /\ NoPhantomUse
  BY DEF Init, CompleteScan, NoPhantomUse
<1> QED
  BY <1>1, <1>2, <1>3 DEF IInv

(* Steps that only move the program on, and finish no scan.                *)
LEMMA MovingOn ==
  ASSUME IInv,
         pc' \in {"loop", "poll", "failed"},
         UNCHANGED <<next, totalMsg, broker, end, pos, eof, active, history>>,
         expired' \in BOOLEAN
  PROVE  IInv'
<1> USE DEF IInv, broker, history
<1>1. TypeOK' /\ Decided' /\ NotReading'
  BY DEF TypeOK, Decided, IsStable, NotReading
<1>2. ReadSoFar' /\ EmptySoFar' /\ CompleteScan' /\ NoPhantomUse'
  BY DEF ReadSoFar, EmptySoFar, CompleteScan, NoPhantomUse
<1> QED
  BY <1>1, <1>2

LEMMA SetupIInv == IInv /\ Setup => IInv'
<1> SUFFICES ASSUME IInv, Setup PROVE IInv'
  OBVIOUS
<1> USE DEF IInv, broker, history
<1>0. \A p \in Partitions : Len(log[p]) \in Nat /\ begin[p] \in Nat
  BY DEF TypeOK
<1>1. CASE GetMetadata
  <2> PICK b \in [Partitions -> 0 .. MaxLen] :
             (\A p \in Partitions : IsLSO(p, b[p])) /\ begin' = b
    BY <1>1 DEF GetMetadata
  <2>1. TypeOK'
    BY <1>0, <1>1, ScanAssumption DEF GetMetadata, TypeOK
  <2>2. \A p \in Partitions : end[p] = NoFetch
    BY <1>1 DEF GetMetadata, NotReading
  <2>3. Decided'
    BY <1>1, <2>2 DEF GetMetadata, Decided, IsLSO, IsStable
  <2>4. eof = {} /\ next = 0
    BY <1>1 DEF GetMetadata, NotReading
  <2>5. NotReading'
    BY <1>1, <2>2, <2>4 DEF GetMetadata, NotReading
  <2>6. ReadSoFar'
    BY <1>1, <2>4 DEF GetMetadata, ReadSoFar
  <2>7. EmptySoFar'
    BY <1>1, <2>4 DEF GetMetadata, EmptySoFar, Partitions
  <2>8. CompleteScan' /\ NoPhantomUse'
    BY <1>1 DEF GetMetadata, CompleteScan, NoPhantomUse
  <2> QED
    BY <2>1, <2>3, <2>5, <2>6, <2>7, <2>8
<1>2. CASE SetupFails
  BY <1>2, MovingOn DEF SetupFails, TypeOK
<1>3. CASE QueryWatermarks
  <2>1. next \in Partitions
    BY <1>3, ScanAssumption DEF QueryWatermarks, TypeOK, Partitions
  <2> PICK low \in Lows(next), high \in Highs(next) :
             low <= high /\ totalMsg' = totalMsg + (high - low)
    BY <1>3 DEF QueryWatermarks, Messages
  <2>2. low \in Nat /\ high \in Nat /\ totalMsg \in Nat /\ next \in Nat
    BY <1>0, <2>1, ScanAssumption DEF Lows, Highs, TypeOK
  <2>3. begin[next] <= high
    <3>1. begin[next] <= Len(log[next]) /\ IsStable(next, begin[next])
      BY <2>1 DEF Decided
    <3>2. CASE high = Len(log[next])
      BY <3>1, <3>2
    <3>3. CASE IsLSO(next, high)
      BY <1>0, <2>1, <2>2, <3>1, <3>3 DEF IsLSO, IsStable
    <3> QED
      BY <3>2, <3>3 DEF Highs
  <2>4. TypeOK'
    <3>1. totalMsg' \in Nat
      BY <2>2
    <3>2. next' \in 0 .. NumPartitions
      BY <1>3, <2>2, ScanAssumption DEF QueryWatermarks
    <3> QED
      BY <1>3, <3>1, <3>2 DEF QueryWatermarks, TypeOK
  <2>5. Decided' /\ NotReading' /\ ReadSoFar' /\ CompleteScan' /\ NoPhantomUse'
    BY <1>3 DEF QueryWatermarks, Decided, IsStable, NotReading, ReadSoFar, CompleteScan, NoPhantomUse
  <2>6. EmptySoFar'
    <3> SUFFICES ASSUME totalMsg' = 0, NEW p \in Partitions, p < next + 1,
                        NEW j \in 1 .. begin[p]
                 PROVE  log[p][j].state = "removed"
      BY <1>3 DEF QueryWatermarks, EmptySoFar
    <3>1. totalMsg = 0 /\ high = low
      BY <2>2
    <3>2. CASE p = next
      BY <1>0, <2>1, <2>2, <2>3, <3>1, <3>2 DEF Lows
    <3>3. CASE p < next
      BY <1>3, <3>1, <3>3 DEF QueryWatermarks, EmptySoFar
    <3> QED
      BY <2>2, <3>2, <3>3 DEF Partitions
  <2> QED
    BY <2>4, <2>5, <2>6
<1>4. CASE NoMessages
  <2>1. \A p \in Partitions : \A j \in 1 .. begin[p] : log[p][j].state = "removed"
    BY <1>4, ScanAssumption DEF NoMessages, EmptySoFar, Partitions
  <2>2. CompleteScan'
    BY <1>4, <2>1 DEF NoMessages, CompleteScan
  <2>3. TypeOK' /\ Decided' /\ NotReading' /\ ReadSoFar' /\ EmptySoFar' /\ NoPhantomUse'
    BY <1>4 DEF NoMessages, TypeOK, Decided, IsStable, NotReading, ReadSoFar, EmptySoFar, NoPhantomUse
  <2> QED
    BY <2>2, <2>3
<1>5. CASE Assign
  BY <1>5, MovingOn DEF Assign, TypeOK
<1> QED
  BY <1>1, <1>2, <1>3, <1>4, <1>5 DEF Setup

LEMMA LoopIInv == IInv /\ (Loop \/ Expire) => IInv'
<1> SUFFICES ASSUME IInv, Loop \/ Expire PROVE IInv'
  OBVIOUS
<1>1. CASE LoopDone
  <2>1. \A p \in Partitions : begin[p] <= pos[p]
    BY <1>1 DEF LoopDone, AllPartitionsReachedEOF, IInv, ReadSoFar
  <2>2. \A p \in Partitions : begin[p] \in Nat /\ pos[p] \in Nat
    BY DEF IInv, TypeOK
  <2>3. CompleteScan'
    BY <1>1, <2>1, <2>2 DEF LoopDone, broker, history, CompleteScan, IInv, ReadSoFar
  <2>4. TypeOK' /\ Decided' /\ NotReading' /\ ReadSoFar' /\ EmptySoFar' /\ NoPhantomUse'
    BY <1>1 DEF LoopDone, broker, history, IInv, TypeOK, Decided, IsStable, NotReading,
                ReadSoFar, EmptySoFar, NoPhantomUse
  <2> QED
    BY <2>3, <2>4 DEF IInv
<1>2. CASE LoopExpired
  BY <1>2, MovingOn DEF LoopExpired, IInv, TypeOK
<1>3. CASE LoopPoll
  BY <1>3, MovingOn DEF LoopPoll, IInv, TypeOK
<1>4. CASE Expire
  BY <1>4, MovingOn DEF Expire
<1> QED
  BY <1>1, <1>2, <1>3, <1>4 DEF Loop

LEMMA FetchIInv == ASSUME NEW p \in Partitions PROVE IInv /\ Fetch(p) => IInv'
<1> SUFFICES ASSUME IInv, Fetch(p) PROVE IInv'
  OBVIOUS
<1> USE DEF IInv, broker, history
<1> PICK n \in 0 .. Len(log[p]) : IsLSO(p, n) /\ end[p] < n /\ end' = [end EXCEPT ![p] = n]
  BY DEF Fetch
<1>1. \A q \in Partitions : /\ Len(log[q]) \in Nat /\ Len(log[q]) <= MaxLen
                            /\ end[q] \in Int /\ begin[q] \in Nat /\ pos[q] \in Nat
  BY DEF TypeOK, NoFetch
<1>2. TypeOK'
  BY <1>1, ScanAssumption DEF Fetch, TypeOK, NoFetch
<1>3. begin[p] <= n
  BY <1>1 DEF Decided, IsLSO, IsStable
<1>4. Decided'
  BY <1>1, <1>3 DEF Fetch, TypeOK, Decided, IsLSO, IsStable
<1>5. NotReading' /\ ReadSoFar' /\ EmptySoFar' /\ CompleteScan' /\ NoPhantomUse'
  BY DEF Fetch, NotReading, ReadSoFar, EmptySoFar, CompleteScan, NoPhantomUse
<1> QED
  BY <1>2, <1>4, <1>5

LEMMA PollIInv == IInv /\ Poll => IInv'
<1> SUFFICES ASSUME IInv, Poll PROVE IInv'
  OBVIOUS
<1> USE DEF IInv, broker, history
<1>0. \A q \in Partitions : /\ Len(log[q]) \in Nat /\ Len(log[q]) <= MaxLen
                            /\ end[q] \in Int /\ begin[q] \in Nat /\ pos[q] \in Nat
  BY DEF TypeOK, NoFetch
<1>1. ASSUME NEW p \in Partitions, PollMessage(p) PROVE IInv'
  <2> PICK i \in pos[p] + 1 .. end[p] :
             /\ Deliverable(p, i)
             /\ \A j \in pos[p] + 1 .. i - 1 : ~Deliverable(p, j)
             /\ pos' = [pos EXCEPT ![p] = i]
             /\ active' = active \cup log[p][i].uses
    BY <1>1 DEF PollMessage
  <2>1. i \in 1 .. Len(log[p]) /\ i \in Nat
    BY <1>0 DEF Decided
  <2>2. log[p][i].uses \subseteq Uses
    <3>1. log[p] \in Seq(Entries)
      BY DEF TypeOK
    <3>2. log[p][i] \in Entries
      BY <2>1, <3>1
    <3> QED
      BY <3>2 DEF Entries
  <2>3. TypeOK'
    BY <1>0, <1>1, <2>1, <2>2, ScanAssumption DEF PollMessage, TypeOK
  <2>4. Decided' /\ NotReading'
    BY <1>0, <1>1, <2>1 DEF PollMessage, TypeOK, Decided, IsStable, NotReading
  <2>5. ReadSoFar'
    <3> SUFFICES ASSUME NEW q \in Partitions
                 PROVE  /\ \A j \in 1 .. pos'[q] :
                              log[q][j].state = "committed" => log[q][j].uses \subseteq active'
                        /\ q \in eof => begin[q] <= pos'[q]
      BY <1>1 DEF PollMessage, ReadSoFar
    <3>1. CASE q # p
      BY <3>1 DEF ReadSoFar, TypeOK
    <3>2. CASE q = p
      <4>1. pos'[p] = i
        BY DEF TypeOK
      <4>2. \A j \in 1 .. i : j \in 1 .. pos[p] \/ j \in pos[p] + 1 .. i - 1 \/ j = i
        BY <1>0, <2>1
      <4>3. \A j \in 1 .. i : log[p][j].state = "committed" => log[p][j].uses \subseteq active'
        BY <4>2 DEF ReadSoFar, Deliverable
      <4>4. p \in eof => begin[p] <= i
        BY <1>0, <2>1 DEF ReadSoFar
      <4> QED
        BY <3>2, <4>1, <4>3, <4>4
    <3> QED
      BY <3>1, <3>2
  <2>6. EmptySoFar' /\ CompleteScan'
    BY <1>1 DEF PollMessage, EmptySoFar, CompleteScan
  <2>7. NoPhantomUse'
    <3> SUFFICES ASSUME NEW u \in active'
                 PROVE  \E q \in Partitions : \E j \in 1 .. pos'[q] :
                          log[q][j].state \in {"committed", "removed"} /\ u \in log[q][j].uses
      BY <1>1 DEF PollMessage, NoPhantomUse
    <3>1. CASE u \in active
      <4> PICK q \in Partitions : \E j \in 1 .. pos[q] :
                 log[q][j].state \in {"committed", "removed"} /\ u \in log[q][j].uses
        BY <3>1 DEF NoPhantomUse
      <4> PICK j \in 1 .. pos[q] :
                 log[q][j].state \in {"committed", "removed"} /\ u \in log[q][j].uses
        OBVIOUS
      <4>1. pos'[q] \in Nat /\ pos[q] <= pos'[q]
        BY <1>0, <2>1 DEF TypeOK
      <4>2. j \in 1 .. pos'[q]
        BY <1>0, <4>1
      <4> QED
        BY <4>2
    <3>2. CASE u \in log[p][i].uses
      <4>1. i \in 1 .. pos'[p]
        BY <2>1 DEF TypeOK
      <4> QED
        BY <3>2, <4>1 DEF Deliverable
    <3> QED
      BY <3>1, <3>2
  <2> QED
    BY <2>3, <2>4, <2>5, <2>6, <2>7
<1>2. ASSUME NEW p \in Partitions, PollEOF(p) PROVE IInv'
  <2>0. /\ end[p] # NoFetch /\ pos[p] <= end[p]
        /\ \A j \in pos[p] + 1 .. end[p] : ~Deliverable(p, j)
        /\ pos' = [pos EXCEPT ![p] = end[p]]
        /\ eof' = eof \cup {p}
    BY <1>2 DEF PollEOF
  <2>1. begin[p] <= end[p] /\ end[p] \in 0 .. MaxLen
    BY <1>0, <2>0 DEF Decided, TypeOK, NoFetch
  <2>2. TypeOK'
    BY <1>2, <2>0, <2>1 DEF PollEOF, TypeOK
  <2>3. Decided' /\ NotReading'
    BY <1>0, <1>2, <2>0, <2>1 DEF PollEOF, TypeOK, Decided, IsStable, NotReading
  <2>4. ReadSoFar'
    <3> SUFFICES ASSUME NEW q \in Partitions
                 PROVE  /\ \A j \in 1 .. pos'[q] :
                              log[q][j].state = "committed" => log[q][j].uses \subseteq active
                        /\ q \in eof' => begin[q] <= pos'[q]
      BY <1>2 DEF PollEOF, ReadSoFar
    <3>1. CASE q # p
      BY <2>0, <3>1 DEF ReadSoFar, TypeOK
    <3>2. CASE q = p
      <4>1. pos'[p] = end[p]
        BY <2>0 DEF TypeOK
      <4>2. \A j \in 1 .. end[p] : j \in 1 .. pos[p] \/ j \in pos[p] + 1 .. end[p]
        BY <1>0, <2>1
      <4>3. \A j \in 1 .. end[p] : log[p][j].state = "committed" => log[p][j].uses \subseteq active
        BY <2>0, <4>2 DEF ReadSoFar, Deliverable
      <4> QED
        BY <2>1, <3>2, <4>1, <4>3
    <3> QED
      BY <3>1, <3>2
  <2>5. EmptySoFar' /\ CompleteScan'
    BY <1>2 DEF PollEOF, EmptySoFar, CompleteScan
  <2>6. \A q \in Partitions : pos'[q] \in Nat /\ pos[q] <= pos'[q]
    BY <1>0, <2>0, <2>1 DEF TypeOK
  <2>7. NoPhantomUse'
    BY <1>0, <1>2, <2>6 DEF PollEOF, NoPhantomUse
  <2> QED
    BY <2>2, <2>3, <2>4, <2>5, <2>7
<1>3. CASE PollQuiet
  BY <1>3, MovingOn DEF PollQuiet, TypeOK
<1>4. CASE PollTerminalError
  BY <1>4, MovingOn DEF PollTerminalError, TypeOK
<1> QED
  BY <1>1, <1>2, <1>3, <1>4 DEF Poll

LEMMA StepIInv == IInv /\ [Next]_vars => IInv'
<1>1. ASSUME IInv, UNCHANGED vars PROVE IInv'
  BY <1>1 DEF vars, IInv, TypeOK, Decided, IsStable, NotReading, ReadSoFar, EmptySoFar,
              CompleteScan, NoPhantomUse
<1> QED
  BY <1>1, SetupIInv, LoopIInv, PollIInv, FetchIInv, EnvironmentIInv DEF Next

LEMMA SpecIInv == Spec => []IInv
BY InitIInv, StepIInv, PTL DEF Spec

-----------------------------------------------------------------------------
(* Every reachable state of a scan has the declared types.                 *)
THEOREM TypeCorrect == Spec => []TypeOK
BY SpecIInv, PTL DEF IInv

(* A scan that returns without an error has read every committed message   *)
(* that was readable when it began and is still there, however the log     *)
(* grew, was decided or was compacted meanwhile.                           *)
THEOREM Complete == Spec => []CompleteScan
BY SpecIInv, PTL DEF IInv

(* Only an undecided transaction hides messages from a scan: without one in *)
(* the topic when it began, it has read "all messages" (pkg/consumer.go).   *)
THEOREM OnlyUndecidedHide == Spec => [](begin = written => AllMessagesScanned)
<1>1. CompleteScan => (begin = written => AllMessagesScanned)
  BY DEF CompleteScan, AllMessagesScanned
<1> QED
  BY <1>1, Complete, PTL

(* A scan reports only uses of messages that were committed.               *)
THEOREM NoPhantom == Spec => []NoPhantomUse
BY SpecIInv, PTL DEF IInv
=============================================================================
