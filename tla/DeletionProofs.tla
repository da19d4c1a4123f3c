--------------------------- MODULE DeletionProofs ---------------------------
(***************************************************************************)
(* Proofs about Deletion, for every manifest, registry and number of       *)
(* crashes: what the list of a run holds, that nothing is deleted without  *)
(* consent, and what a soft deletion has achieved when it ends.            *)
(***************************************************************************)
EXTENDS Deletion, SequenceTheorems, WellFoundedInduction, TLAPS

\* Induction for a set in place of a predicate: the least natural outside the
\* set would have a predecessor in it.
LEMMA NatSetInduction ==
  ASSUME NEW S \in SUBSET Nat, 0 \in S, \A n \in S : n + 1 \in S
  PROVE  S = Nat
<1> SUFFICES ASSUME Nat \ S # {} PROVE FALSE
  OBVIOUS
<1> DEFINE R == OpToRel(<, Nat)
           T == Nat \ S
<1>1. IsWellFoundedOn(R, Nat)
  BY NatLessThanWellFounded
<1>2. \A x, y \in Nat : x < y => <<x, y>> \in R
  BY DEF OpToRel
<1>3. T \subseteq Nat /\ T # {} /\ \A n \in Nat : n \in T <=> n \notin S
  OBVIOUS
<1> HIDE DEF R, T
<1>4. PICK x \in T : \A y \in T : ~(<<y, x>> \in R)
  BY <1>1, <1>3, WFMin
<1>5. x # 0 /\ x - 1 \in Nat /\ x - 1 < x
  BY <1>3, <1>4
<1>6. x - 1 \in S
  BY <1>2, <1>3, <1>4, <1>5
<1>7. (x - 1) + 1 \in S /\ (x - 1) + 1 = x
  BY <1>3, <1>4, <1>6
<1> QED
  BY <1>3, <1>4, <1>7

\* The recursive function of KeysWith, up to the m-th candidate.
IsKeysFunction(f, m, statuses) ==
    f = [n \in 0 .. m |->
           IF n = 0 THEN << >>
           ELSE IF manifest.candidates[n].status \in statuses
                THEN Append(f[n - 1], manifest.candidates[n].key)
                ELSE f[n - 1]]

LEMMA KeysFunctionStep ==
  ASSUME NEW f, NEW m \in Nat, NEW statuses, IsKeysFunction(f, m, statuses)
  PROVE  /\ f[0] = << >>
         /\ \A n \in 1 .. m :
              f[n] = IF manifest.candidates[n].status \in statuses
                     THEN Append(f[n - 1], manifest.candidates[n].key)
                     ELSE f[n - 1]
<1> DEFINE body(n) == IF n = 0 THEN << >>
                      ELSE IF manifest.candidates[n].status \in statuses
                           THEN Append(f[n - 1], manifest.candidates[n].key)
                           ELSE f[n - 1]
<1>1. f = [n \in 0 .. m |-> body(n)]
  BY DEF IsKeysFunction
<1> HIDE DEF body
<1>2. \A n \in 0 .. m : f[n] = body(n)
  BY <1>1
<1>3. 0 \in 0 .. m /\ \A n \in 1 .. m : n \in 0 .. m /\ n # 0
  OBVIOUS
<1> QED
  BY <1>2, <1>3 DEF body

LEMMA KeysFunctionExists ==
  ASSUME NEW statuses, NEW N \in Nat
  PROVE  \E f : IsKeysFunction(f, N, statuses)
<1> DEFINE S == {m \in Nat : \E f : IsKeysFunction(f, m, statuses)}
<1>1. 0 \in S
  <2> DEFINE f == [n \in 0 .. 0 |-> << >>]
  <2>1. IsKeysFunction(f, 0, statuses)
    BY DEF IsKeysFunction
  <2> QED
    BY <2>1
<1>2. ASSUME NEW m \in S PROVE m + 1 \in S
  <2>1. PICK f : IsKeysFunction(f, m, statuses)
    OBVIOUS
  <2>2. m \in Nat
    OBVIOUS
  <2> DEFINE next == IF manifest.candidates[m + 1].status \in statuses
                     THEN Append(f[m], manifest.candidates[m + 1].key)
                     ELSE f[m]
             g == [n \in 0 .. m + 1 |-> IF n = m + 1 THEN next ELSE f[n]]
  <2>3. /\ f[0] = << >>
        /\ \A n \in 1 .. m :
             f[n] = IF manifest.candidates[n].status \in statuses
                    THEN Append(f[n - 1], manifest.candidates[n].key)
                    ELSE f[n - 1]
    BY <2>1, <2>2, KeysFunctionStep
  <2>4. ASSUME NEW n \in 0 .. m + 1
        PROVE  g[n] = IF n = 0 THEN << >>
                      ELSE IF manifest.candidates[n].status \in statuses
                           THEN Append(g[n - 1], manifest.candidates[n].key)
                           ELSE g[n - 1]
    <3>1. CASE n = 0
      BY <2>2, <2>3, <3>1
    <3>2. CASE n \in 1 .. m
      <4>1. g[n] = f[n] /\ g[n - 1] = f[n - 1] /\ n # 0
        BY <2>2, <3>2
      <4> HIDE DEF g
      <4> QED
        BY <2>3, <3>2, <4>1
    <3>3. CASE n = m + 1
      <4>1. g[n] = next /\ g[n - 1] = f[m] /\ n # 0
        BY <2>2, <3>3
      <4> HIDE DEF g
      <4> QED
        BY <3>3, <4>1
    <3> QED
      BY <2>2, <3>1, <3>2, <3>3
  <2>5. g = [n \in 0 .. m + 1 |-> g[n]]
    OBVIOUS
  <2> HIDE DEF g
  <2>6. IsKeysFunction(g, m + 1, statuses)
    BY <2>4, <2>5 DEF IsKeysFunction
  <2> QED
    BY <2>2, <2>6
<1>3. S = Nat
  <2> HIDE DEF S
  <2>1. S \in SUBSET Nat
    BY DEF S
  <2> QED
    BY <1>1, <1>2, <2>1, NatSetInduction
<1> QED
  BY <1>3

\* Every key of the list stands in the manifest, with one of the statuses.
Offers(keys, statuses) ==
    /\ keys \in Seq(Keys)
    /\ \A n \in DOMAIN keys : Statuses(keys[n]) \cap statuses # {}

LEMMA OffersAppend ==
  ASSUME NEW keys, NEW statuses, Offers(keys, statuses),
         NEW k \in Keys, Statuses(k) \cap statuses # {}
  PROVE  Offers(Append(keys, k), statuses)
<1>1. keys \in Seq(Keys)
  BY DEF Offers
<1>2. Append(keys, k) \in Seq(Keys) /\ Len(Append(keys, k)) = Len(keys) + 1 /\ Len(keys) \in Nat
  BY <1>1, AppendProperties, LenProperties
<1>3. ASSUME NEW n \in DOMAIN Append(keys, k) PROVE Statuses(Append(keys, k)[n]) \cap statuses # {}
  <2>1. n \in 1 .. Len(keys) + 1 /\ DOMAIN keys = 1 .. Len(keys)
    BY <1>1, <1>2, <1>3, LenProperties
  <2>2. CASE n \in 1 .. Len(keys)
    <3>1. Append(keys, k)[n] = keys[n]
      BY <1>1, <2>2, AppendProperties
    <3> QED
      BY <2>1, <2>2, <3>1 DEF Offers
  <2>3. CASE n = Len(keys) + 1
    <3>1. Append(keys, k)[n] = k
      BY <1>1, <2>3, AppendProperties
    <3> QED
      BY <3>1
  <2> QED
    BY <1>2, <2>1, <2>2, <2>3
<1> QED
  BY <1>2, <1>3 DEF Offers

LEMMA OffersConcat ==
  ASSUME NEW a, NEW b, NEW sa, NEW sb, Offers(a, sa), Offers(b, sb)
  PROVE  Offers(a \o b, sa \cup sb)
<1>1. a \in Seq(Keys) /\ b \in Seq(Keys)
  BY DEF Offers
<1>2. a \o b \in Seq(Keys) /\ Len(a \o b) = Len(a) + Len(b)
  BY <1>1, ConcatProperties
<1>3. /\ DOMAIN (a \o b) = 1 .. Len(a) + Len(b) /\ Len(a) \in Nat /\ Len(b) \in Nat
      /\ DOMAIN a = 1 .. Len(a) /\ DOMAIN b = 1 .. Len(b)
  BY <1>1, <1>2, LenProperties
<1>4. ASSUME NEW n \in 1 .. Len(a) + Len(b)
      PROVE  Statuses((a \o b)[n]) \cap (sa \cup sb) # {}
  <2>1. CASE n <= Len(a)
    <3>1. n \in DOMAIN a /\ (a \o b)[n] = a[n]
      BY <1>1, <1>3, <2>1, ConcatProperties
    <3>2. Statuses(a[n]) \cap sa # {}
      BY <3>1 DEF Offers
    <3> QED
      BY <3>1, <3>2
  <2>2. CASE n > Len(a)
    <3>1. n - Len(a) \in DOMAIN b /\ (a \o b)[n] = b[n - Len(a)]
      BY <1>1, <1>3, <2>2, ConcatProperties
    <3>2. Statuses(b[n - Len(a)]) \cap sb # {}
      BY <3>1 DEF Offers
    <3> QED
      BY <3>1, <3>2
  <2> QED
    BY <1>3, <2>1, <2>2
<1> QED
  BY <1>2, <1>3, <1>4 DEF Offers

LEMMA KeysWithOffers ==
  ASSUME manifest \in Manifests, NEW statuses
  PROVE  Offers(KeysWith(statuses), statuses)
<1> DEFINE c == manifest.candidates
           N == Len(c)
           f == CHOOSE f : IsKeysFunction(f, N, statuses)
           S == {m \in Nat : m > N \/ Offers(f[m], statuses)}
<1>1. c \in Seq([key : Keys, status : StatusesIn(c)])
  BY DeletionAssumption
<1>2. N \in Nat /\ DOMAIN c = 1 .. N /\ \A n \in 1 .. N : c[n] \in [key : Keys, status : StatusesIn(c)]
  BY <1>1, LenProperties, ElementOfSeq
<1>3. KeysWith(statuses) = f[N]
  BY DEF KeysWith, IsKeysFunction
<1>4. IsKeysFunction(f, N, statuses)
  BY <1>2, KeysFunctionExists
<1> HIDE DEF f, N
<1>5. /\ f[0] = << >>
      /\ \A n \in 1 .. N : f[n] = IF c[n].status \in statuses
                                  THEN Append(f[n - 1], c[n].key) ELSE f[n - 1]
  BY <1>2, <1>4, KeysFunctionStep
<1>6. 0 \in S
  <2>1. Offers(<< >>, statuses)
    BY EmptySeq DEF Offers
  <2> QED
    BY <1>5, <2>1
<1>7. ASSUME NEW m \in S PROVE m + 1 \in S
  <2>1. CASE m + 1 > N
    BY <2>1
  <2>2. CASE m + 1 <= N
    <3>1. m + 1 \in 1 .. N /\ Offers(f[m], statuses) /\ (m + 1) - 1 = m
      BY <1>2, <2>2
    <3>2. f[m + 1] = IF c[m + 1].status \in statuses THEN Append(f[m], c[m + 1].key) ELSE f[m]
      <4> HIDE DEF c
      <4> QED
        BY <1>5, <3>1
    <3>3. CASE c[m + 1].status \in statuses
      <4>1. c[m + 1].key \in Keys
        BY <1>2, <3>1
      <4>2. c[m + 1].status \in Statuses(c[m + 1].key)
        BY <1>2, <3>1 DEF Statuses
      <4>3. Offers(Append(f[m], c[m + 1].key), statuses)
        BY <3>1, <3>3, <4>1, <4>2, OffersAppend
      <4>4. Offers(f[m + 1], statuses)
        BY <3>2, <3>3, <4>3
      <4> QED
        BY <4>4
    <3>4. CASE c[m + 1].status \notin statuses
      BY <3>1, <3>2, <3>4
    <3> QED
      BY <3>3, <3>4
  <2> QED
    BY <1>2, <2>1, <2>2
<1>8. S = Nat
  <2> HIDE DEF S
  <2>1. S \in SUBSET Nat
    BY DEF S
  <2> QED
    BY <1>6, <1>7, <2>1, NatSetInduction
<1> QED
  BY <1>2, <1>3, <1>8

-----------------------------------------------------------------------------
\* Before the list is made nothing has been deleted from it; then it holds what
\* the manifest offers, warned versions only when included.
Listing ==
    /\ pc \in {"loaded", "warned", "confirmSoft"} => i = 1
    /\ pc \in {"confirmSoft", "soft", "confirmHard", "hard"} =>
         Offers(deletable, IF force \/ "warned" \in consent
                           THEN {SafeStatus} \cup WarnStatuses ELSE {SafeStatus})

\* Nothing is under way that has not been agreed to.
Agreed ==
    /\ pc \notin {"idle", "loaded"} => ~IsRefused
    /\ pc = "soft" => force \/ "soft" \in consent
    /\ pc = "hard" => force \/ "hard" \in consent
    /\ pc \in {"confirmSoft", "soft"} => mode # "hard"
    /\ pc \in {"confirmHard", "hard"} => mode # "soft"

NoneLive == \A n \in DOMAIN deletable : state[deletable[n]] # "live"

\* The soft loop has passed the versions before its index.
Passed ==
    /\ pc = "soft" => \A n \in 1 .. i - 1 : state[deletable[n]] # "live"
    /\ pc \in {"confirmHard", "hard"} /\ mode = "full" => NoneLive
    /\ DoneMeansDeleted
    /\ pc # "idle" => result = "none"

IInv == TypeOK /\ Listing /\ Agreed /\ Passed

LEMMA InitIInv == Init => IInv
<1> SUFFICES ASSUME Init PROVE IInv
  OBVIOUS
<1>1. << >> \in Seq(Keys) /\ Len(<< >>) = 0
  BY EmptySeq
<1>2. TypeOK
  <2>0. MaxCrashes \in Nat
    BY DeletionAssumption
  <2>1. state \in [Keys -> {"live", "soft", "gone"}] /\ crashes \in 0 .. MaxCrashes
    BY <2>0 DEF Init
  <2>2. deletable \in Seq(Keys) /\ i \in 1 .. Len(deletable) + 1
    BY <1>1 DEF Init
  <2> QED
    BY <2>1, <2>2 DEF Init, TypeOK, Modes
<1>3. Listing /\ Agreed /\ Passed
  BY DEF Init, Listing, Agreed, Passed, DoneMeansDeleted
<1> QED
  BY <1>2, <1>3 DEF IInv

LEMMA StartIInv ==
  ASSUME IInv, NEW m \in Modes, NEW f \in BOOLEAN, NEW a \in BOOLEAN, Start(m, f, a)
  PROVE  IInv'
<1>1. << >> \in Seq(Keys) /\ Len(<< >>) = 0
  BY EmptySeq
<1>2. TypeOK'
  BY <1>1 DEF IInv, TypeOK, Start, FirstIndex
<1>3. Listing' /\ Agreed' /\ Passed'
  BY DEF Start, FirstIndex, Listing, Agreed, Passed, DoneMeansDeleted
<1> QED
  BY <1>2, <1>3 DEF IInv

\* A run that ends keeps its list, and says so only when it has worked it off.
LEMMA StopIInv ==
  ASSUME IInv, NEW r \in {"done", "cancelled", "error"}, Stop(r),
         r = "done" => mode = "hard" \/ NoneLive
  PROVE  IInv'
<1>1. TypeOK'
  BY DEF IInv, TypeOK, Stop, flags
<1>2. Listing' /\ Agreed' /\ Passed'
  BY DEF Stop, flags, Listing, Agreed, Passed, DoneMeansDeleted, NoneLive
<1> QED
  BY <1>1, <1>2 DEF IInv

LEMMA ListsOffered ==
  ASSUME manifest \in Manifests
  PROVE  /\ Offers(Safe, {SafeStatus})
         /\ Offers(Safe \o Warned, {SafeStatus} \cup WarnStatuses)
BY KeysWithOffers, OffersConcat DEF Safe, Warned

LEMMA ProceedIInv ==
  ASSUME IInv, pc \in {"loaded", "warned"}, ~IsRefused, NEW d, Proceed(d),
         Offers(d, IF force \/ "warned" \in consent' THEN {SafeStatus} \cup WarnStatuses ELSE {SafeStatus}),
         consent' \subseteq {"warned", "soft", "hard"}
  PROVE  IInv'
<1>1. d \in Seq(Keys) /\ Len(d) \in Nat /\ DOMAIN d = 1 .. Len(d) /\ (d = << >> => Len(d) = 0)
  BY LenProperties, EmptySeq DEF Offers
<1>2. /\ manifest' = manifest /\ mode' = mode /\ force' = force /\ allow' = allow
      /\ state' = state /\ i' = 1 /\ crashes' = crashes /\ deletable' = d
  BY DEF Proceed, flags, IInv, Listing
<1>3. /\ pc' \in {"idle", "confirmSoft", "soft", "confirmHard", "hard"}
      /\ pc' = "idle" <=> d = << >>
      /\ pc' \in {"confirmSoft", "soft"} => mode # "hard"
      /\ pc' \in {"confirmHard", "hard"} => mode = "hard"
      /\ pc' \in {"soft", "hard"} => force
  BY DEF Proceed
<1>4. /\ result' = IF d = << >> THEN "done" ELSE "none"
  BY DEF Proceed, IInv, Passed
<1>5. TypeOK'
  BY <1>1, <1>2, <1>3, <1>4 DEF IInv, TypeOK
<1>6. Listing'
  <2>1. \A k : Statuses(k)' = Statuses(k)
    BY <1>2 DEF Statuses
  <2>2. ASSUME NEW keys, NEW statuses, Offers(keys, statuses) PROVE Offers(keys, statuses)'
    BY <2>1, <2>2 DEF Offers
  <2>3. PICK statuses : statuses = IF force \/ "warned" \in consent'
                                  THEN {SafeStatus} \cup WarnStatuses ELSE {SafeStatus}
    OBVIOUS
  <2>4. Offers(d, statuses)'
    BY <2>2, <2>3
  <2>5. deletable' = d /\ force' = force /\ i' = 1
    BY <1>2
  <2>6. Offers(deletable, IF force \/ "warned" \in consent
                          THEN {SafeStatus} \cup WarnStatuses ELSE {SafeStatus})'
    BY <2>3, <2>4, <2>5 DEF Offers
  <2> QED
    BY <1>3, <2>5, <2>6 DEF Listing
<1>7. Agreed'
  BY <1>2, <1>3 DEF Agreed, IsRefused, IInv, TypeOK, Modes
<1>8. Passed'
  BY <1>1, <1>2, <1>3, <1>4 DEF Passed, DoneMeansDeleted, NoneLive
<1> QED
  BY <1>5, <1>6, <1>7, <1>8 DEF IInv

LEMMA PlanIInv ==
  ASSUME IInv, Plan \/ IncludeWarned \/ ExcludeWarned
  PROVE  IInv'
<1>1. manifest \in Manifests /\ consent \subseteq {"warned", "soft", "hard"}
  BY DEF IInv, TypeOK
<1>2. CASE Plan /\ Warned # << >> /\ ~force
  <2>1. TypeOK'
    BY <1>2 DEF IInv, TypeOK, Plan, flags
  <2>2. Listing' /\ Agreed' /\ Passed'
    BY <1>2 DEF IInv, Plan, flags, Listing, Agreed, Passed, DoneMeansDeleted, IsRefused
  <2> QED
    BY <2>1, <2>2 DEF IInv
<1>3. CASE Plan /\ ~(Warned # << >> /\ ~force)
  <2>1. /\ pc = "loaded" /\ ~IsRefused /\ Proceed(Safe \o Warned) /\ consent' = consent
    BY <1>3 DEF Plan
  <2>2. CASE force
    BY <1>1, <2>1, <2>2, ListsOffered, ProceedIInv
  <2>3. CASE Warned = << >>
    <3>1. Safe \o Warned = Safe
      BY <1>1, <2>3, ListsOffered, ConcatEmptySeq DEF Offers
    <3>2. ASSUME NEW keys, NEW small, NEW large, small \subseteq large, Offers(keys, small)
          PROVE  Offers(keys, large)
      BY <3>2 DEF Offers
    <3>3. Offers(Safe, {SafeStatus}) /\ Offers(Safe, {SafeStatus} \cup WarnStatuses)
      BY <1>1, <3>2, ListsOffered
    <3> QED
      BY <1>1, <2>1, <3>1, <3>3, ProceedIInv
  <2> QED
    BY <1>3, <2>2, <2>3
<1>4. CASE IncludeWarned
  <2>1. pc = "warned" /\ consent' = consent \cup {"warned"} /\ Proceed(Safe \o Warned) /\ ~IsRefused
    BY <1>4 DEF IncludeWarned, IInv, Agreed
  <2> QED
    BY <1>1, <2>1, ListsOffered, ProceedIInv
<1>5. CASE ExcludeWarned
  <2>1. pc = "warned" /\ consent' = consent /\ Proceed(Safe) /\ ~IsRefused
    BY <1>5 DEF ExcludeWarned, IInv, Agreed
  <2>2. Offers(Safe, {SafeStatus}) /\ Offers(Safe, {SafeStatus} \cup WarnStatuses)
    BY <1>1, ListsOffered DEF Offers
  <2> QED
    BY <1>1, <2>1, <2>2, ProceedIInv
<1> QED
  BY <1>2, <1>3, <1>4, <1>5

\* A step of a loop: its list, its flags and its consent stay, and no version
\* becomes live again.
LoopStep ==
    /\ UNCHANGED <<flags, deletable, consent, crashes>>
    /\ \A k \in Keys : state[k] # "live" => state'[k] # "live"
    /\ state' \in [Keys -> {"live", "soft", "gone"}]

LEMMA DeleteType ==
  ASSUME TypeOK, NEW n \in DOMAIN deletable, NEW permanent \in BOOLEAN,
         Delete(deletable[n], permanent)
  PROVE  /\ state' \in [Keys -> {"live", "soft", "gone"}]
         /\ \A k \in Keys : state[k] # "live" => state'[k] # "live"
         /\ state'[deletable[n]] # "live"
<1>1. deletable[n] \in Keys
  BY ElementOfSeq, LenProperties DEF TypeOK
<1> QED
  BY <1>1 DEF TypeOK, Delete

LEMMA InList ==
  ASSUME TypeOK
  PROVE  /\ DOMAIN deletable = 1 .. Len(deletable) /\ Len(deletable) \in Nat
         /\ \A n \in DOMAIN deletable : deletable[n] \in Keys
BY ElementOfSeq, LenProperties DEF TypeOK

LEMMA InLoop ==
  ASSUME TypeOK, i <= Len(deletable)
  PROVE  i \in DOMAIN deletable /\ i \in Nat
<1>1. i \in 1 .. Len(deletable) + 1
  BY DEF TypeOK
<1> QED
  BY <1>1, InList

\* What has been passed stays passed.
LEMMA LoopStepKeeps ==
  ASSUME IInv, LoopStep
  PROVE  /\ NoneLive => NoneLive'
         /\ \A n \in DOMAIN deletable : state[deletable[n]] # "live" => state'[deletable'[n]] # "live"
         /\ pc \in {"soft", "confirmHard", "hard"} /\ pc' \in {"soft", "confirmHard", "hard"} => Listing'
         /\ IsRefused' = IsRefused
<1>1. deletable' = deletable /\ manifest' = manifest /\ force' = force /\ consent' = consent /\ allow' = allow
  BY DEF LoopStep, flags
<1>2. \A n \in DOMAIN deletable : deletable[n] \in Keys
  BY InList DEF IInv
<1>3. pc \in {"soft", "confirmHard", "hard"} /\ pc' \in {"soft", "confirmHard", "hard"} => Listing'
  BY <1>1 DEF IInv, Listing, Offers, Statuses
<1>4. IsRefused' = IsRefused
  BY <1>1 DEF IsRefused
<1> QED
  BY <1>1, <1>2, <1>3, <1>4 DEF LoopStep, NoneLive

LEMMA SoftIInv ==
  ASSUME IInv, SoftDelete \/ SoftDeleteFails
  PROVE  IInv'
<1>1. i \in DOMAIN deletable /\ i \in Nat
  BY InLoop DEF IInv, SoftDelete, SoftDeleteFails
<1>2. LoopStep
  BY <1>1, DeleteType DEF IInv, TypeOK, LoopStep, SoftDelete, SoftDeleteFails
<1>3. /\ manifest' = manifest /\ mode' = mode /\ force' = force /\ allow' = allow
      /\ consent' = consent /\ deletable' = deletable /\ crashes' = crashes
  BY <1>2 DEF LoopStep, flags
<1>4. CASE SoftDelete
  <2>1. i' = i + 1 /\ pc = "soft" /\ pc' = "soft" /\ result' = result /\ i' \in 1 .. Len(deletable) + 1
    BY <1>1, <1>4, InList DEF SoftDelete, IInv
  <2>2. state'[deletable[i]] # "live"
    BY <1>1, <1>4, DeleteType DEF SoftDelete, IInv
  <2>3. TypeOK'
    BY <1>2, <1>3, <2>1 DEF IInv, TypeOK, LoopStep
  <2>4. Listing' /\ Agreed'
    BY <1>2, <1>3, <2>1, LoopStepKeeps DEF IInv, Agreed
  <2>5. \A n \in 1 .. i' - 1 : state'[deletable'[n]] # "live"
    <3>1. \A n \in 1 .. i - 1 : n \in DOMAIN deletable /\ state[deletable[n]] # "live"
      BY <1>1, <2>1, InList DEF IInv, Passed
    <3>2. \A n \in 1 .. i' - 1 : n \in 1 .. i - 1 \/ n = i
      BY <1>1, <2>1
    <3> QED
      BY <1>2, <1>3, <2>2, <3>1, <3>2, LoopStepKeeps
  <2>6. Passed'
    BY <2>1, <2>5 DEF IInv, Passed, DoneMeansDeleted
  <2> QED
    BY <2>3, <2>4, <2>6 DEF IInv
<1>5. CASE SoftDeleteFails
  <2>1. pc' = "idle" /\ result' = "error" /\ i' = i
    BY <1>5 DEF SoftDeleteFails
  <2>2. TypeOK'
    BY <1>2, <1>3, <2>1 DEF IInv, TypeOK, LoopStep
  <2>3. Listing' /\ Agreed' /\ Passed'
    BY <2>1 DEF Listing, Agreed, Passed, DoneMeansDeleted
  <2> QED
    BY <2>2, <2>3 DEF IInv
<1> QED
  BY <1>4, <1>5

LEMMA SoftDoneIInv ==
  ASSUME IInv, SoftDone
  PROVE  IInv'
<1>1. /\ pc = "soft" /\ i = Len(deletable) + 1 /\ state' = state /\ mode # "hard"
      /\ UNCHANGED <<flags, deletable, consent, crashes>>
  BY DEF SoftDone, SoftLoopEnds, IInv, Agreed
<1>2. NoneLive
  BY <1>1, InList DEF IInv, Passed, NoneLive
<1>3. LoopStep
  BY <1>1 DEF LoopStep, IInv, TypeOK
<1>4. /\ manifest' = manifest /\ mode' = mode /\ force' = force /\ allow' = allow
      /\ consent' = consent /\ deletable' = deletable /\ crashes' = crashes
  BY <1>1 DEF flags
<1>5. /\ i' \in 1 .. Len(deletable) + 1
      /\ \/ mode = "soft" /\ pc' = "idle" /\ result' = "done"
         \/ mode = "full" /\ pc' = "hard" /\ force /\ result' = result
         \/ mode = "full" /\ pc' = "confirmHard" /\ result' = result
  BY <1>1, InList DEF SoftDone, IInv, TypeOK, Modes
<1>6. TypeOK'
  BY <1>1, <1>4, <1>5 DEF IInv, TypeOK
<1>7. Listing'
  BY <1>1, <1>3, <1>5, LoopStepKeeps DEF Listing
<1>8. Agreed'
  BY <1>1, <1>3, <1>4, <1>5, LoopStepKeeps DEF IInv, Agreed
<1>9. Passed'
  BY <1>1, <1>2, <1>3, <1>4, <1>5, LoopStepKeeps DEF IInv, Passed, NoneLive, DoneMeansDeleted
<1> QED
  BY <1>6, <1>7, <1>8, <1>9 DEF IInv

LEMMA HardIInv ==
  ASSUME IInv, HardDeleteFails \/ \E k \in Keys : HardDelete(k)
  PROVE  IInv'
<1>1. i \in DOMAIN deletable /\ i \in Nat
  BY InLoop DEF IInv, HardDelete, HardDeleteFails
<1>2. /\ pc = "hard" /\ pc' = "hard" /\ result' = result /\ i' = i + 1
      /\ UNCHANGED <<flags, deletable, consent, crashes>>
      /\ state' = state \/ Delete(deletable[i], TRUE)
  BY DEF HardDelete, HardDeleteFails
<1>3. LoopStep
  BY <1>1, <1>2, DeleteType DEF IInv, TypeOK, LoopStep
<1>4. /\ manifest' = manifest /\ mode' = mode /\ force' = force /\ allow' = allow
      /\ consent' = consent /\ deletable' = deletable /\ crashes' = crashes
  BY <1>2 DEF flags
<1>5. i' \in 1 .. Len(deletable) + 1
  BY <1>1, <1>2, InList DEF IInv
<1>6. TypeOK'
  BY <1>2, <1>3, <1>4, <1>5 DEF IInv, TypeOK, LoopStep
<1>7. Listing' /\ Agreed'
  BY <1>2, <1>3, <1>4, LoopStepKeeps DEF IInv, Agreed
<1>8. Passed'
  BY <1>2, <1>3, <1>4, LoopStepKeeps DEF IInv, Passed, DoneMeansDeleted
<1> QED
  BY <1>6, <1>7, <1>8 DEF IInv

LEMMA ConfirmIInv ==
  ASSUME IInv, Confirm
  PROVE  IInv'
<1>1. /\ pc' = IF pc = "confirmSoft" THEN "soft" ELSE "hard"
      /\ pc \in {"confirmSoft", "confirmHard"} /\ consent' = consent \cup {pc'}
      /\ UNCHANGED <<manifest, mode, force, allow, state, deletable, i, result, crashes>>
  BY DEF Confirm, flags
<1>2. TypeOK'
  BY <1>1 DEF IInv, TypeOK
<1>3. Listing'
  BY <1>1 DEF IInv, Listing, Offers, Statuses
<1>4. Agreed'
  BY <1>1 DEF IInv, Agreed, IsRefused
<1>5. Passed'
  BY <1>1 DEF IInv, TypeOK, Listing, Passed, NoneLive, DoneMeansDeleted
<1> QED
  BY <1>2, <1>3, <1>4, <1>5 DEF IInv

LEMMA CrashIInv ==
  ASSUME IInv, Crash
  PROVE  IInv'
<1>1. TypeOK'
  <2>1. crashes + 1 \in 0 .. MaxCrashes
    BY DeletionAssumption DEF IInv, TypeOK, Crash
  <2> QED
    BY <2>1 DEF IInv, TypeOK, Crash, flags
<1>2. Listing' /\ Agreed' /\ Passed'
  BY DEF Crash, Listing, Agreed, Passed, DoneMeansDeleted
<1> QED
  BY <1>1, <1>2 DEF IInv

LEMMA StutterIInv ==
  ASSUME IInv, UNCHANGED vars
  PROVE  IInv'
BY DEF vars, IInv, TypeOK, Listing, Offers, Statuses, Agreed, IsRefused, Passed, NoneLive, DoneMeansDeleted

LEMMA StepIInv ==
  ASSUME IInv, [Next]_vars
  PROVE  IInv'
<1>1. CASE RefuseUnverified \/ SetupFails \/ Decline \/ NoAnswer
  BY <1>1, StopIInv DEF RefuseUnverified, SetupFails, Decline, NoAnswer
<1>2. CASE HardDone
  <2>1. mode = "hard" \/ NoneLive
    BY <1>2 DEF HardDone, IInv, TypeOK, Modes, Agreed, Passed
  <2> QED
    BY <1>2, <2>1, StopIInv DEF HardDone
<1> QED
  BY <1>1, <1>2, StartIInv, PlanIInv, ConfirmIInv, SoftIInv, SoftDoneIInv, HardIInv, CrashIInv,
     StutterIInv DEF Next, Step, Prompted

LEMMA SpecIInv == Spec => []IInv
<1>1. IInv /\ [Next]_vars => IInv'
  BY StepIInv
<1> QED
  BY <1>1, InitIInv, PTL DEF Spec

-----------------------------------------------------------------------------
(* The list of a run holds keys of the manifest's candidates, and the index *)
(* of the next DELETE is in it or just behind it.                           *)
THEOREM TypeCorrect == Spec => []TypeOK
<1>1. IInv => TypeOK
  BY DEF IInv
<1> QED
  BY <1>1, SpecIInv, PTL

(* A soft or full run that reports success has left nothing of its list     *)
(* live, whatever failed or was killed before it.                           *)
THEOREM Done == Spec => []DoneMeansDeleted
<1>1. IInv => DoneMeansDeleted
  BY DEF IInv, Passed
<1> QED
  BY <1>1, SpecIInv, PTL

\* Every change of the registry is a step of one of the two loops.
LEMMA OnlyLoopsDelete ==
  ASSUME IInv, [Next]_vars, state' # state
  PROVE  \E n \in DOMAIN deletable :
           \/ pc = "soft" /\ Accepts(deletable[n], FALSE) /\ Delete(deletable[n], FALSE)
           \/ pc = "hard" /\ Accepts(deletable[n], TRUE) /\ Delete(deletable[n], TRUE)
<1>1. SoftDelete \/ SoftDeleteFails \/ HardDeleteFails \/ \E k \in Keys : HardDelete(k)
  BY DEF Next, Step, Prompted, Start, RefuseUnverified, SetupFails, Plan, IncludeWarned,
         ExcludeWarned, Confirm, Decline, NoAnswer, SoftDone, HardDone, Crash, Stop, Proceed, vars
<1>2. i \in DOMAIN deletable
  BY <1>1, InLoop DEF IInv, SoftDelete, SoftDeleteFails, HardDelete, HardDeleteFails
<1>3. \/ pc = "soft" /\ Accepts(deletable[i], FALSE) /\ Delete(deletable[i], FALSE)
      \/ pc = "hard" /\ Accepts(deletable[i], TRUE) /\ Delete(deletable[i], TRUE)
  BY <1>1 DEF SoftDelete, SoftDeleteFails, HardDelete, HardDeleteFails
<1> QED
  BY <1>2, <1>3

\* One version at a time, one step at a time, and one that was offered.
LEMMA DeletesOffered ==
  ASSUME IInv, [Next]_vars, state' # state
  PROVE  \E k \in Keys :
           /\ Statuses(k) \cap ({SafeStatus} \cup WarnStatuses) # {}
           /\ \/ state[k] = "live" /\ state' = [state EXCEPT ![k] = "soft"]
              \/ state[k] = "soft" /\ state' = [state EXCEPT ![k] = "gone"]
<1>1. PICK n \in DOMAIN deletable :
         \/ pc = "soft" /\ Accepts(deletable[n], FALSE) /\ Delete(deletable[n], FALSE)
         \/ pc = "hard" /\ Accepts(deletable[n], TRUE) /\ Delete(deletable[n], TRUE)
  BY OnlyLoopsDelete
<1>2. deletable[n] \in Keys
  BY InList DEF IInv
<1>3. Statuses(deletable[n]) \cap ({SafeStatus} \cup WarnStatuses) # {}
  BY <1>1 DEF IInv, Listing, Offers
<1> QED
  BY <1>1, <1>2, <1>3 DEF Accepts, Delete

(* Nothing is deleted that was not offered and agreed to.                  *)
THEOREM Consented == Spec => OnlyConsented
<1>1. ASSUME IInv, [Next]_vars, NEW k \in Keys, state'[k] # state[k]
      PROVE  /\ \/ SafeStatus \in Statuses(k)
                \/ Statuses(k) \cap WarnStatuses # {} /\ (force \/ "warned" \in consent)
             /\ force \/ (IF state'[k] = "gone" THEN "hard" ELSE "soft") \in consent
             /\ manifest.unverified => allow
  <2>1. PICK n \in DOMAIN deletable :
           \/ pc = "soft" /\ Delete(deletable[n], FALSE)
           \/ pc = "hard" /\ Delete(deletable[n], TRUE)
    BY <1>1, OnlyLoopsDelete
  <2>2. deletable[n] = k
    BY <1>1, <2>1 DEF Delete, IInv, TypeOK
  <2>3. state'[k] = IF pc = "hard" THEN "gone" ELSE "soft"
    BY <1>1, <2>1, <2>2 DEF Delete, IInv, TypeOK
  <2>4. Offers(deletable, IF force \/ "warned" \in consent
                          THEN {SafeStatus} \cup WarnStatuses ELSE {SafeStatus})
    BY <1>1, <2>1 DEF IInv, Listing
  <2>5. \/ SafeStatus \in Statuses(k)
        \/ Statuses(k) \cap WarnStatuses # {} /\ (force \/ "warned" \in consent)
    BY <2>2, <2>4 DEF Offers
  <2>6. force \/ (IF state'[k] = "gone" THEN "hard" ELSE "soft") \in consent
    BY <1>1, <2>1, <2>3 DEF IInv, Agreed
  <2>7. manifest.unverified => allow
    BY <1>1, <2>1 DEF IInv, Agreed, IsRefused
  <2> QED
    BY <2>5, <2>6, <2>7
<1>2. IInv /\ [Next]_vars =>
        [\A k \in Keys : state'[k] # state[k] =>
           /\ \/ SafeStatus \in Statuses(k)
              \/ Statuses(k) \cap WarnStatuses # {} /\ (force \/ "warned" \in consent)
           /\ force \/ (IF state'[k] = "gone" THEN "hard" ELSE "soft") \in consent
           /\ manifest.unverified => allow]_vars
  BY <1>1
<1> QED
  BY <1>2, SpecIInv, PTL DEF Spec, OnlyConsented

(* In full mode nothing is gone for good while another version of the list  *)
(* is live.                                                                 *)
THEOREM SoftFirst == Spec => PermanentAfterAllSoft
<1>1. ASSUME IInv, [Next]_vars, NEW k \in Keys, state'[k] = "gone", state[k] # "gone", mode = "full"
      PROVE  \A n \in DOMAIN deletable : state[deletable[n]] # "live"
  <2>1. PICK n \in DOMAIN deletable :
           \/ pc = "soft" /\ Delete(deletable[n], FALSE)
           \/ pc = "hard" /\ Delete(deletable[n], TRUE)
    BY <1>1, OnlyLoopsDelete
  <2>2. pc = "hard"
    BY <1>1, <2>1 DEF Delete, IInv, TypeOK
  <2> QED
    BY <1>1, <2>2 DEF IInv, Passed, NoneLive
<1>2. IInv /\ [Next]_vars =>
        [\A k \in Keys : state'[k] = "gone" /\ state[k] # "gone" /\ mode = "full" =>
           \A n \in DOMAIN deletable : state[deletable[n]] # "live"]_vars
  BY <1>1
<1> QED
  BY <1>2, SpecIInv, PTL DEF Spec, PermanentAfterAllSoft
=============================================================================
