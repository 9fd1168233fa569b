---------------------------- MODULE IoRingProofs ----------------------------
(***************************************************************************)
(* Proofs about IoRing, for groups and submission queues of any size and   *)
(* whichever calls fail: the records tell the truth, and the ring is a     *)
(* read service.                                                           *)
(***************************************************************************)
EXTENDS IoRing, CommonLemmas

(* An entry is in one place, once. *)
QueueInv == IsInjective(sq) /\ Range(sq) \cap inKernel = {}

(* What a record says of its job: the parts still in flight and those the   *)
(* slot has received; less when an old read has disturbed it.               *)
Truthful(rec, parts, got, clean) ==
    /\ rec.by = "none" => rec = FreshRecord /\ parts = {}
    /\ rec.by = "thread" => rec.pending <= 0
    /\ rec.by = "ring" => rec.owner = Part /\ (rec.done => rec.pending <= 0)
    /\ rec.ok => rec.done
    /\ clean =>
          /\ rec.by = "ring" =>
                /\ rec.pending \in (Cardinality(parts) - 1)..Cardinality(parts)
                /\ ~rec.failed => rec.pending = Cardinality(parts) /\ got \cup parts = Part
                /\ rec.ok => parts = {}
          /\ rec.done /\ rec.ok => got = Part

RecordInv ==
    \A j \in Job : Truthful(record[j], PendingParts(j), loaded[j], j \notin disturbed)

(* The reads of groups that are over. *)
PastInv ==
    /\ \A r \in InFlight : r[3] <= ordinal[r[1][1]]
    /\ ~abandoned =>
          /\ disturbed = {}
          /\ \A r \in InFlight : ~Old(r) /\ record[r[1]].by = "ring"

(* The records the inference thread has filled, and those it has waited for. *)
Unused(j) == \/ j[1] \notin live
             \/ j[2] > size[j[1]]
             \/ cpc = "submit" /\ j[1] = Filling /\ j[2] > sent

ClientInv ==
    /\ cpc \in {"idle", "closed"} => live = {}
    /\ cpc = "next" => live = {cur}
    /\ cpc \in {"submit", "compute", "drain"} => cur \in live
    /\ cpc = "submit" => sent < size[Filling]
    /\ \A b \in live : ordinal[b] # 0
    /\ cpc \in {"idle", "next", "submit", "closed"} => joined = {}
    /\ \A j \in Job : Unused(j) => record[j].by = "none"
    /\ \A j \in joined : j[1] = cur /\ record[j].done /\ record[j].ok

IInv == TypeOK /\ QueueInv /\ RecordInv /\ PastInv /\ ClientInv

-------------------------------------------------------------------------------
(* Sets of parts. *)

LEMMA PartsCounted ==
    ASSUME NEW P \in SUBSET Part
    PROVE  /\ Cardinality(P) \in 0..2
           /\ Cardinality(P) = 0 <=> P = {}
           /\ \A p \in P : Cardinality(P \ {p}) = Cardinality(P) - 1
           /\ Cardinality(P) = 1 => \A p \in P : P = {p}
<1>1. IsFiniteSet(Part) /\ Cardinality(Part) = 2
  <2>1. IsFiniteSet({"scales"}) /\ Cardinality({"scales"}) = 1
    BY FS_Singleton
  <2>2. Part = {"scales"} \cup {"weights"} /\ "weights" \notin {"scales"}
    BY DEF Part
  <2>3. /\ IsFiniteSet({"scales"} \cup {"weights"})
        /\ Cardinality({"scales"} \cup {"weights"}) = 2
    BY <2>1, <2>2, FS_AddElement
  <2> QED  BY <2>2, <2>3
<1>2. IsFiniteSet(P) /\ Cardinality(P) <= 2
  BY <1>1, FS_Subset
<1>3. Cardinality(P) \in Nat
  BY <1>2, FS_CardinalityType
<1>4. \A p \in P : Cardinality(P \ {p}) = Cardinality(P) - 1
  BY <1>2, FS_RemoveElement
<1>5. Cardinality(P) = 1 => \A p \in P : P = {p}
  BY <1>2, FS_Singleton
<1>6. Cardinality(P) = 0 <=> P = {}
  BY <1>2, FS_EmptySet
<1> QED  BY <1>2, <1>3, <1>4, <1>5, <1>6

LEMMA AllParts == Cardinality(Part) = 2
<1>1. "scales" \in Part /\ "weights" \in Part \ {"scales"} /\ Part \ {"scales"} = {"weights"}
  BY DEF Part
<1>2. Cardinality(Part \ {"scales"}) = Cardinality(Part) - 1 /\ Cardinality(Part) \in 0..2
  BY <1>1, PartsCounted
<1>3. Cardinality({"weights"}) = 1
  BY FS_Singleton
<1> QED  BY <1>1, <1>2, <1>3

-------------------------------------------------------------------------------
(* The queue and the kernel. *)

(* What io_uring_enter leaves: one more read in flight, each in one place.  *)
LEMMA WhenEntered ==
    ASSUME NEW q \in Seq(Read), IsInjective(q), NEW k \in SUBSET Read,
           Range(q) \cap k = {}, NEW r \in Read \ (Range(q) \cup k)
    PROVE  LET s == Entered(q, k, r) IN
           /\ s.sq \in Seq(Read) /\ IsInjective(s.sq) /\ Len(s.sq) = Len(q)
           /\ s.inKernel \in SUBSET Read
           /\ Range(s.sq) \cap s.inKernel = {}
           /\ Range(s.sq) \cup s.inKernel = Range(q) \cup k \cup {r}
<1> DEFINE a == Append(q, r)
<1>1. a \in Seq(Read) /\ IsInjective(a) /\ Range(a) = Range(q) \cup {r}
  BY AppendOfInjective
<1>2. Len(a) = Len(q) + 1 /\ Len(q) \in Nat
  BY AppendProperties, LenProperties
<1>3. a # <<>>
  BY <1>2, EmptySeq
<1> HIDE DEF a
<1>4. /\ Head(a) \in Read /\ Tail(a) \in Seq(Read) /\ IsInjective(Tail(a))
      /\ Range(a) = Range(Tail(a)) \cup {Head(a)}
      /\ Head(a) \notin Range(Tail(a))
  BY <1>1, <1>3, TailOfInjective
<1>5. Len(Tail(a)) = Len(q)
  BY <1>1, <1>2, <1>3, HeadTailProperties
<1>6. Entered(q, k, r) = [sq |-> Tail(a), inKernel |-> k \cup {Head(a)}]
  BY DEF Entered, a
<1>7. Head(a) \notin k /\ Range(Tail(a)) \cap k = {}
  BY <1>1, <1>4
<1>8. Range(Tail(a)) \cup (k \cup {Head(a)}) = Range(q) \cup k \cup {r}
  BY <1>1, <1>4
<1> QED  BY <1>4, <1>5, <1>6, <1>7, <1>8

LEMMA WhenNotEntered ==
    ASSUME NEW q \in Seq(Read), IsInjective(q), NEW k \in SUBSET Read,
           Range(q) \cap k = {}, NEW r \in Read \ (Range(q) \cup k)
    PROVE  LET s == NotEntered(q, k, r) IN
           /\ s.sq \in Seq(Read) /\ IsInjective(s.sq) /\ Len(s.sq) = Len(q) + 1
           /\ s.inKernel \in SUBSET Read
           /\ Range(s.sq) \cap s.inKernel = {}
           /\ Range(s.sq) \cup s.inKernel = Range(q) \cup k \cup {r}
<1>1. /\ Append(q, r) \in Seq(Read) /\ IsInjective(Append(q, r))
      /\ Range(Append(q, r)) = Range(q) \cup {r}
  BY AppendOfInjective
<1>2. Len(Append(q, r)) = Len(q) + 1
  BY AppendProperties
<1> QED  BY <1>1, <1>2 DEF NotEntered

-------------------------------------------------------------------------------
(* What each step does to the invariant. *)

LEMMA InitIInv == Init => IInv
<1> SUFFICES ASSUME Init  PROVE IInv
  OBVIOUS
<1>1. TypeOK
  <2>1. FreshRecord \in Record
    BY DEF FreshRecord, Record
  <2>2. record \in [Job -> Record] /\ loaded \in [Job -> SUBSET Part]
    BY <2>1 DEF Init
  <2>3. /\ cpc \in ClientState /\ cur \in Buffer /\ live \subseteq Buffer
        /\ joined \subseteq Job /\ computed \subseteq Job /\ disturbed \subseteq Job
    BY DEF Init, ClientState, Buffer
  <2>4. /\ ordinal \in [Buffer -> 0..MaxGroups] /\ size \in [Buffer -> 0..MaxTopk]
        /\ sent \in 0..MaxTopk
    BY MaxTopkAssumption, MaxGroupsAssumption DEF Init
  <2>5. sq \in Seq(Read) /\ Len(sq) <= SqEntries
    BY SqEntriesAssumption DEF Init
  <2> QED  BY <2>2, <2>3, <2>4, <2>5 DEF Init, TypeOK
<1>2. InFlight = {} /\ QueueInv
  BY DEF Init, InFlight, QueueInv, Range, IsInjective
<1>3. RecordInv
  BY <1>2 DEF Init, RecordInv, Truthful, PendingParts, FreshRecord
<1>4. ClientInv
  BY DEF Init, ClientInv, FreshRecord
<1>5. PastInv
  BY <1>2 DEF Init, PastInv
<1> QED  BY <1>1, <1>2, <1>3, <1>4, <1>5 DEF IInv

(* A cleared record says nothing of its job. *)
LEMMA FreshTruthful ==
    ASSUME NEW got, NEW clean
    PROVE  Truthful(FreshRecord, {}, got, clean)
  BY DEF Truthful, FreshRecord

(* A record is never written while its parts are in flight for the same use. *)
LEMMA CurrentFresh ==
    ASSUME IInv, cpc = "submit"
    PROVE  /\ Filling \in Buffer /\ Filling \in live /\ Current \in Job
           /\ sent + 1 \in 1..size[Filling]
           /\ record[Current] = FreshRecord
           /\ \A p \in Part : NewRead(p) \in Read \ InFlight
<1>1. Filling \in Buffer
  BY DEF IInv, TypeOK, Filling, Other, Buffer
<1>2. Filling \in live
  <2>1. cur \in live /\ live \subseteq {0, 1}
    BY DEF IInv, TypeOK, ClientInv, Buffer
  <2>2. CASE live = {cur}
    BY <2>2 DEF Filling
  <2>3. CASE live # {cur}
    <3>1. PICK x \in live : x # cur
      BY <2>1, <2>3
    <3>2. x = Other(cur)
      BY <2>1, <3>1 DEF Other
    <3> QED  BY <2>3, <3>1, <3>2 DEF Filling
  <2> QED  BY <2>2, <2>3
<1>3. sent + 1 \in 1..size[Filling] /\ size[Filling] \in 0..MaxTopk
  BY <1>1, MaxTopkAssumption DEF IInv, TypeOK, ClientInv
<1>4. Current \in Job /\ Current[1] = Filling
  BY <1>1, <1>3, MaxTopkAssumption DEF Current, Job
<1>5. Unused(Current)
  BY <1>3, MaxTopkAssumption DEF Unused, Current, IInv, TypeOK
<1>6. record[Current].by = "none"
  BY <1>4, <1>5 DEF IInv, ClientInv
<1>7. record[Current] = FreshRecord /\ PendingParts(Current) = {}
  BY <1>4, <1>6 DEF IInv, RecordInv, Truthful
<1>8. ordinal[Filling] \in 1..MaxGroups
  BY <1>1, <1>2, MaxGroupsAssumption DEF IInv, TypeOK, ClientInv
<1>9. ASSUME NEW p \in Part  PROVE NewRead(p) \in Read \ InFlight
  BY <1>2, <1>4, <1>7, <1>8 DEF NewRead, Read, PendingParts
<1> QED  BY <1>1, <1>2, <1>3, <1>4, <1>7, <1>9

LEMMA SubmitStep ==
    ASSUME IInv, cpc = "submit", AfterSubmit,
           NEW rec \in Record, rec.by # "none",
           record' \in [Job -> Record], record'[Current] = rec,
           \A j \in Job \ {Current} : record'[j] = record[j],
           sq' \in Seq(Read), Len(sq') <= SqEntries, inKernel' \subseteq Read, QueueInv',
           NEW P \in SUBSET Part,
           InFlight' = InFlight \cup {NewRead(p) : p \in P},
           abandoned' \in BOOLEAN,
           ~abandoned' => ~abandoned /\ (P # {} => rec.by = "ring"),
           Truthful(rec, P, loaded[Current], Current \notin disturbed)
    PROVE  IInv'
<1>1. /\ Filling \in Buffer /\ Filling \in live /\ Current \in Job
      /\ sent + 1 \in 1..size[Filling] /\ record[Current] = FreshRecord
      /\ \A p \in Part : NewRead(p) \notin InFlight
  BY CurrentFresh
<1>2. sent \in Nat /\ size[Filling] \in 0..MaxTopk /\ Current = <<Filling, sent + 1>>
  BY <1>1, MaxTopkAssumption DEF IInv, TypeOK, Current
<1>3. TypeOK'
  <2>1. sent' \in 0..MaxTopk
    BY <1>1, <1>2, MaxTopkAssumption DEF AfterSubmit
  <2>2. cpc' \in ClientState
    BY DEF AfterSubmit, ClientState
  <2> QED  BY <2>1, <2>2 DEF IInv, TypeOK, AfterSubmit
<1>4. RecordInv'
  <2> SUFFICES ASSUME NEW j \in Job
               PROVE  Truthful(record'[j], PendingParts(j)', loaded'[j], j \notin disturbed')
    BY DEF RecordInv
  <2>1. loaded' = loaded /\ disturbed' = disturbed /\ live' = live /\ ordinal' = ordinal
    BY DEF AfterSubmit
  <2>2. CASE j = Current
    <3>1. PendingParts(Current) = {}
      BY <1>1 DEF PendingParts, NewRead, Current
    <3>2. PendingParts(j)' = P
      BY <1>1, <1>2, <2>1, <2>2, <3>1 DEF PendingParts, NewRead
    <3> QED  BY <2>1, <2>2, <3>2
  <2>3. CASE j # Current
    <3>1. PendingParts(j)' = PendingParts(j)
      BY <2>1, <2>3 DEF PendingParts, NewRead
    <3>2. Truthful(record[j], PendingParts(j), loaded[j], j \notin disturbed)
      BY DEF IInv, RecordInv
    <3> QED  BY <2>1, <2>3, <3>1, <3>2
  <2> QED  BY <2>2, <2>3
<1>5. ClientInv'
  <2>1. /\ cpc' \in {"submit", "next", "compute"}
        /\ cpc' = "submit" => sent' < size'[Filling']
        /\ cpc' = "next" => live' = {cur'}
        /\ cur' \in live' /\ joined' = {}
        /\ \A b \in live' : ordinal'[b] # 0
    <3>1. Filling' = Filling /\ size' = size /\ sent' = sent + 1
          /\ cur' = cur /\ live' = live /\ joined' = joined /\ ordinal' = ordinal
      BY DEF AfterSubmit, Filling
    <3> QED  BY <1>1, <1>2, <3>1 DEF IInv, ClientInv, AfterSubmit
  <2>2. ASSUME NEW j \in Job, Unused(j)'  PROVE record'[j].by = "none"
    <3>1. j = <<j[1], j[2]>> /\ j[2] \in Nat
      BY MaxTopkAssumption DEF Job
    <3>2. Filling' = Filling /\ size' = size /\ sent' = sent + 1 /\ live' = live
      BY DEF AfterSubmit, Filling
    <3>3. j # Current
      BY <1>1, <1>2, <2>2, <3>2 DEF Unused
    <3>4. Unused(j)
      BY <1>1, <1>2, <2>2, <3>1, <3>2 DEF Unused
    <3> QED  BY <3>3, <3>4 DEF IInv, ClientInv
  <2> QED  BY <2>1, <2>2 DEF ClientInv
<1>6. PastInv'
  <2>1. disturbed' = disturbed /\ live' = live /\ ordinal' = ordinal
    BY DEF AfterSubmit
  <2>2. ASSUME NEW r \in InFlight'
        PROVE  /\ r[3] <= ordinal[r[1][1]]
               /\ ~abandoned' => ~Old(r) /\ record'[r[1]].by = "ring"
    <3>1. CASE r \in InFlight
      <4>1. r \in Read
        BY <3>1 DEF InFlight, IInv, TypeOK, Range
      <4>2. r[1] \in Job
        BY <4>1 DEF Read
      <4>3. ~abandoned => r[1] # Current
        BY <1>1, <3>1 DEF IInv, PastInv, FreshRecord
      <4> QED  BY <3>1, <4>2, <4>3 DEF IInv, PastInv
    <3>2. CASE r \notin InFlight
      <4>1. PICK p \in P : r = NewRead(p)
        BY <3>2
      <4>2. r[1] = Current /\ r[1][1] = Filling /\ r[3] = ordinal[Filling]
        BY <4>1 DEF NewRead, Current
      <4>3. ordinal[Filling] \in Nat
        BY <1>1, MaxGroupsAssumption DEF IInv, TypeOK
      <4> QED  BY <1>1, <4>1, <4>2, <4>3 DEF Old
    <3> QED  BY <3>1, <3>2
  <2>3. \A r \in InFlight' : Old(r)' <=> Old(r)
    BY <2>1 DEF Old
  <2> QED  BY <2>1, <2>2, <2>3 DEF IInv, PastInv
<1> QED  BY <1>3, <1>4, <1>5, <1>6 DEF IInv

(* The ordinal of a new group is greater than that of any read in flight. *)
LEMMA BegunLast ==
    ASSUME IInv, Begun < MaxGroups
    PROVE  /\ Begun + 1 \in 1..MaxGroups
           /\ \A b \in Buffer : ordinal[b] <= Begun
           /\ \A r \in InFlight : r \in Read /\ r[1] \in Job /\ r[3] < Begun + 1
<1>1. ordinal[0] \in 0..MaxGroups /\ ordinal[1] \in 0..MaxGroups
  BY DEF IInv, TypeOK, Buffer
<1>2. Begun \in Nat /\ \A b \in Buffer : ordinal[b] <= Begun /\ ordinal[b] \in Nat
  BY <1>1, MaxGroupsAssumption DEF Begun, Buffer
<1>3. ASSUME NEW r \in InFlight  PROVE r \in Read /\ r[1] \in Job /\ r[3] < Begun + 1
  <2>1. r \in Read
    BY DEF InFlight, IInv, TypeOK, Range
  <2>2. r[1] \in Job /\ r[1][1] \in Buffer /\ r[3] \in Nat
    BY <2>1, MaxGroupsAssumption DEF Read, Job
  <2>3. r[3] <= ordinal[r[1][1]]
    BY DEF IInv, PastInv
  <2> QED  BY <1>2, <2>1, <2>2, <2>3
<1> QED  BY <1>2, <1>3, MaxGroupsAssumption

LEMMA BeginStep ==
    ASSUME IInv, NEW b \in Buffer, b \notin live, NEW n \in 1..MaxTopk, Begin(b, n),
           (live = {} /\ b = cur) \/ (live = {cur} /\ b = Other(cur)),
           cpc \in {"idle", "next"}
    PROVE  IInv'
<1>1. \A j \in Job : j[1] = b => record[j] = FreshRecord
  BY DEF IInv, ClientInv, Unused, RecordInv, Truthful
<1>2. \A j \in Job : record'[j] = record[j]
  BY <1>1 DEF Begin, Cleared
<1>3. \A j \in Job : j[1] # b =>
         /\ loaded'[j] = loaded[j]
         /\ (j \in disturbed' <=> j \in disturbed)
  BY DEF Begin, Cleared
<1>0. /\ Begun + 1 \in 1..MaxGroups
      /\ \A a \in Buffer : ordinal[a] <= Begun
      /\ \A r \in InFlight : r \in Read /\ r[1] \in Job /\ r[3] < Begun + 1
  BY BegunLast DEF Begin
<1>o. /\ ordinal \in [Buffer -> 0..MaxGroups] /\ ordinal'[b] = Begun + 1
      /\ \A a \in Buffer \ {b} : ordinal'[a] = ordinal[a]
      /\ live' = live \cup {b} /\ InFlight' = InFlight
  BY DEF Begin, IInv, TypeOK, InFlight, ringVars
<1>4. ASSUME NEW j \in Job
      PROVE  PendingParts(j)' = IF j[1] = b THEN {} ELSE PendingParts(j)
  <2>1. j[1] \in Buffer
    BY DEF Job
  <2>2. CASE j[1] = b
    <3>1. ASSUME NEW p \in Part  PROVE <<j, p, ordinal'[j[1]]>> \notin InFlight'
      <4> DEFINE r == <<j, p, ordinal'[j[1]]>>
      <4>1. r[3] = Begun + 1
        BY <1>o, <2>2
      <4>2. Begun + 1 \in Int
        BY <1>0
      <4> HIDE DEF r
      <4>3. r \notin InFlight
        BY <1>0, <4>1, <4>2
      <4> QED  BY <1>o, <4>3 DEF r
    <3> QED  BY <2>2, <3>1 DEF PendingParts
  <2>3. CASE j[1] # b
    BY <1>o, <2>1, <2>3 DEF PendingParts
  <2> QED  BY <2>2, <2>3
<1>5. TypeOK'
  <2>1. record' \in [Job -> Record]
    BY <1>2 DEF Begin, Cleared, IInv, TypeOK
  <2>2. loaded' \in [Job -> SUBSET Part] /\ disturbed' \subseteq Job
    BY DEF Begin, Cleared, IInv, TypeOK
  <2>3. size' \in [Buffer -> 0..MaxTopk] /\ sent' \in 0..MaxTopk
    BY MaxTopkAssumption DEF Begin, IInv, TypeOK
  <2>4. live' \subseteq Buffer /\ cpc' \in ClientState
    BY DEF Begin, IInv, TypeOK, ClientState
  <2>5. ordinal' \in [Buffer -> 0..MaxGroups]
    BY <1>0, <1>o, MaxGroupsAssumption DEF Begin
  <2> QED  BY <2>1, <2>2, <2>3, <2>4, <2>5 DEF Begin, ringVars, IInv, TypeOK
<1>6. QueueInv'
  BY DEF Begin, ringVars, IInv, QueueInv
<1>7. RecordInv'
  <2> SUFFICES ASSUME NEW j \in Job
               PROVE  Truthful(record'[j], PendingParts(j)', loaded'[j], j \notin disturbed')
    BY DEF RecordInv
  <2>1. Truthful(record[j], PendingParts(j), loaded[j], j \notin disturbed)
    BY DEF IInv, RecordInv
  <2>2. CASE j[1] = b
    <3>1. record'[j] = FreshRecord /\ PendingParts(j)' = {}
      BY <1>1, <1>2, <1>4, <2>2
    <3> QED  BY <3>1, FreshTruthful
  <2>3. CASE j[1] # b
    <3>1. PendingParts(j)' = PendingParts(j)
      BY <1>4, <2>3
    <3>2. /\ record'[j] = record[j] /\ loaded'[j] = loaded[j]
          /\ (j \in disturbed' <=> j \in disturbed)
      BY <1>2, <1>3, <2>3
    <3>3. CASE j \in disturbed
      BY <2>1, <3>1, <3>2, <3>3
    <3>4. CASE j \notin disturbed
      BY <2>1, <3>1, <3>2, <3>4
    <3> QED  BY <3>3, <3>4
  <2> QED  BY <2>2, <2>3
<1>8. ClientInv'
  <2>1. Filling' = b /\ cur' \in live' /\ cur' = cur /\ live' = live \cup {b}
    BY DEF Begin, Filling, IInv, TypeOK, Other, Buffer
  <2>2. cpc' = "submit" /\ sent' = 0 /\ size' = [size EXCEPT ![b] = n] /\ joined' = joined
    BY DEF Begin
  <2>3. size'[b] = n /\ 0 < n /\ joined' = {}
    BY <2>2, MaxTopkAssumption DEF IInv, TypeOK, ClientInv
  <2>4. ASSUME NEW j \in Job, Unused(j)'  PROVE record'[j].by = "none"
    <3>1. CASE j[1] = b
      BY <1>1, <1>2, <3>1 DEF FreshRecord
    <3>2. CASE j[1] # b
      <4>1. Unused(j)
        BY <2>1, <2>2, <2>4, <3>2 DEF Unused, IInv, TypeOK, Job
      <4> QED  BY <1>2, <4>1 DEF IInv, ClientInv
    <3> QED  BY <3>1, <3>2
  <2>5. \A a \in live' : ordinal'[a] # 0
    BY <1>0, <1>o DEF IInv, ClientInv, TypeOK
  <2> QED  BY <2>1, <2>2, <2>3, <2>4, <2>5 DEF ClientInv
<1>9. PastInv'
  <2>1. ASSUME NEW r \in InFlight
        PROVE  /\ r[3] <= ordinal'[r[1][1]]
               /\ ~abandoned => ~Old(r)' /\ record'[r[1]].by = "ring"
    <3>1. r \in Read /\ r[1] \in Job /\ r[1][1] \in Buffer /\ r[3] \in Nat
          /\ r[3] < Begun + 1 /\ r[3] <= ordinal[r[1][1]]
      BY <1>0, MaxGroupsAssumption DEF IInv, PastInv, Read, Job
    <3>2. CASE r[1][1] = b
      <4>1. Old(r)
        BY <3>2 DEF Old
      <4>2. r[3] <= ordinal'[r[1][1]]
        BY <1>0, <1>o, <3>1, <3>2
      <4> QED  BY <4>1, <4>2 DEF IInv, PastInv
    <3>3. CASE r[1][1] # b
      BY <1>2, <1>o, <3>1, <3>3 DEF IInv, PastInv, Old
    <3> QED  BY <3>2, <3>3
  <2>2. abandoned' = abandoned /\ (disturbed = {} => disturbed' = {})
    BY DEF Begin
  <2> QED  BY <1>o, <2>1, <2>2 DEF IInv, PastInv
<1> QED  BY <1>5, <1>6, <1>7, <1>8, <1>9 DEF IInv

(* Two entries put on the ring, the second entered or not. *)
LEMMA BothWritten ==
    ASSUME IInv, cpc = "submit", Room(sq),
           NEW s, s = Entered(sq, inKernel, NewRead("scales")),
           NEW t, \/ t = Entered(s.sq, s.inKernel, NewRead("weights"))
                  \/ t = NotEntered(s.sq, s.inKernel, NewRead("weights")),
           Ring(t)
    PROVE  /\ sq' \in Seq(Read) /\ Len(sq') <= SqEntries /\ inKernel' \subseteq Read
           /\ QueueInv'
           /\ InFlight' = InFlight \cup {NewRead(p) : p \in Part}
<1> DEFINE scales == NewRead("scales")
           weights == NewRead("weights")
<1>1. scales \in Read \ InFlight /\ weights \in Read \ InFlight /\ scales # weights
  BY CurrentFresh DEF Part, NewRead
<1>2. /\ sq \in Seq(Read) /\ IsInjective(sq) /\ inKernel \in SUBSET Read
      /\ Range(sq) \cap inKernel = {} /\ Len(sq) + 1 <= SqEntries /\ Len(sq) \in Nat
  BY SqEntriesAssumption, LenProperties DEF IInv, TypeOK, QueueInv, Room
<1> HIDE DEF scales, weights
<1>3. /\ s.sq \in Seq(Read) /\ IsInjective(s.sq) /\ Len(s.sq) = Len(sq)
      /\ s.inKernel \in SUBSET Read /\ Range(s.sq) \cap s.inKernel = {}
      /\ Range(s.sq) \cup s.inKernel = InFlight \cup {scales}
  BY <1>1, <1>2, WhenEntered DEF InFlight, scales
<1>4. weights \in Read \ (Range(s.sq) \cup s.inKernel)
  BY <1>1, <1>3
<1>5. /\ t.sq \in Seq(Read) /\ IsInjective(t.sq) /\ Len(t.sq) \in {Len(sq), Len(sq) + 1}
      /\ t.inKernel \in SUBSET Read /\ Range(t.sq) \cap t.inKernel = {}
      /\ Range(t.sq) \cup t.inKernel = Range(s.sq) \cup s.inKernel \cup {weights}
  <2> DEFINE q == s.sq
             k == s.inKernel
  <2>1. /\ q \in Seq(Read) /\ IsInjective(q) /\ Len(q) = Len(sq) /\ k \in SUBSET Read
        /\ Range(q) \cap k = {} /\ weights \in Read \ (Range(q) \cup k)
    BY <1>3, <1>4
  <2>2. t = Entered(q, k, weights) \/ t = NotEntered(q, k, weights)
    BY DEF weights
  <2> HIDE DEF q, k
  <2>3. /\ t.sq \in Seq(Read) /\ IsInjective(t.sq)
        /\ Len(t.sq) = Len(q) \/ Len(t.sq) = Len(q) + 1
        /\ t.inKernel \in SUBSET Read /\ Range(t.sq) \cap t.inKernel = {}
        /\ Range(t.sq) \cup t.inKernel = Range(q) \cup k \cup {weights}
    <3>1. CASE t = Entered(q, k, weights)
      BY <2>1, <3>1, WhenEntered
    <3>2. CASE t = NotEntered(q, k, weights)
      BY <2>1, <3>2, WhenNotEntered
    <3> QED  BY <2>2, <3>1, <3>2
  <2> QED  BY <2>1, <2>3 DEF q, k
<1>6. sq' = t.sq /\ inKernel' = t.inKernel
  BY DEF Ring
<1>7. InFlight' = InFlight \cup {NewRead(p) : p \in Part}
  <2>1. {NewRead(p) : p \in Part} = {scales, weights}
    BY DEF scales, weights, Part
  <2> QED  BY <1>3, <1>5, <1>6, <2>1 DEF InFlight
<1>8. Len(t.sq) <= SqEntries
  BY <1>2, <1>5, SqEntriesAssumption
<1> QED  BY <1>5, <1>6, <1>7, <1>8 DEF QueueInv

(* What the submission of a job makes of its cleared record. *)
LEMMA RecordOfBoth ==
    [FreshRecord EXCEPT !.by = "ring", !.owner = Part, !.pending = 2]
    = [pending |-> 2, failed |-> FALSE, ok |-> FALSE, done |-> FALSE,
       by |-> "ring", owner |-> Part]
<1> DEFINE r == [FreshRecord EXCEPT !.by = "ring", !.owner = Part, !.pending = 2]
<1>1. r = [x \in {"pending", "failed", "ok", "done", "by", "owner"} |-> r[x]]
  BY DEF FreshRecord
<1>2. /\ r.pending = 2 /\ r.failed = FALSE /\ r.ok = FALSE /\ r.done = FALSE
      /\ r.by = "ring" /\ r.owner = Part
  BY DEF FreshRecord
<1> HIDE DEF r
<1>3. r = [pending |-> 2, failed |-> FALSE, ok |-> FALSE, done |-> FALSE,
       by |-> "ring", owner |-> Part]
  BY <1>1, <1>2
<1> QED  BY <1>3 DEF r

LEMMA RecordOfScales ==
    [FreshRecord EXCEPT !.by = "ring", !.owner = Part, !.pending = 1, !.failed = TRUE]
    = [pending |-> 1, failed |-> TRUE, ok |-> FALSE, done |-> FALSE,
       by |-> "ring", owner |-> Part]
<1> DEFINE r == [FreshRecord EXCEPT !.by = "ring", !.owner = Part, !.pending = 1, !.failed = TRUE]
<1>1. r = [x \in {"pending", "failed", "ok", "done", "by", "owner"} |-> r[x]]
  BY DEF FreshRecord
<1>2. /\ r.pending = 1 /\ r.failed = TRUE /\ r.ok = FALSE /\ r.done = FALSE
      /\ r.by = "ring" /\ r.owner = Part
  BY DEF FreshRecord
<1> HIDE DEF r
<1>3. r = [pending |-> 1, failed |-> TRUE, ok |-> FALSE, done |-> FALSE,
       by |-> "ring", owner |-> Part]
  BY <1>1, <1>2
<1> QED  BY <1>3 DEF r

LEMMA RecordOfThread ==
    ASSUME NEW owner
    PROVE  [FreshRecord EXCEPT !.by = "thread", !.owner = owner]
           = [pending |-> 0, failed |-> FALSE, ok |-> FALSE, done |-> FALSE,
       by |-> "thread", owner |-> owner]
<1> DEFINE r == [FreshRecord EXCEPT !.by = "thread", !.owner = owner]
<1>1. r = [x \in {"pending", "failed", "ok", "done", "by", "owner"} |-> r[x]]
  BY DEF FreshRecord
<1>2. /\ r.pending = 0 /\ r.failed = FALSE /\ r.ok = FALSE /\ r.done = FALSE
      /\ r.by = "thread" /\ r.owner = owner
  BY DEF FreshRecord
<1> HIDE DEF r
<1>3. r = [pending |-> 0, failed |-> FALSE, ok |-> FALSE, done |-> FALSE,
       by |-> "thread", owner |-> owner]
  BY <1>1, <1>2
<1> QED  BY <1>3 DEF r

LEMMA SubmitBothStep ==
    ASSUME IInv, SubmitBoth
    PROVE  IInv'
<1> DEFINE rec == [pending |-> 2, failed |-> FALSE, ok |-> FALSE, done |-> FALSE,
                   by |-> "ring", owner |-> Part]
<1>1. /\ cpc = "submit" /\ AfterSubmit /\ Current \in Job /\ record[Current] = FreshRecord
      /\ abandoned' = abandoned
  BY CurrentFresh DEF SubmitBoth
<1>2. /\ sq' \in Seq(Read) /\ Len(sq') <= SqEntries /\ inKernel' \subseteq Read
      /\ QueueInv'
      /\ InFlight' = InFlight \cup {NewRead(p) : p \in Part}
  BY BothWritten DEF SubmitBoth
<1>3. rec \in Record /\ rec.by = "ring"
  BY DEF Record
<1>4. /\ record' \in [Job -> Record] /\ record'[Current] = rec
      /\ \A j \in Job \ {Current} : record'[j] = record[j]
  <2> DEFINE c == Current
  <2>1. record' = [record EXCEPT ![c] = [FreshRecord EXCEPT !.by = "ring", !.owner = Part, !.pending = 2]]
    BY <1>1 DEF SubmitBoth, IInv, TypeOK
  <2>2. record' = [record EXCEPT ![c] = rec]
    BY <2>1, RecordOfBoth
  <2> HIDE DEF c, rec
  <2>3. record \in [Job -> Record] /\ c \in Job
    BY <1>1 DEF IInv, TypeOK, c
  <2>4. record' \in [Job -> Record] /\ record'[c] = rec /\ \A j \in Job \ {c} : record'[j] = record[j]
    BY <1>3, <2>2, <2>3
  <2> QED  BY <2>4 DEF c
<1>5. Truthful(rec, Part, loaded[Current], Current \notin disturbed)
  <2>1. loaded[Current] \cup Part = Part
    BY <1>1 DEF IInv, TypeOK
  <2>2. /\ rec.by = "ring" /\ rec.pending = 2 /\ rec.failed = FALSE /\ ~rec.done /\ ~rec.ok
        /\ rec.owner = Part
    OBVIOUS
  <2> QED  BY <2>1, <2>2, AllParts DEF Truthful
<1>6. abandoned \in BOOLEAN
  BY DEF IInv, TypeOK
<1> HIDE DEF rec
<1> QED  BY <1>1, <1>2, <1>3, <1>4, <1>5, <1>6, SubmitStep

LEMMA SubmitScalesOnlyStep ==
    ASSUME IInv, SubmitScalesOnly
    PROVE  IInv'
<1> DEFINE rec == [pending |-> 1, failed |-> TRUE, ok |-> FALSE, done |-> FALSE,
                   by |-> "ring", owner |-> Part]
<1>1. /\ cpc = "submit" /\ AfterSubmit /\ Current \in Job /\ record[Current] = FreshRecord
      /\ abandoned' = abandoned
  BY CurrentFresh DEF SubmitScalesOnly
<1>2. /\ sq' \in Seq(Read) /\ Len(sq') <= SqEntries /\ inKernel' \subseteq Read
      /\ QueueInv'
      /\ InFlight' = InFlight \cup {NewRead(p) : p \in Part}
  BY BothWritten DEF SubmitScalesOnly
<1>3. rec \in Record /\ rec.by = "ring"
  BY DEF Record
<1>4. /\ record' \in [Job -> Record] /\ record'[Current] = rec
      /\ \A j \in Job \ {Current} : record'[j] = record[j]
  <2> DEFINE c == Current
  <2>1. record' = [record EXCEPT ![c] = [FreshRecord EXCEPT !.by = "ring", !.owner = Part,
                                                                !.pending = 1, !.failed = TRUE]]
    BY <1>1 DEF SubmitScalesOnly, IInv, TypeOK
  <2>2. record' = [record EXCEPT ![c] = rec]
    BY <2>1, RecordOfScales
  <2> HIDE DEF c, rec
  <2>3. record \in [Job -> Record] /\ c \in Job
    BY <1>1 DEF IInv, TypeOK, c
  <2>4. record' \in [Job -> Record] /\ record'[c] = rec /\ \A j \in Job \ {c} : record'[j] = record[j]
    BY <1>3, <2>2, <2>3
  <2> QED  BY <2>4 DEF c
<1>5. Truthful(rec, Part, loaded[Current], Current \notin disturbed)
  <2>1. loaded[Current] \cup Part = Part
    BY <1>1 DEF IInv, TypeOK
  <2>2. /\ rec.by = "ring" /\ rec.pending = 1 /\ rec.failed = TRUE /\ ~rec.done /\ ~rec.ok
        /\ rec.owner = Part
    OBVIOUS
  <2> QED  BY <2>1, <2>2, AllParts DEF Truthful
<1>6. abandoned \in BOOLEAN
  BY DEF IInv, TypeOK
<1> HIDE DEF rec
<1> QED  BY <1>1, <1>2, <1>3, <1>4, <1>5, <1>6, SubmitStep

LEMMA SubmitThreadStep ==
    ASSUME IInv, SubmitThread
    PROVE  IInv'
<1>1. cpc = "submit" /\ AfterSubmit /\ Current \in Job /\ record[Current] = FreshRecord
  BY CurrentFresh DEF SubmitThread
<1>2. PICK owner \in {{}, {"scales"}} :
         /\ record' = [record EXCEPT ![Current] =
                           [@ EXCEPT !.by = "thread", !.owner = owner]]
         /\ \/ UNCHANGED <<ringVars, abandoned>>
            \/ /\ Room(sq) /\ abandoned' = TRUE
               /\ Ring(NotEntered(sq, inKernel, NewRead("scales")))
  BY DEF SubmitThread
<1> DEFINE rec == [pending |-> 0, failed |-> FALSE, ok |-> FALSE, done |-> FALSE,
                   by |-> "thread", owner |-> owner]
<1>3. rec \in Record /\ rec.by = "thread"
  BY DEF Record, Part
<1>4. /\ record' \in [Job -> Record] /\ record'[Current] = rec
      /\ \A j \in Job \ {Current} : record'[j] = record[j]
  <2> DEFINE c == Current
  <2>1. record' = [record EXCEPT ![c] = [FreshRecord EXCEPT !.by = "thread", !.owner = owner]]
    BY <1>1, <1>2 DEF IInv, TypeOK
  <2>2. record' = [record EXCEPT ![c] = rec]
    BY <2>1, RecordOfThread
  <2> HIDE DEF c, rec
  <2>3. record \in [Job -> Record] /\ c \in Job
    BY <1>1 DEF IInv, TypeOK, c
  <2>4. record' \in [Job -> Record] /\ record'[c] = rec /\ \A j \in Job \ {c} : record'[j] = record[j]
    BY <1>3, <2>2, <2>3
  <2> QED  BY <2>4 DEF c
<1>5. \A P : Truthful(rec, P, loaded[Current], Current \notin disturbed)
  <2>1. rec.by = "thread" /\ rec.pending = 0 /\ ~rec.done /\ ~rec.ok
    OBVIOUS
  <2> QED  BY <2>1 DEF Truthful
<1>6. CASE UNCHANGED <<ringVars, abandoned>>
  <2>1. /\ sq' \in Seq(Read) /\ Len(sq') <= SqEntries /\ inKernel' \subseteq Read
        /\ QueueInv' /\ InFlight' = InFlight \cup {NewRead(p) : p \in {}}
        /\ abandoned' \in BOOLEAN /\ abandoned' = abandoned
    BY <1>6 DEF ringVars, IInv, TypeOK, QueueInv, InFlight
  <2> DEFINE P == {}
  <2>2. /\ P \in SUBSET Part /\ InFlight' = InFlight \cup {NewRead(p) : p \in P}
        /\ Truthful(rec, P, loaded[Current], Current \notin disturbed)
        /\ (~abandoned' => ~abandoned /\ (P # {} => rec.by = "ring")) /\ rec.by # "none"
    BY <1>3, <1>5, <2>1
  <2> HIDE DEF rec, P
  <2> QED  BY <1>1, <1>3, <1>4, <2>1, <2>2, SubmitStep
<1>7. CASE /\ Room(sq) /\ abandoned' = TRUE
           /\ Ring(NotEntered(sq, inKernel, NewRead("scales")))
  <2> DEFINE r == NewRead("scales")
             t == NotEntered(sq, inKernel, r)
  <2>1. r \in Read \ InFlight
    BY <1>1, CurrentFresh DEF Part
  <2>2. /\ sq \in Seq(Read) /\ IsInjective(sq) /\ inKernel \in SUBSET Read
        /\ Range(sq) \cap inKernel = {} /\ Len(sq) + 1 <= SqEntries
    BY <1>7, SqEntriesAssumption, LenProperties DEF IInv, TypeOK, QueueInv, Room
  <2>3. sq' = t.sq /\ inKernel' = t.inKernel
    BY <1>7 DEF Ring
  <2>5. InFlight' = InFlight \cup {r} => InFlight' = InFlight \cup {NewRead(p) : p \in {"scales"}}
    OBVIOUS
  <2> HIDE DEF r
  <2>4. /\ t.sq \in Seq(Read) /\ IsInjective(t.sq) /\ Len(t.sq) = Len(sq) + 1
        /\ t.inKernel \in SUBSET Read /\ Range(t.sq) \cap t.inKernel = {}
        /\ Range(t.sq) \cup t.inKernel = InFlight \cup {r}
    BY <2>1, <2>2, WhenNotEntered DEF InFlight
  <2>6. /\ sq' \in Seq(Read) /\ Len(sq') <= SqEntries /\ inKernel' \subseteq Read
        /\ QueueInv' /\ InFlight' = InFlight \cup {r}
    BY <2>2, <2>3, <2>4 DEF QueueInv, InFlight
  <2>7. abandoned' \in BOOLEAN /\ abandoned' /\ {"scales"} \in SUBSET Part
    BY <1>7 DEF Part
  <2> HIDE DEF rec, t
  <2> QED  BY <1>1, <1>3, <1>4, <1>5, <2>5, <2>6, <2>7, SubmitStep
<1> QED  BY <1>2, <1>6, <1>7

(* One record changes, beside the queue. *)
LEMMA RecordStep ==
    ASSUME IInv, NEW j \in Job, NEW rec \in Record,
           record' = [record EXCEPT ![j] = rec],
           loaded' \in [Job -> SUBSET Part],
           \A i \in Job \ {j} :
              /\ loaded'[i] = loaded[i]
              /\ PendingParts(i)' = PendingParts(i)
              /\ (i \in disturbed' <=> i \in disturbed),
           disturbed' \subseteq Job, ~abandoned => disturbed' = {},
           Truthful(rec, PendingParts(j)', loaded'[j], j \notin disturbed'),
           rec.by = record[j].by,
           record[j].done /\ record[j].ok => rec.done /\ rec.ok,
           inKernel' \subseteq inKernel, UNCHANGED <<sq, cpc, clientVars, abandoned>>
    PROVE  IInv'
<1>1. /\ record' \in [Job -> Record] /\ record'[j] = rec
      /\ \A i \in Job \ {j} : record'[i] = record[i]
  BY DEF IInv, TypeOK
<1>2. TypeOK'
  BY <1>1 DEF IInv, TypeOK, clientVars
<1>3. QueueInv'
  BY DEF IInv, QueueInv
<1>4. RecordInv'
  <2> SUFFICES ASSUME NEW i \in Job
               PROVE  Truthful(record'[i], PendingParts(i)', loaded'[i], i \notin disturbed')
    BY DEF RecordInv
  <2>1. CASE i = j
    BY <1>1, <2>1
  <2>2. CASE i # j
    <3>1. Truthful(record[i], PendingParts(i), loaded[i], i \notin disturbed)
      BY DEF IInv, RecordInv
    <3>2. (i \in disturbed' <=> i \in disturbed)
      BY <2>2
    <3>3. CASE i \in disturbed
      BY <1>1, <2>2, <3>1, <3>2, <3>3 DEF Truthful
    <3>4. CASE i \notin disturbed
      BY <1>1, <2>2, <3>1, <3>2, <3>4
    <3> QED  BY <3>3, <3>4
  <2> QED  BY <2>1, <2>2
<1>5. \A i \in Job : /\ record'[i].by = record[i].by
                      /\ record[i].done /\ record[i].ok => record'[i].done /\ record'[i].ok
  BY <1>1
<1>6. ClientInv'
  <2>2. Filling' = Filling /\ \A i \in Job : Unused(i)' <=> Unused(i)
    BY DEF clientVars, Filling, Unused
  <2>3. joined \subseteq Job
    BY DEF IInv, TypeOK
  <2> QED  BY <1>5, <2>2, <2>3 DEF IInv, ClientInv, clientVars
<1>7. PastInv'
  <2>1. \A r \in InFlight' : r \in InFlight /\ r[1] \in Job
    BY DEF InFlight, IInv, TypeOK, Range, Read
  <2>2. live' = live /\ ordinal' = ordinal /\ \A r : Old(r)' <=> Old(r)
    BY DEF clientVars, Old
  <2> QED  BY <1>5, <2>1, <2>2 DEF IInv, PastInv
<1> QED  BY <1>2, <1>3, <1>4, <1>6, <1>7 DEF IInv

(* Something was written into the slot of a job, and nothing else changed. *)
LEMMA LateWriteStep ==
    ASSUME IInv, LateWrite
    PROVE  IInv'
<1>1. PICK r \in inKernel, j \in Job :
         /\ Old(r)
         /\ loaded' = [loaded EXCEPT ![j] = @ \ {r[2]}]
         /\ disturbed' = disturbed \cup {j}
  BY DEF LateWrite
<1>2. UNCHANGED <<ringVars, record, cpc, clientVars, abandoned>>
  BY DEF LateWrite
<1>3. abandoned
  BY <1>1 DEF IInv, PastInv, InFlight
<1>4. record[j] \in Record /\ Truthful(record[j], PendingParts(j), loaded[j], j \notin disturbed)
  BY DEF IInv, TypeOK, RecordInv
<1>5. \A i \in Job : PendingParts(i)' = PendingParts(i)
  BY <1>2 DEF PendingParts, InFlight, ringVars, clientVars
<1>6. /\ loaded' \in [Job -> SUBSET Part]
      /\ \A i \in Job \ {j} : loaded'[i] = loaded[i]
  BY <1>1 DEF IInv, TypeOK
<1>7. /\ disturbed' \subseteq Job
      /\ j \in disturbed' /\ \A i \in Job \ {j} : (i \in disturbed' <=> i \in disturbed)
  BY <1>1 DEF IInv, TypeOK
<1>8. Truthful(record[j], PendingParts(j)', loaded'[j], j \notin disturbed')
  BY <1>4, <1>5, <1>7 DEF Truthful
<1>9. record' = [record EXCEPT ![j] = record[j]]
  BY <1>2 DEF IInv, TypeOK
<1>10. inKernel' = inKernel /\ UNCHANGED <<sq, cpc, clientVars, abandoned>>
  BY <1>2 DEF ringVars
<1> DEFINE rec == record[j]
<1>11. rec \in Record /\ record' = [record EXCEPT ![j] = rec]
       /\ Truthful(rec, PendingParts(j)', loaded'[j], j \notin disturbed') /\ rec.by = record[j].by
       /\ (record[j].done /\ record[j].ok => rec.done /\ rec.ok)
  BY <1>4, <1>8, <1>9
<1> HIDE DEF rec
<1> QED  BY <1>3, <1>5, <1>6, <1>7, <1>10, <1>11, RecordStep

(* What a completion makes of a record. *)
LEMMA ReapedFields ==
    ASSUME NEW j \in Job, record[j] \in Record, NEW full \in BOOLEAN
    PROVE  /\ Reaped(j, full) \in Record
           /\ Reaped(j, full).by = record[j].by
           /\ Reaped(j, full).owner = record[j].owner
           /\ Reaped(j, full).pending = record[j].pending - 1
           /\ ~Reaped(j, full).failed <=> ~record[j].failed /\ full
           /\ Reaped(j, full).done <=> record[j].done \/ record[j].pending = 1
           /\ Reaped(j, full).ok <=> IF record[j].pending = 1 THEN ~record[j].failed /\ full
                                     ELSE record[j].ok
<1> DEFINE rec == record[j]
           new == Reaped(j, full)
<1>1. /\ rec \in Record
      /\ new = [rec EXCEPT !.pending = @ - 1, !.failed = @ \/ ~full,
                           !.done = @ \/ rec.pending = 1,
                           !.ok = IF rec.pending = 1 THEN ~(rec.failed \/ ~full) ELSE @]
  BY DEF Reaped
<1> SUFFICES /\ new \in Record
             /\ new.by = rec.by
             /\ new.owner = rec.owner
             /\ new.pending = rec.pending - 1
             /\ ~new.failed <=> ~rec.failed /\ full
             /\ new.done <=> rec.done \/ rec.pending = 1
             /\ new.ok <=> IF rec.pending = 1 THEN ~rec.failed /\ full ELSE rec.ok
  OBVIOUS
<1> HIDE DEF rec, new
<1>2. /\ rec.pending \in Int /\ rec.pending <= 2 /\ rec.failed \in BOOLEAN
      /\ rec.ok \in BOOLEAN /\ rec.done \in BOOLEAN
      /\ rec.by \in {"none", "ring", "thread"} /\ rec.owner \in SUBSET Part
  BY <1>1 DEF Record
<1>3. /\ new.pending = rec.pending - 1
      /\ new.failed = (rec.failed \/ ~full)
      /\ new.done = (rec.done \/ rec.pending = 1)
      /\ new.ok = IF rec.pending = 1 THEN ~(rec.failed \/ ~full) ELSE rec.ok
      /\ new.by = rec.by /\ new.owner = rec.owner
      /\ new = [pending |-> new.pending, failed |-> new.failed, ok |-> new.ok,
                done |-> new.done, by |-> new.by, owner |-> new.owner]
  BY <1>1 DEF Record
<1>4. new \in Record
  <2>1. new.failed \in BOOLEAN /\ new.done \in BOOLEAN
    BY <1>3, Zenon
  <2>2. new.ok \in BOOLEAN
    BY <1>2, <1>3
  <2>3. new.pending \in {n \in Int : n <= 2}
    BY <1>2, <1>3
  <2>4. new.by \in {"none", "ring", "thread"} /\ new.owner \in SUBSET Part
    BY <1>2, <1>3
  <2> DEFINE pending == new.pending
             failed == new.failed
             ok == new.ok
             done == new.done
             by == new.by
             owner == new.owner
  <2> HIDE DEF pending, failed, ok, done, by, owner
  <2>5. [pending |-> pending, failed |-> failed, ok |-> ok, done |-> done,
         by |-> by, owner |-> owner] \in Record
    BY <2>1, <2>2, <2>3, <2>4 DEF Record, pending, failed, ok, done, by, owner
  <2> QED  BY <1>3, <2>5 DEF pending, failed, ok, done, by, owner
<1>5. ~new.failed <=> ~rec.failed /\ full
  BY <1>2, <1>3, Zenon
<1>6. new.done <=> rec.done \/ rec.pending = 1
  BY <1>2, <1>3, Zenon
<1>7. new.ok <=> IF rec.pending = 1 THEN ~rec.failed /\ full ELSE rec.ok
  BY <1>2, <1>3
<1> QED  BY <1>3, <1>4, <1>5, <1>6, <1>7

(* What is done stays so; an old read leaves it at that. *)
LEMMA ReapedOld ==
    ASSUME NEW j \in Job, record[j] \in Record,
           NEW parts \in SUBSET Part, NEW got, NEW clean \in BOOLEAN,
           Truthful(record[j], parts, got, clean), record[j].by # "none",
           NEW full \in BOOLEAN, NEW parts2, NEW got2
    PROVE  /\ record[j].done /\ record[j].ok => Reaped(j, full).done /\ Reaped(j, full).ok
           /\ Truthful(Reaped(j, full), parts2, got2, FALSE)
<1> DEFINE rec == record[j]
           new == Reaped(j, full)
<1>1. /\ rec.pending \in Int /\ rec.by \in {"ring", "thread"}
      /\ rec.done \in BOOLEAN /\ rec.ok \in BOOLEAN
  BY DEF Record
<1>2. /\ rec.by = "thread" => rec.pending <= 0
      /\ rec.by = "ring" => rec.owner = Part /\ (rec.done => rec.pending <= 0)
      /\ rec.ok => rec.done
  BY DEF Truthful
<1>3. /\ new.by = rec.by /\ new.owner = rec.owner /\ new.pending = rec.pending - 1
      /\ new.done <=> rec.done \/ rec.pending = 1
      /\ new.ok <=> IF rec.pending = 1 THEN ~rec.failed /\ full ELSE rec.ok
  BY ReapedFields
<1> HIDE DEF rec, new
<1>4. /\ rec.done /\ rec.ok => new.done /\ new.ok
      /\ new.by # "none"
      /\ new.by = "thread" => new.pending <= 0
      /\ new.by = "ring" => new.owner = Part /\ (new.done => new.pending <= 0)
      /\ new.ok => new.done
  BY <1>1, <1>2, <1>3
<1>5. Truthful(new, parts2, got2, FALSE)
  BY <1>4 DEF Truthful
<1> QED  BY <1>4, <1>5 DEF rec, new

(* A read of the job itself leaves its record as true as it was. *)
LEMMA ReapedTruthful ==
    ASSUME NEW j \in Job, record[j] \in Record,
           NEW parts \in SUBSET Part, NEW got \in SUBSET Part, NEW clean \in BOOLEAN,
           Truthful(record[j], parts, got, clean), record[j].by # "none",
           NEW p \in parts, NEW full \in BOOLEAN
    PROVE  Truthful(Reaped(j, full), parts \ {p}, IF full THEN got \cup {p} ELSE got, clean)
<1> DEFINE rec == record[j]
           new == Reaped(j, full)
           rest == parts \ {p}
           have == IF full THEN got \cup {p} ELSE got
<1>1. /\ rec.pending \in Int /\ rec.by \in {"ring", "thread"}
      /\ rec.done \in BOOLEAN /\ rec.ok \in BOOLEAN
  BY DEF Record
<1>2. Truthful(new, rest, have, FALSE)
  BY ReapedOld
<1>3. /\ new.by = rec.by /\ new.owner = rec.owner /\ new.pending = rec.pending - 1
      /\ ~new.failed <=> ~rec.failed /\ full
      /\ new.done <=> rec.done \/ rec.pending = 1
      /\ new.ok <=> IF rec.pending = 1 THEN ~rec.failed /\ full ELSE rec.ok
  BY ReapedFields
<1>4. /\ Cardinality(parts) \in 1..2 /\ Cardinality(rest) = Cardinality(parts) - 1
      /\ Cardinality(parts) = 1 => parts = {p}
  BY PartsCounted
<1>5. ASSUME clean
      PROVE  /\ new.by = "ring" =>
                   /\ new.pending \in (Cardinality(rest) - 1)..Cardinality(rest)
                   /\ ~new.failed => new.pending = Cardinality(rest) /\ have \cup rest = Part
                   /\ new.ok => rest = {}
             /\ new.done /\ new.ok => have = Part
  <2>1. CASE rec.by = "ring"
    <3>1. /\ rec.pending \in (Cardinality(parts) - 1)..Cardinality(parts)
          /\ ~rec.failed => rec.pending = Cardinality(parts) /\ got \cup parts = Part
          /\ rec.ok => parts = {}
      BY <1>5, <2>1 DEF Truthful
    <3>2. ~rec.ok
      BY <3>1
    <3> HIDE DEF rec, new, rest
    <3>3. new.ok => rec.pending = 1 /\ ~rec.failed /\ full
      BY <1>3, <3>2
    <3>4. new.ok => parts = {p} /\ got \cup {p} = Part
      BY <1>4, <3>1, <3>3
    <3>5. new.ok => rest = {} /\ have = Part
      BY <3>3, <3>4 DEF rest
    <3>6. new.pending \in (Cardinality(rest) - 1)..Cardinality(rest)
      BY <1>1, <1>3, <1>4, <3>1
    <3>7. ~new.failed => new.pending = Cardinality(rest)
      BY <1>1, <1>3, <1>4, <3>1
    <3>8. ~new.failed => have \cup rest = Part
      BY <1>3, <3>1 DEF rest
    <3> QED  BY <3>5, <3>6, <3>7, <3>8
  <2>2. CASE rec.by = "thread"
    <3>1. rec.pending <= 0 /\ (rec.done /\ rec.ok => got = Part)
      BY <1>5, <2>2 DEF Truthful
    <3>2. new.by # "ring" /\ (new.done /\ new.ok => rec.done /\ rec.ok)
      BY <1>1, <1>3, <2>2, <3>1
    <3>3. got = Part => have = Part
      OBVIOUS
    <3> QED  BY <3>1, <3>2, <3>3
  <2> QED  BY <1>1, <2>1, <2>2
<1> HIDE DEF rec, new, rest, have
<1>6. Truthful(new, rest, have, clean)
  BY <1>2, <1>5 DEF Truthful
<1> QED  BY <1>6 DEF new, rest, have

(* The first of a set of jobs of one group. *)
LEMMA FirstLeft ==
    ASSUME IInv, Left # {}
    PROVE  First(Left) \in Left /\ First(Left) \in Job
<1>1. Left \subseteq Job /\ \A j \in Left : j[2] \in Nat
  BY MaxTopkAssumption DEF Left, Group, Job
<1>2. \E j \in Left : \A i \in Left : j[2] <= i[2]
  <2> DEFINE S == {j[2] : j \in Left}
  <2>1. S # {} /\ S \subseteq Nat
    BY <1>1
  <2> HIDE DEF S
  <2>2. \E m \in S : \A n \in S : m <= n
    BY <2>1, LeastExists
  <2> QED  BY <2>2 DEF S
<1>3. First(Left) \in Left
  BY <1>2 DEF First
<1> QED  BY <1>1, <1>3

(* A completion, of whichever group. *)
LEMMA ReapStep ==
    ASSUME IInv, Reap
    PROVE  IInv'
<1>1. PICK r \in inKernel, full \in BOOLEAN :
          /\ r[1][1] \in live => r[2] \in record[r[1]].owner
          /\ inKernel' = inKernel \ {r}
          /\ record' = IF r[1][1] \in live
                       THEN [record EXCEPT ![r[1]] = Reaped(r[1], full)] ELSE record
          /\ loaded' = IF full /\ ~Old(r)
                       THEN [loaded EXCEPT ![r[1]] = @ \cup {r[2]}] ELSE loaded
          /\ disturbed' = IF Old(r) /\ r[1][1] \in live
                          THEN disturbed \cup {r[1]} ELSE disturbed
  BY DEF Reap
<1>2. UNCHANGED <<sq, cpc, clientVars, abandoned>>
  BY DEF Reap
<1> DEFINE j == r[1]
<1>3. r \in Read /\ j \in Job /\ r[2] \in Part /\ r = <<j, r[2], r[3]>> /\ r \notin Range(sq)
  BY <1>1 DEF IInv, TypeOK, QueueInv, Read
<1>4. /\ record[j] \in Record /\ loaded[j] \in SUBSET Part
      /\ Truthful(record[j], PendingParts(j), loaded[j], j \notin disturbed)
      /\ PendingParts(j) \in SUBSET Part
  BY <1>3 DEF IInv, TypeOK, RecordInv, PendingParts
<1>5. InFlight' = InFlight \ {r} /\ r \in InFlight
  BY <1>1, <1>2, <1>3 DEF InFlight
<1>6. \A i \in Job \ {j} : PendingParts(i)' = PendingParts(i)
  BY <1>2, <1>3, <1>5 DEF PendingParts, clientVars
<1>7. PendingParts(j)' = IF Old(r) THEN PendingParts(j) ELSE PendingParts(j) \ {r[2]}
  BY <1>2, <1>3, <1>5 DEF PendingParts, Old, clientVars
<1>8. inKernel' \subseteq inKernel
  BY <1>1
<1>9. disturbed \subseteq Job /\ (~abandoned => disturbed = {} /\ ~Old(r))
  BY <1>5 DEF IInv, TypeOK, PastInv
<1>10. CASE j[1] \notin live
  <2>1. record' = record /\ loaded' = loaded /\ disturbed' = disturbed /\ Old(r)
    BY <1>1, <1>10 DEF Old
  <2> DEFINE rec == record[j]
  <2>2. rec \in Record /\ record' = [record EXCEPT ![j] = rec] /\ rec.by = record[j].by
        /\ (record[j].done /\ record[j].ok => rec.done /\ rec.ok)
        /\ Truthful(rec, PendingParts(j)', loaded'[j], j \notin disturbed')
    BY <1>4, <1>7, <2>1 DEF IInv, TypeOK
  <2>3. /\ loaded' \in [Job -> SUBSET Part] /\ disturbed' \subseteq Job
        /\ (~abandoned => disturbed' = {})
        /\ \A i \in Job \ {j} : loaded'[i] = loaded[i] /\ (i \in disturbed' <=> i \in disturbed)
    BY <1>9, <2>1 DEF IInv, TypeOK
  <2> HIDE DEF j, rec
  <2> QED  BY <1>2, <1>3, <1>6, <1>8, <2>2, <2>3, RecordStep
<1>11. CASE j[1] \in live
  <2>1. record[j].by # "none"
    <3>1. record[j].owner # {}
      BY <1>1, <1>11
    <3> QED  BY <1>4, <3>1 DEF Truthful, FreshRecord
  <2> DEFINE rec == Reaped(j, full)
  <2>2. rec \in Record /\ rec.by = record[j].by
    BY <1>3, <1>4, ReapedFields
  <2>3. record' = [record EXCEPT ![j] = rec]
    BY <1>1, <1>11
  <2>4. record[j].done /\ record[j].ok => rec.done /\ rec.ok
    BY <1>3, <1>4, <2>1, ReapedOld
  <2>5. /\ loaded' \in [Job -> SUBSET Part]
        /\ \A i \in Job \ {j} : loaded'[i] = loaded[i]
    BY <1>1, <1>3 DEF IInv, TypeOK
  <2>6. /\ disturbed' \subseteq Job /\ (~abandoned => disturbed' = {})
        /\ \A i \in Job \ {j} : (i \in disturbed' <=> i \in disturbed)
    BY <1>1, <1>3, <1>9
  <2>7. Truthful(rec, PendingParts(j)', loaded'[j], j \notin disturbed')
    <3>1. CASE Old(r)
      <4>1. (j \notin disturbed') = FALSE
        BY <1>1, <1>11, <3>1
      <4>2. Truthful(rec, PendingParts(j)', loaded'[j], FALSE)
        <5> DEFINE clean == j \notin disturbed
                   parts == PendingParts(j)
                   got == loaded[j]
                   parts2 == PendingParts(j)'
                   got2 == loaded'[j]
        <5>1. /\ j \in Job /\ record[j] \in Record /\ parts \in SUBSET Part
              /\ clean \in BOOLEAN /\ Truthful(record[j], parts, got, clean)
          BY <1>3, <1>4
        <5> HIDE DEF j, clean, parts, got, parts2, got2
        <5>2. Truthful(Reaped(j, full), parts2, got2, FALSE)
          BY <2>1, <5>1, ReapedOld
        <5> QED  BY <5>2 DEF parts2, got2
      <4> QED  BY <4>1, <4>2
    <3>2. CASE ~Old(r)
      <4> DEFINE clean == j \notin disturbed
                 parts == PendingParts(j)
                 got == loaded[j]
                 p == r[2]
      <4>1. p \in parts
        BY <1>3, <1>5, <3>2 DEF PendingParts, Old
      <4>2. /\ PendingParts(j)' = parts \ {p}
            /\ loaded'[j] = IF full THEN got \cup {p} ELSE got
            /\ (j \notin disturbed' <=> clean)
        BY <1>1, <1>3, <1>7, <3>2 DEF IInv, TypeOK
      <4>3. /\ j \in Job /\ record[j] \in Record /\ parts \in SUBSET Part
            /\ got \in SUBSET Part
            /\ clean \in BOOLEAN /\ Truthful(record[j], parts, got, clean)
        BY <1>3, <1>4
      <4> HIDE DEF j, clean, parts, got, p
      <4>4. Truthful(Reaped(j, full), parts \ {p}, IF full THEN got \cup {p} ELSE got, clean)
        BY <2>1, <4>1, <4>3, ReapedTruthful
      <4>5. (j \notin disturbed') = clean
        BY <4>2, <4>3
      <4> QED  BY <4>2, <4>4, <4>5
    <3> QED  BY <3>1, <3>2
  <2> HIDE DEF j, rec
  <2> QED  BY <1>2, <1>3, <1>6, <1>8, <2>2, <2>3, <2>4, <2>5, <2>6, <2>7, RecordStep
<1> QED  BY <1>10, <1>11

(* The end of a fallback thread. *)
LEMMA JoinStep ==
    ASSUME IInv, Join
    PROVE  IInv'
<1>0. PICK j \in Job : j = First(Left)
  BY FirstLeft DEF Join
<1>1. /\ Left # {} /\ record[j].by = "thread" /\ ~record[j].done
      /\ UNCHANGED <<ringVars, cpc, clientVars, historyVars>>
  BY <1>0 DEF Join
<1>2. PICK full \in BOOLEAN :
          /\ loaded' = [loaded EXCEPT ![j] = IF full THEN Part ELSE {}]
          /\ record' = [record EXCEPT ![j].done = TRUE, ![j].ok = full]
  BY <1>0 DEF Join
<1>3. j \in Job
  OBVIOUS
<1>4. /\ record[j] \in Record
      /\ Truthful(record[j], PendingParts(j), loaded[j], j \notin disturbed)
  BY <1>3 DEF IInv, TypeOK, RecordInv
<1> DEFINE rec == [record[j] EXCEPT !.done = TRUE, !.ok = full]
<1>5. rec \in Record /\ rec.by = "thread" /\ rec.done /\ rec.ok = full
      /\ rec.pending = record[j].pending
  BY <1>1, <1>4 DEF Record
<1>6. record' = [record EXCEPT ![j] = rec]
  BY <1>2
<1>7. \A i \in Job : PendingParts(i)' = PendingParts(i)
  BY <1>1 DEF PendingParts, InFlight, ringVars, clientVars
<1>8. /\ loaded' \in [Job -> SUBSET Part]
      /\ \A i \in Job \ {j} : loaded'[i] = loaded[i]
      /\ loaded'[j] = IF full THEN Part ELSE {}
  BY <1>2, <1>3 DEF IInv, TypeOK
<1>9. Truthful(rec, PendingParts(j)', loaded'[j], j \notin disturbed')
  BY <1>1, <1>4, <1>5, <1>8 DEF Truthful
<1>10. inKernel' = inKernel /\ UNCHANGED <<sq, cpc, clientVars, abandoned>> /\ disturbed' = disturbed
  BY <1>1 DEF ringVars, historyVars
<1>11. /\ disturbed' \subseteq Job /\ (~abandoned => disturbed' = {})
       /\ \A i \in Job : (i \in disturbed' <=> i \in disturbed)
  BY <1>10 DEF IInv, TypeOK, PastInv
<1>12. /\ rec.by = record[j].by /\ (record[j].done /\ record[j].ok => rec.done /\ rec.ok)
       /\ inKernel' \subseteq inKernel
       /\ \A i \in Job \ {j} :
             /\ loaded'[i] = loaded[i]
             /\ PendingParts(i)' = PendingParts(i)
             /\ (i \in disturbed' <=> i \in disturbed)
  BY <1>1, <1>5, <1>7, <1>8, <1>10, <1>11
<1> HIDE DEF rec
<1> QED
  BY <1>3, <1>5, <1>6, <1>8, <1>9, <1>10, <1>11, <1>12, RecordStep

(* A completion that names no job is of no record that waits for it. *)
Ownerless(r) == r[1][1] \in live => r[2] \notin record[r[1]].owner

(* Steps that leave the records alone. *)
LEMMA QuietStep ==
    ASSUME IInv, UNCHANGED <<sq, record, loaded, cur, live, ordinal, size, sent, historyVars>>,
           \/ inKernel' = inKernel
           \/ \E r \in inKernel : inKernel' = inKernel \ {r} /\ Ownerless(r),
           cpc' \in ClientState \ {"submit"},
           joined' \subseteq Job, computed' \subseteq Job,
           cpc' \in {"idle", "closed"} => live = {},
           cpc' = "next" => live = {cur},
           cpc' \in {"compute", "drain"} => cur \in live,
           cpc' \in {"idle", "next", "closed"} => joined' = {},
           \A j \in joined' : j[1] = cur /\ record[j].done /\ record[j].ok
    PROVE  IInv'
<1>1. inKernel' \subseteq inKernel /\ InFlight' \subseteq InFlight
  BY DEF InFlight
<1>2. TypeOK'
  BY <1>1 DEF IInv, TypeOK, historyVars
<1>3. QueueInv'
  BY <1>1 DEF IInv, QueueInv
<1>4. RecordInv'
  <2> SUFFICES ASSUME NEW j \in Job
               PROVE  Truthful(record[j], PendingParts(j)', loaded[j], j \notin disturbed)
    BY DEF RecordInv, historyVars
  <2>1. Truthful(record[j], PendingParts(j), loaded[j], j \notin disturbed)
    BY DEF IInv, RecordInv
  <2>2. PendingParts(j)' \subseteq PendingParts(j)
    BY <1>1 DEF PendingParts
  <2>3. CASE record[j].by = "ring"
    <3>1. record[j].owner = Part
      BY <2>1, <2>3 DEF Truthful
    <3>2. ASSUME NEW p \in PendingParts(j)  PROVE p \in PendingParts(j)'
      <4> DEFINE r == <<j, p, ordinal[j[1]]>>
      <4>1. r \in InFlight /\ j[1] \in live /\ p \in Part /\ r[1] = j /\ r[2] = p
        BY <3>2 DEF PendingParts
      <4>2. ~Ownerless(r)
        BY <3>1, <4>1 DEF Ownerless
      <4>3. r \in InFlight'
        BY <4>1, <4>2 DEF InFlight
      <4> QED  BY <4>1, <4>3 DEF PendingParts
    <3>3. PendingParts(j)' = PendingParts(j)
      BY <2>2, <3>2
    <3> QED  BY <2>1, <3>3
  <2>4. CASE record[j].by # "ring"
    BY <2>1, <2>2, <2>4 DEF Truthful
  <2> QED  BY <2>3, <2>4
<1>5. \A j \in Job : Unused(j)' => Unused(j)
  BY DEF Unused
<1>6. ClientInv'
  BY <1>5 DEF IInv, ClientInv
<1>7. PastInv'
  <2>1. \A r : Old(r)' <=> Old(r)
    BY DEF Old
  <2> QED  BY <1>1, <2>1 DEF IInv, PastInv, historyVars
<1> QED  BY <1>2, <1>3, <1>4, <1>6, <1>7 DEF IInv

LEMMA FinishGroupStep ==
    ASSUME IInv, FinishGroup
    PROVE  IInv'
<1>1. cur \in Buffer /\ cur \in live /\ live \subseteq Buffer
  BY DEF IInv, TypeOK, ClientInv, FinishGroup
<1>2. ASSUME ~abandoned, NEW r \in InFlight, r[1][1] = cur  PROVE FALSE
  <2>1. r \in Read
    BY DEF InFlight, IInv, TypeOK, Range
  <2> DEFINE j == r[1]
  <2>2. j \in Job /\ r[2] \in Part /\ r = <<j, r[2], r[3]>>
    BY <2>1 DEF Read
  <2>3. ~Old(r) /\ record[j].by = "ring" /\ disturbed = {}
    BY <1>2 DEF IInv, PastInv
  <2>4. r[2] \in PendingParts(j)
    BY <2>2, <2>3 DEF Old, PendingParts
  <2>5. Truthful(record[j], PendingParts(j), loaded[j], TRUE)
    BY <2>2, <2>3 DEF IInv, RecordInv
  <2>6. ~record[j].ok
    BY <2>3, <2>4, <2>5 DEF Truthful
  <2>7. j \notin joined
    BY <2>6 DEF IInv, ClientInv
  <2>8. ~(j[2] <= size[cur])
    BY <1>2, <2>2, <2>7 DEF FinishGroup, Left, Group
  <2>9. j[2] \in Nat /\ size[cur] \in Nat
    BY <1>1, <2>2, MaxTopkAssumption DEF Job, IInv, TypeOK
  <2>10. Unused(j)
    BY <1>2, <2>8, <2>9 DEF Unused
  <2> QED  BY <2>2, <2>3, <2>10 DEF IInv, ClientInv
<1>3. /\ \A j \in Job : j[1] = cur => record'[j] = FreshRecord /\ loaded'[j] = {}
      /\ \A j \in Job : j[1] # cur =>
            /\ record'[j] = record[j] /\ loaded'[j] = loaded[j]
            /\ (j \in disturbed' <=> j \in disturbed)
      /\ record' \in [Job -> Record] /\ loaded' \in [Job -> SUBSET Part]
      /\ disturbed' \subseteq Job
  <2>1. FreshRecord \in Record
    BY DEF FreshRecord, Record
  <2> QED  BY <2>1 DEF FinishGroup, Cleared, IInv, TypeOK
<1>5. \/ /\ cpc' = "next" /\ live' = {cur'} /\ cur' \in Buffer
      \/ /\ cpc' = "idle" /\ live' = {} /\ cur' \in Buffer
  <2>1. CASE Other(cur) \in live
    <3>1. ASSUME NEW x  PROVE x \in live \ {cur} <=> x = Other(cur)
      <4>1. cur \in {0, 1} /\ (x \in live => x \in {0, 1})
        BY <1>1 DEF Buffer
      <4>2. cur = 0 \/ cur = 1
        BY <4>1
      <4> QED  BY <2>1, <4>1, <4>2 DEF Other
    <3>2. live \ {cur} = {Other(cur)}
      BY <3>1
    <3> QED  BY <1>1, <2>1, <3>2 DEF FinishGroup
  <2>2. CASE Other(cur) \notin live
    <3>1. live \ {cur} = {} /\ 0 \in Buffer
      BY <1>1, <2>2 DEF Other, Buffer
    <3> QED  BY <2>2, <3>1 DEF FinishGroup
  <2> QED  BY <2>1, <2>2
<1>6. /\ size' = [size EXCEPT ![cur] = 0] /\ live' = live \ {cur} /\ joined' = {}
      /\ computed' = {} /\ sent' = sent /\ sq' = sq /\ inKernel' = inKernel
      /\ ordinal' = ordinal /\ abandoned' = abandoned
  BY DEF FinishGroup, ringVars
<1>4. \A j \in Job : PendingParts(j)' = IF j[1] = cur THEN {} ELSE PendingParts(j)
  BY <1>6 DEF InFlight, PendingParts
<1>7. TypeOK'
  <2>1. size' \in [Buffer -> 0..MaxTopk] /\ live' \subseteq Buffer
    BY <1>6, MaxTopkAssumption DEF IInv, TypeOK
  <2>2. cpc' \in ClientState /\ cur' \in Buffer
    BY <1>5 DEF ClientState
  <2> QED  BY <1>3, <1>6, <2>1, <2>2 DEF IInv, TypeOK
<1>8. QueueInv'
  BY <1>6 DEF IInv, QueueInv
<1>9. RecordInv'
  <2> SUFFICES ASSUME NEW j \in Job
               PROVE  Truthful(record'[j], PendingParts(j)', loaded'[j], j \notin disturbed')
    BY DEF RecordInv
  <2>1. CASE j[1] = cur
    <3>1. record'[j] = FreshRecord /\ PendingParts(j)' = {}
      BY <1>3, <1>4, <2>1
    <3> QED  BY <3>1, FreshTruthful
  <2>2. CASE j[1] # cur
    <3>1. Truthful(record[j], PendingParts(j), loaded[j], j \notin disturbed)
      BY DEF IInv, RecordInv
    <3>2. PendingParts(j)' = PendingParts(j)
      BY <1>4, <2>2
    <3>3. /\ record'[j] = record[j] /\ loaded'[j] = loaded[j]
          /\ (j \in disturbed' <=> j \in disturbed)
      BY <1>3, <2>2
    <3>4. CASE j \in disturbed
      BY <3>1, <3>2, <3>3, <3>4
    <3>5. CASE j \notin disturbed
      BY <3>1, <3>2, <3>3, <3>5
    <3> QED  BY <3>4, <3>5
  <2> QED  BY <2>1, <2>2
<1>10. ClientInv'
  <2>1. ASSUME NEW j \in Job, Unused(j)'  PROVE record'[j].by = "none"
    <3>1. CASE j[1] = cur
      BY <1>3, <3>1 DEF FreshRecord
    <3>2. CASE j[1] # cur
      <4>1. j[1] \in Buffer /\ size'[j[1]] = size[j[1]]
        BY <1>6, <3>2 DEF Job, IInv, TypeOK
      <4>2. Unused(j)
        BY <1>5, <1>6, <2>1, <3>2, <4>1 DEF Unused
      <4>3. record'[j] = record[j]
        BY <1>3, <3>2
      <4> QED  BY <4>2, <4>3 DEF IInv, ClientInv
    <3> QED  BY <3>1, <3>2
  <2>2. \A b \in live' : ordinal'[b] # 0
    BY <1>6 DEF IInv, ClientInv
  <2> QED  BY <1>5, <1>6, <2>1, <2>2 DEF ClientInv
<1>11. PastInv'
  <2>1. InFlight' = InFlight
    BY <1>6 DEF InFlight
  <2>2. ASSUME ~abandoned, NEW r \in InFlight  PROVE ~Old(r)' /\ record'[r[1]].by = "ring"
    <3>1. r[1] \in Job /\ r[1][1] # cur
      BY <1>2, <2>2 DEF InFlight, IInv, TypeOK, Range, Read
    <3>2. record'[r[1]] = record[r[1]]
      BY <1>3, <3>1
    <3>3. ~Old(r) /\ record[r[1]].by = "ring"
      BY <2>2 DEF IInv, PastInv
    <3>4. ~Old(r)'
      BY <1>6, <3>1, <3>3 DEF Old
    <3> QED  BY <3>2, <3>3, <3>4
  <2>3. disturbed = {} => disturbed' = {}
    BY DEF FinishGroup
  <2> QED  BY <1>6, <2>1, <2>2, <2>3 DEF IInv, PastInv
<1> QED  BY <1>7, <1>8, <1>9, <1>10, <1>11 DEF IInv

LEMMA NextIInv ==
    ASSUME IInv, [Next]_vars
    PROVE  IInv'
<1>1. CASE UNCHANGED vars
  <2>1. /\ UNCHANGED <<record, loaded, cur, live, ordinal, size, sent, disturbed, abandoned>>
        /\ UNCHANGED <<sq, inKernel, cpc, joined, computed>>
    BY <1>1 DEF vars, clientVars, ringVars, historyVars
  <2>2. TypeOK' /\ QueueInv' /\ RecordInv' /\ PastInv'
    BY <2>1 DEF IInv, TypeOK, QueueInv, RecordInv, PendingParts, PastInv, InFlight, Old
  <2>3. Filling' = Filling /\ \A j \in Job : Unused(j)' <=> Unused(j)
    BY <2>1 DEF Filling, Unused
  <2> QED  BY <2>1, <2>2, <2>3 DEF IInv, ClientInv
<1>2. CASE BeginFirst
  <2> DEFINE b == cur
  <2>1. PICK n \in 1..MaxTopk : Begin(b, n)
    BY <1>2 DEF BeginFirst
  <2>2. cpc = "idle" /\ live = {} /\ b \in Buffer /\ b \notin live /\ b = cur
    BY <1>2 DEF BeginFirst, IInv, ClientInv, TypeOK
  <2> HIDE DEF b
  <2> QED  BY <2>1, <2>2, BeginStep
<1>3. CASE BeginNext
  <2> DEFINE b == Other(cur)
  <2>1. PICK n \in 1..MaxTopk : Begin(b, n)
    BY <1>3 DEF BeginNext
  <2>2. cpc = "next" /\ live = {cur} /\ b \in Buffer /\ b \notin live
    BY <1>3 DEF BeginNext, IInv, TypeOK, Other, Buffer
  <2>3. live = {cur} => b = Other(cur)
    OBVIOUS
  <2> HIDE DEF b
  <2> QED  BY <2>1, <2>2, <2>3, BeginStep
<1>4. CASE NoNext
  <2>1. cpc = "next" /\ cpc' = "compute"
        /\ UNCHANGED <<sq, record, loaded, cur, live, ordinal, size, sent, historyVars>>
        /\ UNCHANGED <<inKernel, joined, computed>>
    BY <1>4 DEF NoNext, clientVars, ringVars
  <2> QED
    BY <2>1, QuietStep DEF IInv, TypeOK, ClientInv, ClientState
<1>5. CASE SubmitBoth
  BY <1>5, SubmitBothStep
<1>6. CASE SubmitScalesOnly
  BY <1>6, SubmitScalesOnlyStep
<1>7. CASE SubmitThread
  BY <1>7, SubmitThreadStep
<1>8. CASE Reap
  BY <1>8, ReapStep
<1>9. CASE Join
  BY <1>9, JoinStep
<1>10. CASE Compute
  <2>1. PICK j \in Left :
           /\ record[j].done
           /\ \/ /\ record[j].ok
                 /\ joined' = joined \cup {j} /\ computed' = computed \cup {j} /\ cpc' = cpc
              \/ cpc' = "short" /\ UNCHANGED <<joined, computed>>
    BY <1>10 DEF Compute
  <2>2. /\ cpc = "compute" /\ j \in Job /\ j[1] = cur
        /\ UNCHANGED <<sq, record, loaded, cur, live, ordinal, size, sent, historyVars>> /\ inKernel' = inKernel
    BY <1>10 DEF Compute, Left, Group, ringVars
  <2> QED
    BY <2>1, <2>2, QuietStep DEF IInv, TypeOK, ClientInv, ClientState
<1>11. CASE Drain
  <2>1. /\ cpc = "drain" /\ Left # {} /\ record[First(Left)].done
        /\ \/ /\ record[First(Left)].ok
              /\ joined' = joined \cup {First(Left)} /\ cpc' = cpc
           \/ cpc' = "short" /\ joined' = joined
        /\ UNCHANGED <<sq, record, loaded, cur, live, ordinal, size, sent, historyVars>> /\ UNCHANGED <<inKernel, computed>>
    BY <1>11 DEF Drain, ringVars
  <2>2. First(Left) \in Job /\ First(Left)[1] = cur
    BY <2>1, FirstLeft DEF Left, Group
  <2> QED
    BY <2>1, <2>2, QuietStep DEF IInv, TypeOK, ClientInv, ClientState
<1>12. CASE FinishGroup
  BY <1>12, FinishGroupStep
<1>13. CASE WaitFailed \/ ReapOwnerless
  <2>1. /\ (cpc = "compute" /\ cpc' = "drain") \/ cpc' = "lost"
        /\ UNCHANGED <<sq, record, loaded, cur, live, ordinal, size, sent, historyVars>> /\ UNCHANGED <<joined, computed>>
        /\ \/ inKernel' = inKernel
           \/ \E r \in inKernel : inKernel' = inKernel \ {r} /\ Ownerless(r)
    BY <1>13 DEF WaitFailed, ReapOwnerless, GiveUpWait, Waiting, Awaited, Ownerless, clientVars,
                 ringVars
  <2> QED
    BY <2>1, QuietStep DEF IInv, TypeOK, ClientInv, ClientState
<1>14. CASE Close
  <2>1. cpc = "idle" /\ cpc' = "closed"
        /\ UNCHANGED <<sq, record, loaded, cur, live, ordinal, size, sent, historyVars>> /\ UNCHANGED <<inKernel, joined, computed>>
    BY <1>14 DEF Close, clientVars, ringVars
  <2> QED
    BY <2>1, QuietStep DEF IInv, TypeOK, ClientInv, ClientState
<1>15. CASE LateWrite
  BY <1>15, LateWriteStep
<1> QED
  BY <1>1, <1>2, <1>3, <1>4, <1>5, <1>6, <1>7, <1>8, <1>9, <1>10, <1>11, <1>12, <1>13, <1>14, <1>15
     DEF Next, ClientProgress

THEOREM RingInvariant == SafetySpec => []IInv
<1>1. IInv /\ [Next]_vars => IInv'
  BY NextIInv
<1> QED  BY <1>1, InitIInv, PTL DEF SafetySpec

(* Whichever calls fail, in groups and queues of any size: no part that is  *)
(* missing passes for read and the counts of a job are those of its parts,  *)
(* but for the jobs an old read was counted for or wrote into; and no read  *)
(* is left of a group that is over unless a thread read a job whose scales' *)
(* entry stayed in the queue.                                               *)
THEOREM RingRecordsTrue == SafetySpec => []RecordsTrue
<1>1. IInv => RecordsTrue
  <2> SUFFICES ASSUME IInv
               PROVE  /\ \A j \in Job \ disturbed :
                            /\ record[j].done /\ record[j].ok => loaded[j] = Part
                            /\ record[j].by = "ring" /\ ~record[j].failed
                                  => record[j].pending = Cardinality(PendingParts(j))
                            /\ record[j].by = "ring" /\ record[j].ok => PendingParts(j) = {}
                      /\ ~abandoned => disturbed = {} /\ \A r \in InFlight : ~Old(r)
    BY DEF IInv, RecordsTrue
  <2>1. ASSUME NEW j \in Job \ disturbed
        PROVE  /\ record[j].done /\ record[j].ok => loaded[j] = Part
               /\ record[j].by = "ring" /\ ~record[j].failed
                     => record[j].pending = Cardinality(PendingParts(j))
               /\ record[j].by = "ring" /\ record[j].ok => PendingParts(j) = {}
    <3>1. Truthful(record[j], PendingParts(j), loaded[j], TRUE)
      BY DEF IInv, RecordInv
    <3> QED  BY <3>1 DEF Truthful
  <2> QED  BY <2>1 DEF IInv, PastInv
<1> QED  BY <1>1, RingInvariant, PTL

-------------------------------------------------------------------------------
(* The ring is a read service. *)

LEMMA StatusKept ==
    ASSUME \A j \in Job : record'[j] = record[j]
    PROVE  ReadStatus' = ReadStatus
  BY DEF ReadStatus

LEMMA BeginServes ==
    ASSUME IInv, NEW b \in Buffer, b \notin live, NEW n \in 1..MaxTopk, Begin(b, n),
           cpc \in {"idle", "next"}
    PROVE  UNCHANGED <<ReadStatus, ServiceMode>>
<1>1. \A j \in Job : j[1] = b => record[j] = FreshRecord
  BY DEF IInv, ClientInv, Unused, RecordInv, Truthful
<1>2. \A j \in Job : record'[j] = record[j]
  BY <1>1 DEF Begin, Cleared
<1>3. ServiceMode' = ServiceMode
  BY DEF Begin, ServiceMode
<1> QED  BY <1>2, <1>3, StatusKept

LEMMA StartServes ==
    ASSUME cpc = "submit", AfterSubmit, Current \in Job, record[Current] = FreshRecord,
           record'[Current].by # "none", ~record'[Current].done,
           \A j \in Job \ {Current} : record'[j] = record[j]
    PROVE  Service!Next
<1> DEFINE c == Current
<1>1. /\ c \in Job /\ ReadStatus[c] = "idle" /\ ReadStatus'[c] = "reading"
      /\ \A j \in Job \ {c} : ReadStatus'[j] = ReadStatus[j]
  BY DEF FreshRecord, ReadStatus
<1>2. ServiceMode = "open" /\ ServiceMode' = ServiceMode
  BY DEF AfterSubmit, ServiceMode
<1>3. ReadStatus' = [j \in Job |-> ReadStatus'[j]]
  BY DEF ReadStatus
<1> HIDE DEF c
<1>4. ReadStatus' = [j \in Job |-> IF j \in {c} THEN "reading" ELSE ReadStatus[j]]
  BY <1>1, <1>3
<1>5. Service!Start({c})
  BY <1>1, <1>2, <1>4 DEF Service!Start
<1> QED  BY <1>1, <1>5 DEF Service!Next

LEMMA SubmitServes ==
    ASSUME IInv, SubmitBoth \/ SubmitScalesOnly \/ SubmitThread
    PROVE  Service!Next
<1>1. cpc = "submit" /\ AfterSubmit
  BY DEF SubmitBoth, SubmitScalesOnly, SubmitThread
<1>2. Current \in Job /\ record[Current] = FreshRecord
  BY <1>1, CurrentFresh
<1>3. /\ record \in [Job -> Record] /\ FreshRecord \in Record /\ ~FreshRecord.done
      /\ DOMAIN FreshRecord = {"pending", "failed", "ok", "done", "by", "owner"}
  BY DEF IInv, TypeOK, FreshRecord, Record
<1> DEFINE c == Current
<1>4. PICK rec : record' = [record EXCEPT ![c] = rec] /\ rec.by # "none" /\ ~rec.done
  <2>1. CASE SubmitBoth
    <3> DEFINE rec == [FreshRecord EXCEPT !.by = "ring", !.owner = Part, !.pending = 2]
    <3>1. record' = [record EXCEPT ![c] = rec]
      BY <1>2, <1>3, <2>1 DEF SubmitBoth
    <3>2. rec.by # "none" /\ ~rec.done
      BY DEF FreshRecord
    <3> QED  BY <3>1, <3>2
  <2>2. CASE SubmitScalesOnly
    <3> DEFINE rec == [FreshRecord EXCEPT !.by = "ring", !.owner = Part, !.pending = 1,
                                          !.failed = TRUE]
    <3>1. record' = [record EXCEPT ![c] = rec]
      BY <1>2, <1>3, <2>2 DEF SubmitScalesOnly
    <3>2. rec.by # "none" /\ ~rec.done
      BY DEF FreshRecord
    <3> QED  BY <3>1, <3>2
  <2>3. CASE SubmitThread
    <3>1. PICK owner \in {{}, {"scales"}} :
              record' = [record EXCEPT ![Current] = [@ EXCEPT !.by = "thread", !.owner = owner]]
      BY <2>3 DEF SubmitThread
    <3> DEFINE rec == [FreshRecord EXCEPT !.by = "thread", !.owner = owner]
    <3>2. record' = [record EXCEPT ![c] = rec]
      BY <1>2, <1>3, <3>1
    <3>3. rec.by # "none" /\ ~rec.done
      BY DEF FreshRecord
    <3> QED  BY <3>2, <3>3
  <2> QED  BY <2>1, <2>2, <2>3
<1> HIDE DEF c
<1>5. c \in Job => /\ record'[c] = rec
                   /\ \A j \in Job \ {c} : record'[j] = record[j]
  BY <1>3, <1>4
<1>6. /\ record'[Current].by # "none" /\ ~record'[Current].done
      /\ \A j \in Job \ {Current} : record'[j] = record[j]
  BY <1>2, <1>4, <1>5 DEF c
<1> QED  BY <1>1, <1>2, <1>6, StartServes

LEMMA FinishServes ==
    ASSUME NEW j \in Job, ReadStatus[j] = "reading", ReadStatus'[j] \in {"ok", "short"},
           \A i \in Job \ {j} : record'[i] = record[i],
           cpc \in {"compute", "drain"}, cpc' = cpc
    PROVE  Service!Next
<1>1. \A i \in Job \ {j} : ReadStatus'[i] = ReadStatus[i]
  BY DEF ReadStatus
<1>2. ServiceMode = "open" /\ ServiceMode' = ServiceMode
  BY DEF ServiceMode
<1>3. ReadStatus' = [ReadStatus EXCEPT ![j] = ReadStatus'[j]]
  <2>1. /\ ReadStatus = [i \in Job |-> ReadStatus[i]]
        /\ ReadStatus' = [i \in Job |-> ReadStatus'[i]]
    BY DEF ReadStatus
  <2> QED  BY <1>1, <2>1
<1>4. Service!Finish(j)
  BY <1>2, <1>3 DEF Service!Finish
<1> QED  BY <1>4 DEF Service!Next

LEMMA ReapServes ==
    ASSUME IInv, Reap
    PROVE  Service!Next \/ UNCHANGED <<ReadStatus, ServiceMode>>
<1>1. PICK r \in inKernel, full \in BOOLEAN :
          /\ r[1][1] \in live => r[2] \in record[r[1]].owner
          /\ record' = IF r[1][1] \in live
                       THEN [record EXCEPT ![r[1]] = Reaped(r[1], full)] ELSE record
  BY DEF Reap
<1> DEFINE j == r[1]
<1>2. j \in Job
  BY <1>1 DEF IInv, TypeOK, Read
<1>3. cpc \in {"compute", "drain"} /\ cpc' = cpc
  BY DEF Reap, Waiting, Awaited
<1>4. ServiceMode' = ServiceMode
  BY <1>3 DEF ServiceMode
<1>5. CASE j[1] \notin live
  BY <1>1, <1>4, <1>5, StatusKept
<1>6. CASE j[1] \in live
  <2>1. record' = [record EXCEPT ![j] = Reaped(j, full)] /\ r[2] \in record[j].owner
    BY <1>1, <1>6
  <2>2. record[j] \in Record /\ Truthful(record[j], PendingParts(j), loaded[j], j \notin disturbed)
    BY <1>2 DEF IInv, TypeOK, RecordInv
  <2> DEFINE rec == record[j]
             new == Reaped(j, full)
  <2>3. /\ new.by = rec.by
        /\ new.done <=> rec.done \/ rec.pending = 1
        /\ new.ok <=> IF rec.pending = 1 THEN ~rec.failed /\ full ELSE rec.ok
    BY <1>2, <2>2, ReapedFields
  <2>4. new.done \in BOOLEAN /\ rec.done \in BOOLEAN /\ new.ok \in BOOLEAN /\ rec.ok \in BOOLEAN
        /\ rec.by \in {"none", "ring", "thread"} /\ rec.pending \in Int
    BY <1>2, <2>2, ReapedFields DEF Record
  <2>5. rec.by # "none"
    BY <2>1, <2>2 DEF Truthful, FreshRecord
  <2>6. rec.pending = 1 => ~rec.done
    BY <2>2, <2>4, <2>5 DEF Truthful
  <2>7. record'[j] = new /\ \A i \in Job \ {j} : record'[i] = record[i]
    BY <1>2, <2>1 DEF IInv, TypeOK
  <2> HIDE DEF j, rec, new
  <2>8. CASE rec.pending = 1
    <3>1. ReadStatus[j] = "reading" /\ ReadStatus'[j] \in {"ok", "short"}
      BY <1>2, <2>3, <2>4, <2>5, <2>6, <2>7, <2>8 DEF ReadStatus, rec
    <3> QED  BY <1>2, <1>3, <2>7, <3>1, FinishServes
  <2>9. CASE rec.pending # 1
    <3>1. (new.done <=> rec.done) /\ (new.ok <=> rec.ok) /\ new.by = rec.by
      BY <2>3, <2>9
    <3>2. new.done = rec.done /\ new.ok = rec.ok
      BY <2>4, <3>1
    <3>3. \A i \in Job : ReadStatus'[i] = ReadStatus[i]
      BY <2>7, <3>1, <3>2 DEF ReadStatus, rec
    <3>4. ReadStatus' = ReadStatus
      <4>1. /\ ReadStatus = [i \in Job |-> ReadStatus[i]]
            /\ ReadStatus' = [i \in Job |-> ReadStatus'[i]]
        BY DEF ReadStatus
      <4> QED  BY <3>3, <4>1
    <3> QED  BY <1>4, <3>4
  <2> QED  BY <2>8, <2>9
<1> QED  BY <1>5, <1>6

LEMMA JoinServes ==
    ASSUME IInv, Join
    PROVE  Service!Next
<1> DEFINE j == First(Left)
<1>1. /\ Left # {} /\ record[j].by = "thread" /\ ~record[j].done
      /\ cpc \in {"compute", "drain"} /\ cpc' = cpc
  BY DEF Join
<1>2. PICK full \in BOOLEAN : record' = [record EXCEPT ![j].done = TRUE, ![j].ok = full]
  BY DEF Join
<1>3. j \in Job
  BY <1>1, FirstLeft
<1>4. record \in [Job -> Record]
  BY DEF IInv, TypeOK
<1> HIDE DEF j
<1>5. record'[j].done /\ \A i \in Job \ {j} : record'[i] = record[i]
  BY <1>2, <1>3, <1>4 DEF Record
<1>6. ReadStatus[j] = "reading" /\ ReadStatus'[j] \in {"ok", "short"}
  BY <1>1, <1>3, <1>5 DEF ReadStatus
<1> QED  BY <1>1, <1>3, <1>5, <1>6, FinishServes

(* An expert is evaluated or, its read being short, the process given up. *)
LEMMA ConsumeServes ==
    ASSUME IInv, Compute \/ Drain
    PROVE  Service!Next \/ UNCHANGED <<ReadStatus, ServiceMode>>
<1>1. ReadStatus' = ReadStatus
  BY DEF Compute, Drain, ReadStatus
<1>2. cpc \in {"compute", "drain"}
  BY DEF Compute, Drain
<1>3. CASE cpc' = cpc
  BY <1>1, <1>3 DEF ServiceMode
<1>4. CASE cpc' # cpc
  <2>1. PICK j \in Left : record[j].done /\ ~record[j].ok
    <3>1. CASE Compute
      BY <1>4, <3>1 DEF Compute
    <3>2. CASE Drain
      BY <1>4, <3>2, FirstLeft DEF Drain
    <3> QED  BY <3>1, <3>2
  <2>2. cpc' = "short"
    BY <1>4 DEF Compute, Drain
  <2>3. j \in Job /\ ReadStatus[j] = "short"
    BY <2>1 DEF Left, Group, ReadStatus
  <2>4. Service!Abort
    BY <1>1, <1>2, <2>2, <2>3 DEF Service!Abort, ServiceMode
  <2> QED  BY <2>4 DEF Service!Next
<1> QED  BY <1>3, <1>4

LEMMA FinishGroupServes ==
    ASSUME IInv, FinishGroup
    PROVE  Service!Next
<1> DEFINE S == {j \in Job : j[1] = cur}
<1>1. \A j \in S : ReadStatus[j] # "reading"
  <2> SUFFICES ASSUME NEW j \in Job, j[1] = cur  PROVE ReadStatus[j] # "reading"
    OBVIOUS
  <2>1. CASE j[2] <= size[cur]
    <3>1. j \in joined
      BY <2>1 DEF FinishGroup, Left, Group
    <3> QED  BY <3>1 DEF IInv, ClientInv, ReadStatus
  <2>2. CASE ~(j[2] <= size[cur])
    <3>1. j[2] \in Nat /\ size[cur] \in Nat
      BY MaxTopkAssumption DEF Job, IInv, TypeOK
    <3>2. record[j] = FreshRecord
      BY <2>2, <3>1 DEF Unused, IInv, ClientInv, RecordInv, Truthful
    <3> QED  BY <3>2 DEF FreshRecord, ReadStatus
  <2> QED  BY <2>1, <2>2
<1>2. \A j \in Job : record'[j] = IF j \in S THEN FreshRecord ELSE record[j]
  BY DEF FinishGroup, Cleared
<1>3. ServiceMode = "open" /\ ServiceMode' = ServiceMode
  BY DEF FinishGroup, ServiceMode
<1>4. S \in SUBSET Job
  OBVIOUS
<1> HIDE DEF S
<1>5. ReadStatus' = [j \in Job |-> IF j \in S THEN "idle" ELSE ReadStatus[j]]
  <2>1. \A j \in Job : ReadStatus'[j] = IF j \in S THEN "idle" ELSE ReadStatus[j]
    BY <1>2 DEF ReadStatus, FreshRecord
  <2>2. ReadStatus' = [j \in Job |-> ReadStatus'[j]]
    BY DEF ReadStatus
  <2> QED  BY <2>1, <2>2
<1>6. S \cap Service!Reading = {}
  BY <1>1 DEF Service!Reading
<1>7. Service!Recycle(S)
  BY <1>3, <1>5, <1>6 DEF Service!Recycle
<1> QED  BY <1>4, <1>7 DEF Service!Next

LEMMA CloseServes ==
    ASSUME IInv, Close
    PROVE  Service!Next
<1>1. \A j \in Job : record[j] = FreshRecord
  BY DEF Close, IInv, ClientInv, Unused, RecordInv, Truthful
<1>2. Service!Reading = {}
  BY <1>1 DEF FreshRecord, ReadStatus, Service!Reading
<1>3. ServiceMode = "open" /\ ServiceMode' = "closed" /\ ReadStatus' = ReadStatus
  BY DEF Close, ServiceMode, ReadStatus
<1> QED  BY <1>2, <1>3 DEF Service!Close, Service!Next

(* Whichever way a read is done and in whatever order the parts complete,   *)
(* the caller sees the service it sees of the pool: a read is reported      *)
(* once, its record reused only afterwards, the ring closed with nothing    *)
(* under way, and the process given up only over a short read.              *)
THEOREM RingImplementsReadService ==
    SafetySpec => ImplementsServiceSafety
<1>1. Init => Service!Init
  BY DEF Init, FreshRecord, Service!Init, ReadStatus, ServiceMode
<1>2. IInv /\ [Next]_vars => [Service!Next]_(Service!vars)
  <2> SUFFICES ASSUME IInv, [Next]_vars
               PROVE  Service!Next \/ UNCHANGED <<ReadStatus, ServiceMode>>
    BY DEF Service!vars
  <2>1. CASE UNCHANGED vars
    BY <2>1 DEF vars, ReadStatus, ServiceMode
  <2>2. CASE BeginFirst
    <3> DEFINE b == cur
    <3>1. PICK n \in 1..MaxTopk : Begin(b, n)
      BY <2>2 DEF BeginFirst
    <3>2. cpc = "idle" /\ b \in Buffer /\ b \notin live
      BY <2>2 DEF BeginFirst, IInv, ClientInv, TypeOK
    <3> HIDE DEF b
    <3> QED  BY <3>1, <3>2, BeginServes
  <2>3. CASE BeginNext
    <3> DEFINE b == Other(cur)
    <3>1. PICK n \in 1..MaxTopk : Begin(b, n)
      BY <2>3 DEF BeginNext
    <3>2. cpc = "next" /\ b \in Buffer /\ b \notin live
      BY <2>3 DEF BeginNext, IInv, TypeOK, Other, Buffer
    <3> HIDE DEF b
    <3> QED  BY <3>1, <3>2, BeginServes
  <2>4. CASE NoNext \/ WaitFailed \/ ReapOwnerless \/ LateWrite
    <3>1. record' = record
      BY <2>4 DEF NoNext, WaitFailed, ReapOwnerless, LateWrite
    <3>2. ServiceMode' = ServiceMode
      <4>1. CASE LateWrite
        BY <4>1 DEF LateWrite, ServiceMode
      <4>2. CASE NoNext
        BY <4>2 DEF NoNext, ServiceMode
      <4>3. CASE WaitFailed \/ ReapOwnerless
        <5>1. cpc \in {"compute", "drain"} /\ cpc' \in {"drain", "lost"}
          BY <4>3 DEF WaitFailed, ReapOwnerless, GiveUpWait, Waiting, Awaited
        <5> QED  BY <5>1 DEF ServiceMode
      <4> QED  BY <2>4, <4>1, <4>2, <4>3
    <3> QED  BY <3>1, <3>2, StatusKept
  <2>5. CASE SubmitBoth \/ SubmitScalesOnly \/ SubmitThread
    BY <2>5, SubmitServes
  <2>6. CASE Reap
    BY <2>6, ReapServes
  <2>7. CASE Join
    BY <2>7, JoinServes
  <2>8. CASE Compute \/ Drain
    BY <2>8, ConsumeServes
  <2>9. CASE FinishGroup
    BY <2>9, FinishGroupServes
  <2>10. CASE Close
    BY <2>10, CloseServes
  <2> QED
    BY <2>1, <2>2, <2>3, <2>4, <2>5, <2>6, <2>7, <2>8, <2>9, <2>10
       DEF Next, ClientProgress
<1> QED
  BY <1>1, <1>2, RingInvariant, PTL
     DEF SafetySpec, ImplementsServiceSafety, Service!SafetySpec

===============================================================================
