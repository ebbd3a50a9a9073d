--------------------------- MODULE BlobProgressProofs ---------------------------
(***************************************************************************)
(* Proofs about BlobProgress, for any plan and any number of overlapping   *)
(* runs.  All that is known of a run is that the event it has in hand is   *)
(* one that the service may send, and that it has written what it reported *)
(* before: the rows are right although nobody compares a token when they   *)
(* are written.  The totals are sums over rows as they were when the       *)
(* holder of the claim last wrote.                                         *)
(***************************************************************************)
EXTENDS BlobProgress, FiniteSetTheorems, TLAPS

(* A row never has more bytes from the network than bytes, and it has all
   its bytes once it was complete. *)
BlobOK(b, row) ==
  /\ row \in BlobRow(b)
  /\ row.network <= row.offset
  /\ b \in Sized /\ row.completed => row.offset = Length[b]

IInv ==
  /\ RowsOK
  /\ \A b \in Blob : BlobOK(b, blobs[b])
  /\ RunsOK

-----------------------------------------------------------------------------
(* Sums.  SumFunction is recursive over the subsets of its domain; what it
   computes is proved by way of a least subset for which it would fail. *)

(* The pairs below the values of f on s: as many as these add up to. *)
Under(f, s) == {p \in s \X Nat : p[2] \in 1 .. f[p[1]]}

(* The function by which SumFunction is defined. *)
SumOf(f) ==
  CHOOSE g : g = [s \in SUBSET (DOMAIN f) |->
                    IF s = {} THEN 0
                    ELSE f[CHOOSE x \in s : TRUE] + g[s \ {CHOOSE x \in s : TRUE}]]

(* SumFunction, with the folds of the library written out. *)
LEMMA SumIsRecursive == ASSUME NEW f PROVE SumFunction(f) = SumOf(f)[DOMAIN f]
BY DEF SumOf, SumFunction, SumFunctionOnSet, FoldFunctionOnSet, MapThenFoldSet

(* A set of subsets of a finite set has one from which nothing can be taken:
   induction over finite sets, in a form that needs no predicate. *)
LEMMA LeastSubset ==
  ASSUME NEW S, IsFiniteSet(S), NEW U, U \subseteq SUBSET S, U # {}
  PROVE  \E s \in U : \A x \in s : s \ {x} \notin U
<1>1. IsWellFoundedOn(StrictSubsetOrdering(S), SUBSET S)
  BY FS_StrictSubsetOrderingWellFounded, FS_FiniteSubsetsOfFinite
<1>2. PICK s \in U : \A t \in U : <<t, s>> \notin StrictSubsetOrdering(S)
  BY <1>1, WFMin
<1>3. ASSUME NEW x \in s, s \ {x} \in U PROVE FALSE
  <2>1. <<s \ {x}, s>> \in StrictSubsetOrdering(S)
    BY <1>3 DEF StrictSubsetOrdering
  <2> QED BY <1>2, <1>3, <2>1
<1> QED BY <1>2, <1>3

(* One column of pairs and the rest. *)
LEMMA UnderSplits ==
  ASSUME NEW S, IsFiniteSet(S), NEW f \in [S -> Nat], NEW s \in SUBSET S, NEW x \in s,
         IsFiniteSet(Under(f, s \ {x}))
  PROVE  /\ IsFiniteSet(Under(f, s))
         /\ Cardinality(Under(f, s)) = f[x] + Cardinality(Under(f, s \ {x}))
<1> DEFINE column == {x} \X (1 .. f[x])
           rest == Under(f, s \ {x})
<1>1. Under(f, s) = rest \cup column /\ rest \cap column = {}
  BY DEF Under
<1>2. IsFiniteSet(column) /\ Cardinality(column) = f[x]
  <2>1. f[x] \in Nat
    OBVIOUS
  <2>2. IsFiniteSet({x}) /\ Cardinality({x}) = 1
    BY FS_Singleton
  <2>3. IsFiniteSet(1 .. f[x]) /\ Cardinality(1 .. f[x]) = f[x]
    BY <2>1, FS_Interval
  <2>4. IsFiniteSet(column) /\ Cardinality(column) = Cardinality({x}) * Cardinality(1 .. f[x])
    BY <2>2, <2>3, FS_Product
  <2> QED BY <2>1, <2>2, <2>3, <2>4
<1>3. Cardinality(rest) \in Nat
  BY FS_CardinalityType
<1>4. /\ IsFiniteSet(rest \cup column)
      /\ Cardinality(rest \cup column) = Cardinality(rest) + Cardinality(column) - Cardinality({})
  <2> HIDE DEF column, rest
  <2>1. IsFiniteSet(rest)
    BY DEF rest
  <2> QED BY <1>1, <1>2, <2>1, FS_Union
<1> HIDE DEF column, rest
<1>5. Cardinality(rest \cup column) = f[x] + Cardinality(rest)
  BY <1>2, <1>3, <1>4, FS_EmptySet
<1> QED BY <1>1, <1>4, <1>5 DEF rest

(* They are finitely many. *)
LEMMA UnderFinite ==
  ASSUME NEW S, IsFiniteSet(S), NEW f \in [S -> Nat], NEW s \in SUBSET S
  PROVE  IsFiniteSet(Under(f, s))
<1> DEFINE U == {t \in SUBSET S : ~ IsFiniteSet(Under(f, t))}
<1>1. ASSUME NEW t \in U, \A x \in t : t \ {x} \notin U PROVE FALSE
  <2>1. CASE t = {}
    BY <1>1, <2>1, FS_EmptySet DEF Under
  <2>2. CASE t # {}
    <3>1. PICK x \in t : TRUE
      BY <2>2
    <3>2. IsFiniteSet(Under(f, t \ {x}))
      BY <1>1
    <3> QED BY <1>1, <3>2, UnderSplits
  <2> QED BY <2>1, <2>2
<1>2. U = {}
  BY <1>1, LeastSubset
<1> QED BY <1>2

(* A sum of numbers counts the pairs below them. *)
LEMMA SumCounts ==
  ASSUME NEW S, IsFiniteSet(S), NEW f \in [S -> Nat]
  PROVE  SumFunction(f) = Cardinality(Under(f, S))
<1> DEFINE sum == SumOf(f)
           count == [s \in SUBSET S |-> Cardinality(Under(f, s))]
           least(s) == CHOOSE x \in s : TRUE
<1>1. Cardinality(Under(f, {})) = 0
  BY FS_EmptySet DEF Under
<1>2. ASSUME NEW s \in SUBSET S, s # {}
      PROVE  /\ least(s) \in s
             /\ Cardinality(Under(f, s)) = f[least(s)] + Cardinality(Under(f, s \ {least(s)}))
  <2>1. least(s) \in s
    BY <1>2
  <2> HIDE DEF least
  <2>2. IsFiniteSet(Under(f, s \ {least(s)}))
    BY UnderFinite
  <2> QED BY <2>1, <2>2, UnderSplits
<1>3. count = [s \in SUBSET S |-> IF s = {} THEN 0 ELSE f[least(s)] + count[s \ {least(s)}]]
  BY <1>1, <1>2
<1>4. sum = [s \in SUBSET S |-> IF s = {} THEN 0 ELSE f[least(s)] + sum[s \ {least(s)}]]
  <2> DEFINE Sums(g) ==
               g = [s \in SUBSET S |-> IF s = {} THEN 0 ELSE f[least(s)] + g[s \ {least(s)}]]
  <2>1. DOMAIN f = S
    OBVIOUS
  <2>2. sum = CHOOSE g : Sums(g)
    BY <2>1 DEF SumOf
  <2>3. Sums(count)
    BY <1>3
  <2> HIDE DEF count, sum, Sums
  <2>4. Sums(sum)
    BY <2>2, <2>3
  <2> QED BY <2>4 DEF Sums
<1> HIDE DEF sum
<1> DEFINE U == {s \in SUBSET S : sum[s] # Cardinality(Under(f, s))}
<1>5. ASSUME NEW s \in U, \A x \in s : s \ {x} \notin U PROVE FALSE
  <2>1. CASE s = {}
    BY <1>1, <1>4, <1>5, <2>1
  <2>2. CASE s # {}
    <3>1. least(s) \in s /\ sum[s \ {least(s)}] = Cardinality(Under(f, s \ {least(s)}))
      BY <1>2, <1>5, <2>2
    <3>2. sum[s] = f[least(s)] + sum[s \ {least(s)}]
      BY <1>4, <2>2
    <3> QED BY <1>2, <1>5, <2>2, <3>1, <3>2
  <2> QED BY <2>1, <2>2
<1>6. U = {}
  BY <1>5, LeastSubset
<1> QED BY <1>6, SumIsRecursive DEF sum

(* So sums are numbers, and larger terms have a larger sum. *)
LEMMA SumsAreOrdered ==
  ASSUME NEW S, IsFiniteSet(S), NEW f \in [S -> Nat], NEW g \in [S -> Nat],
         \A x \in S : f[x] <= g[x]
  PROVE  SumFunction(f) \in Nat /\ SumFunction(f) <= SumFunction(g)
<1>1. Under(f, S) \subseteq Under(g, S)
  BY DEF Under
<1>2. IsFiniteSet(Under(g, S)) /\ IsFiniteSet(Under(f, S))
  BY UnderFinite
<1> QED BY <1>1, <1>2, SumCounts, FS_Subset, FS_CardinalityType

-----------------------------------------------------------------------------
(* Writing an event to the row of its blob keeps the row right and loses
   nothing of it. *)
LEMMA AdvancedOK ==
  ASSUME NEW b \in Blob, NEW row, BlobOK(b, row), NEW e \in Event(b)
  PROVE  /\ BlobOK(b, Advanced(row, e))
         /\ Advanced(row, e).offset >= row.offset
         /\ Advanced(row, e).network >= row.network
         /\ row.completed => Advanced(row, e).completed
<1> DEFINE new == Advanced(row, e)
<1>1. Length[b] \in Nat
  BY LengthsAreNumbers
<1>2. row.offset \in 0 .. Length[b] /\ row.network \in 0 .. Length[b] /\ row.completed \in BOOLEAN
  BY DEF BlobOK, BlobRow, Bytes
<1>3. /\ e.blob = b /\ e.bytes \in 0 .. Length[b]
      /\ e.disposition \in {"transferring", "completed", "reused"}
      /\ e.disposition = "completed" => e.bytes = Length[b]
      /\ e.disposition = "reused" => e.bytes = 0
  BY <1>1 DEF Event, Bytes
<1>4. new.network = Larger(row.network, e.bytes)
  BY DEF Advanced, NetworkAfter
<1>5. new.offset = IF e.disposition \in COMPLETE /\ b \in Sized
                     THEN Length[b] ELSE Larger(row.offset, e.bytes)
  BY <1>3 DEF Advanced, OffsetAfter
<1>6. new.completed = (row.completed \/ e.disposition \in COMPLETE)
  BY DEF Advanced, CompletedAfter
<1>7. new.offset \in 0 .. Length[b] /\ new.network \in 0 .. Length[b]
  BY <1>1, <1>2, <1>3, <1>4, <1>5 DEF Larger
<1>8. new \in BlobRow(b)
  BY <1>2, <1>3, <1>6, <1>7 DEF BlobRow, Bytes, Advanced, COMPLETE
<1>9. new.offset >= row.offset /\ new.network >= row.network
  BY <1>1, <1>2, <1>3, <1>4, <1>5 DEF Larger
<1>10. new.network <= new.offset
  BY <1>1, <1>2, <1>3, <1>4, <1>5 DEF Larger, BlobOK
<1>11. b \in Sized /\ new.completed => new.offset = Length[b]
  <2>1. CASE e.disposition \in COMPLETE
    BY <2>1, <1>5
  <2>2. CASE e.disposition \notin COMPLETE
    <3>1. b \in Sized /\ row.completed => row.offset = Length[b]
      BY DEF BlobOK
    <3> QED BY <2>2, <3>1, <1>1, <1>2, <1>3, <1>5, <1>6 DEF Larger
  <2> QED BY <2>1, <2>2
<1> QED BY <1>6, <1>8, <1>9, <1>10, <1>11 DEF BlobOK

(* What a run has in hand is an event of some blob of the plan. *)
LEMMA PendingEvent ==
  ASSUME RunsOK, NEW t \in Token, runs[t].event # NoEvent
  PROVE  runs[t].event.blob \in Blob /\ runs[t].event \in Event(runs[t].event.blob)
<1>1. PICK b \in Blob : runs[t].event \in Event(b)
  BY DEF RunsOK, Run, Events
<1>2. runs[t].event.blob = b
  BY <1>1 DEF Event
<1> QED BY <1>1, <1>2

(* A step leaves a row as it is or writes to it an event of its blob. *)
LEMMA RowsStep ==
  ASSUME IInv, [Next]_vars, NEW b \in Blob
  PROVE  blobs'[b] = blobs[b] \/ \E e \in Event(b) : blobs'[b] = Advanced(blobs[b], e)
<1>1. ASSUME NEW t \in Token, Progress(t)
      PROVE  blobs'[b] = blobs[b] \/ \E e \in Event(b) : blobs'[b] = Advanced(blobs[b], e)
  <2>1. runs[t].event.blob \in Blob /\ runs[t].event \in Event(runs[t].event.blob)
    BY <1>1, PendingEvent DEF IInv, Progress
  <2> QED BY <1>1, <2>1 DEF Progress, IInv, RowsOK
<1>2. ASSUME NEW t \in Token, RunStep(t), ~ Progress(t) PROVE blobs' = blobs
  BY <1>2 DEF RunStep, StartCopy, Receive, EndCopy
<1>3. CASE TimePasses
  BY <1>3 DEF TimePasses
<1>4. CASE UNCHANGED vars
  BY <1>4 DEF vars
<1> QED BY <1>1, <1>2, <1>3, <1>4 DEF Next

(* The table keeps its domain. *)
LEMMA DomainStep ==
  ASSUME RowsOK, [Next]_vars PROVE DOMAIN blobs' = Blob
<1>1. ASSUME NEW t \in Token, RunStep(t) PROVE DOMAIN blobs' = Blob
  BY <1>1 DEF RunStep, StartCopy, Receive, Progress, EndCopy, RowsOK
<1> QED BY <1>1 DEF Next, TimePasses, vars, RowsOK

(* The runs keep their type: what they receive is an event. *)
LEMMA RunsStep ==
  ASSUME RunsOK, [Next]_vars PROVE RunsOK'
<1>1. NoRun \in Run
  BY DEF NoRun, Run
<1>2. ASSUME NEW t \in Token, StartCopy(t) PROVE RunsOK'
  BY <1>2 DEF StartCopy, RunsOK, Run
<1>3. ASSUME NEW t \in Token, NEW b \in Blob, NEW e \in Event(b), Receive(t, e) PROVE RunsOK'
  <2>1. e \in Events /\ e.blob \in Blob
    BY DEF Events, Event
  <2> DEFINE ended == IF e.disposition \in COMPLETE THEN runs[t].ended \cup {e.blob}
                                                    ELSE runs[t].ended
             new == [runs[t] EXCEPT !.event = e, !.ended = ended]
  <2>2. runs[t] \in Run /\ ended \in SUBSET Blob
    BY <2>1 DEF RunsOK, Run
  <2>3. new \in Run
    BY <2>1, <2>2 DEF Run
  <2>4. runs' = [runs EXCEPT ![t] = new]
    BY <1>3 DEF Receive, RunsOK
  <2> QED BY <2>3, <2>4 DEF RunsOK
<1>4. ASSUME NEW t \in Token, Progress(t) PROVE RunsOK'
  BY <1>1, <1>4 DEF Progress, RunsOK, Run
<1>5. ASSUME NEW t \in Token, EndCopy(t) PROVE RunsOK'
  BY <1>1, <1>5 DEF EndCopy, RunsOK
<1>6. CASE TimePasses \/ UNCHANGED vars
  BY <1>6 DEF TimePasses, vars, RunsOK
<1> QED BY <1>2, <1>3, <1>4, <1>5, <1>6 DEF Next, RunStep

(* IInv is inductive. *)
THEOREM RowsInvariant == Spec => []IInv
<1>1. Init => IInv
  <2> SUFFICES ASSUME Init PROVE IInv
    OBVIOUS
  <2>1. RunsOK
    BY DEF Init, RunsOK, Run, NoRun
  <2>2. \A b \in Blob : BlobOK(b, blobs[b])
    BY LengthsAreNumbers DEF Init, BlobOK, BlobRow, Bytes
  <2> QED BY <2>1, <2>2 DEF Init, IInv, RowsOK, BlobOK
<1>2. IInv /\ [Next]_vars => IInv'
  <2> SUFFICES ASSUME IInv, [Next]_vars PROVE IInv'
    OBVIOUS
  <2>1. \A b \in Blob : BlobOK(b, blobs'[b])
    BY RowsStep, AdvancedOK DEF IInv
  <2>2. RowsOK'
    BY <2>1, DomainStep DEF IInv, RowsOK, BlobOK
  <2> QED BY <2>1, <2>2, RunsStep DEF IInv
<1> QED BY <1>1, <1>2, PTL DEF Spec

(* A blob that was complete once has all its bytes. *)
THEOREM CompletedIsWhole == Spec => []CompletedMeansWhole
<1>1. IInv => CompletedMeansWhole
  BY DEF IInv, BlobOK, CompletedMeansWhole
<1> QED BY <1>1, RowsInvariant, PTL

(* Nothing that a blob has reached is lost. *)
THEOREM HighWater == Spec => BlobsNeverGoBack
<1>1. IInv /\ [Next]_vars =>
        [\A b \in Blob :
           /\ blobs'[b].offset >= blobs[b].offset
           /\ blobs'[b].network >= blobs[b].network
           /\ blobs[b].completed => blobs'[b].completed]_vars
  <2> SUFFICES ASSUME IInv, [Next]_vars, NEW b \in Blob
               PROVE  /\ blobs'[b].offset >= blobs[b].offset
                      /\ blobs'[b].network >= blobs[b].network
                      /\ blobs[b].completed => blobs'[b].completed
    OBVIOUS
  <2>1. BlobOK(b, blobs[b])
    BY DEF IInv
  <2>2. blobs[b].offset \in Nat /\ blobs[b].network \in Nat
    BY <2>1, LengthsAreNumbers DEF BlobOK, BlobRow, Bytes
  <2>3. CASE blobs'[b] = blobs[b]
    BY <2>2, <2>3
  <2>4. CASE \E e \in Event(b) : blobs'[b] = Advanced(blobs[b], e)
    BY <2>1, <2>4, AdvancedOK
  <2> QED BY <2>3, <2>4, RowsStep
<1> QED BY <1>1, RowsInvariant, PTL DEF Spec, BlobsNeverGoBack

-----------------------------------------------------------------------------
(* The totals. *)

Pending(t, b) == runs[t].event # NoEvent /\ runs[t].event.blob = b

(* What a copy has reported as complete, it has written or has in hand. *)
EndedOK ==
  \A t \in Token : \A b \in runs[t].ended :
    \/ blobs[b].completed
    \/ Pending(t, b) /\ runs[t].event.disposition \in COMPLETE

(* The totals are those of rows as they were: of rows that had all that the
   holder of the claim has reported as complete and written. *)
SummedUp(off, net) ==
  /\ totals.bytes = SumFunction(off) /\ totals.network = SumFunction(net)
  /\ \A b \in Blob :
       /\ net[b] <= off[b]
       /\ off[b] <= blobs[b].offset /\ net[b] <= blobs[b].network
       /\ \A t \in Token :
            t = holder /\ b \in Sized /\ b \in runs[t].ended /\ ~ Pending(t, b)
              => off[b] = Length[b]

TotalsOK ==
  /\ totals \in [bytes : Nat, network : Nat, blobs : Nat]
  /\ \E off, net \in [Blob -> Nat] : SummedUp(off, net)

RestOK == clock \in {"now", "old"} /\ holder \in Token \cup {Null}

TInv == IInv /\ EndedOK /\ TotalsOK /\ RestOK

(* A row that is complete stays so, and no row loses bytes. *)
LEMMA RowsGrow ==
  ASSUME IInv, [Next]_vars, NEW b \in Blob
  PROVE  /\ {blobs[b].offset, blobs[b].network, blobs'[b].offset, blobs'[b].network} \subseteq Nat
         /\ blobs'[b].offset >= blobs[b].offset /\ blobs'[b].network >= blobs[b].network
         /\ blobs[b].completed => blobs'[b].completed
         /\ BlobOK(b, blobs[b]) /\ BlobOK(b, blobs'[b])
<1>1. BlobOK(b, blobs[b])
  BY DEF IInv
<1>2. BlobOK(b, blobs'[b])
  BY <1>1, RowsStep, AdvancedOK
<1>3. {blobs[b].offset, blobs[b].network, blobs'[b].offset, blobs'[b].network} \subseteq Nat
  BY <1>1, <1>2, LengthsAreNumbers DEF BlobOK, BlobRow, Bytes
<1>4. CASE blobs'[b] = blobs[b]
  BY <1>1, <1>2, <1>3, <1>4
<1>5. CASE \E e \in Event(b) : blobs'[b] = Advanced(blobs[b], e)
  BY <1>1, <1>2, <1>3, <1>5, AdvancedOK
<1> QED BY <1>4, <1>5, RowsStep

(* A report of a complete blob is in hand until it is written. *)
LEMMA EndedStep ==
  ASSUME IInv, EndedOK, [Next]_vars PROVE EndedOK'
<1> DEFINE Kept(t, b) == \/ blobs'[b].completed
                         \/ Pending(t, b)' /\ runs'[t].event.disposition \in COMPLETE
<1> SUFFICES ASSUME NEW t \in Token, NEW b \in runs'[t].ended PROVE Kept(t, b)
  BY DEF EndedOK
<1>1. b \in Blob
  BY RunsStep DEF IInv, RunsOK, Run
<1>2. ASSUME b \in runs[t].ended, runs'[t].event = runs[t].event PROVE Kept(t, b)
  BY <1>1, <1>2, RowsGrow DEF EndedOK, Pending
<1>3. ASSUME runs'[t] = NoRun PROVE FALSE
  BY <1>3 DEF NoRun
<1>4. runs \in [Token -> Run]
  BY DEF IInv, RunsOK
<1>5. ASSUME NEW u \in Token, RunStep(u), u # t PROVE Kept(t, b)
  <2>1. runs'[t] = runs[t]
    BY <1>4, <1>5 DEF RunStep, StartCopy, Receive, Progress, EndCopy
  <2> QED BY <1>2, <2>1
<1>6. CASE StartCopy(t)
  <2>1. runs'[t].ended = runs[t].ended /\ runs'[t].event = runs[t].event
    BY <1>4, <1>6 DEF StartCopy, Run
  <2> QED BY <1>2, <2>1
<1>7. ASSUME NEW c \in Blob, NEW e \in Event(c), Receive(t, e) PROVE Kept(t, b)
  <2>1. /\ runs[t].event = NoEvent /\ runs'[t].event = e
        /\ runs'[t].ended = IF e.disposition \in COMPLETE THEN runs[t].ended \cup {e.blob}
                                                         ELSE runs[t].ended
    BY <1>4, <1>7 DEF Receive, Run
  <2>2. e # NoEvent
    BY DEF Event, NoEvent
  <2>3. CASE b \in runs[t].ended
    BY <1>1, <2>1, <2>3, RowsGrow DEF EndedOK, Pending
  <2>4. CASE b \notin runs[t].ended
    BY <2>1, <2>2, <2>4 DEF Pending
  <2> QED BY <2>3, <2>4
<1>8. CASE Progress(t)
  <2> DEFINE e == runs[t].event
  <2>1. e.blob \in Blob /\ blobs' = [blobs EXCEPT ![e.blob] = Advanced(@, e)]
    BY <1>8, PendingEvent DEF Progress, IInv
  <2>2. runs'[t] = NoRun \/ runs'[t].ended = runs[t].ended
    BY <1>4, <1>8 DEF Progress, Run
  <2>3. b \in runs[t].ended
    BY <1>3, <2>2
  <2>4. CASE blobs[b].completed
    BY <1>1, <2>4, RowsGrow
  <2>5. CASE e.blob = b /\ e.disposition \in COMPLETE
    BY <2>1, <2>5 DEF Advanced, CompletedAfter, IInv, RowsOK
  <2> QED BY <2>3, <2>4, <2>5 DEF EndedOK, Pending
<1>9. CASE EndCopy(t)
  BY <1>3, <1>4, <1>9 DEF EndCopy
<1>10. CASE TimePasses \/ UNCHANGED vars
  BY <1>2, <1>10 DEF TimePasses, vars
<1> QED BY <1>5, <1>6, <1>7, <1>8, <1>9, <1>10 DEF Next, RunStep

(* The columns that are summed up. *)
Offsets == [b \in Blob |-> blobs[b].offset]

Networks == [b \in Blob |-> blobs[b].network]

(* What the holder writes are the sums of the rows as they are now. *)
LEMMA SummaryIsOfRows ==
  ASSUME IInv, [Next]_vars, NEW t \in Token, Progress(t), t = holder, EndedOK
  PROVE  /\ Offsets' \in [Blob -> Nat] /\ Networks' \in [Blob -> Nat]
         /\ totals' \in [bytes : Nat, network : Nat, blobs : Nat]
         /\ \A off, net : off = Offsets' /\ net = Networks' => SummedUp(off, net)'
         /\ totals'.bytes = SumFunction(Offsets')
         /\ totals'.network = SumFunction(Networks')
<1> USE PlansAreFinite
<1>1. totals' = Summary(blobs')
  BY DEF Progress, NoRun, NoEvent
<1>2. Offsets' \in [Blob -> Nat] /\ Networks' \in [Blob -> Nat]
  BY RowsGrow DEF Offsets, Networks
<1>3. totals'.bytes = SumFunction(Offsets') /\ totals'.network = SumFunction(Networks')
  BY <1>1 DEF Summary, Offsets, Networks
<1>4. SumFunction(Offsets') \in Nat /\ SumFunction(Networks') \in Nat
  BY <1>2, SumsAreOrdered
<1>5. Cardinality({b \in Blob : blobs'[b].disposition \in COMPLETE}) \in Nat
  BY FS_Subset, FS_CardinalityType
<1>6. totals' \in [bytes : Nat, network : Nat, blobs : Nat]
  BY <1>1, <1>3, <1>4, <1>5 DEF Summary
<1>7. ASSUME NEW b \in Blob
      PROVE  /\ Networks'[b] <= Offsets'[b]
             /\ Offsets'[b] <= blobs'[b].offset /\ Networks'[b] <= blobs'[b].network
             /\ \A u \in Token :
                  u = holder' /\ b \in Sized /\ b \in runs'[u].ended /\ ~ Pending(u, b)'
                    => Offsets'[b] = Length[b]
  <2>1. Offsets'[b] = blobs'[b].offset /\ Networks'[b] = blobs'[b].network
    BY DEF Offsets, Networks
  <2>2. BlobOK(b, blobs'[b]) /\ blobs'[b].offset \in Nat /\ blobs'[b].network \in Nat
    BY RowsGrow
  <2>3. ASSUME NEW u \in Token, b \in runs'[u].ended, ~ Pending(u, b)' PROVE blobs'[b].completed
    BY <2>3, EndedStep DEF EndedOK
  <2> QED BY <2>1, <2>2, <2>3 DEF BlobOK
<1>8. ASSUME NEW off, NEW net, off = Offsets', net = Networks' PROVE SummedUp(off, net)'
  BY <1>3, <1>7, <1>8 DEF SummedUp
<1> QED BY <1>2, <1>3, <1>6, <1>8

(* A step that writes no totals takes nothing from what they were summed up of. *)
LEMMA SumsAreKept ==
  ASSUME TInv, [Next]_vars, UNCHANGED totals,
         \A t \in Token : t = holder => ~ Progress(t),
         NEW off \in [Blob -> Nat], NEW net \in [Blob -> Nat], SummedUp(off, net)
  PROVE  SummedUp(off, net)'
<1>1. ASSUME NEW b \in Blob
      PROVE  /\ net[b] <= off[b] /\ off[b] <= blobs'[b].offset /\ net[b] <= blobs'[b].network
  <2>1. net[b] <= off[b] /\ off[b] <= blobs[b].offset /\ net[b] <= blobs[b].network
    BY DEF SummedUp
  <2>2. /\ {blobs[b].offset, blobs[b].network, blobs'[b].offset, blobs'[b].network} \subseteq Nat
        /\ blobs'[b].offset >= blobs[b].offset /\ blobs'[b].network >= blobs[b].network
    BY RowsGrow DEF TInv
  <2>3. off[b] \in Nat /\ net[b] \in Nat
    OBVIOUS
  <2> QED BY <2>1, <2>2, <2>3
<1>2. runs \in [Token -> Run]
  BY DEF TInv, IInv, RunsOK
<1>3. ASSUME NEW b \in Blob, NEW t \in Token, t = holder', b \in Sized, b \in runs'[t].ended,
             ~ Pending(t, b)'
      PROVE  t = holder /\ b \in runs[t].ended /\ ~ Pending(t, b)
  <2>1. ASSUME NEW u \in Token, StartCopy(u) PROVE FALSE
    <3>1. t = u /\ runs'[t].ended = runs[t].ended /\ runs[t].ended = {}
      BY <1>2, <1>3, <2>1 DEF StartCopy, NoRun
    <3> QED BY <1>3, <3>1
  <2>2. ASSUME NEW u \in Token, NEW c \in Blob, NEW e \in Event(c), Receive(u, e)
        PROVE  t = holder /\ b \in runs[t].ended /\ ~ Pending(t, b)
    <3>1. /\ t = u /\ holder' = holder /\ runs[u].event = NoEvent /\ runs'[u].event = e
          /\ runs'[u].ended = IF e.disposition \in COMPLETE THEN runs[u].ended \cup {e.blob}
                                                           ELSE runs[u].ended
      BY <1>2, <1>3, <2>2 DEF Receive, Run
    <3>2. e # NoEvent
      BY DEF Event, NoEvent
    <3> QED BY <1>3, <3>1, <3>2 DEF Pending
  <2>3. ASSUME NEW u \in Token, u # holder, Progress(u)
        PROVE  t = holder /\ b \in runs[t].ended /\ ~ Pending(t, b)
    BY <1>2, <1>3, <2>3 DEF Progress, Pending
  <2>4. ASSUME NEW u \in Token, EndCopy(u)
        PROVE  t = holder /\ b \in runs[t].ended /\ ~ Pending(t, b)
    <3>1. t = holder /\ runs'[t] \in {runs[t], NoRun}
      BY <1>2, <1>3, <2>4, NullIsNoToken DEF EndCopy
    <3> QED BY <1>3, <3>1 DEF NoRun, Pending
  <2>5. CASE TimePasses \/ UNCHANGED vars
    BY <1>3, <2>5 DEF TimePasses, vars, Pending
  <2> QED BY <2>1, <2>2, <2>3, <2>4, <2>5 DEF Next, RunStep
<1> QED BY <1>1, <1>3 DEF SummedUp

(* Only the holder's progress writes totals. *)
LEMMA TotalsWritten ==
  ASSUME [Next]_vars PROVE UNCHANGED totals \/ \E t \in Token : t = holder /\ Progress(t)
BY DEF Next, RunStep, StartCopy, Receive, Progress, EndCopy, TimePasses, vars

(* Either way the totals are sums of rows that are no more than the present ones. *)
LEMMA TotalsStep ==
  ASSUME TInv, [Next]_vars PROVE TotalsOK'
<1>1. CASE \E t \in Token : t = holder /\ Progress(t)
  <2>1. /\ Offsets' \in [Blob -> Nat] /\ Networks' \in [Blob -> Nat]
        /\ totals' \in [bytes : Nat, network : Nat, blobs : Nat]
        /\ \A off, net : off = Offsets' /\ net = Networks' => SummedUp(off, net)'
    BY <1>1, SummaryIsOfRows DEF TInv
  <2>2. \E off, net \in [Blob -> Nat] : SummedUp(off, net)'
    BY <2>1
  <2> QED BY <2>1, <2>2 DEF TotalsOK
<1>2. CASE ~ \E t \in Token : t = holder /\ Progress(t)
  <2>1. UNCHANGED totals
    BY <1>2, TotalsWritten
  <2>2. PICK off \in [Blob -> Nat], net \in [Blob -> Nat] : SummedUp(off, net)
    BY DEF TInv, TotalsOK
  <2>3. SummedUp(off, net)'
    BY <1>2, <2>1, <2>2, SumsAreKept
  <2> QED BY <2>1, <2>3 DEF TInv, TotalsOK
<1> QED BY <1>1, <1>2

(* TInv is inductive. *)
THEOREM TotalsInvariant == Spec => []TInv
<1>1. Init => EndedOK /\ TotalsOK /\ RestOK
  <2> SUFFICES ASSUME Init PROVE EndedOK /\ TotalsOK
    BY DEF Init, RestOK
  <2> DEFINE zero == [b \in Blob |-> 0]
  <2>1. SumFunction(zero) = 0
    <3>1. Under(zero, Blob) = {}
      BY DEF Under
    <3> QED BY <3>1, PlansAreFinite, SumCounts, FS_EmptySet
  <2>2. zero \in [Blob -> Nat] /\ \A b \in Blob : zero[b] = 0
    OBVIOUS
  <2>3. \A t \in Token : runs[t].ended = {}
    BY DEF Init, NoRun
  <2>4. SummedUp(zero, zero)
    <3> HIDE DEF zero
    <3> QED BY <2>1, <2>2, <2>3 DEF Init, SummedUp
  <2>5. TotalsOK
    BY <2>2, <2>4 DEF TotalsOK, Init
  <2> QED BY <2>3, <2>5 DEF EndedOK
<1>2. TInv /\ [Next]_vars => EndedOK' /\ TotalsOK' /\ RestOK'
  <2> SUFFICES ASSUME TInv, [Next]_vars PROVE RestOK'
    BY EndedStep, TotalsStep DEF TInv
  <2>1. ASSUME NEW t \in Token, RunStep(t)
        PROVE  RestOK'
    BY <2>1 DEF TInv, RestOK, RunStep, StartCopy, Receive, Progress, EndCopy
  <2> QED BY <2>1 DEF TInv, RestOK, Next, TimePasses, vars
<1>3. Spec => []IInv
  BY RowsInvariant
<1>4. IInv /\ EndedOK /\ TotalsOK /\ RestOK <=> TInv
  BY DEF TInv
<1> QED BY <1>1, <1>2, <1>3, <1>4, PTL DEF Spec

(* The variables keep their types: the totals are numbers. *)
THEOREM TypeCorrect == Spec => []TypeOK
<1>1. TInv => TypeOK
  BY DEF TInv, IInv, TotalsOK, RestOK, TypeOK
<1> QED BY <1>1, TotalsInvariant, PTL

(* Bytes from the network never exceed bytes, of a blob or of the job, though
   the totals may be those of older rows (store.progress). *)
THEOREM NetworkWithin == Spec => []NetworkWithinLogical
<1>1. TInv => NetworkWithinLogical
  <2> SUFFICES ASSUME TInv PROVE NetworkWithinLogical
    OBVIOUS
  <2>1. PICK off \in [Blob -> Nat], net \in [Blob -> Nat] : SummedUp(off, net)
    BY DEF TInv, TotalsOK
  <2>2. SumFunction(net) <= SumFunction(off)
    BY <2>1, PlansAreFinite, SumsAreOrdered DEF SummedUp
  <2> QED BY <2>1, <2>2 DEF SummedUp, NetworkWithinLogical, TInv, IInv, BlobOK
<1> QED BY <1>1, TotalsInvariant, PTL

(* When the holder has reported every blob, the totals count every byte. *)
THEOREM WholeCopyCounts == Spec => []WholeCopyIsCounted
<1>1. TInv => WholeCopyIsCounted
  <2> SUFFICES ASSUME TInv, NEW t \in Token, t = holder, runs[t].event = NoEvent,
                      runs[t].ended = Blob, Blob \subseteq Sized
               PROVE  totals.bytes = SumFunction(Length)
    BY DEF WholeCopyIsCounted
  <2>1. PICK off \in [Blob -> Nat], net \in [Blob -> Nat] : SummedUp(off, net)
    BY DEF TInv, TotalsOK
  <2>2. \A b \in Blob : off[b] = Length[b]
    BY <2>1 DEF SummedUp, Pending
  <2>3. off = Length
    BY <2>2, LengthsAreNumbers
  <2> QED BY <2>1, <2>3 DEF SummedUp
<1> QED BY <1>1, TotalsInvariant, PTL

(* The totals of the job never fall: the rows they are taken from next have
   all that those had from which they were taken before. *)
THEOREM TotalsGrow == Spec => TotalsNeverFall
<1>1. TInv /\ [Next]_vars =>
        [totals'.bytes >= totals.bytes /\ totals'.network >= totals.network]_vars
  <2> SUFFICES ASSUME TInv, [Next]_vars
               PROVE  totals'.bytes >= totals.bytes /\ totals'.network >= totals.network
    OBVIOUS
  <2>1. totals.bytes \in Nat /\ totals.network \in Nat
    BY DEF TInv, TotalsOK
  <2>2. CASE UNCHANGED totals
    BY <2>1, <2>2
  <2>3. ASSUME NEW t \in Token, t = holder, Progress(t)
        PROVE  totals'.bytes >= totals.bytes /\ totals'.network >= totals.network
    <3>1. PICK off \in [Blob -> Nat], net \in [Blob -> Nat] : SummedUp(off, net)
      BY DEF TInv, TotalsOK
    <3>2. /\ Offsets' \in [Blob -> Nat] /\ Networks' \in [Blob -> Nat]
          /\ totals'.bytes = SumFunction(Offsets')
          /\ totals'.network = SumFunction(Networks')
          /\ totals' \in [bytes : Nat, network : Nat, blobs : Nat]
      BY <2>3, SummaryIsOfRows DEF TInv
    <3>3. ASSUME NEW b \in Blob
          PROVE  off[b] <= Offsets'[b] /\ net[b] <= Networks'[b]
      <4>1. off[b] <= blobs[b].offset /\ net[b] <= blobs[b].network
        BY <3>1 DEF SummedUp
      <4>2. /\ {blobs[b].offset, blobs[b].network} \subseteq Nat
            /\ {blobs'[b].offset, blobs'[b].network} \subseteq Nat
            /\ blobs'[b].offset >= blobs[b].offset /\ blobs'[b].network >= blobs[b].network
        BY RowsGrow DEF TInv
      <4>3. Offsets'[b] = blobs'[b].offset /\ Networks'[b] = blobs'[b].network
        BY DEF Offsets, Networks
      <4>4. off[b] \in Nat /\ net[b] \in Nat
        BY <3>1
      <4> QED BY <4>1, <4>2, <4>3, <4>4
    <3>4. SumFunction(off) <= SumFunction(Offsets')
      BY <3>2, <3>3, PlansAreFinite, SumsAreOrdered
    <3>5. SumFunction(net) <= SumFunction(Networks')
      BY <3>2, <3>3, PlansAreFinite, SumsAreOrdered
    <3> QED BY <2>1, <3>1, <3>2, <3>4, <3>5 DEF SummedUp
  <2> QED BY <2>2, <2>3, TotalsWritten
<1> QED BY <1>1, TotalsInvariant, PTL DEF Spec, TotalsNeverFall

=============================================================================
