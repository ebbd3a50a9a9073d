---------------------------- MODULE PlanWalkProofs ----------------------------
(***************************************************************************)
(* Proofs about PlanWalk, for any source repository and any limits.  The   *)
(* limits are tested when walk is entered, after the record was added: a   *)
(* walk that goes on has passed the test for all it has added.  An entry   *)
(* of a list that was entered is named by the plan, or waits in a frame.   *)
(*                                                                         *)
(* A plan is a closure: Closure is first shown to be the least closed set, *)
(* by induction over its rounds; then no step of the walk leaves a set     *)
(* that is closed, and an answered plan is one.  Its cost is bounded: each *)
(* record of the walk below the root takes an entry of a list off a frame, *)
(* and a list has one frame at most.                                       *)
(***************************************************************************)
EXTENDS PlanWalk, SequenceTheorems, FiniteSetTheorems, TLAPS

WithinLimits == phase # "failed" => Len(records) <= MaxRecords

Waits(d) == \E k \in 1 .. Len(stack) : d \in stack[k].todo

(* Listed with the filter: an index met first below a referrer is listed
   without it, which names more. *)
EntriesKept ==
  /\ phase # "failed" =>
       \A m \in seen \cap Index : \A d \in Listed(m, TRUE) : d.to \in Named \/ Waits(d)
  /\ phase = "done" => stack = <<>>

(* Whatever was named was entered, but for the root before the walk. *)
NamesEntered ==
  /\ phase # "failed" => Named \subseteq seen \cup {Root}
  /\ seen # {} => Root \in seen
  /\ phase \in {"referrers", "done"} \/ stack # <<>> => seen # {}

IInv == TypeOK /\ WithinLimits /\ EntriesKept /\ NamesEntered

(* An answered plan names every entry that the platform filter selects, of
   every list it names, the lists that were walked as referrers included. *)
NothingLeftOut ==
  phase = "done" => \A m \in Named \cap Index : \A d \in Listed(m, TRUE) : d.to \in Named

-----------------------------------------------------------------------------
(* The stack without its top, and one record more. *)
LEMMA BelowTop ==
  ASSUME stack \in Seq(Frame), stack # <<>>
  PROVE  /\ Len(stack) \in Nat \ {0} /\ Top = stack[Len(stack)] /\ Top \in Frame
         /\ Below \in Seq(Frame) /\ Len(Below) = Len(stack) - 1
         /\ \A k \in 1 .. Len(stack) - 1 : Below[k] = stack[k]
<1>1. PICK n \in Nat : Len(stack) = n + 1
  <2>1. Len(stack) \in Nat \ {0}
    BY EmptySeq
  <2> QED BY <2>1, Len(stack) - 1 \in Nat
<1>2. \A k \in 1 .. n + 1 : stack[k] \in Frame
  BY <1>1, ElementOfSeq
<1>3. Below = SubSeq(stack, 1, n)
  <2>1. Len(stack) - 1 = n
    BY <1>1
  <2> QED BY <2>1 DEF Below
<1>4. /\ Below \in Seq(Frame)
      /\ Len(Below) = IF 1 <= n THEN n - 1 + 1 ELSE 0
      /\ \A k \in 1 .. n - 1 + 1 : Below[k] = stack[1 + k - 1]
  <2>1. \A k \in 1 .. n : stack[k] \in Frame
    BY <1>2
  <2> QED BY <1>3, <2>1, SubSeqProperties
<1>5. Len(Below) = n
  BY <1>4
<1>6. ASSUME NEW k \in 1 .. n PROVE Below[k] = stack[k]
  <2>1. n - 1 + 1 = n /\ 1 + k - 1 = k
    OBVIOUS
  <2> QED BY <1>4, <2>1
<1>7. Top = stack[Len(stack)] /\ Top \in Frame
  BY <1>1, <1>2 DEF Top
<1> QED BY <1>1, <1>4, <1>5, <1>6, <1>7

LEMMA OneMoreRecord ==
  ASSUME records \in Seq(Record), NEW m \in Manifest, NEW kind, Adds(m, kind),
         kind \in {"root", "manifest", "referrer"}
  PROVE  records' \in Seq(Record) /\ Named' = Named \cup {m}
<1> DEFINE record == [digest |-> m, kind |-> kind]
<1>1. record \in Record /\ records' = Append(records, record)
  BY DEF Record, Adds
<1>2. /\ records' \in Seq(Record) /\ Len(records) \in Nat /\ Len(records') = Len(records) + 1
      /\ \A i \in 1 .. Len(records) : records'[i] = records[i]
      /\ records'[Len(records) + 1] = record
  BY <1>1
<1>3. 1 .. Len(records') = (1 .. Len(records)) \cup {Len(records')}
  BY <1>2
<1>4. Named' = {records'[i].digest : i \in 1 .. Len(records)} \cup {records'[Len(records')].digest}
  BY <1>3 DEF Named
<1> QED BY <1>2, <1>4 DEF Named

LEMMA SameLists ==
  ASSUME UNCHANGED <<graph, request>>, NEW m, NEW filtered
  PROVE  Listed(m, filtered)' = Listed(m, filtered)
BY DEF Listed, Selected

LEMMA SamePlan ==
  ASSUME UNCHANGED <<graph, request, stack, records>>
  PROVE  /\ Named' = Named
         /\ \A d : Waits(d)' <=> Waits(d)
         /\ \A m : Listed(m, TRUE)' = Listed(m, TRUE)
BY SameLists DEF Named, Waits

(* One call of walk, with one record added or, for the root, none. *)
LEMMA EnterTyped ==
  ASSUME TypeOK, NEW m \in Manifest, NEW filtered \in BOOLEAN, NEW depth \in Nat,
         NEW below \in Seq(Frame), NEW found \in Seq(Record),
         Enter(m, filtered, depth, below, found),
         Len(below) <= depth, phase \in {"tree", "referrers"}
  PROVE  /\ phase' \in {"tree", "referrers", "failed"}
         /\ stack' \in Seq(Frame) /\ Len(stack') <= MaxDepth + 1
         /\ seen' \subseteq Manifest /\ blobs' \subseteq Blob
         /\ phase' # "failed" => Len(found) <= MaxRecords
<1> USE ManifestsAreWellFormed
<1>1. CASE BeyondLimits(depth, found)
  BY <1>1 DEF Enter, TypeOK
<1>2. CASE ~ BeyondLimits(depth, found) /\ Known(m)
  BY <1>2 DEF Enter, TypeOK, BeyondLimits
<1>3. CASE ~ BeyondLimits(depth, found) /\ ~ Known(m)
  <2>1. depth <= MaxDepth /\ Len(found) <= MaxRecords /\ Len(below) \in Nat
    BY <1>3 DEF BeyondLimits
  <2>2. UNCHANGED phase /\ seen' = seen \cup {m}
    BY <1>3 DEF Enter
  <2>3. CASE m \in Index
    <3>1. Listed(m, filtered) \subseteq Edge
      BY <2>3 DEF Listed, TypeOK, Graph
    <3>2. [todo |-> Listed(m, filtered), filtered |-> filtered] \in Frame
      BY <3>1 DEF Frame
    <3>3. /\ stack' = Append(below, [todo |-> Listed(m, filtered), filtered |-> filtered])
          /\ UNCHANGED blobs
      BY <1>3, <2>3 DEF Enter
    <3>4. stack' \in Seq(Frame) /\ Len(stack') = Len(below) + 1
      BY <3>2, <3>3
    <3> QED BY <2>1, <2>2, <3>3, <3>4 DEF TypeOK
  <2>4. CASE m \notin Index
    BY <1>3, <2>1, <2>2, <2>4 DEF Enter, TypeOK
  <2> QED BY <2>3, <2>4
<1> QED BY <1>1, <1>2, <1>3

(* Walk enters its manifest unless it fails, and nothing is forgotten. *)
LEMMA EnterSees ==
  ASSUME NEW m, NEW filtered, NEW depth, NEW below, NEW found, phase # "failed",
         Enter(m, filtered, depth, below, found)
  PROVE  /\ seen \subseteq seen'
         /\ phase' # "failed" => m \in seen'
         /\ phase' = "failed" => UNCHANGED <<stack, seen>>
BY DEF Enter, Known

(* What walk leaves on the stack contains all that was below it, and the
   entries of the index it has entered. *)
LEMMA EnterKeeps ==
  ASSUME NEW m, NEW filtered \in BOOLEAN, NEW depth, NEW below \in Seq(Frame), NEW found,
         Enter(m, filtered, depth, below, found), phase' # "failed",
         UNCHANGED <<graph, request>>
  PROVE  /\ \A d : (\E k \in 1 .. Len(below) : d \in below[k].todo) => Waits(d)'
         /\ \A n \in (seen' \ seen) \cap Index : \A d \in Listed(n, TRUE) : Waits(d)'
<1>1. CASE Known(m) \/ m \notin Index
  BY <1>1 DEF Enter, Known, Waits
<1>2. CASE ~ Known(m) /\ m \in Index
  <2> DEFINE top == [todo |-> Listed(m, filtered), filtered |-> filtered]
  <2>1. stack' = Append(below, top) /\ seen' = seen \cup {m}
    BY <1>2 DEF Enter
  <2>2. /\ Len(below) \in Nat
        /\ Len(stack') = Len(below) + 1
        /\ \A k \in 1 .. Len(below) : stack'[k] = below[k]
        /\ stack'[Len(below) + 1] = top
    BY <2>1
  <2>3. Listed(m, TRUE) \subseteq top.todo
    BY DEF Listed, Selected
  <2>4. ASSUME NEW d, NEW k \in 1 .. Len(below), d \in below[k].todo PROVE Waits(d)'
    BY <2>1, <2>2, <2>4 DEF Waits
  <2>5. ASSUME NEW d \in Listed(m, TRUE) PROVE Waits(d)'
    <3>1. Len(below) + 1 \in 1 .. Len(below) + 1
      BY <2>2
    <3>2. d \in stack'[Len(below) + 1].todo
      BY <2>2, <2>3, <2>5, Zenon
    <3> QED BY <2>2, <3>1, <3>2, Zenon DEF Waits
  <2> QED BY <2>1, <2>4, <2>5
<1> QED BY <1>1, <1>2

-----------------------------------------------------------------------------

(* The walk never takes an entry off a frame without naming it, and adds
   nothing beyond its limits. *)
THEOREM Invariance == Spec => []IInv
<1> USE ManifestsAreWellFormed
<1>1. Init => IInv
  <2> SUFFICES ASSUME Init PROVE IInv
    OBVIOUS
  <2>1. records \in Seq(Record) /\ Len(records) = 1
    BY DEF Init, Record
  <2>2. stack \in Seq(Frame) /\ Len(stack) = 0 /\ subjects \in Seq(Record)
    BY DEF Init
  <2>3. Named = {Root}
    BY <2>1 DEF Init, Named
  <2> QED BY <2>1, <2>2, <2>3 DEF Init, IInv, TypeOK, WithinLimits, EntriesKept, NamesEntered
<1>2. IInv /\ [Next]_vars => IInv'
  <2> SUFFICES ASSUME IInv, [Next]_vars PROVE IInv'
    OBVIOUS
  <2> TypeOK /\ WithinLimits /\ EntriesKept /\ NamesEntered
    BY DEF IInv
  <2> Len(records) \in Nat /\ Len(stack) \in Nat
    BY DEF TypeOK
  <2>1. CASE Start
    <3>1. /\ Enter(Root, TRUE, 0, <<>>, records)
          /\ UNCHANGED <<graph, request, records, subjects, waiting>>
          /\ phase = "tree" /\ seen = {}
      BY <2>1 DEF Start
    <3>2. <<>> \in Seq(Frame) /\ Len(<<>>) = 0 /\ records \in Seq(Record)
      BY EmptySeq DEF TypeOK
    <3>3. /\ phase' \in {"tree", "referrers", "failed"}
          /\ stack' \in Seq(Frame) /\ Len(stack') <= MaxDepth + 1
          /\ seen' \subseteq Manifest /\ blobs' \subseteq Blob
          /\ phase' # "failed" => Len(records) <= MaxRecords
      <4>1. Len(<<>>) <= 0 /\ 0 \in Nat /\ TRUE \in BOOLEAN /\ Root \in Manifest
            /\ phase \in {"tree", "referrers"}
        BY <3>1, <3>2
      <4> QED BY <3>1, <3>2, <4>1, EnterTyped, Zenon
    <3>4. TypeOK' /\ WithinLimits'
      BY <3>1, <3>3 DEF TypeOK, WithinLimits
    <3>5. ASSUME phase' # "failed", NEW m \in seen' \cap Index, NEW e \in Listed(m, TRUE)'
          PROVE  Waits(e)'
      BY <3>1, <3>2, <3>5, EnterKeeps, SameLists
    <3>6. EntriesKept'
      BY <3>3, <3>5 DEF EntriesKept
    <3>7. /\ phase # "failed" /\ Named' = Named /\ Named \subseteq {Root}
          /\ phase' # "failed" => Root \in seen'
          /\ phase' = "failed" => UNCHANGED <<stack, seen>>
          /\ stack = <<>> /\ seen' \subseteq {Root}
      BY <3>1, EnterSees DEF Enter, NamesEntered, Named
    <3>8. NamesEntered'
      BY <3>1, <3>3, <3>7 DEF NamesEntered
    <3> QED BY <3>4, <3>6, <3>8 DEF IInv
  <2>2. ASSUME NEW d, stack # <<>>, d \in Top.todo, VisitChild(d) PROVE IInv'
    <3> DEFINE rest == [Top EXCEPT !.todo = @ \ {d}]
               below == Append(Below, rest)
    <3>1. Top \in Frame /\ d \in Edge /\ d.to \in Manifest /\ rest \in Frame
      <4>1. Top \in Frame
        BY <2>2, BelowTop DEF TypeOK
      <4> QED BY <2>2, <4>1 DEF Frame, Edge
    <3>2. /\ below \in Seq(Frame) /\ Len(below) = Len(stack)
          /\ \A k \in 1 .. Len(stack) - 1 : below[k] = stack[k]
          /\ below[Len(stack)] = rest
      BY <2>2, <3>1, BelowTop DEF TypeOK
    <3>3. /\ records' = Append(records, [digest |-> d.to, kind |-> "manifest"])
          /\ Enter(d.to, Top.filtered, Depth, below, records')
          /\ UNCHANGED <<graph, request, subjects, waiting>>
          /\ phase \in {"tree", "referrers"}
      BY <2>2 DEF VisitChild, Adds
    <3>4. records' \in Seq(Record) /\ Named' = Named \cup {d.to}
      BY <2>2, <3>1, OneMoreRecord DEF VisitChild, TypeOK
    <3>5. Depth \in Nat /\ Len(below) <= Depth /\ Top.filtered \in BOOLEAN
      BY <3>1, <3>2 DEF Depth, Frame
    <3>6. TypeOK' /\ WithinLimits' /\ phase' # "done"
      <4>1. /\ phase' \in {"tree", "referrers", "failed"}
            /\ stack' \in Seq(Frame) /\ Len(stack') <= MaxDepth + 1
            /\ seen' \subseteq Manifest /\ blobs' \subseteq Blob
            /\ phase' # "failed" => Len(records') <= MaxRecords
        <5> HIDE DEF below
        <5>1. Enter(d.to, Top.filtered, Depth, below, records') /\ phase \in {"tree", "referrers"}
          BY <3>3
        <5>2. d.to \in Manifest /\ below \in Seq(Frame) /\ records' \in Seq(Record)
          BY <3>1, <3>2, <3>4
        <5> QED BY <3>5, <5>1, <5>2, EnterTyped, Zenon
      <4> QED BY <3>3, <3>4, <4>1 DEF TypeOK, WithinLimits
    <3>7. ASSUME NEW e, Waits(e), e # d PROVE \E k \in 1 .. Len(below) : e \in below[k].todo
      <4>1. PICK k \in 1 .. Len(stack) : e \in stack[k].todo
        BY <3>7 DEF Waits, TypeOK
      <4>2. CASE k = Len(stack)
        BY <3>1, <3>2, <3>7, <4>1, <4>2 DEF Top, Frame
      <4>3. CASE k # Len(stack)
        BY <3>2, <4>1, <4>3
      <4> QED BY <4>2, <4>3
    <3>8. EntriesKept'
      <4> SUFFICES ASSUME phase' # "failed",
                          NEW m \in seen' \cap Index, NEW e \in Listed(m, TRUE)'
                   PROVE  (e.to \in Named \/ Waits(e))'
        BY <3>6 DEF EntriesKept
      <4>1. e \in Listed(m, TRUE)
        BY <3>3 DEF Listed, Selected
      <4>2. CASE m \in seen
        <5>1. e.to \in Named \/ Waits(e)
          BY <3>3, <4>1, <4>2 DEF EntriesKept
        <5>2. Waits(e) /\ e # d => Waits(e)'
          BY <3>2, <3>3, <3>5, <3>7, EnterKeeps
        <5> QED BY <3>4, <5>1, <5>2
      <4>3. CASE m \notin seen
        BY <3>2, <3>3, <3>5, <4>1, <4>3, EnterKeeps
      <4> QED BY <4>2, <4>3
    <3>9. seen \subseteq seen' /\ (phase' # "failed" => d.to \in seen')
      BY <3>3, EnterSees
    <3>10. NamesEntered'
      <4>1. Root \in seen /\ Root \in seen'
        BY <2>2, <3>9 DEF NamesEntered
      <4>2. phase' # "failed" => Named' \subseteq seen' \cup {Root}
        BY <3>3, <3>4, <3>9 DEF NamesEntered
      <4> QED BY <4>1, <4>2 DEF NamesEntered
    <3> QED BY <3>6, <3>8, <3>10 DEF IInv
  <2>3. ASSUME NEW m \in waiting, VisitReferrer(m) PROVE IInv'
    <3>1. /\ records' = Append(records, [digest |-> m, kind |-> "referrer"])
          /\ Enter(m, FALSE, 1, <<>>, records')
          /\ waiting' = waiting \ {m}
          /\ UNCHANGED <<graph, request, subjects>>
          /\ phase = "referrers" /\ stack = <<>>
      BY <2>3 DEF VisitReferrer, Adds
    <3>2. records' \in Seq(Record) /\ Named' = Named \cup {m}
      BY <2>3, OneMoreRecord DEF VisitReferrer, TypeOK
    <3>3. <<>> \in Seq(Frame) /\ Len(<<>>) = 0 /\ m \in Manifest
      BY EmptySeq DEF TypeOK
    <3>4. TypeOK' /\ WithinLimits' /\ phase' # "done"
      <4>1. /\ phase' \in {"tree", "referrers", "failed"}
            /\ stack' \in Seq(Frame) /\ Len(stack') <= MaxDepth + 1
            /\ seen' \subseteq Manifest /\ blobs' \subseteq Blob
            /\ phase' # "failed" => Len(records') <= MaxRecords
        <5>1. Len(<<>>) <= 1 /\ 1 \in Nat /\ FALSE \in BOOLEAN /\ phase \in {"tree", "referrers"}
          BY <3>1, <3>3
        <5>2. Enter(m, FALSE, 1, <<>>, records') /\ records' \in Seq(Record)
          BY <3>1, <3>2
        <5> QED BY <3>3, <5>1, <5>2, EnterTyped, Zenon
      <4> QED BY <3>1, <3>2, <4>1 DEF TypeOK, WithinLimits
    <3>5. EntriesKept'
      <4> SUFFICES ASSUME phase' # "failed",
                          NEW n \in seen' \cap Index, NEW e \in Listed(n, TRUE)'
                   PROVE  (e.to \in Named \/ Waits(e))'
        BY <3>4 DEF EntriesKept
      <4>1. e \in Listed(n, TRUE)
        BY <3>1, SameLists
      <4>2. CASE n \in seen
        <5>1. ~ Waits(e)
          BY <3>1, <3>3 DEF Waits
        <5> QED BY <3>1, <3>2, <4>1, <4>2, <5>1 DEF EntriesKept
      <4>3. CASE n \notin seen
        <5>1. \A k \in (seen' \ seen) \cap Index : \A d \in Listed(k, TRUE) : Waits(d)'
          <6>1. /\ FALSE \in BOOLEAN /\ Enter(m, FALSE, 1, <<>>, records')
                /\ UNCHANGED <<graph, request>>
            BY <3>1
          <6> QED BY <3>3, <6>1, EnterKeeps, Zenon
        <5> QED BY <4>1, <4>3, <5>1
      <4> QED BY <4>2, <4>3
    <3>6. seen \subseteq seen' /\ (phase' # "failed" => m \in seen')
      BY <3>1, EnterSees
    <3>7. NamesEntered'
      BY <3>1, <3>2, <3>6 DEF NamesEntered
    <3> QED BY <3>4, <3>5, <3>7 DEF IInv
  <2>4. CASE Return
    <3>1. Len(stack) > 0 /\ Top = stack[Len(stack)]
      BY <2>4, BelowTop DEF Return, TypeOK
    <3>2. /\ stack' \in Seq(Frame) /\ Len(stack') = Len(stack) - 1
          /\ \A k \in 1 .. Len(stack) - 1 : stack'[k] = stack[k]
      BY <2>4, BelowTop DEF Return, TypeOK
    <3>3. ASSUME NEW e, Waits(e) PROVE Waits(e)'
      <4>1. PICK k \in 1 .. Len(stack) : e \in stack[k].todo
        BY <3>3 DEF Waits, TypeOK
      <4>2. k # Len(stack)
        BY <2>4, <3>1, <4>1 DEF Return
      <4> QED BY <3>2, <4>1, <4>2 DEF Waits
    <3>4. UNCHANGED <<graph, request, phase, seen, records, blobs, subjects, waiting>>
          /\ phase # "done"
      BY <2>4 DEF Return
    <3>5. TypeOK' /\ WithinLimits'
      BY <3>2, <3>4 DEF TypeOK, WithinLimits
    <3>6. EntriesKept'
      BY <3>3, <3>4 DEF EntriesKept, Listed, Selected, Named
    <3>7. NamesEntered'
      BY <2>4, <3>4 DEF Return, NamesEntered, Named
    <3> QED BY <3>5, <3>6, <3>7 DEF IInv
  <2>5. CASE EndTree
    <3>1. /\ UNCHANGED <<graph, request, stack, seen, records, blobs, waiting>>
          /\ phase = "tree" /\ stack = <<>> /\ seen # {}
          /\ phase' \in {"referrers", "done"} /\ subjects' \in Seq(Record)
      BY <2>5 DEF EndTree, TypeOK
    <3> QED BY <3>1, SamePlan DEF IInv, TypeOK, WithinLimits, EntriesKept, NamesEntered
  <2>6. CASE ListReferrers
    <3>1. /\ subjects' \in Seq(Record) /\ waiting' \subseteq Manifest
      <4>1. subjects \in Seq(Record) /\ subjects # <<>>
        BY <2>6 DEF ListReferrers, TypeOK
      <4>2. Head(subjects) \in Record /\ Tail(subjects) \in Seq(Record)
        BY <4>1
      <4>3. graph.referrers \in [Manifest -> SUBSET Manifest] /\ Head(subjects).digest \in Manifest
        BY <4>2 DEF TypeOK, Graph, Record
      <4> QED BY <2>6, <4>2, <4>3 DEF ListReferrers
    <3> QED BY <2>6, <3>1, SamePlan DEF ListReferrers, IInv, TypeOK, WithinLimits, EntriesKept,
                                        NamesEntered
  <2>7. CASE Answer
    BY <2>7, SamePlan DEF Answer, BetweenSubjects, IInv, TypeOK, WithinLimits, EntriesKept,
                          NamesEntered
  <2>8. CASE Fail
    BY <2>8 DEF Fail, IInv, TypeOK, WithinLimits, EntriesKept, NamesEntered
  <2>9. CASE UNCHANGED vars
    BY <2>9, SamePlan DEF vars, IInv, TypeOK, WithinLimits, EntriesKept, NamesEntered
  <2> QED BY <2>1, <2>2, <2>3, <2>4, <2>5, <2>6, <2>7, <2>8, <2>9 DEF Next
<1> QED BY <1>1, <1>2, PTL DEF Spec

(* The variables keep their types, and the recursion its depth. *)
THEOREM TypeCorrect == Spec => []TypeOK
<1>1. IInv => TypeOK
  BY DEF IInv
<1> QED BY <1>1, Invariance, PTL

(* An answered plan is within its limits (plan, walk). *)
THEOREM PlansFitLimits == Spec => []PlanFitsLimits
<1>1. IInv => PlanFitsLimits
  BY DEF IInv, WithinLimits, PlanFitsLimits
<1> QED BY <1>1, Invariance, PTL

(* An answered plan leaves out nothing that its lists select (plan, walk). *)
THEOREM PlansLeaveNothingOut == Spec => []NothingLeftOut
<1>1. ASSUME IInv, phase = "done", NEW d PROVE ~ Waits(d)
  <2>1. stack = <<>> /\ Len(<<>>) = 0
    BY <1>1, EmptySeq DEF IInv, EntriesKept
  <2> QED BY <2>1 DEF Waits
<1>2. IInv => NothingLeftOut
  BY <1>1, Zenon DEF IInv, EntriesKept, NamesEntered, NothingLeftOut
<1> QED BY <1>2, Invariance, PTL

-----------------------------------------------------------------------------
(* Closures. *)

(* A set of numbers has one whose predecessor is not in it: induction over
   numbers, in a form that needs no predicate. *)
LEMMA LeastNumber ==
  ASSUME NEW U, U \subseteq Nat, U # {} PROVE \E n \in U : n = 0 \/ n - 1 \in Nat \ U
<1>1. PICK n \in U : \A k \in U : <<k, n>> \notin OpToRel(<, Nat)
  BY NatLessThanWellFounded, WFMin
<1>2. ASSUME n # 0, n - 1 \in U PROVE FALSE
  <2>1. <<n - 1, n>> \in OpToRel(<, Nat)
    BY <1>2 DEF OpToRel
  <2> QED BY <1>1, <1>2, <2>1
<1> QED BY <1>2

(* A list is trimmed or it is not. *)
LEMMA ListedOrTrimmed ==
  ASSUME NEW m, NEW trimmed
  PROVE  /\ m \in trimmed => Listed(m, m \in trimmed) = Listed(m, TRUE)
         /\ m \notin trimmed => Listed(m, m \in trimmed) = Listed(m, FALSE)
         /\ Listed(m, TRUE) \subseteq Listed(m, m \in trimmed)
BY DEF Listed, Selected

(* One list more, and what is closed under that. *)
Widened(S, trimmed) == S \cup {d.to : d \in UNION {Listed(m, m \in trimmed) : m \in S \cap Index}}

Closed(S, trimmed) == \A m \in S \cap Index : \A d \in Listed(m, m \in trimmed) : d.to \in S

Reached(from, trimmed) ==
  LET reached[n \in 0 .. Cardinality(Manifest)] ==
        IF n = 0 THEN from
        ELSE reached[n - 1] \cup
               {d.to : d \in UNION {Listed(m, m \in trimmed) : m \in reached[n - 1] \cap Index}}
  IN reached

LEMMA ClosureIsReached ==
  ASSUME NEW from, NEW trimmed
  PROVE  Closure(from, trimmed) = Reached(from, trimmed)[Cardinality(Manifest)]
BY DEF Closure, Reached

LEMMA ReachedSteps ==
  ASSUME NEW from, NEW trimmed, NEW N \in Nat, N = Cardinality(Manifest)
  PROVE  /\ Reached(from, trimmed)[0] = from
         /\ \A n \in 1 .. N :
              Reached(from, trimmed)[n] = Widened(Reached(from, trimmed)[n - 1], trimmed)
<1> DEFINE Is(g, n) == g = [k \in 0 .. n |-> IF k = 0 THEN from ELSE Widened(g[k - 1], trimmed)]
           U == {n \in Nat : ~ \E g : Is(g, n)}
<1>1. ASSUME NEW n \in U, n = 0 \/ n - 1 \in Nat \ U PROVE FALSE
  <2>1. CASE n = 0
    <3> DEFINE h == [k \in 0 .. 0 |-> from]
    <3>1. Is(h, 0)
      OBVIOUS
    <3> QED BY <1>1, <2>1, <3>1
  <2>2. CASE n # 0
    <3>1. PICK g : Is(g, n - 1)
      BY <1>1, <2>2
    <3> DEFINE h == [k \in 0 .. n |-> IF k = 0 THEN from ELSE Widened(g[k - 1], trimmed)]
    <3>2. ASSUME NEW k \in 0 .. n, k # 0 PROVE h[k - 1] = g[k - 1]
      <4>1. k - 1 \in 0 .. n /\ k - 1 \in 0 .. n - 1
        BY <3>2
      <4>2. g[k - 1] = IF k - 1 = 0 THEN from ELSE Widened(g[k - 1 - 1], trimmed)
        BY <3>1, <4>1
      <4> QED BY <4>1, <4>2
    <3>3. Is(h, n)
      <4>1. \A k \in 0 .. n : h[k] = IF k = 0 THEN from ELSE Widened(h[k - 1], trimmed)
        BY <3>2
      <4> QED BY <4>1
    <3> QED BY <1>1, <3>3
  <2> QED BY <2>1, <2>2
<1>2. \E g : Is(g, N)
  <2> HIDE DEF Is
  <2>1. U = {}
    BY <1>1, LeastNumber
  <2> QED BY <2>1
<1>3. Is(Reached(from, trimmed), N)
  BY <1>2 DEF Reached, Widened
<1> QED BY <1>3

(* The closure is closed: a round that adds nothing is the last, and there is
   one, for the others each add a manifest. *)
LEMMA ClosureIsClosed ==
  ASSUME NEW from, from \subseteq Manifest, NEW trimmed, graph \in Graph
  PROVE  /\ Closure(from, trimmed) \subseteq Manifest
         /\ Closed(Closure(from, trimmed), trimmed)
<1> USE ManifestsAreWellFormed, ContentIsFinite
<1> DEFINE N == Cardinality(Manifest)
           r == Reached(from, trimmed)
           OK(n) == /\ r[n] \subseteq Manifest
                    /\ Closed(r[n], trimmed) \/ Cardinality(r[n]) >= n
           U == {n \in Nat : n <= N /\ ~ OK(n)}
<1>1. N \in Nat
  BY FS_CardinalityType
<1>2. r[0] = from /\ \A n \in 1 .. N : r[n] = Widened(r[n - 1], trimmed)
  <2> HIDE DEF N, r
  <2> QED BY <1>1, ReachedSteps DEF N, r
<1>3. \A m \in Index : \A d \in Listed(m, m \in trimmed) : d.to \in Manifest
  BY DEF Listed, Graph, Edge
<1>4. \A S : S \subseteq Manifest => IsFiniteSet(S) /\ Cardinality(S) \in Nat /\ Cardinality(S) <= N
  BY FS_Subset, FS_CardinalityType
<1> HIDE DEF N, r
<1>5. ASSUME NEW n \in U, n = 0 \/ n - 1 \in Nat \ U PROVE FALSE
  <2>1. CASE n = 0
    BY <1>2, <1>4, <1>5, <2>1
  <2>2. CASE n # 0
    <3>1. n - 1 \in Nat /\ n - 1 <= N /\ n \in 1 .. N /\ OK(n - 1)
      BY <1>1, <1>5, <2>2
    <3> DEFINE S == r[n - 1]
    <3>2. r[n] = Widened(S, trimmed) /\ S \subseteq Manifest
      BY <1>2, <3>1
    <3> HIDE DEF S
    <3>3. r[n] \subseteq Manifest /\ S \subseteq r[n]
      BY <1>3, <3>2 DEF Widened
    <3>4. CASE Closed(S, trimmed)
      <4>1. r[n] = S
        BY <3>2, <3>4 DEF Widened, Closed
      <4> QED BY <1>5, <3>2, <3>4, <4>1
    <3>5. CASE ~ Closed(S, trimmed)
      <4>1. PICK m \in S \cap Index : \E d \in Listed(m, m \in trimmed) : d.to \notin S
        BY <3>5 DEF Closed
      <4>2. PICK d \in Listed(m, m \in trimmed) : d.to \notin S
        BY <4>1
      <4>3. d.to \in r[n]
        BY <3>2, <4>1, <4>2 DEF Widened
      <4>4. IsFiniteSet(S \cup {d.to}) /\ Cardinality(S \cup {d.to}) = Cardinality(S) + 1
        BY <1>4, <3>2, <4>2, FS_AddElement
      <4>5. Cardinality(S \cup {d.to}) <= Cardinality(r[n])
        BY <1>4, <3>3, <4>3, FS_Subset
      <4>6. Cardinality(S) >= n - 1
        BY <3>1, <3>5 DEF S
      <4>7. Cardinality(S) \in Nat /\ Cardinality(r[n]) \in Nat
        BY <1>4, <3>2, <3>3
      <4>8. Cardinality(r[n]) >= n
        BY <1>5, <4>4, <4>5, <4>6, <4>7
      <4> QED BY <1>5, <3>3, <4>8
    <3> QED BY <3>4, <3>5
  <2> QED BY <2>1, <2>2
<1>6. OK(N)
  <2>1. U \subseteq Nat /\ U = {}
    <3> HIDE DEF OK
    <3> QED BY <1>5, LeastNumber
  <2> QED BY <1>1, <2>1
<1>7. Closure(from, trimmed) = r[N]
  BY ClosureIsReached DEF r, N
<1>8. CASE Cardinality(r[N]) >= N /\ r[N] \subseteq Manifest
  <2>1. Cardinality(r[N]) = N
    BY <1>1, <1>4, <1>8
  <2>2. r[N] = Manifest
    BY <1>8, <2>1, FS_Subset DEF N
  <2> QED BY <1>3, <1>7, <2>2 DEF Closed
<1> QED BY <1>6, <1>7, <1>8

(* All manifests together are closed. *)
LEMMA EverythingIsClosed ==
  ASSUME graph \in Graph, NEW trimmed PROVE Closed(Manifest, trimmed)
<1>1. ASSUME NEW m \in Index PROVE Listed(m, m \in trimmed) \subseteq Edge
  BY <1>1 DEF Listed, Graph
<1>2. \A d \in Edge : d.to \in Manifest
  BY DEF Edge
<1> QED BY <1>1, <1>2 DEF Closed

(* It is the least set that is closed. *)
LEMMA ClosureIsLeast ==
  ASSUME NEW from, NEW trimmed, NEW S, from \subseteq S, Closed(S, trimmed)
  PROVE  from \subseteq Closure(from, trimmed) /\ Closure(from, trimmed) \subseteq S
<1> USE ContentIsFinite
<1> DEFINE N == Cardinality(Manifest)
           r == Reached(from, trimmed)
           OK(n) == from \subseteq r[n] /\ r[n] \subseteq S
           U == {n \in Nat : n <= N /\ ~ OK(n)}
<1>1. N \in Nat
  BY FS_CardinalityType
<1>2. r[0] = from /\ \A n \in 1 .. N : r[n] = Widened(r[n - 1], trimmed)
  <2> HIDE DEF N, r
  <2> QED BY <1>1, ReachedSteps DEF N, r
<1> HIDE DEF N, r
<1>3. ASSUME NEW n \in U, n = 0 \/ n - 1 \in Nat \ U PROVE FALSE
  <2>1. CASE n = 0
    BY <1>2, <1>3, <2>1
  <2>2. CASE n # 0
    <3>1. n - 1 \in Nat /\ n \in 1 .. N /\ OK(n - 1)
      BY <1>1, <1>3, <2>2
    <3>2. r[n] = Widened(r[n - 1], trimmed)
      BY <1>2, <3>1
    <3>3. OK(n)
      BY <3>1, <3>2 DEF Widened, Closed
    <3> QED BY <1>3, <3>3
  <2> QED BY <2>1, <2>2
<1>4. OK(N)
  <2>1. U \subseteq Nat /\ U = {}
    <3> HIDE DEF OK
    <3> QED BY <1>3, LeastNumber
  <2> QED BY <1>1, <2>1
<1> QED BY <1>4, ClosureIsReached DEF r, N

-----------------------------------------------------------------------------
(* What an answered plan names. *)

Digests(s) == {s[i].digest : i \in 1 .. Len(s)}

(* Two sets that no walk leaves: the least that contains the root and all
   that the filter selects below it, and one that contains its referrers and
   what is below them, where the lists of the first stay trimmed. *)
Covers(T, R) ==
  /\ Root \in T /\ Closed(T, Index) /\ Closed(R, T)
  /\ \A S \in SUBSET Manifest : Root \in S /\ Closed(S, Index) => T \subseteq S
  /\ \A m \in T : graph.referrers[m] \subseteq R

FramesStay(T, R, s) ==
  \A k \in 1 .. Len(s) : \A d \in s[k].todo : d.to \in IF s[k].filtered THEN T ELSE R

(* An index that was entered without the filter has all its entries named,
   or waiting. *)
EntriesServed(T) ==
  phase # "failed" =>
    \A m \in seen \cap Index : m \in T \/ \A d \in Listed(m, FALSE) : d.to \in Named \/ Waits(d)

NamesStay(T, R) ==
  /\ Named \subseteq T \cup R
  /\ phase = "tree" \/ ~ request.referrers => Named \subseteq T
  /\ Digests(subjects) \subseteq T /\ waiting \subseteq R
  /\ FramesStay(T, R, stack)
  /\ EntriesServed(T)

PhasesOK ==
  /\ phase = "tree" => \A k \in 1 .. Len(stack) : stack[k].filtered
  /\ phase = "referrers" => request.referrers
  /\ phase \in {"tree", "done"} => waiting = {} /\ subjects = <<>>
  /\ seen \subseteq Named /\ Root \in Named
  /\ blobs = UNION {BlobsOf[m] : m \in seen \ Index}

(* The manifests of the tree are subjects that are still to come, or have
   their referrers named or waiting. *)
SubjectsServed(A) ==
  /\ A \subseteq Named /\ Root \in A /\ Closed(A, Index)
  /\ \A m \in A : m \in Digests(subjects) \/ graph.referrers[m] \subseteq Named \cup waiting

ReferrersOK ==
  phase \in {"referrers", "done"} /\ request.referrers =>
    \E A \in SUBSET Manifest : SubjectsServed(A)

CoverOK == \A T, R \in SUBSET Manifest : Covers(T, R) => NamesStay(T, R)

PlanOK == PhasesOK /\ CoverOK /\ ReferrersOK

(* The graph and the request stay as they are. *)
LEMMA SameCovers ==
  ASSUME UNCHANGED <<graph, request>>
  PROVE  /\ \A T, R : Covers(T, R)' <=> Covers(T, R)
         /\ \A S, trimmed : Closed(S, trimmed)' <=> Closed(S, trimmed)
BY SameLists DEF Covers, Closed

(* One call of walk stays below what covers its manifest. *)
LEMMA EnterStays ==
  ASSUME NEW T, NEW R, NEW m, NEW filtered \in BOOLEAN, NEW depth, NEW below \in Seq(Frame),
         NEW found, Enter(m, filtered, depth, below, found), phase' # "failed",
         Closed(T, Index), Closed(R, T), m \in IF filtered THEN T ELSE R,
         filtered \/ Known(m) \/ m \notin T,
         FramesStay(T, R, below), UNCHANGED <<graph, request>>
  PROVE  /\ FramesStay(T, R, stack')
         /\ filtered /\ (\A k \in 1 .. Len(below) : below[k].filtered) =>
              \A k \in 1 .. Len(stack') : stack'[k].filtered
         /\ \A n \in (seen' \ seen) \cap Index :
              n \in T \/ \A d \in Listed(n, FALSE) : Waits(d)'
<1>1. CASE Known(m) \/ m \notin Index
  BY <1>1 DEF Enter, Known
<1>2. CASE ~ Known(m) /\ m \in Index
  <2> DEFINE top == [todo |-> Listed(m, filtered), filtered |-> filtered]
  <2>1. stack' = Append(below, top) /\ seen' = seen \cup {m}
    BY <1>2 DEF Enter
  <2>2. /\ Len(below) \in Nat
        /\ Len(stack') = Len(below) + 1
        /\ \A k \in 1 .. Len(below) : stack'[k] = below[k]
        /\ stack'[Len(below) + 1] = top
    BY <2>1
  <2>3. \A d \in Listed(m, filtered) : d.to \in IF filtered THEN T ELSE R
    <3>1. CASE filtered
      BY <1>2, <3>1, ListedOrTrimmed DEF Closed
    <3>2. CASE ~ filtered
      BY <1>2, <3>2, ListedOrTrimmed DEF Closed
    <3> QED BY <3>1, <3>2
  <2>4. FramesStay(T, R, stack')
    <3> SUFFICES ASSUME NEW k \in 1 .. Len(below) + 1, NEW d \in stack'[k].todo
                 PROVE  d.to \in IF stack'[k].filtered THEN T ELSE R
      BY <2>2 DEF FramesStay
    <3>1. CASE k = Len(below) + 1
      BY <2>2, <2>3, <3>1
    <3>2. CASE k \in 1 .. Len(below)
      BY <2>2, <3>2 DEF FramesStay
    <3> QED BY <2>2, <3>1, <3>2
  <2>5. ASSUME filtered, \A k \in 1 .. Len(below) : below[k].filtered,
               NEW k \in 1 .. Len(stack')
        PROVE  stack'[k].filtered
    <3>1. CASE k = Len(below) + 1
      BY <2>2, <2>5, <3>1
    <3>2. CASE k \in 1 .. Len(below)
      BY <2>2, <2>5, <3>2
    <3> QED BY <2>2, <3>1, <3>2
  <2>6. ASSUME ~ filtered, NEW d \in Listed(m, FALSE) PROVE Waits(d)'
    <3>1. Len(below) + 1 \in 1 .. Len(stack')
      BY <2>2
    <3>2. top.todo = Listed(m, FALSE)
      BY <2>6
    <3>3. d \in stack'[Len(below) + 1].todo
      BY <2>2, <2>6, <3>2, Zenon
    <3> QED BY <3>1, <3>3, Zenon DEF Waits
  <2>7. filtered => m \in T
    OBVIOUS
  <2> QED BY <2>1, <2>4, <2>5, <2>6, <2>7
<1> QED BY <1>1, <1>2

(* The walk of the referrers starts when all of the tree was entered. *)
LEMMA TreeIsSeen ==
  ASSUME IInv, PlanOK, phase = "referrers", NEW T, NEW R, Covers(T, R)
  PROVE  T \subseteq seen
<1>1. PICK A \in SUBSET Manifest : SubjectsServed(A)
  BY DEF PlanOK, PhasesOK, ReferrersOK
<1>2. T \subseteq A
  BY <1>1 DEF SubjectsServed, Covers
<1>3. A \subseteq seen
  BY <1>1 DEF SubjectsServed, IInv, NamesEntered
<1> QED BY <1>2, <1>3

(* A step that names m and calls walk for it, from a stack of which below is
   what is left. *)
LEMMA WalkStays ==
  ASSUME IInv, PlanOK, NEW m \in Manifest, NEW filtered \in BOOLEAN, NEW depth,
         NEW below \in Seq(Frame), Enter(m, filtered, depth, below, records'),
         Named' = Named \cup {m}, UNCHANGED <<graph, request, subjects>>,
         waiting' = waiting \/ waiting' = waiting \ {m},
         phase \in {"tree", "referrers"},
         phase = "tree" => filtered /\ \A k \in 1 .. Len(below) : below[k].filtered,
         \A T, R : Covers(T, R) /\ NamesStay(T, R) =>
           m \in (IF filtered THEN T ELSE R) /\ FramesStay(T, R, below),
         \A d : Waits(d) => d.to = m \/ \E k \in 1 .. Len(below) : d \in below[k].todo
  PROVE  PlanOK'
<1> USE DEF PlanOK
<1>1. /\ phase' \in {phase, "failed"} /\ phase # "failed" /\ phase' # "done" /\ phase # "done"
      /\ phase' = "failed" => UNCHANGED <<stack, seen, blobs>>
      /\ seen \subseteq seen' /\ seen' \subseteq seen \cup {m}
  BY DEF Enter
<1>2. /\ \A T, R : Covers(T, R)' <=> Covers(T, R)
      /\ \A S, f : Closed(S, f)' <=> Closed(S, f)
      /\ \A n, f : Listed(n, f)' = Listed(n, f)
      /\ Digests(subjects)' = Digests(subjects)
  <2>1. \A n, f : Listed(n, f)' = Listed(n, f)
    BY SameLists, Zenon
  <2> QED BY <2>1, SameCovers DEF Digests
<1>3. ASSUME NEW T \in SUBSET Manifest, NEW R \in SUBSET Manifest, Covers(T, R)
      PROVE  NamesStay(T, R)'
  <2>1. NamesStay(T, R) /\ m \in (IF filtered THEN T ELSE R) /\ FramesStay(T, R, below)
    BY <1>3 DEF CoverOK
  <2>2. Named' \subseteq T \cup R
    BY <2>1 DEF NamesStay
  <2>3. (phase = "tree" \/ ~ request.referrers => Named \subseteq T)'
    <3>1. SUFFICES ASSUME phase' = "tree" \/ ~ request.referrers PROVE Named' \subseteq T
      OBVIOUS
    <3>2. phase = "tree"
      BY <1>1, <3>1 DEF PhasesOK
    <3> QED BY <2>1, <3>2 DEF NamesStay
  <2>4. Digests(subjects)' \subseteq T /\ waiting' \subseteq R
    BY <1>2, <2>1 DEF NamesStay
  <2>5. CASE phase' = "failed"
    <3>1. EntriesServed(T)'
      BY <2>5 DEF EntriesServed
    <3>2. FramesStay(T, R, stack')
      BY <1>1, <2>1, <2>5 DEF NamesStay, FramesStay
    <3> QED BY <2>2, <2>3, <2>4, <3>1, <3>2 DEF NamesStay
  <2>6. CASE phase' # "failed"
    <3>1. /\ FramesStay(T, R, stack')
          /\ \A n \in (seen' \ seen) \cap Index : n \in T \/ \A d \in Listed(n, FALSE) : Waits(d)'
      <4>1. Closed(T, Index) /\ Closed(R, T) /\ UNCHANGED <<graph, request>>
        BY <1>3 DEF Covers
      <4>2. filtered \/ Known(m) \/ m \notin T
        BY <1>3, TreeIsSeen DEF Known
      <4> QED BY <2>1, <2>6, <4>1, <4>2, EnterStays, Zenon
    <3>2. \A d : (\E k \in 1 .. Len(below) : d \in below[k].todo) => Waits(d)'
      BY <2>6, EnterKeeps
    <3>3. \A n \in seen \cap Index :
            n \in T \/ \A d \in Listed(n, FALSE) : d.to \in Named \/ Waits(d)
      BY <1>1, <2>1 DEF NamesStay, EntriesServed
    <3>4. ASSUME NEW n \in seen' \cap Index, n \notin T, NEW d \in Listed(n, FALSE)
          PROVE  d.to \in Named' \/ Waits(d)'
      <4>1. CASE n \in seen
        <5>1. d.to \in Named \/ Waits(d)
          BY <3>3, <3>4, <4>1
        <5> QED BY <3>2, <5>1
      <4>2. CASE n \notin seen
        BY <3>1, <3>4, <4>2
      <4> QED BY <4>1, <4>2
    <3>5. EntriesServed(T)'
      BY <1>2, <3>4 DEF EntriesServed
    <3> QED BY <2>2, <2>3, <2>4, <3>1, <3>5 DEF NamesStay, FramesStay
  <2> QED BY <2>5, <2>6
<1>4. CoverOK'
  BY <1>2, <1>3 DEF CoverOK
<1>5. PhasesOK'
  <2>1. ASSUME phase' = "tree" PROVE \A k \in 1 .. Len(stack') : stack'[k].filtered
    <3>1. phase = "tree" /\ phase' # "failed"
      BY <1>1, <2>1
    <3> DEFINE T == Manifest
    <3>2. Closed(T, Index) /\ Closed(T, T) /\ FramesStay(T, T, below)
      <4>1. Closed(T, Index) /\ Closed(T, T)
        BY EverythingIsClosed DEF IInv, TypeOK
      <4>2. \A k \in 1 .. Len(below) : below[k].todo \subseteq Edge
        <5>1. ASSUME NEW k \in 1 .. Len(below) PROVE below[k] \in Frame
          BY ElementOfSeq
        <5> QED BY <5>1 DEF Frame
      <4>3. \A d \in Edge : d.to \in T
        BY DEF Edge
      <4>4. FramesStay(T, T, below)
        BY <4>2, <4>3 DEF FramesStay
      <4> QED BY <4>1, <4>4
    <3> HIDE DEF T
    <3>3. m \in IF filtered THEN T ELSE T
      BY DEF T
    <3> QED BY <3>1, <3>2, <3>3, EnterStays
  <2>2. seen' \subseteq Named' /\ Root \in Named'
    BY <1>1 DEF PhasesOK
  <2>3. blobs' = UNION {BlobsOf[n] : n \in seen' \ Index}
    <3>1. blobs = UNION {BlobsOf[n] : n \in seen \ Index}
      BY DEF PhasesOK
    <3>2. CASE UNCHANGED <<seen, blobs>>
      BY <3>1, <3>2
    <3>3. CASE seen' = seen \cup {m} /\ m \in Index /\ UNCHANGED blobs
      <4>1. seen' \ Index = seen \ Index
        BY <3>3
      <4> QED BY <3>1, <3>3, <4>1
    <3>4. CASE seen' = seen \cup {m} /\ m \notin Index /\ blobs' = blobs \cup BlobsOf[m]
      BY <3>1, <3>4
    <3> QED BY <3>2, <3>3, <3>4 DEF Enter
  <2>4. /\ phase' = "referrers" => request'.referrers
        /\ phase' \in {"tree", "done"} => waiting' = {} /\ subjects' = <<>>
    BY <1>1 DEF PhasesOK
  <2> QED BY <2>1, <2>2, <2>3, <2>4 DEF PhasesOK
<1>6. ReferrersOK'
  <2>1. ASSUME NEW A \in SUBSET Manifest, SubjectsServed(A) PROVE SubjectsServed(A)'
    BY <1>2, <2>1 DEF SubjectsServed
  <2> QED BY <1>1, <2>1 DEF ReferrersOK
<1> QED BY <1>4, <1>5, <1>6

(* A step that adds no name, and takes no entry off the stack. *)
LEMMA NamesAreKept ==
  ASSUME CoverOK, UNCHANGED <<graph, request, seen, records>>,
         stack \in Seq(Frame), stack' \in Seq(Frame),
         \A k \in 1 .. Len(stack') : k \in 1 .. Len(stack) /\ stack'[k] = stack[k],
         \A d : Waits(d) => Waits(d)',
         phase' # "failed" => phase # "failed",
         phase' = "tree" => phase = "tree",
         \A T, R \in SUBSET Manifest :
           Covers(T, R) /\ NamesStay(T, R) => Digests(subjects)' \subseteq T /\ waiting' \subseteq R
  PROVE  CoverOK'
<1>1. /\ \A T, R : Covers(T, R)' <=> Covers(T, R)
      /\ \A n, f : Listed(n, f)' = Listed(n, f)
      /\ Named' = Named
  BY SameCovers, SameLists, Zenon DEF Named
<1>2. ASSUME NEW T \in SUBSET Manifest, NEW R \in SUBSET Manifest, Covers(T, R)
      PROVE  NamesStay(T, R)'
  <2>1. NamesStay(T, R)
    BY <1>2 DEF CoverOK
  <2>2. FramesStay(T, R, stack)'
    BY <2>1 DEF NamesStay, FramesStay
  <2>3. EntriesServed(T)'
    BY <1>1, <2>1 DEF NamesStay, EntriesServed
  <2>4. Digests(subjects)' \subseteq T /\ waiting' \subseteq R
    BY <1>2, <2>1
  <2>5. Named' \subseteq T \cup R /\ (phase' = "tree" \/ ~ request'.referrers => Named' \subseteq T)
    BY <1>1, <2>1 DEF NamesStay
  <2> QED BY <2>2, <2>3, <2>4, <2>5 DEF NamesStay
<1> QED BY <1>1, <1>2 DEF CoverOK

(* A step that changes nothing of what the referrers are looked up in. *)
LEMMA SameServed ==
  ASSUME UNCHANGED <<graph, request, records, subjects, waiting>>, ReferrersOK,
         phase' \in {"referrers", "done"} => phase \in {"referrers", "done"}
  PROVE  ReferrersOK'
<1>1. \A S, f : Closed(S, f)' <=> Closed(S, f)
  BY SameCovers, Zenon
<1>2. ASSUME NEW A \in SUBSET Manifest, SubjectsServed(A) PROVE SubjectsServed(A)'
  <2>1. Named' = Named /\ Digests(subjects)' = Digests(subjects)
    BY DEF Named, Digests
  <2> QED BY <1>1, <1>2, <2>1 DEF SubjectsServed
<1> QED BY <1>2 DEF ReferrersOK

(* The first of the subjects and the others. *)
LEMMA FirstSubject ==
  ASSUME subjects \in Seq(Record), subjects # <<>>
  PROVE  /\ Head(subjects).digest \in Manifest
         /\ Digests(subjects) = {Head(subjects).digest} \cup Digests(Tail(subjects))
<1>1. PICK n \in Nat : Len(subjects) = n + 1
  <2>1. Len(subjects) \in Nat \ {0}
    BY EmptySeq
  <2> QED BY <2>1, Len(subjects) - 1 \in Nat
<1>2. /\ Head(subjects) = subjects[1] /\ Head(subjects) \in Record
      /\ Len(Tail(subjects)) = n /\ \A i \in 1 .. n : Tail(subjects)[i] = subjects[i + 1]
  BY <1>1
<1>3. Digests(subjects) \subseteq {Head(subjects).digest} \cup Digests(Tail(subjects))
  <2> SUFFICES ASSUME NEW i \in 1 .. n + 1, i # 1
               PROVE  subjects[i].digest \in Digests(Tail(subjects))
    BY <1>1, <1>2 DEF Digests
  <2>1. i - 1 \in 1 .. n /\ Tail(subjects)[i - 1] = subjects[i]
    BY <1>2
  <2> QED BY <1>2, <2>1 DEF Digests
<1>4. Digests(Tail(subjects)) \subseteq Digests(subjects)
  <2> SUFFICES ASSUME NEW i \in 1 .. n PROVE Tail(subjects)[i].digest \in Digests(subjects)
    BY <1>2 DEF Digests
  <2>1. i + 1 \in 1 .. n + 1 /\ Tail(subjects)[i] = subjects[i + 1]
    BY <1>2
  <2> QED BY <1>1, <2>1 DEF Digests
<1>5. Head(subjects).digest \in Digests(subjects)
  <2>1. 1 \in 1 .. Len(subjects)
    BY <1>1
  <2> QED BY <1>2, <2>1 DEF Digests
<1> QED BY <1>2, <1>3, <1>4, <1>5 DEF Record

(* The names of a plan never leave what covers the tree and the referrers,
   and leave nothing of it out. *)
THEOREM PlanInvariance == Spec => [](IInv /\ PlanOK)
<1> USE ManifestsAreWellFormed
<1>1. Init => PlanOK
  <2> SUFFICES ASSUME Init PROVE PlanOK
    OBVIOUS
  <2>1. Named = {Root} /\ Len(stack) = 0 /\ Digests(subjects) = {}
    <3>1. records \in Seq(Record) /\ Len(records) = 1 /\ Len(stack) = 0 /\ Len(subjects) = 0
      BY DEF Init, Record
    <3> QED BY <3>1 DEF Init, Named, Digests
  <2>2. PhasesOK
    BY <2>1 DEF Init, PhasesOK
  <2>3. CoverOK
    BY <2>1 DEF Init, CoverOK, Covers, NamesStay, FramesStay, EntriesServed
  <2>4. ReferrersOK
    BY DEF Init, ReferrersOK
  <2> QED BY <2>2, <2>3, <2>4 DEF PlanOK
<1>2. IInv /\ PlanOK /\ IInv' /\ [Next]_vars => PlanOK'
  <2> SUFFICES ASSUME IInv, PlanOK, IInv', [Next]_vars PROVE PlanOK'
    OBVIOUS
  <2> /\ TypeOK /\ PhasesOK /\ CoverOK /\ ReferrersOK /\ stack \in Seq(Frame)
      /\ stack' \in Seq(Frame) /\ records \in Seq(Record) /\ subjects \in Seq(Record)
    BY DEF PlanOK, IInv, TypeOK
  <2>0. <<>> \in Seq(Frame) /\ Len(<<>>) = 0 /\ \A T, R : FramesStay(T, R, <<>>)
    BY EmptySeq DEF FramesStay
  <2>1. CASE Start
    <3>1. /\ Enter(Root, TRUE, 0, <<>>, records)
          /\ UNCHANGED <<graph, request, records, subjects, waiting>>
          /\ phase = "tree" /\ seen = {} /\ stack = <<>>
      BY <2>1 DEF Start, IInv, NamesEntered
    <3>2. Named' = Named \cup {Root} /\ records' = records
      BY <3>1 DEF Named, PhasesOK
    <3>3. Enter(Root, TRUE, 0, <<>>, records')
      BY <3>1, <3>2
    <3>4. \A T, R : Covers(T, R) /\ NamesStay(T, R) =>
            Root \in (IF TRUE THEN T ELSE R) /\ FramesStay(T, R, <<>>)
      BY <2>0 DEF Covers
    <3>5. \A d : ~ Waits(d)
      BY <2>0, <3>1 DEF Waits
    <3>6. \A k \in 1 .. Len(<<>>) : <<>>[k].filtered
      BY <2>0
    <3>7. UNCHANGED <<graph, request, subjects>> /\ waiting' = waiting /\ phase = "tree"
      BY <3>1
    <3> QED BY <2>0, <3>2, <3>3, <3>4, <3>5, <3>6, <3>7, WalkStays, Zenon
  <2>2. ASSUME NEW d, stack # <<>>, d \in Top.todo, VisitChild(d)
        PROVE  PlanOK'
    <3> DEFINE rest == [Top EXCEPT !.todo = @ \ {d}]
               below == Append(Below, rest)
    <3>1. /\ Top \in Frame /\ Top = stack[Len(stack)]
          /\ Len(stack) \in Nat /\ Len(stack) \in 1 .. Len(stack)
          /\ d \in Edge /\ d.to \in Manifest
          /\ rest \in Frame /\ rest.filtered = Top.filtered /\ rest.todo = Top.todo \ {d}
      <4>1. Top \in Frame /\ Top = stack[Len(stack)] /\ Len(stack) \in Nat \ {0}
        BY <2>2, BelowTop
      <4>2. Len(stack) \in 1 .. Len(stack)
        BY <4>1
      <4> QED BY <2>2, <4>1, <4>2 DEF Frame, Edge
    <3>2. /\ below \in Seq(Frame) /\ Len(below) = Len(stack)
          /\ \A k \in 1 .. Len(stack) - 1 : below[k] = stack[k]
          /\ below[Len(stack)] = rest
          /\ \A k \in 1 .. Len(stack) : k = Len(stack) \/ k \in 1 .. Len(stack) - 1
      <4>1. \A k \in 1 .. Len(stack) : k = Len(stack) \/ k \in 1 .. Len(stack) - 1
        BY <3>1
      <4> QED BY <2>2, <3>1, <4>1, BelowTop
    <3>3. \A k \in 1 .. Len(stack) : below[k].filtered = stack[k].filtered
                                     /\ below[k].todo \subseteq stack[k].todo
      <4>1. ASSUME NEW k \in 1 .. Len(stack), k # Len(stack) PROVE below[k] = stack[k]
        BY <3>2, <4>1
      <4> QED BY <3>1, <3>2, <4>1
    <3>4. /\ Enter(d.to, Top.filtered, Depth, below, records')
          /\ UNCHANGED <<graph, request, subjects>> /\ waiting' = waiting
          /\ phase \in {"tree", "referrers"}
      BY <2>2 DEF VisitChild
    <3>5. Named' = Named \cup {d.to}
      BY <2>2, <3>1, OneMoreRecord DEF VisitChild
    <3> HIDE DEF below, rest
    <3>6. ASSUME NEW T, NEW R, NamesStay(T, R)
          PROVE  d.to \in (IF Top.filtered THEN T ELSE R) /\ FramesStay(T, R, below)
      <4>1. FramesStay(T, R, stack)
        BY <3>6 DEF NamesStay
      <4>2. d.to \in (IF Top.filtered THEN T ELSE R)
        BY <2>2, <3>1, <4>1 DEF FramesStay
      <4>3. FramesStay(T, R, below)
        BY <3>2, <3>3, <4>1 DEF FramesStay
      <4> QED BY <4>2, <4>3
    <3>7. ASSUME NEW e, Waits(e), e.to # d.to PROVE \E k \in 1 .. Len(below) : e \in below[k].todo
      <4>1. PICK k \in 1 .. Len(stack) : e \in stack[k].todo
        BY <3>7 DEF Waits
      <4>2. CASE k = Len(stack)
        BY <3>1, <3>2, <3>7, <4>1, <4>2
      <4>3. CASE k # Len(stack)
        BY <3>2, <4>1, <4>3
      <4> QED BY <4>2, <4>3
    <3>8. phase = "tree" => Top.filtered /\ \A k \in 1 .. Len(below) : below[k].filtered
      BY <3>1, <3>2, <3>3 DEF PhasesOK
    <3>9. Top.filtered \in BOOLEAN
      BY <3>1 DEF Frame
    <3> QED BY <3>1, <3>2, <3>4, <3>5, <3>6, <3>7, <3>8, <3>9, WalkStays, Zenon
  <2>3. ASSUME NEW m \in waiting, VisitReferrer(m) PROVE PlanOK'
    <3>1. /\ Enter(m, FALSE, 1, <<>>, records') /\ Adds(m, "referrer")
          /\ waiting' = waiting \ {m}
          /\ UNCHANGED <<graph, request, subjects>>
          /\ phase = "referrers" /\ stack = <<>> /\ m \in Manifest
      BY <2>3 DEF VisitReferrer, TypeOK
    <3>2. Named' = Named \cup {m}
      BY <3>1, OneMoreRecord
    <3>3. \A T, R : Covers(T, R) /\ NamesStay(T, R) =>
            m \in (IF FALSE THEN T ELSE R) /\ FramesStay(T, R, <<>>)
      BY <2>0, <2>3 DEF NamesStay
    <3>4. \A d : ~ Waits(d)
      BY <2>0, <3>1 DEF Waits
    <3>5. phase # "tree" /\ phase \in {"tree", "referrers"} /\ FALSE \in BOOLEAN
      BY <3>1
    <3> QED BY <2>0, <3>1, <3>2, <3>3, <3>4, <3>5, WalkStays, Zenon
  <2>4. CASE Return
    <3>1. Len(stack) \in Nat \ {0} /\ Top = stack[Len(stack)] /\ Top.todo = {}
      BY <2>4, BelowTop DEF Return
    <3>2. Len(stack') = Len(stack) - 1 /\ \A k \in 1 .. Len(stack) - 1 : stack'[k] = stack[k]
      BY <2>4, BelowTop DEF Return
    <3>3. \A k \in 1 .. Len(stack') : k \in 1 .. Len(stack) /\ stack'[k] = stack[k]
      BY <3>1, <3>2
    <3>4. ASSUME NEW e, Waits(e) PROVE Waits(e)'
      <4>1. PICK k \in 1 .. Len(stack) : e \in stack[k].todo
        BY <3>4 DEF Waits
      <4>2. k \in 1 .. Len(stack) - 1
        BY <3>1, <4>1
      <4>3. k \in 1 .. Len(stack') /\ e \in stack'[k].todo
        BY <3>2, <4>1, <4>2
      <4> QED BY <4>3 DEF Waits
    <3>5. UNCHANGED <<graph, request, phase, seen, records, blobs, subjects, waiting>>
      BY <2>4 DEF Return
    <3>6. CoverOK'
      <4>1. \A T, R \in SUBSET Manifest :
              Covers(T, R) /\ NamesStay(T, R) =>
                Digests(subjects)' \subseteq T /\ waiting' \subseteq R
        BY <3>5 DEF NamesStay, Digests
      <4> QED BY <3>3, <3>4, <3>5, <4>1, NamesAreKept
    <3>7. PhasesOK'
      BY <3>3, <3>5 DEF PhasesOK, Named
    <3>8. ReferrersOK'
      BY <3>5, SameServed, Zenon
    <3> QED BY <3>6, <3>7, <3>8 DEF PlanOK
  <2>5. CASE EndTree
    <3>1. /\ UNCHANGED <<graph, request, stack, seen, records, blobs>> /\ waiting' = {}
          /\ phase = "tree" /\ stack = <<>> /\ seen # {}
          /\ \/ phase' = "referrers" /\ request.referrers /\ subjects' = records
             \/ phase' = "done" /\ ~ request.referrers /\ subjects' = <<>>
      BY <2>5 DEF EndTree, PhasesOK
    <3>2. Digests(records) = Named /\ Digests(<<>>) = {} /\ Named' = Named
      BY <2>0, <3>1 DEF Digests, Named
    <3>3. CoverOK'
      <4>1. Len(stack') = 0 /\ \A d : Waits(d) => Waits(d)'
        BY <2>0, <3>1 DEF Waits
      <4>2. ASSUME NEW T, NEW R, NamesStay(T, R)
            PROVE  Digests(subjects)' \subseteq T /\ waiting' \subseteq R
        BY <3>1, <3>2, <4>2 DEF NamesStay, Digests
      <4>3. /\ \A k \in 1 .. Len(stack') : k \in 1 .. Len(stack) /\ stack'[k] = stack[k]
            /\ phase' # "failed" => phase # "failed"
            /\ phase' = "tree" => phase = "tree"
        BY <3>1
      <4> QED BY <3>1, <4>1, <4>2, <4>3, NamesAreKept
    <3>4. PhasesOK'
      BY <3>1, <3>2 DEF PhasesOK
    <3>5. ReferrersOK'
      <4> SUFFICES ASSUME phase' = "referrers"
                   PROVE  \E A \in SUBSET Manifest : SubjectsServed(A)'
        BY <3>1 DEF ReferrersOK
      <4>1. PICK A : A = Named
        OBVIOUS
      <4>2. A \subseteq Manifest
        <5>1. \A i \in 1 .. Len(records) : records[i] \in Record
          BY ElementOfSeq
        <5> QED BY <4>1, <5>1 DEF Named, Record
      <4>3. \A d : ~ Waits(d)
        BY <2>0, <3>1 DEF Waits
      <4>4. A \subseteq seen /\ Root \in A
        BY <3>1, <4>1 DEF IInv, NamesEntered, PhasesOK
      <4>5. Closed(A, Index)'
        <5>1. Closed(A, Index)
          BY <3>1, <4>1, <4>3, <4>4, ListedOrTrimmed DEF IInv, EntriesKept, Closed
        <5> QED BY <3>1, <5>1, SameCovers
      <4>6. Digests(subjects)' = A
        <5>1. subjects' = records
          BY <3>1
        <5> QED BY <3>2, <4>1, <5>1 DEF Digests
      <4> QED BY <3>2, <4>1, <4>2, <4>4, <4>5, <4>6 DEF SubjectsServed
    <3> QED BY <3>3, <3>4, <3>5 DEF PlanOK
  <2>6. CASE ListReferrers
    <3>1. /\ UNCHANGED <<graph, request, phase, stack, seen, records, blobs>>
          /\ phase = "referrers" /\ stack = <<>> /\ waiting = {} /\ subjects # <<>>
          /\ waiting' = graph.referrers[Head(subjects).digest] /\ subjects' = Tail(subjects)
      BY <2>6 DEF ListReferrers, BetweenSubjects
    <3>2. /\ Head(subjects).digest \in Manifest /\ Named' = Named
          /\ Digests(subjects) = {Head(subjects).digest} \cup Digests(subjects)'
      BY <3>1, FirstSubject DEF Digests, Named
    <3>3. CoverOK'
      <4>1. \A d : Waits(d) => Waits(d)'
        BY <3>1 DEF Waits
      <4>2. ASSUME NEW T, NEW R, Covers(T, R), NamesStay(T, R)
            PROVE  Digests(subjects)' \subseteq T /\ waiting' \subseteq R
        BY <3>1, <3>2, <4>2 DEF NamesStay, Covers
      <4> QED BY <3>1, <4>1, <4>2, NamesAreKept
    <3>4. PhasesOK'
      BY <3>1, <3>2 DEF PhasesOK
    <3>5. ASSUME NEW A \in SUBSET Manifest, SubjectsServed(A) PROVE SubjectsServed(A)'
      <4>1. Closed(A, Index)'
        BY <3>1, <3>5, SameCovers DEF SubjectsServed
      <4>2. ASSUME NEW m \in A
            PROVE  m \in Digests(subjects)' \/ graph.referrers[m] \subseteq Named \cup waiting'
        BY <3>1, <3>2, <3>5 DEF SubjectsServed
      <4> QED BY <3>1, <3>2, <3>5, <4>1, <4>2 DEF SubjectsServed
    <3>6. ReferrersOK'
      BY <3>1, <3>5 DEF ReferrersOK
    <3> QED BY <3>3, <3>4, <3>6 DEF PlanOK
  <2>7. CASE Answer
    <3>1. /\ UNCHANGED <<graph, request, stack, seen, records, blobs, subjects, waiting>>
          /\ phase = "referrers" /\ phase' = "done" /\ waiting = {} /\ subjects = <<>>
      BY <2>7 DEF Answer, BetweenSubjects
    <3>2. CoverOK'
      <4>1. /\ \A d : Waits(d) => Waits(d)'
            /\ \A T, R : NamesStay(T, R) => Digests(subjects)' \subseteq T /\ waiting' \subseteq R
        BY <3>1 DEF Waits, NamesStay, Digests
      <4> QED BY <3>1, <4>1, NamesAreKept
    <3>3. PhasesOK'
      BY <3>1 DEF PhasesOK, Named
    <3>4. ReferrersOK'
      BY <3>1, SameServed
    <3> QED BY <3>2, <3>3, <3>4 DEF PlanOK
  <2>8. CASE Fail
    <3>1. /\ UNCHANGED <<graph, request, stack, seen, records, blobs, subjects, waiting>>
          /\ phase' = "failed"
      BY <2>8 DEF Fail
    <3>2. CoverOK'
      <4>1. /\ \A d : Waits(d) => Waits(d)'
            /\ \A T, R : NamesStay(T, R) => Digests(subjects)' \subseteq T /\ waiting' \subseteq R
        BY <3>1 DEF Waits, NamesStay, Digests
      <4> QED BY <3>1, <4>1, NamesAreKept
    <3>3. PhasesOK'
      BY <3>1 DEF PhasesOK, Named
    <3>4. ReferrersOK'
      BY <3>1 DEF ReferrersOK
    <3> QED BY <3>2, <3>3, <3>4 DEF PlanOK
  <2>9. CASE UNCHANGED vars
    <3>1. UNCHANGED <<graph, request, phase, stack, seen, records, blobs, subjects, waiting>>
      BY <2>9 DEF vars
    <3>2. CoverOK'
      <4>1. /\ \A d : Waits(d) => Waits(d)'
            /\ \A T, R : NamesStay(T, R) => Digests(subjects)' \subseteq T /\ waiting' \subseteq R
        BY <3>1 DEF Waits, NamesStay, Digests
      <4> QED BY <3>1, <4>1, NamesAreKept
    <3>3. PhasesOK'
      BY <3>1 DEF PhasesOK, Named
    <3>4. ReferrersOK'
      BY <3>1, SameServed
    <3> QED BY <3>2, <3>3, <3>4 DEF PlanOK
  <2> QED BY <2>1, <2>2, <2>3, <2>4, <2>5, <2>6, <2>7, <2>8, <2>9 DEF Next
<1> QED BY <1>1, <1>2, Invariance, PTL DEF Spec

(* Tree and Referred are sets that the invariant is about. *)
LEMMA TreeCovers ==
  ASSUME graph \in Graph
  PROVE  /\ Tree \in SUBSET Manifest /\ Referred \in SUBSET Manifest
         /\ Covers(Tree, Referred)
         /\ UNION {graph.referrers[m] : m \in Tree} \subseteq Referred
<1> USE ManifestsAreWellFormed
<1> DEFINE from == UNION {graph.referrers[m] : m \in Tree}
<1>1. Tree \subseteq Manifest /\ Closed(Tree, Index) /\ Root \in Tree
  <2>1. {Root} \subseteq Manifest
    OBVIOUS
  <2>2. Tree \subseteq Manifest /\ Closed(Tree, Index)
    BY <2>1, ClosureIsClosed DEF Tree
  <2>3. {Root} \subseteq Tree
    <3>1. {Root} \subseteq Manifest /\ Closed(Manifest, Index)
      BY <2>1, EverythingIsClosed
    <3> QED BY <3>1, ClosureIsLeast DEF Tree
  <2> QED BY <2>2, <2>3
<1>2. from \subseteq Manifest
  BY <1>1 DEF Graph
<1> HIDE DEF from
<1>3. Referred = Closure(from, Tree)
  BY DEF Referred, from
<1>4. Referred \subseteq Manifest /\ Closed(Referred, Tree)
  BY <1>2, <1>3, ClosureIsClosed
<1>5. from \subseteq Referred
  <2>1. Closed(Manifest, Tree)
    BY EverythingIsClosed
  <2> QED BY <1>2, <1>3, <2>1, ClosureIsLeast
<1>6. ASSUME NEW S, Root \in S, Closed(S, Index) PROVE Tree \subseteq S
  BY <1>6, ClosureIsLeast DEF Tree
<1> QED BY <1>1, <1>4, <1>5, <1>6 DEF Covers, from

(* The plan is within the closure. *)
LEMMA PlanIsWithin == ASSUME IInv, PlanOK PROVE Named \subseteq Planned
<1>1. graph \in Graph
  BY DEF IInv, TypeOK
<1>2. NamesStay(Tree, Referred)
  BY <1>1, TreeCovers DEF PlanOK, CoverOK
<1> QED BY <1>2 DEF Planned, NamesStay

(* The closure is within the plan. *)
LEMMA ClosureIsWithin == ASSUME IInv, PlanOK, phase = "done" PROVE Planned \subseteq Named
<1>1. /\ graph \in Graph /\ Len(stack) = 0 /\ Named \subseteq seen /\ seen \subseteq Named
      /\ waiting = {} /\ Digests(subjects) = {}
  <2>1. stack = <<>> /\ subjects = <<>> /\ Len(<<>>) = 0
    BY EmptySeq DEF IInv, EntriesKept, PlanOK, PhasesOK
  <2> QED BY <2>1 DEF IInv, TypeOK, NamesEntered, PlanOK, PhasesOK, Digests
<1>2. \A d : ~ Waits(d)
  BY <1>1 DEF Waits
<1>3. ASSUME NEW m \in Named \cap Index, NEW d \in Listed(m, TRUE) PROVE d.to \in Named
  BY <1>1, <1>2, <1>3 DEF IInv, EntriesKept
<1>4. Tree \subseteq Named
  <2>1. Closed(Named, Index) /\ Root \in Named
    BY <1>3, ListedOrTrimmed DEF Closed, PlanOK, PhasesOK
  <2> QED BY <2>1, ClosureIsLeast DEF Tree
<1>5. ASSUME request.referrers PROVE Referred \subseteq Named
  <2> DEFINE S == Referred \cap Named
             from == UNION {graph.referrers[m] : m \in Tree}
  <2>1. PICK A \in SUBSET Manifest : SubjectsServed(A)
    BY <1>5 DEF PlanOK, ReferrersOK
  <2>2. Tree \subseteq A
    BY <2>1, ClosureIsLeast DEF Tree, SubjectsServed
  <2>3. from \subseteq Named
    BY <1>1, <2>1, <2>2 DEF SubjectsServed
  <2>4. from \subseteq S
    BY <1>1, <2>3, TreeCovers
  <2>5. EntriesServed(Tree)
    BY <1>1, TreeCovers DEF PlanOK, CoverOK, NamesStay
  <2>6. ASSUME NEW m \in S \cap Index, NEW d \in Listed(m, m \in Tree) PROVE d.to \in S
    <3>1. d.to \in Referred
      BY <1>1, <2>6, TreeCovers DEF Covers, Closed
    <3>2. CASE m \in Tree
      <4>1. d \in Listed(m, TRUE)
        BY <2>6, <3>2, ListedOrTrimmed
      <4> QED BY <1>3, <2>6, <3>1, <4>1
    <3>3. CASE m \notin Tree
      <4>1. d \in Listed(m, FALSE)
        BY <2>6, <3>3, ListedOrTrimmed
      <4> QED BY <1>1, <1>2, <2>5, <2>6, <3>1, <3>3, <4>1 DEF EntriesServed
    <3> QED BY <3>2, <3>3
  <2>7. Closed(S, Tree)
    BY <2>6 DEF Closed
  <2> HIDE DEF S, from
  <2>8. Closure(from, Tree) \subseteq S
    BY <2>4, <2>7, ClosureIsLeast
  <2> QED BY <2>8 DEF Referred, S, from
<1> QED BY <1>4, <1>5 DEF Planned, Referred

(* An answered plan is the closure, whatever the order in which the lists are
   walked, however often a manifest is met, and whichever side meets it first
   (plan, walk). *)
THEOREM PlansAreClosures == Spec => []PlanIsClosure
<1>1. IInv /\ PlanOK => PlanIsClosure
  <2> SUFFICES ASSUME IInv, PlanOK, phase = "done" PROVE PlanIsClosure
    BY DEF PlanIsClosure
  <2>1. Named = Planned
    BY PlanIsWithin, ClosureIsWithin
  <2>2. seen = Named
    BY DEF IInv, NamesEntered, PlanOK, PhasesOK
  <2> QED BY <2>1, <2>2 DEF PlanIsClosure, PlanOK, PhasesOK
<1> QED BY <1>1, PlanInvariance, PTL

-----------------------------------------------------------------------------
(* The cost of the walk below the root. *)

NoReferrers == \A i \in 1 .. Len(records) : records[i].kind # "referrer"

(* Every frame belongs to an index of its own, and waits for entries of its
   list that were not paid with. *)
FramesOwned(s, entered, paid, owner) ==
  /\ \A j, k \in 1 .. Len(s) : owner[j] = owner[k] => j = k
  /\ \A k \in 1 .. Len(s) :
       /\ owner[k] \in entered \cap Index
       /\ \A d \in s[k].todo : d \in graph.children[owner[k]] /\ <<owner[k], d>> \notin paid

(* Every record but the root's was paid with an entry of a list that was
   entered, and no entry paid twice. *)
PaidWith(paid, owner) ==
  /\ paid \subseteq EntriesSeen /\ Len(records) <= 1 + Cardinality(paid)
  /\ phase # "failed" => FramesOwned(stack, seen, paid, owner)

WorkOK ==
  NoReferrers =>
    \E paid \in SUBSET (Manifest \X Edge), owner \in [Nat -> Manifest] : PaidWith(paid, owner)

GraphOK == graph \in Graphs

(* The lists that were entered hold finitely many entries. *)
LEMMA EntriesAreFinite == ASSUME GraphOK PROVE IsFiniteSet(EntriesSeen)
<1> USE ManifestsAreWellFormed, ContentIsFinite
<1> DEFINE lists == {graph.children[i] : i \in Index}
<1>1. graph.children \in [Index -> SUBSET Edge] /\ IsFiniteSet(Index)
  BY FS_Subset DEF GraphOK, Graph
<1>2. IsFiniteSet(lists)
  <2>1. graph.children \in [Index -> lists]
    BY <1>1
  <2>2. graph.children \in Surjection(Index, lists)
    BY <2>1 DEF Surjection
  <2> QED BY <1>1, <2>2, FS_Surjection
<1>3. IsFiniteSet(UNION lists)
  BY <1>2, FS_UNION DEF GraphOK
<1> HIDE DEF lists
<1>4. IsFiniteSet(Manifest \X UNION lists)
  BY <1>3, FS_Product
<1>5. EntriesSeen \in SUBSET (Manifest \X UNION lists)
  BY DEF EntriesSeen, lists
<1> QED BY <1>4, <1>5, FS_Subset

(* One call of walk: the frame it adds belongs to the index it enters. *)
LEMMA EnterOwned ==
  ASSUME NEW m \in Manifest, NEW filtered \in BOOLEAN, NEW depth, NEW below \in Seq(Frame),
         NEW found, Enter(m, filtered, depth, below, found), phase' # "failed",
         NEW paid, paid \subseteq EntriesSeen, NEW owner \in [Nat -> Manifest],
         FramesOwned(below, seen, paid, owner), UNCHANGED graph
  PROVE  \E o \in [Nat -> Manifest] : FramesOwned(stack, seen, paid, o)'
<1>1. CASE Known(m) \/ m \notin Index
  <2>1. stack' = below /\ seen \subseteq seen'
    BY <1>1 DEF Enter, Known
  <2>2. FramesOwned(stack', seen', paid, owner)
    BY <2>1 DEF FramesOwned
  <2> QED BY <2>2 DEF FramesOwned
<1>2. CASE ~ Known(m) /\ m \in Index
  <2> DEFINE top == [todo |-> Listed(m, filtered), filtered |-> filtered]
             n == Len(below) + 1
             o == [owner EXCEPT ![n] = m]
  <2>1. stack' = Append(below, top) /\ seen' = seen \cup {m} /\ m \notin seen
    BY <1>2 DEF Enter, Known
  <2>2. /\ Len(below) \in Nat /\ n \in Nat /\ Len(stack') = n /\ stack'[n] = top
        /\ \A k \in 1 .. Len(below) : stack'[k] = below[k]
        /\ \A k \in 1 .. n : k = n \/ k \in 1 .. Len(below)
        /\ n \notin 1 .. Len(below)
    BY <2>1
  <2>3. /\ o \in [Nat -> Manifest] /\ o[n] = m
        /\ \A k \in 1 .. Len(below) : o[k] = owner[k] /\ o[k] # m
    <3>1. \A k \in 1 .. Len(below) : o[k] = owner[k]
      BY <2>2
    <3>2. o \in [Nat -> Manifest] /\ o[n] = m
      BY <2>2
    <3> QED BY <2>1, <3>1, <3>2 DEF FramesOwned
  <2>4. \A d \in Listed(m, filtered) : d \in graph.children[m] /\ <<m, d>> \notin paid
    BY <2>1 DEF Listed, EntriesSeen
  <2> HIDE DEF o, n
  <2>5. \A j, k \in 1 .. n : o[j] = o[k] => j = k
    BY <2>2, <2>3 DEF FramesOwned
  <2>6. ASSUME NEW k \in 1 .. n
        PROVE  /\ o[k] \in seen' \cap Index
               /\ \A d \in stack'[k].todo : d \in graph.children[o[k]] /\ <<o[k], d>> \notin paid
    <3>1. CASE k = n
      BY <1>2, <2>1, <2>2, <2>3, <2>4, <3>1
    <3>2. CASE k \in 1 .. Len(below)
      BY <2>1, <2>2, <2>3, <3>2 DEF FramesOwned
    <3> QED BY <2>2, <3>1, <3>2
  <2>7. FramesOwned(stack', seen', paid, o)
    BY <2>2, <2>5, <2>6 DEF FramesOwned
  <2> QED BY <2>3, <2>7 DEF FramesOwned
<1> QED BY <1>1, <1>2

(* Entries that were entered stay entered. *)
LEMMA EntriesStay ==
  ASSUME UNCHANGED graph, seen \subseteq seen' PROVE EntriesSeen \subseteq EntriesSeen'
BY DEF EntriesSeen

(* A visit is paid with the entry that it takes. *)
LEMMA VisitIsPaid ==
  ASSUME IInv, GraphOK, WorkOK, NEW d, stack # <<>>, d \in Top.todo, VisitChild(d), NoReferrers
  PROVE  \E paid \in SUBSET (Manifest \X Edge), owner \in [Nat -> Manifest] : PaidWith(paid, owner)'
<1> DEFINE n == Len(stack)
           rest == [Top EXCEPT !.todo = @ \ {d}]
           below == Append(Below, rest)
<1>1. PICK paid \in SUBSET (Manifest \X Edge), owner \in [Nat -> Manifest] : PaidWith(paid, owner)
  BY DEF WorkOK
<1>2. /\ stack \in Seq(Frame) /\ records \in Seq(Record) /\ Len(records) \in Nat
      /\ phase # "failed"
  BY DEF IInv, TypeOK, VisitChild
<1>3. /\ n \in Nat \ {0} /\ Top \in Frame /\ Top = stack[n]
      /\ Below \in Seq(Frame) /\ Len(Below) = n - 1
      /\ \A k \in 1 .. n - 1 : Below[k] = stack[k]
  BY <1>2, BelowTop
<1>4. n \in 1 .. n /\ \A k \in 1 .. n : k = n \/ k \in 1 .. n - 1
  BY <1>3
<1>5. d \in Edge /\ d.to \in Manifest /\ rest \in Frame /\ rest.todo = Top.todo \ {d}
      /\ Top.filtered \in BOOLEAN
  BY <1>3 DEF Frame, Edge
<1>6. /\ below \in Seq(Frame) /\ Len(below) = n /\ below[n] = rest
      /\ \A k \in 1 .. n - 1 : below[k] = stack[k]
  BY <1>3, <1>5
<1>7. /\ Enter(d.to, Top.filtered, Depth, below, records')
      /\ UNCHANGED <<graph, request>>
      /\ records' = Append(records, [digest |-> d.to, kind |-> "manifest"])
  BY DEF VisitChild, Adds
<1> HIDE DEF n, rest, below
<1>8. FramesOwned(stack, seen, paid, owner)
  BY <1>1, <1>2 DEF PaidWith
<1>9. /\ owner[n] \in seen \cap Index /\ d \in graph.children[owner[n]]
      /\ <<owner[n], d>> \notin paid
      /\ \A k \in 1 .. n - 1 : owner[k] # owner[n]
  <2>1. \A k \in 1 .. n - 1 : k \in 1 .. n /\ k # n
    BY <1>3
  <2> QED BY <1>3, <1>4, <1>8, <2>1 DEF FramesOwned, n
<1>10. PICK more : more = paid \cup {<<owner[n], d>>}
  OBVIOUS
<1>11. more \in SUBSET (Manifest \X Edge) /\ more \subseteq EntriesSeen
  <2>1. <<owner[n], d>> \in (seen \cap Index) \X Edge /\ d \in graph.children[owner[n]]
    BY <1>5, <1>9
  <2>2. <<owner[n], d>> \in EntriesSeen
    BY <2>1 DEF EntriesSeen
  <2>3. <<owner[n], d>> \in Manifest \X Edge
    BY <1>5, <1>9, ManifestsAreWellFormed
  <2> QED BY <1>1, <1>10, <2>2, <2>3 DEF PaidWith
<1>12. Cardinality(more) = Cardinality(paid) + 1 /\ Cardinality(paid) \in Nat
  <2>1. IsFiniteSet(paid)
    BY <1>1, EntriesAreFinite, FS_Subset DEF PaidWith
  <2> QED BY <1>9, <1>10, <2>1, FS_AddElement, FS_CardinalityType
<1>13. Len(records') <= 1 + Cardinality(more)
  <2>1. Len(records') = Len(records) + 1
    BY <1>2, <1>5, <1>7 DEF Record
  <2>2. Len(records) <= 1 + Cardinality(paid)
    BY <1>1 DEF PaidWith
  <2> QED BY <1>2, <1>12, <2>1, <2>2
<1>14. FramesOwned(below, seen, more, owner)
  <2>1. ASSUME NEW k \in 1 .. n, NEW e \in below[k].todo
        PROVE  e \in graph.children[owner[k]] /\ <<owner[k], e>> \notin more
    <3>1. e \in stack[k].todo
      BY <1>3, <1>4, <1>5, <1>6, <2>1
    <3>2. e \in graph.children[owner[k]] /\ <<owner[k], e>> \notin paid
      BY <1>8, <2>1, <3>1 DEF FramesOwned, n
    <3>3. <<owner[k], e>> # <<owner[n], d>>
      BY <1>4, <1>5, <1>6, <1>9, <2>1
    <3> QED BY <1>10, <3>2, <3>3
  <2>2. /\ \A j, k \in 1 .. n : owner[j] = owner[k] => j = k
        /\ \A k \in 1 .. n : owner[k] \in seen \cap Index
    BY <1>8 DEF FramesOwned, n
  <2> QED BY <1>6, <2>1, <2>2 DEF FramesOwned
<1>15. more \subseteq EntriesSeen'
  <2>1. seen \subseteq seen'
    BY <1>2, <1>7, EnterSees
  <2> QED BY <1>7, <1>11, <2>1, EntriesStay
<1>16. CASE phase' = "failed"
  <2>1. PaidWith(more, owner)'
    BY <1>13, <1>15, <1>16 DEF PaidWith
  <2> QED BY <1>11, <2>1
<1>17. CASE phase' # "failed"
  <2>1. PICK o \in [Nat -> Manifest] : FramesOwned(stack, seen, more, o)'
    BY <1>5, <1>6, <1>7, <1>11, <1>14, <1>17, EnterOwned
  <2>2. PaidWith(more, o)'
    BY <1>13, <1>15, <2>1 DEF PaidWith
  <2> QED BY <1>11, <2>2
<1> QED BY <1>16, <1>17

(* The first call of walk, for the root, is free. *)
LEMMA StartIsFree ==
  ASSUME IInv, GraphOK, WorkOK, Start, NoReferrers
  PROVE  \E paid \in SUBSET (Manifest \X Edge), owner \in [Nat -> Manifest] : PaidWith(paid, owner)'
<1>1. PICK paid \in SUBSET (Manifest \X Edge), owner \in [Nat -> Manifest] : PaidWith(paid, owner)
  BY DEF WorkOK
<1>2. /\ Enter(Root, TRUE, 0, <<>>, records) /\ UNCHANGED <<graph, records>>
      /\ <<>> \in Seq(Frame) /\ Len(<<>>) = 0 /\ phase # "failed"
  BY EmptySeq DEF Start
<1>3. paid \subseteq EntriesSeen /\ Len(records') <= 1 + Cardinality(paid)
  BY <1>1, <1>2 DEF PaidWith
<1>4. paid \subseteq EntriesSeen'
  <2>1. seen \subseteq seen'
    BY <1>2, EnterSees
  <2> QED BY <1>2, <1>3, <2>1, EntriesStay
<1>5. CASE phase' = "failed"
  <2>1. PaidWith(paid, owner)'
    BY <1>3, <1>4, <1>5 DEF PaidWith
  <2> QED BY <2>1
<1>6. CASE phase' # "failed"
  <2>1. FramesOwned(<<>>, seen, paid, owner) /\ Root \in Manifest /\ TRUE \in BOOLEAN
    BY <1>2, ManifestsAreWellFormed DEF FramesOwned
  <2>2. PICK o \in [Nat -> Manifest] : FramesOwned(stack, seen, paid, o)'
    BY <1>2, <1>3, <1>6, <2>1, EnterOwned
  <2>3. PaidWith(paid, o)'
    BY <1>3, <1>4, <2>2 DEF PaidWith
  <2> QED BY <2>3
<1> QED BY <1>5, <1>6

(* The other steps add no record but those of referrers. *)
LEMMA OthersAreFree ==
  ASSUME WorkOK, UNCHANGED <<graph, seen, records>>, phase' # "failed" => phase # "failed",
         \A k \in 1 .. Len(stack') : k \in 1 .. Len(stack) /\ stack'[k] = stack[k]
  PROVE  WorkOK'
<1> SUFFICES ASSUME NoReferrers'
             PROVE  \E paid \in SUBSET (Manifest \X Edge), owner \in [Nat -> Manifest] :
                      PaidWith(paid, owner)'
  BY DEF WorkOK
<1>1. PICK paid \in SUBSET (Manifest \X Edge), owner \in [Nat -> Manifest] : PaidWith(paid, owner)
  BY DEF WorkOK, NoReferrers
<1>2. PaidWith(paid, owner)'
  BY <1>1 DEF PaidWith, FramesOwned, EntriesSeen
<1> QED BY <1>2

(* Every record of the walk below the root is paid with an entry, and no
   entry twice. *)
THEOREM WorkInvariance == Spec => [](IInv /\ GraphOK /\ WorkOK)
<1>1. Init => GraphOK /\ WorkOK
  <2> SUFFICES ASSUME Init PROVE WorkOK
    BY DEF Init, GraphOK
  <2>1. Len(records) = 1 /\ Len(stack) = 0 /\ Cardinality({}) = 0
    BY FS_EmptySet DEF Init
  <2>2. PICK owner : owner = [k \in Nat |-> Root]
    OBVIOUS
  <2>3. PaidWith({}, owner)
    BY <2>1 DEF PaidWith, FramesOwned
  <2>4. owner \in [Nat -> Manifest]
    BY <2>2, ManifestsAreWellFormed
  <2> QED BY <2>3, <2>4 DEF WorkOK
<1>2. IInv /\ GraphOK /\ WorkOK /\ [Next]_vars => GraphOK' /\ WorkOK'
  <2> SUFFICES ASSUME IInv, GraphOK, WorkOK, [Next]_vars PROVE GraphOK' /\ WorkOK'
    OBVIOUS
  <2>1. GraphOK'
    BY DEF GraphOK, Next, vars, Start, EndTree, ListReferrers, Answer, Return, Fail, VisitChild,
           VisitReferrer
  <2>2. ASSUME NEW m, NEW kind, Adds(m, kind)
        PROVE  /\ NoReferrers' => NoReferrers
               /\ kind = "referrer" => ~ NoReferrers'
    <3>1. records \in Seq(Record)
      BY DEF IInv, TypeOK
    <3>2. /\ Len(records) \in Nat /\ Len(records') = Len(records) + 1
          /\ \A i \in 1 .. Len(records) : i \in 1 .. Len(records') /\ records'[i] = records[i]
          /\ Len(records') \in 1 .. Len(records')
          /\ records'[Len(records')] = [digest |-> m, kind |-> kind]
      BY <2>2, <3>1 DEF Adds
    <3> QED BY <3>2 DEF NoReferrers
  <2>3. CASE Start
    <3>1. records' = records
      BY <2>3 DEF Start
    <3>2. NoReferrers' <=> NoReferrers
      BY <3>1 DEF NoReferrers
    <3> QED BY <2>1, <2>3, <3>2, StartIsFree DEF WorkOK
  <2>4. ASSUME NEW d, stack # <<>>, d \in Top.todo, VisitChild(d) PROVE WorkOK'
    <3>1. NoReferrers' => NoReferrers
      BY <2>2, <2>4 DEF VisitChild
    <3> QED BY <2>4, <3>1, VisitIsPaid DEF WorkOK
  <2>5. ASSUME NEW m, VisitReferrer(m) PROVE WorkOK'
    BY <2>2, <2>5 DEF VisitReferrer, WorkOK
  <2>6. CASE Return
    <3>1. /\ Len(stack) \in Nat \ {0} /\ Len(stack') = Len(stack) - 1
          /\ \A k \in 1 .. Len(stack) - 1 : stack'[k] = stack[k]
      BY <2>6, BelowTop DEF Return, IInv, TypeOK
    <3>2. \A k \in 1 .. Len(stack') : k \in 1 .. Len(stack) /\ stack'[k] = stack[k]
      BY <3>1
    <3> QED BY <2>1, <2>6, <3>2, OthersAreFree DEF Return
  <2>7. CASE EndTree \/ ListReferrers \/ Answer \/ Fail \/ UNCHANGED vars
    <3>1. /\ UNCHANGED <<graph, stack, seen, records>>
          /\ phase' # "failed" => phase # "failed"
      BY <2>7 DEF EndTree, ListReferrers, Answer, BetweenSubjects, Fail, vars
    <3> QED BY <2>1, <3>1, OthersAreFree
  <2> QED BY <2>1, <2>3, <2>4, <2>5, <2>6, <2>7 DEF Next
<1> QED BY <1>1, <1>2, Invariance, PTL DEF Spec

(* The work of the walk below the root is bounded by the entries of the lists
   it enters, whatever the number of paths (walk). *)
THEOREM WorkIsBounded == Spec => []WorkBoundedByEntries
<1>1. IInv /\ GraphOK /\ WorkOK => WorkBoundedByEntries
  <2> SUFFICES ASSUME IInv, GraphOK, WorkOK,
                      \A i \in DOMAIN records : records[i].kind # "referrer"
               PROVE  Len(records) <= 1 + Cardinality(EntriesSeen)
    BY DEF WorkBoundedByEntries
  <2>1. records \in Seq(Record) /\ Len(records) \in Nat /\ NoReferrers
    BY DEF IInv, TypeOK, NoReferrers
  <2>2. PICK paid \in SUBSET (Manifest \X Edge), owner \in [Nat -> Manifest] : PaidWith(paid, owner)
    BY <2>1 DEF WorkOK
  <2>3. /\ IsFiniteSet(paid) /\ IsFiniteSet(EntriesSeen)
        /\ Cardinality(paid) <= Cardinality(EntriesSeen)
    BY <2>2, EntriesAreFinite, FS_Subset DEF PaidWith
  <2>4. Cardinality(paid) \in Nat /\ Cardinality(EntriesSeen) \in Nat
    BY <2>3, FS_CardinalityType
  <2> QED BY <2>1, <2>2, <2>3, <2>4 DEF PaidWith
<1> QED BY <1>1, WorkInvariance, PTL

=============================================================================
