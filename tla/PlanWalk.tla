------------------------------- MODULE PlanWalk -------------------------------
(***************************************************************************)
(* The handler of POST /v1/plan (main.go: plan, walk): the walk over the   *)
(* manifests below the source digest, and over the referrers of those it   *)
(* has found, that decides which manifests and blobs a job will name.      *)
(*                                                                         *)
(* The recursion of walk is `stack`: a frame is an index, the children it  *)
(* has not yet visited, and whether the platform filter applies below it.  *)
(* Children are visited in any order, so that one graph stands for every   *)
(* order of its lists.                                                     *)
(***************************************************************************)
EXTENDS Naturals, FiniteSets, Sequences

CONSTANTS
  Manifest,    \* manifest digests
  Index,       \* those of manifest lists
  Root,        \* the digest the source resolves to
  Blob,        \* blob digests
  BlobsOf,     \* config and layers of each image manifest
  Platform,
  Null,        \* an entry of a list without a platform
  Graphs,      \* the contents of the source repository
  MaxDepth,    \* 32 in the code
  MaxRecords   \* 10000 in the code

Edge == [to : Manifest, platform : Platform \cup {Null}]

Graph == [children : [Index -> SUBSET Edge], referrers : [Manifest -> SUBSET Manifest]]

ASSUME ManifestsAreWellFormed ==
  /\ Index \subseteq Manifest /\ Root \in Manifest
  /\ BlobsOf \in [Manifest \ Index -> SUBSET Blob]
  /\ Graphs \subseteq Graph
  /\ MaxDepth \in Nat /\ MaxRecords \in Nat \ {0}

(* A repository holds finitely many manifests, and a list is finite. *)
ASSUME ContentIsFinite ==
  /\ IsFiniteSet(Manifest)
  /\ \A g \in Graphs : \A i \in Index : IsFiniteSet(g.children[i])

VARIABLES
  graph,    \* the source repository, which does not change under its digests
  request,  \* the options of the request
  phase,    \* "tree", "referrers", "done" or "failed"
  stack,    \* the calls of walk that have not returned
  seen,     \* manifests that were entered
  records,  \* the manifests of the plan, in order, each with its kind
  blobs,    \* the blobs of the plan
  subjects, \* what is left of the copy of records that plan takes for the referrers
  waiting   \* the referrers of one of them that are still to be fetched

vars == <<graph, request, phase, stack, seen, records, blobs, subjects, waiting>>

Frame == [todo : SUBSET Edge, filtered : BOOLEAN]

Record == [digest : Manifest, kind : {"root", "manifest", "referrer"}]

TypeOK ==
  /\ graph \in Graph
  /\ request \in [selected : SUBSET Platform, referrers : BOOLEAN]
  /\ phase \in {"tree", "referrers", "done", "failed"}
  /\ stack \in Seq(Frame) /\ Len(stack) <= MaxDepth + 1
  /\ seen \subseteq Manifest
  /\ records \in Seq(Record)
  /\ blobs \subseteq Blob
  /\ subjects \in Seq(Record)
  /\ waiting \subseteq Manifest

Init ==
  /\ graph \in Graphs
  /\ request \in [selected : SUBSET Platform, referrers : BOOLEAN]
  /\ phase = "tree"
  /\ stack = <<>>
  /\ seen = {}
  /\ records = <<[digest |-> Root, kind |-> "root"]>>
  /\ blobs = {}
  /\ subjects = <<>>
  /\ waiting = {}

-----------------------------------------------------------------------------
(* walk *)

\* Mutants: the depth has no limit; the limit on records is one too high.
BeyondWidth(depth, found) == Len(found) > MaxRecords

BeyondLate(depth, found) == depth > MaxDepth \/ Len(found) > MaxRecords + 1

BeyondLimits(depth, found) == depth > MaxDepth \/ Len(found) > MaxRecords

\* Mutant: a manifest is walked wherever it is met.
NeverKnown(m) == m # m

Known(m) == m \in seen

(* The platform filter. *)
Selected(d, filtered) ==
  filtered /\ request.selected # {} => d.platform \in request.selected

Listed(m, filtered) == {d \in graph.children[m] : Selected(d, filtered)}

(* walk is called for m, with the calls below on its stack. *)
Enter(m, filtered, depth, below, found) ==
  \/ /\ BeyondLimits(depth, found)
     /\ phase' = "failed"
     /\ UNCHANGED <<stack, seen, blobs>>
  \/ /\ ~ BeyondLimits(depth, found) /\ Known(m)
     /\ stack' = below
     /\ UNCHANGED <<phase, seen, blobs>>
  \/ /\ ~ BeyondLimits(depth, found) /\ ~ Known(m)
     /\ seen' = seen \cup {m}
     /\ IF m \in Index
          THEN /\ stack' = Append(below, [todo |-> Listed(m, filtered), filtered |-> filtered])
               /\ UNCHANGED blobs
          ELSE stack' = below /\ blobs' = blobs \cup BlobsOf[m]
     /\ UNCHANGED phase

Top == stack[Len(stack)]

Below == SubSeq(stack, 1, Len(stack) - 1)

(* The walks of referrers start at depth 1. *)
Depth == IF phase = "referrers" THEN Len(stack) + 1 ELSE Len(stack)

Adds(m, kind) == records' = Append(records, [digest |-> m, kind |-> kind])

VisitChild(d) ==
  /\ phase \in {"tree", "referrers"} /\ stack # <<>> /\ d \in Top.todo
  /\ Adds(d.to, "manifest")
  /\ Enter(d.to, Top.filtered, Depth, Append(Below, [Top EXCEPT !.todo = @ \ {d}]), records')
  /\ UNCHANGED <<graph, request, subjects, waiting>>

Return ==
  /\ phase \in {"tree", "referrers"} /\ stack # <<>> /\ Top.todo = {}
  /\ stack' = Below
  /\ UNCHANGED <<graph, request, phase, seen, records, blobs, subjects, waiting>>

-----------------------------------------------------------------------------
(* plan *)

Start ==
  /\ phase = "tree" /\ seen = {}
  /\ Enter(Root, TRUE, 0, <<>>, records)
  /\ UNCHANGED <<graph, request, records, subjects, waiting>>

EndTree ==
  /\ phase = "tree" /\ stack = <<>> /\ seen # {}
  /\ IF request.referrers
       THEN phase' = "referrers" /\ subjects' = records
       ELSE phase' = "done" /\ UNCHANGED subjects
  /\ UNCHANGED <<graph, request, stack, seen, records, blobs, waiting>>

BetweenSubjects == phase = "referrers" /\ stack = <<>> /\ waiting = {}

ListReferrers ==
  /\ BetweenSubjects /\ subjects # <<>>
  /\ waiting' = graph.referrers[Head(subjects).digest]
  /\ subjects' = Tail(subjects)
  /\ UNCHANGED <<graph, request, phase, stack, seen, records, blobs>>

\* Mutant: the platform filter is applied below a referrer too.
VisitReferrerFiltered(m) ==
  /\ phase = "referrers" /\ stack = <<>> /\ m \in waiting
  /\ waiting' = waiting \ {m}
  /\ Adds(m, "referrer")
  /\ Enter(m, TRUE, 1, <<>>, records')
  /\ UNCHANGED <<graph, request, subjects>>

VisitReferrer(m) ==
  /\ phase = "referrers" /\ stack = <<>> /\ m \in waiting
  /\ waiting' = waiting \ {m}
  /\ Adds(m, "referrer")
  /\ Enter(m, FALSE, 1, <<>>, records')
  /\ UNCHANGED <<graph, request, subjects>>

Answer ==
  /\ BetweenSubjects /\ subjects = <<>>
  /\ phase' = "done"
  /\ UNCHANGED <<graph, request, stack, seen, records, blobs, subjects, waiting>>

(* A request to the registry fails, or a manifest is of no known type. *)
Fail ==
  /\ phase \in {"tree", "referrers"}
  /\ phase' = "failed"
  /\ UNCHANGED <<graph, request, stack, seen, records, blobs, subjects, waiting>>

Next ==
  \/ Start \/ EndTree \/ ListReferrers \/ Answer \/ Return \/ Fail
  \/ stack # <<>> /\ \E d \in Top.todo : VisitChild(d)
  \/ \E m \in waiting : VisitReferrer(m)

Spec == Init /\ [][Next]_vars

-----------------------------------------------------------------------------
(* Properties. *)

(* What is reached from a set of manifests, one list after the other; the
   platform filter trims some of the lists. *)
Closure(from, trimmed) ==
  LET reached[n \in 0 .. Cardinality(Manifest)] ==
        IF n = 0 THEN from
        ELSE reached[n - 1] \cup
               {d.to : d \in UNION {Listed(m, m \in trimmed) : m \in reached[n - 1] \cap Index}}
  IN reached[Cardinality(Manifest)]

Tree == Closure({Root}, Index)

(* A list that is met on both sides was walked below the root, under the
   filter, and is not walked again. *)
Referred == Closure(UNION {graph.referrers[m] : m \in Tree}, Tree)

Planned == Tree \cup IF request.referrers THEN Referred ELSE {}

Named == {records[i].digest : i \in 1 .. Len(records)}

(* An answered plan names exactly the manifests that the filter selects below
   the root and, if they are asked for, those below a referrer of one of
   these, with every blob of theirs: in whatever order the lists name them,
   however often a manifest is met, and whichever side meets it first.  This
   is what the code plans, and less than docs/requirements.md:318-319 and
   592-594 ask: referrers of referrers are left out (main.go:289).  It says
   which manifests are named, not how often: one met twice has two records,
   where docs/requirements.md:320 wants it named once. *)
PlanIsClosure ==
  phase = "done" =>
    /\ Named = Planned
    /\ blobs = UNION {BlobsOf[m] : m \in Named \ Index}

(* A plan that is answered is within its limits, though they are tested on
   the way down only. *)
PlanFitsLimits == phase = "done" => Len(records) <= MaxRecords

EntriesSeen == {e \in (seen \cap Index) \X Edge : e[2] \in graph.children[e[1]]}

(* The walk below the root names one manifest at most for each entry of a
   list it has entered: its cost is bounded by the size of the graph, not by
   the number of paths (walk).  The bound leaves room for a second record of
   a manifest that two entries name. *)
WorkBoundedByEntries ==
  (\A i \in DOMAIN records : records[i].kind # "referrer") =>
    Len(records) <= 1 + Cardinality(EntriesSeen)

=============================================================================
