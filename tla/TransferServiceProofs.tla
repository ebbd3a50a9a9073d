------------------------- MODULE TransferServiceProofs -------------------------
(***************************************************************************)
(* Proofs about TransferService, for any sets of jobs, contents and        *)
(* operations and any number of workers.  The invariant has a part for     *)
(* each actor: the caller's table names its own runs, a handler at work    *)
(* has a job, and only handlers that were accepted have slots.             *)
(***************************************************************************)
EXTENDS TransferService, FiniteSetTheorems, TLAPS

CallerOK ==
  /\ runs \subseteq Run /\ IsFiniteSet(runs) /\ Cardinality(runs) <= Workers
  /\ operations \in [Job -> Operation \cup {Null}]
  /\ \A j \in Job : operations[j] # Null => \E r \in runs : r.job = j /\ r.op = operations[j]

HandlerOK(h) ==
  /\ h \in Handler
  /\ h.pc # "none" => h.job \in Job

HandlersOK ==
  /\ handler = [o \in Operation |-> handler[o]]
  /\ \A o \in Operation : HandlerOK(handler[o])

TableOK ==
  /\ table \subseteq Operation /\ IsFiniteSet(table) /\ Cardinality(table) <= maximum
  /\ \A o \in table : handler[o].pc \notin {"none", "arrived"}

IInv == CallerOK /\ HandlersOK /\ TableOK /\ tag \in Content \cup {Null}

-----------------------------------------------------------------------------
(* The parts of a step. *)

(* Only _execute changes the runs and the table of the caller: it adds a run
   with its entry, or removes a run with the entry of its job. *)
LEMMA CallerStep == ASSUME IInv, [Next]_vars PROVE CallerOK'
<1> CallerOK
  BY DEF IInv
<1>1. ASSUME NEW j \in Job, OpenCopy(j) PROVE CallerOK'
  <2>1. PICK o \in Operation : /\ runs' = runs \cup {[job |-> j, op |-> o, reading |-> TRUE]}
                              /\ operations' = [operations EXCEPT ![j] = o]
    BY <1>1 DEF OpenCopy
  <2>2. IsFiniteSet(runs) /\ Cardinality(runs) \in Nat /\ Cardinality(runs) < Workers
    BY <1>1, FS_CardinalityType DEF OpenCopy, CallerOK
  <2>3. /\ IsFiniteSet(runs')
        /\ Cardinality(runs') \in {Cardinality(runs), Cardinality(runs) + 1}
    BY <2>1, <2>2, FS_AddElement
  <2>4. Cardinality(runs') <= Workers
    BY <2>2, <2>3, WorkersIsPositive
  <2> DEFINE new == [job |-> j, op |-> o, reading |-> TRUE]
  <2>5. new \in Run /\ new.job = j /\ new.op = o
    BY DEF Run
  <2>6. ASSUME NEW i \in Job, operations'[i] # Null
        PROVE  \E r \in runs' : r.job = i /\ r.op = operations'[i]
    <3>1. CASE i = j
      BY <2>1, <2>5, <3>1 DEF CallerOK
    <3>2. CASE i # j
      BY <2>1, <2>6, <3>2 DEF CallerOK
    <3> QED BY <3>1, <3>2
  <2> QED BY <2>1, <2>3, <2>4, <2>5, <2>6 DEF CallerOK
<1>2. ASSUME NEW r \in runs, EndRun(r) PROVE CallerOK'
  <2>1. runs' = runs \ {r} /\ operations' = [operations EXCEPT ![r.job] = Null]
    BY <1>2 DEF EndRun
  <2>2. IsFiniteSet(runs) /\ Cardinality(runs) \in Nat /\ Cardinality(runs) <= Workers
    BY FS_CardinalityType DEF CallerOK
  <2>3. IsFiniteSet(runs') /\ Cardinality(runs') <= Workers
    <3>1. IsFiniteSet(runs') /\ Cardinality(runs') = Cardinality(runs) - 1
      BY <1>2, <2>1, <2>2, FS_RemoveElement
    <3> QED BY <2>2, <3>1, WorkersIsPositive
  <2>4. r.job \in Job /\ runs' \subseteq Run
    BY <2>1 DEF CallerOK, Run
  <2>5. operations' \in [Job -> Operation \cup {Null}]
    BY <2>1 DEF CallerOK
  <2>6. ASSUME NEW i \in Job, operations'[i] # Null
        PROVE  \E q \in runs' : q.job = i /\ q.op = operations'[i]
    <3>1. i # r.job /\ operations'[i] = operations[i]
      BY <2>1, <2>4, <2>6 DEF CallerOK
    <3>2. PICK q \in runs : q.job = i /\ q.op = operations[i]
      BY <2>6, <3>1 DEF CallerOK
    <3> QED BY <2>1, <3>1, <3>2
  <2> QED BY <2>3, <2>4, <2>5, <2>6 DEF CallerOK
<1>7. ASSUME NEW r \in runs, LeavesLoop(r), UNCHANGED operations PROVE CallerOK'
  <2> DEFINE left == [r EXCEPT !.reading = FALSE]
  <2>1. r \in Run /\ runs' = (runs \ {r}) \cup {left}
    BY <1>7 DEF CallerOK, LeavesLoop
  <2>2. left \in Run /\ left.job = r.job /\ left.op = r.op
    BY <2>1 DEF Run
  <2>3. IsFiniteSet(runs) /\ Cardinality(runs) \in Nat /\ Cardinality(runs) <= Workers
    BY FS_CardinalityType DEF CallerOK
  <2>4. IsFiniteSet(runs') /\ Cardinality(runs') <= Workers
    <3>1. IsFiniteSet(runs \ {r}) /\ Cardinality(runs \ {r}) = Cardinality(runs) - 1
      BY <1>7, <2>3, FS_RemoveElement
    <3>2. /\ IsFiniteSet(runs')
          /\ Cardinality(runs') \in {Cardinality(runs \ {r}), Cardinality(runs \ {r}) + 1}
      BY <2>1, <3>1, FS_AddElement
    <3> QED BY <2>3, <3>1, <3>2, WorkersIsPositive
  <2>5. ASSUME NEW i \in Job, operations'[i] # Null
        PROVE  \E q \in runs' : q.job = i /\ q.op = operations'[i]
    <3>1. PICK q \in runs : q.job = i /\ q.op = operations[i]
      BY <1>7, <2>5 DEF CallerOK
    <3> QED BY <1>7, <2>1, <2>2, <3>1
  <2>6. runs' \subseteq Run
    BY <2>1, <2>2 DEF CallerOK
  <2> HIDE DEF left
  <2> QED BY <1>7, <2>4, <2>5, <2>6 DEF CallerOK
<1>3. ASSUME client' = client PROVE CallerOK'
  BY <1>3 DEF client, CallerOK
<1>4. ASSUME NEW o \in Operation,
             \/ Accept(o) \/ Head(o) \/ Publish(o) \/ Verify(o) \/ Fail(o) \/ Return(o)
             \/ FinaliseStream(o) \/ NoticeDisconnect(o)
      PROVE  client' = client
  BY <1>4 DEF Accept, Head, Publish, Verify, Fail, Return, FinaliseStream, NoticeDisconnect, client
<1>5. ASSUME NEW o \in Operation, Cancel(o) PROVE client' = client
  BY <1>5 DEF Cancel, client
<1>6. CASE UNCHANGED vars
  BY <1>3, <1>6 DEF vars, client
<1> QED BY <1>1, <1>2, <1>3, <1>4, <1>5, <1>6, <1>7 DEF Next, CloseStream, DropStream

(* A step changes the record of at most one handler.  HandlerStep lists what
   it can make of it. *)
HandlerStep(h, k) ==
  \/ k = h
  \/ \E j \in Job : k = [NoHandler EXCEPT !.pc = "arrived", !.job = j, !.context = "open"]
  \/ h.pc = "answered" /\ k = NoHandler
  \/ h.pc = "arrived" /\ Cardinality(table) >= maximum /\ k = NoHandler
  \/ \E c \in {"disconnected", "cancelled"} : k = [h EXCEPT !.context = c]
  \/ h.pc # "none" /\ \E pc \in {"head", "copy", "verify"} : k = [h EXCEPT !.pc = pc]
  \/ h.pc # "none" /\ k = [h EXCEPT !.context = "none", !.pc = "answered"]

(* Whatever becomes of a handler, it keeps its type and its job. *)
LEMMA HandlerStepOK ==
  ASSUME NEW h, NEW k, HandlerOK(h), HandlerStep(h, k) PROVE HandlerOK(k)
<1>1. HandlerOK(NoHandler)
  BY DEF HandlerOK, Handler, NoHandler
<1>2. ASSUME NEW j \in Job
      PROVE  HandlerOK([NoHandler EXCEPT !.pc = "arrived", !.job = j, !.context = "open"])
  BY DEF HandlerOK, Handler, NoHandler
<1>3. ASSUME NEW c \in {"disconnected", "cancelled"} PROVE HandlerOK([h EXCEPT !.context = c])
  BY DEF HandlerOK, Handler
<1>4. ASSUME h.pc # "none", NEW pc \in {"head", "copy", "verify"}
      PROVE  HandlerOK([h EXCEPT !.pc = pc])
  BY <1>4 DEF HandlerOK, Handler
<1>5. ASSUME h.pc # "none" PROVE HandlerOK([h EXCEPT !.context = "none", !.pc = "answered"])
  BY <1>5 DEF HandlerOK, Handler
<1> QED BY <1>1, <1>2, <1>3, <1>4, <1>5 DEF HandlerStep

(* A handler is refused on arrival, when no slot is free. *)
LEMMA RefusalStep ==
  ASSUME NEW h, NEW k, HandlerOK(h), HandlerStep(h, k), h.pc = "arrived", k.pc = "none"
  PROVE  Cardinality(table) >= maximum
<1>1. ASSUME NEW j \in Job,
             k = [NoHandler EXCEPT !.pc = "arrived", !.job = j, !.context = "open"]
      PROVE  FALSE
  BY <1>1 DEF NoHandler
<1>2. ASSUME NEW c \in {"disconnected", "cancelled"}, k = [h EXCEPT !.context = c] PROVE FALSE
  BY <1>2 DEF HandlerOK, Handler
<1>3. ASSUME NEW pc \in {"head", "copy", "verify"}, k = [h EXCEPT !.pc = pc] PROVE FALSE
  BY <1>3 DEF HandlerOK, Handler
<1>4. ASSUME k = [h EXCEPT !.context = "none", !.pc = "answered"] PROVE FALSE
  BY <1>4 DEF HandlerOK, Handler
<1> QED BY <1>1, <1>2, <1>3, <1>4 DEF HandlerStep

(* Every step takes every handler through HandlerStep. *)
LEMMA StepsAreHandlerSteps ==
  ASSUME IInv, [Next]_vars
  PROVE  /\ handler' = [o \in Operation |-> handler'[o]]
         /\ \A o \in Operation : HandlerStep(handler[o], handler'[o])
<1> DEFINE Goal == /\ handler' = [o \in Operation |-> handler'[o]]
                   /\ \A o \in Operation : HandlerStep(handler[o], handler'[o])
<1> USE DEF HandlersOK
<1> HandlersOK
  BY DEF IInv
<1>1. ASSUME NEW o \in Operation, NEW h, Becomes(o, h), HandlerStep(handler[o], h) PROVE Goal
  BY <1>1 DEF Becomes, HandlerStep
<1>2. ASSUME UNCHANGED handler PROVE Goal
  BY <1>2 DEF HandlerStep
<1>3. ASSUME NEW j \in Job, OpenCopy(j) PROVE Goal
  <2>1. PICK o \in Operation :
          handler' = [handler EXCEPT ![o] = [NoHandler EXCEPT !.pc = "arrived", !.job = j,
                                                              !.context = "open"]]
    BY <1>3 DEF OpenCopy
  <2> QED BY <2>1 DEF HandlerStep
<1>4. ASSUME NEW o \in Operation, Disconnected(o) PROVE Goal
  <2>1. HandlerStep(handler[o], LeftAlone(handler[o]))
    BY DEF LeftAlone, HandlerStep
  <2> QED BY <1>4, <2>1 DEF Disconnected, HandlerStep
<1>5. ASSUME NEW r \in runs, CloseStream(r) \/ DropStream(r) \/ EndRun(r) PROVE Goal
  <2>1. r.op \in Operation
    BY DEF IInv, CallerOK, Run
  <2> QED BY <1>2, <1>4, <1>5, <2>1 DEF CloseStream, DropStream, EndRun
<1>6. ASSUME NEW o \in Operation, Accept(o) PROVE Goal
  BY <1>1, <1>6 DEF Accept, At, Goes, HandlerStep
<1>7. ASSUME NEW o \in Operation, Head(o) PROVE Goal
  BY <1>1, <1>7 DEF Head, At, Goes, Answers, HandlerStep
<1>8. ASSUME NEW o \in Operation, Publish(o) PROVE Goal
  BY <1>1, <1>8 DEF Publish, At, Goes, Answers, HandlerStep
<1>9. ASSUME NEW o \in Operation, Verify(o) PROVE Goal
  BY <1>1, <1>9 DEF Verify, At, Answers, HandlerStep
<1>10. ASSUME NEW o \in Operation, Fail(o) \/ Return(o) \/ NoticeDisconnect(o) PROVE Goal
  BY <1>1, <1>10 DEF Fail, Return, NoticeDisconnect, At, Answers, HandlerStep
<1>11. ASSUME NEW o \in Operation, FinaliseStream(o) PROVE Goal
  BY <1>4, <1>11 DEF FinaliseStream
<1>12. ASSUME NEW o \in Operation, Cancel(o) PROVE Goal
  BY <1>1, <1>12 DEF Cancel, HandlerStep
<1>13. CASE UNCHANGED vars
  BY <1>2, <1>13 DEF vars
<1> QED BY <1>3, <1>5, <1>6, <1>7, <1>8, <1>9, <1>10, <1>11, <1>12, <1>13 DEF Next

(* A slot is taken by a request that had none, when one is free, and freed
   when its handler returns; until then the handler is past its arrival. *)
LEMMA TableStep == ASSUME IInv, [Next]_vars PROVE TableOK'
<1> USE DEF HandlersOK
<1> HandlersOK /\ TableOK
  BY DEF IInv
<1> table \subseteq Operation /\ IsFiniteSet(table) /\ Cardinality(table) \in Nat
      /\ Cardinality(table) <= maximum /\ maximum \in Nat
  BY FS_CardinalityType, WorkersIsPositive DEF TableOK, maximum
<1>1. ASSUME NEW o \in Operation, NEW h, Becomes(o, h), UNCHANGED table,
             o \notin table \/ h.pc \notin {"none", "arrived"}
      PROVE  TableOK'
  BY <1>1 DEF Becomes, TableOK, maximum
<1>2. ASSUME UNCHANGED <<handler, table>> PROVE TableOK'
  BY <1>2 DEF TableOK, maximum
<1>3. ASSUME NEW j \in Job, OpenCopy(j) PROVE TableOK'
  <2>1. PICK o \in Operation :
          /\ handler[o].pc = "none"
          /\ handler' = [handler EXCEPT ![o] = [NoHandler EXCEPT !.pc = "arrived", !.job = j,
                                                                 !.context = "open"]]
    BY <1>3 DEF OpenCopy, Unused
  <2>2. table' = table /\ o \notin table
    BY <1>3, <2>1 DEF OpenCopy, TableOK
  <2> QED BY <2>1, <2>2 DEF TableOK, maximum
<1>4. ASSUME NEW o \in Operation, Disconnected(o), UNCHANGED table PROVE TableOK'
  <2>1. \A p \in table : handler'[p].pc = handler[p].pc
    BY <1>4 DEF Disconnected, LeftAlone, TableOK, HandlerOK, Handler
  <2> QED BY <1>4, <2>1 DEF TableOK, maximum
<1>5. ASSUME NEW r \in runs, CloseStream(r) \/ DropStream(r) \/ EndRun(r) PROVE TableOK'
  <2>1. r.op \in Operation
    BY DEF IInv, CallerOK, Run
  <2> QED BY <1>2, <1>4, <1>5, <2>1 DEF CloseStream, DropStream, EndRun
<1>6. ASSUME NEW o \in Operation, Accept(o) PROVE TableOK'
  <2>1. o \notin table
    BY <1>6 DEF Accept, At, TableOK
  <2>2. CASE Cardinality(table) >= maximum
    BY <1>1, <1>6, <2>1, <2>2 DEF Accept
  <2>3. CASE ~ (Cardinality(table) >= maximum)
    <3>1. table' = table \cup {o} /\ handler' = [handler EXCEPT ![o].pc = "head"]
      BY <1>6, <2>3 DEF Accept, Goes, Becomes
    <3>2. IsFiniteSet(table') /\ Cardinality(table') = Cardinality(table) + 1
      BY <2>1, <3>1, FS_AddElement
    <3>3. handler'[o].pc = "head" /\ \A p \in table : p # o => handler'[p] = handler[p]
      BY <3>1 DEF HandlersOK, HandlerOK, Handler, TableOK
    <3>4. \A p \in table' : handler'[p].pc \notin {"none", "arrived"}
      BY <3>1, <3>3 DEF TableOK
    <3> QED BY <2>3, <3>1, <3>2, <3>4 DEF TableOK, maximum
  <2> QED BY <2>2, <2>3
<1>7. ASSUME NEW o \in Operation, Return(o) PROVE TableOK'
  <2>1. table' = table \ {o} /\ \A p \in table' : handler'[p] = handler[p]
    BY <1>7 DEF Return, Becomes
  <2>2. IsFiniteSet(table') /\ Cardinality(table') <= maximum
    <3>1. /\ IsFiniteSet(table')
          /\ Cardinality(table') \in {Cardinality(table), Cardinality(table) - 1}
      BY <2>1, FS_RemoveElement
    <3> QED BY <3>1
  <2> QED BY <2>1, <2>2 DEF TableOK, maximum
<1>8. ASSUME NEW o \in Operation, Head(o) \/ Publish(o) \/ Verify(o) \/ Fail(o) PROVE TableOK'
  <2>1. UNCHANGED table /\ \A p \in Operation \ {o} : handler'[p] = handler[p]
    BY <1>8 DEF Head, Publish, Verify, Fail, Answers, Goes, Becomes
  <2>2. handler'[o].pc \in {"copy", "verify", "answered"}
    <3>1. ASSUME Answers(o) PROVE handler'[o].pc = "answered"
      BY <3>1 DEF Answers, Becomes, HandlerOK, Handler
    <3>2. ASSUME NEW pc, Goes(o, pc) PROVE handler'[o].pc = pc
      BY <3>2 DEF Goes, Becomes, HandlerOK, Handler
    <3> QED BY <1>8, <3>1, <3>2 DEF Head, Publish, Verify, Fail
  <2> QED BY <2>1, <2>2 DEF TableOK, maximum
<1>9. ASSUME NEW o \in Operation, NoticeDisconnect(o) PROVE TableOK'
  <2>1. UNCHANGED table /\ \A p \in Operation : handler'[p].pc = handler[p].pc
    BY <1>9 DEF NoticeDisconnect, Becomes, HandlerOK, Handler
  <2> QED BY <2>1 DEF TableOK, maximum
<1>10. ASSUME NEW o \in Operation, Cancel(o) PROVE TableOK'
  <2>1. UNCHANGED table /\ \A p \in Operation : handler'[p].pc = handler[p].pc
    BY <1>10 DEF Cancel, Becomes, HandlerOK, Handler
  <2> QED BY <2>1 DEF TableOK, maximum
<1>11. ASSUME NEW o \in Operation, FinaliseStream(o) PROVE TableOK'
  BY <1>4, <1>11 DEF FinaliseStream
<1>12. CASE UNCHANGED vars
  BY <1>2, <1>12 DEF vars
<1> QED BY <1>3, <1>5, <1>6, <1>7, <1>8, <1>9, <1>10, <1>11, <1>12 DEF Next

-----------------------------------------------------------------------------
(* The invariant and what follows from it. *)

(* IInv is inductive. *)
THEOREM Invariance == Spec => []IInv
<1>1. Init => IInv
  <2> SUFFICES ASSUME Init PROVE IInv
    OBVIOUS
  <2>1. CallerOK
    BY FS_EmptySet, WorkersIsPositive DEF Init, CallerOK
  <2>2. HandlersOK
    BY DEF Init, HandlersOK, HandlerOK, Handler, NoHandler
  <2>3. TableOK
    BY FS_EmptySet, WorkersIsPositive DEF Init, TableOK, maximum
  <2> QED BY <2>1, <2>2, <2>3 DEF Init, IInv
<1>2. IInv /\ [Next]_vars => IInv'
  <2> SUFFICES ASSUME IInv, [Next]_vars PROVE IInv'
    OBVIOUS
  <2>1. HandlersOK'
    BY StepsAreHandlerSteps, HandlerStepOK DEF IInv, HandlersOK
  <2>2. tag' \in Content \cup {Null}
    <3>1. ASSUME NEW o \in Operation, Publish(o) PROVE tag' \in Content
      <4>1. handler[o].job \in Job
        BY <3>1 DEF Publish, At, IInv, HandlersOK, HandlerOK
      <4> QED BY <3>1, <4>1, RootsAreContents DEF Publish, root
    <3>2. ASSUME NEW o \in Operation,
                 \/ Accept(o) \/ Head(o) \/ Verify(o) \/ Fail(o) \/ Return(o)
                 \/ FinaliseStream(o) \/ NoticeDisconnect(o) \/ Cancel(o)
          PROVE  tag' = tag
      BY <3>2 DEF Accept, Head, Verify, Fail, Return, FinaliseStream, NoticeDisconnect, Cancel
    <3> QED BY <3>1, <3>2 DEF IInv, Next, OpenCopy, CloseStream, DropStream, EndRun, vars
  <2> QED BY <2>1, <2>2, CallerStep, TableStep DEF IInv
<1> QED BY <1>1, <1>2, PTL DEF Spec

(* The table of the manager, the handlers and the slots keep their types, and
   their limits: no more runs and no more slots than workers. *)
THEOREM TypeCorrect == Spec => []TypeOK
<1>1. IInv => TypeOK
  <2> SUFFICES ASSUME IInv PROVE TypeOK
    OBVIOUS
  <2>1. handler \in [Operation -> Handler]
    BY DEF IInv, HandlersOK, HandlerOK
  <2> QED BY <2>1 DEF IInv, CallerOK, TableOK, TypeOK
<1> QED BY <1>1, Invariance, PTL

(* An entry of _operations is the operation of a run that has not come to its
   finally. *)
THEOREM OperationsAreCurrent == Spec => []NoStaleOperation
<1>1. IInv => NoStaleOperation
  BY DEF IInv, CallerOK, NoStaleOperation
<1> QED BY <1>1, Invariance, PTL

(* Runs that read different operations are different runs. *)
LEMMA OneRunEach ==
  ASSUME NEW ops, IsFiniteSet(runs), \A o \in ops : Read(o)
  PROVE  IsFiniteSet(ops) /\ Cardinality(ops) <= Cardinality(runs)
<1> DEFINE f == [o \in ops |-> CHOOSE r \in runs : r.op = o]
<1>1. \A o \in ops : f[o] \in runs /\ f[o].op = o
  BY DEF Read
<1>2. f \in [ops -> runs] /\ \A o, p \in ops : f[o] = f[p] => o = p
  BY <1>1
<1>3. f \in Injection(ops, runs)
  BY <1>2 DEF Injection, IsInjective
<1> QED BY <1>3, FS_Injection

(* While every slot belongs to a run there is one for each run: a run is
   refused only when an operation that nobody reads has a slot. *)
THEOREM RefusalMeansLeftover == Spec => RefusedOnlyByLeftover
<1>1. ASSUME IInv, [Next]_vars, NEW o \in Operation, Read(o),
             At(o, "arrived"), At(o, "none")'
      PROVE  \E p \in table : ~ Read(p)
  <2>1. Cardinality(table) >= maximum
    <3>1. HandlerOK(handler[o]) /\ HandlerStep(handler[o], handler'[o])
      BY <1>1, StepsAreHandlerSteps DEF IInv, HandlersOK
    <3> QED BY <1>1, <3>1, RefusalStep DEF At
  <2> SUFFICES ASSUME \A p \in table : Read(p) PROVE FALSE
    OBVIOUS
  <2>2. IsFiniteSet(table) /\ o \notin table
    BY <1>1, <2>1 DEF IInv, TableOK, At
  <2>3. IsFiniteSet(table \cup {o}) /\ Cardinality(table \cup {o}) = Cardinality(table) + 1
    BY <2>2, FS_AddElement
  <2>4. Cardinality(table \cup {o}) <= Cardinality(runs) /\ Cardinality(runs) <= Workers
    BY <1>1, OneRunEach DEF IInv, CallerOK
  <2>5. Cardinality(table) \in Nat /\ Cardinality(runs) \in Nat
    BY <1>1, FS_CardinalityType DEF IInv, CallerOK, TableOK
  <2> QED BY <2>1, <2>3, <2>4, <2>5, WorkersIsPositive DEF maximum
<1>2. IInv /\ [Next]_vars =>
        [\A o \in Operation :
           Read(o) /\ At(o, "arrived") /\ At(o, "none")' =>
             \E p \in table : ~ Read(p)]_vars
  BY <1>1
<1> QED BY <1>2, Invariance, PTL DEF Spec, RefusedOnlyByLeftover

=============================================================================
