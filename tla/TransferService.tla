---------------------------- MODULE TransferService ----------------------------
(***************************************************************************)
(* The copy operations of the transfer service (main.go), the registry     *)
(* they write to, and their callers: the runs of one CopyManager with its  *)
(* table _operations (manager.py) and the streams they read (client.py).   *)
(* All jobs here name the same destination tag.                            *)
(*                                                                         *)
(* handler[o].pc says where the handler of POST /v1/copies/{o} stands:     *)
(*                                                                         *)
(*   none     no such request            arrived  its slot not yet taken   *)
(*   head     about to look at the tag   copy     in ImageCopy             *)
(*   verify   about to look at the       answered the last event is out,   *)
(*            digest and the tag                  the slot still taken     *)
(*                                                                         *)
(* Of the registry only the tag is kept: content that was copied stays, so *)
(* the HEAD of the digest succeeds or fails as any request may.            *)
(*                                                                         *)
(* An id is used anew when nobody remembers it; the code draws random ones, *)
(* so the guard against duplicate ids never meets one.                     *)
(***************************************************************************)
EXTENDS Integers, FiniteSets

CONSTANTS
  Job,        \* copy jobs
  Content,    \* root digests
  Workers,    \* the number of workers of the manager
  Operation,  \* operation ids
  Null,
  Root,       \* the root digest that each job has planned
  NoClobber   \* the jobs whose replacement policy is no_clobber

ASSUME RootsAreContents == Root \in [Job -> Content]
ASSUME PoliciesAreOfJobs == NoClobber \subseteq Job
ASSUME WorkersIsPositive == Workers \in Nat \ {0}
ASSUME NullIsNothing == Null \notin Job \cup Content \cup Operation

VARIABLES
  runs,        \* the runs of its workers from the opening of a copy to their finally
  operations,  \* _operations of the manager, by job
  handler,     \* the handlers of the service
  table,       \* the slots of the service: server.operations
  tag          \* what the destination tag resolves to

vars == <<runs, operations, handler, table, tag>>
client == <<runs, operations>>

Run == [job : Job, op : Operation,
        reading : BOOLEAN]  \* it is in the loop over the events of its copy

NoHandler == [pc |-> "none", job |-> Null, context |-> "none"]

Handler ==
  [pc      : {"none", "arrived", "head", "copy", "verify", "answered"},
   job     : Job \cup {Null},
   context : {"none", "open", "disconnected", "cancelled"}]

(* manager.py passes the number of its workers as --max-operations. *)
maximum == Workers

TypeOK ==
  /\ runs \subseteq Run /\ Cardinality(runs) <= Workers
  /\ operations \in [Job -> Operation \cup {Null}]
  /\ handler \in [Operation -> Handler]
  /\ table \subseteq Operation /\ Cardinality(table) <= maximum
  /\ tag \in Content \cup {Null}

Init ==
  /\ runs = {}
  /\ operations = [j \in Job |-> Null]
  /\ handler = [o \in Operation |-> NoHandler]
  /\ table = {}
  /\ tag \in Content \cup {Null}

-----------------------------------------------------------------------------
(* The caller. *)

Read(o) == \E r \in runs : r.op = o /\ r.reading

Unused(o) ==
  /\ \A r \in runs : r.op # o
  /\ handler[o].pc = "none" /\ \A j \in Job : operations[j] # o

(* _execute as far as the request.  Another run of the same job may be under
   way: its lease has lapsed.  Which id is drawn does not matter. *)
OpenCopy(j) ==
  /\ Cardinality(runs) < Workers
  /\ \E o \in Operation : Unused(o)
  /\ LET o == CHOOSE o \in Operation : Unused(o) IN
       /\ runs' = runs \cup {[job |-> j, op |-> o, reading |-> TRUE]}
       /\ operations' = [operations EXCEPT ![j] = o]
       /\ handler' = [handler EXCEPT ![o] = [NoHandler EXCEPT !.pc = "arrived", !.job = j,
                                                              !.context = "open"]]
  /\ UNCHANGED <<table, tag>>

(* The client closes the response; the service will notice. *)
LeftAlone(h) == IF h.context = "open" THEN [h EXCEPT !.context = "disconnected"] ELSE h

Disconnected(o) == handler' = [handler EXCEPT ![o] = LeftAlone(@)]

LeavesLoop(r) ==
  /\ r.reading
  /\ runs' = (runs \ {r}) \cup {[r EXCEPT !.reading = FALSE]}

(* The stream is over, breaks or times out: the generator ends, by itself or
   with an exception, and closes the response. *)
CloseStream(r) ==
  /\ LeavesLoop(r)
  /\ Disconnected(r.op)
  /\ UNCHANGED <<operations, table, tag>>

(* The body of the loop is left from the middle of the stream: by an
   exception, as that for the event failed, or by a return, the claim lost or
   the job cancelled.  The generator keeps the response open until it is
   finalised; one that has ended, handler and all, is left by CloseStream. *)
DropStream(r) ==
  /\ handler[r.op].pc \notin {"none", "arrived", "head"}
  /\ LeavesLoop(r)
  /\ UNCHANGED <<operations, handler, table, tag>>

\* Mutant: an older run leaves the entry of a newer one, and with it its own.
EndRunKept(r) ==
  /\ ~ r.reading
  /\ runs' = runs \ {r}
  /\ operations' = IF \E q \in runs : q # r /\ q.job = r.job THEN operations
                   ELSE [operations EXCEPT ![r.job] = Null]
  /\ UNCHANGED <<handler, table, tag>>

(* What follows the loop is over: the last phase and finish, or the handler
   of the error with its credentials and _record_failure, each of which is
   awaited with the entry still in _operations.  The finally forgets
   whatever operation the job has. *)
EndRun(r) ==
  /\ ~ r.reading
  /\ runs' = runs \ {r}
  /\ operations' = [operations EXCEPT ![r.job] = Null]
  /\ UNCHANGED <<handler, table, tag>>

FinaliseStream(o) ==
  /\ handler[o].context = "open" /\ ~ Read(o)
  /\ Disconnected(o)
  /\ UNCHANGED <<client, table, tag>>

-----------------------------------------------------------------------------
(* The service. *)

Becomes(o, h) == handler' = [handler EXCEPT ![o] = h]

Goes(o, pc) == Becomes(o, [handler[o] EXCEPT !.pc = pc])

Answers(o) == Becomes(o, [handler[o] EXCEPT !.context = "none", !.pc = "answered"])

At(o, pc) == handler[o].pc = pc

root(o) == Root[handler[o].job]

\* Mutants: the limit is one too low; it is one too high.
AcceptFewer(o) ==
  /\ At(o, "arrived")
  /\ UNCHANGED <<client, tag>>
  /\ IF Cardinality(table) + 1 >= maximum
       THEN Becomes(o, NoHandler) /\ UNCHANGED table
       ELSE Goes(o, "head") /\ table' = table \cup {o}

AcceptMore(o) ==
  /\ At(o, "arrived")
  /\ UNCHANGED <<client, tag>>
  /\ IF Cardinality(table) > maximum
       THEN Becomes(o, NoHandler) /\ UNCHANGED table
       ELSE Goes(o, "head") /\ table' = table \cup {o}

(* Both tests of the limit and the insertion are made under the mutex. *)
Accept(o) ==
  /\ At(o, "arrived")
  /\ UNCHANGED <<client, tag>>
  /\ IF Cardinality(table) >= maximum
       THEN Becomes(o, NoHandler) /\ UNCHANGED table
       ELSE Goes(o, "head") /\ table' = table \cup {o}

(* Any error, a timeout as much as a 404, counts as an absent tag. *)
Head(o) ==
  /\ At(o, "head")
  /\ \E seen \in {tag, "error"} :
       IF seen \in Content \ {root(o)} /\ handler[o].job \in NoClobber
         THEN Answers(o) ELSE Goes(o, "copy")
  /\ UNCHANGED <<client, table, tag>>

(* ImageCopy publishes the tag when everything below it is there; the answer
   to that PUT may be lost. *)
Publish(o) ==
  /\ At(o, "copy")
  /\ tag' = root(o)
  /\ Goes(o, "verify") \/ Answers(o)
  /\ UNCHANGED <<client, table>>

(* The answer is completed or failed, by what the digest and the tag resolve
   to, or since a request to the registry fails. *)
Verify(o) ==
  /\ At(o, "verify")
  /\ Answers(o)
  /\ UNCHANGED <<client, table, tag>>

(* ImageCopy fails, as every request does when the context is cancelled. *)
Fail(o) ==
  /\ At(o, "copy")
  /\ Answers(o)
  /\ UNCHANGED <<client, table, tag>>

(* The handler returns: its deferred calls free the slot. *)
Return(o) ==
  /\ At(o, "answered")
  /\ table' = table \ {o}
  /\ Becomes(o, NoHandler)
  /\ UNCHANGED <<client, tag>>

\* Mutant: the context of the operation does not come from its request.
NoticeNothing(o) == FALSE /\ UNCHANGED vars

(* net/http cancels the context of a request whose client has gone. *)
NoticeDisconnect(o) ==
  /\ handler[o].context = "disconnected"
  /\ Becomes(o, [handler[o] EXCEPT !.context = "cancelled"])
  /\ UNCHANGED <<client, table, tag>>

(* DELETE: manager.cancel and close name the operation that the table of the
   manager has for the job, a run that finds its job cancelled its own.  404
   when the operation has no slot, yet or any more, which the client takes
   for an answer too. *)
Cancel(o) ==
  /\ (\E j \in Job : operations[j] = o) \/ Read(o)
  /\ o \in table /\ handler[o].context \in {"open", "disconnected"}
  /\ Becomes(o, [handler[o] EXCEPT !.context = "cancelled"])
  /\ UNCHANGED <<client, table, tag>>

-----------------------------------------------------------------------------

Next ==
  \/ \E j \in Job : OpenCopy(j)
  \/ \E r \in runs : CloseStream(r) \/ DropStream(r) \/ EndRun(r)
  \/ \E o \in Operation :
       \/ Accept(o) \/ Head(o) \/ Publish(o) \/ Verify(o) \/ Fail(o) \/ Return(o)
       \/ FinaliseStream(o) \/ NoticeDisconnect(o) \/ Cancel(o)

Spec == Init /\ [][Next]_vars

(* Generators that nobody holds are finalised and lost connections noticed;
   a handler gets past its own statements; only with a cancelled context does
   it get past a request to a registry, which may otherwise hang. *)
Fairness ==
  \A o \in Operation :
    /\ WF_vars(FinaliseStream(o) \/ NoticeDisconnect(o))
    /\ WF_vars(\/ Accept(o) \/ Return(o)
               \/ handler[o].context = "cancelled" /\ (Head(o) \/ Fail(o) \/ Verify(o)))

FairSpec == Spec /\ Fairness

-----------------------------------------------------------------------------
(* Properties. *)

(* A run is refused a slot only because of an operation that no run reads any
   more: the manager has as many workers as the service has slots (copy,
   _start_service). *)
RefusedOnlyByLeftover ==
  [][\A o \in Operation :
       Read(o) /\ At(o, "arrived") /\ At(o, "none")' => \E p \in table : ~ Read(p)]_vars

Publishes(o) == At(o, "copy") /\ tag' # tag /\ ~ At(o, "copy")'

(* An entry of _operations is the operation of a run of its job that has not
   come to its finally, though the finally of every run of the job, old or
   new, clears it (_execute).  The copy may be over by then, or abandoned by
   its reader: manager.cancel gets a 404, or a copy that ends anyway. *)
NoStaleOperation ==
  \A j \in Job : operations[j] # Null => \E r \in runs : r.job = j /\ r.op = operations[j]

(* The slot of a copy that nobody reads any more becomes free, though the
   registry never answers it. *)
AbandonedCopyEnds == \A o \in Operation : o \in table /\ ~ Read(o) ~> o \notin table

(* "if the destination tag already resolves to a different digest, the job
   fails without changing it" (docs/requirements.md:258-259).  The code breaks
   it. *)
NoClobberKept ==
  [][\A o \in Operation :
       Publishes(o) /\ handler[o].job \in NoClobber => tag = Null]_vars

=============================================================================
