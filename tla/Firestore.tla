------------------------------ MODULE Firestore ------------------------------
(***************************************************************************)
(* The Firestore client SDK and its server, modelled from how              *)
(* API/FirebaseManager.swift uses them (the SDK itself is vendored).       *)
(*                                                                         *)
(* A write is queued on the device, is visible there at once and is        *)
(* committed or refused by the server later, in the order of the queue.    *)
(* The queue is on disk: it survives a restart of the application, the     *)
(* completion closures of its writes do not.  The application has one      *)
(* signed-in user and one device, so nobody else writes the documents.     *)
(***************************************************************************)
EXTENDS GoodsModel, FiniteSetsExt

CONSTANT
  MaxFaults   \* bound: how many requests the network or the server may fail

ASSUME FirestoreAssumption == MaxFaults \in Nat

VARIABLES
  srv,     \* the server's documents
  queue,   \* the device's pending writes, oldest first
  faults   \* failed requests so far

fsVars == <<srv, queue, faults>>

Write == {w \in [doc : Docs, val : Values, done : Callbacks] : Fits(w.doc, w.val)}

FsTypeOK ==
  /\ srv \in [Docs -> Values]
  /\ \A d \in Docs : Fits(d, srv[d])
  /\ queue \in Seq(Write)
  /\ faults \in 0 .. MaxFaults

FsInit ==
  /\ srv = [d \in Docs |-> Absent]
  /\ queue = <<>>
  /\ faults = 0

Pending == Range(queue)

WritesTo(d) == {n \in DOMAIN queue : queue[n].doc = d}

\* What a query on the device returns for d: the newest pending write wins.
LocalView(d) ==
  IF WritesTo(d) = {} THEN srv[d] ELSE queue[Max(WritesTo(d))].val

Fault ==
  /\ faults < MaxFaults
  /\ faults' = faults + 1

\* setData / delete: the writes in ws (at most one here) join the queue.
Enqueue(ws) ==
  /\ queue' = queue \o ws
  /\ UNCHANGED <<srv, faults>>

\* The server commits the oldest write; its callback queues the writes ws.
Commit(ws) ==
  /\ queue # <<>>
  /\ srv' = [srv EXCEPT ![Head(queue).doc] = Head(queue).val]
  /\ queue' = Tail(queue) \o ws
  /\ UNCHANGED faults

\* The server refuses the oldest write, which the device rolls back.
Refuse ==
  /\ queue # <<>>
  /\ queue' = Tail(queue)
  /\ Fault
  /\ UNCHANGED srv

\* The process dies: the queue is read back from disk without its closures.
LoseCallbacks ==
  /\ queue' = [n \in DOMAIN queue |-> [queue[n] EXCEPT !.done = Lost]]
  /\ UNCHANGED <<srv, faults>>
=============================================================================
