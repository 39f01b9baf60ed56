------------------------------ MODULE TaskQueue ------------------------------
(***************************************************************************)
(* The task channel between the API and the worker node: the Redis list    *)
(* Celery publishes to, the messages the node has reserved but not yet     *)
(* acknowledged, and the node's in-memory set of revoked task ids with the *)
(* broadcasts that are on their way to it.  The service's task id is the   *)
(* report id, so a revocation concerns every message of a report, the      *)
(* retries still to come included.                                         *)
(*                                                                         *)
(* A publication whose reply is lost is repeated by the client (Celery's   *)
(* publish_retry), so one apply_async may leave several copies of its      *)
(* message.  Copies names them: with one copy, publication is exact.       *)
(***************************************************************************)
EXTENDS Parameters

CONSTANT Copies     \* names for the copies of a report's message

(* A message has at least one name.                                         *)
ASSUME CopiesAssumption == Copies # {}

VARIABLES
    queue,      \* messages in the Redis list
    reserved,   \* messages delivered to the node and not acknowledged
    revoked,    \* report ids in the node's revoked set
    revoking    \* report ids whose revoke broadcast is in flight

queueVars == <<queue, reserved, revoked, revoking>>

Message == [report: Reports, retries: 0..MaxRetries, copy: Copies]

Messages(r, retries, copies) ==
    {[report |-> r, retries |-> retries, copy |-> c] : c \in copies}

QueueTypeOK ==
    /\ queue \subseteq Message
    /\ reserved \subseteq Message
    /\ revoked \subseteq Reports
    /\ revoking \subseteq Reports

QueueInit == queue = {} /\ reserved = {} /\ revoked = {} /\ revoking = {}

Pending == queue \cup reserved

SameTask(m, n) == m.report = n.report /\ m.copy = n.copy

-----------------------------------------------------------------------------

Enqueue(ms) ==
    /\ queue' = queue \cup ms
    /\ UNCHANGED <<reserved, revoked, revoking>>

(* Variant: the list keeps what it delivered.                               *)
ReceiveKeeping(m) ==
    /\ m \in queue
    /\ m.report \notin revoked
    /\ reserved' = reserved \cup {m}
    /\ UNCHANGED <<queue, revoked, revoking>>

(* The consumer receives a message; a revoked one is acknowledged and       *)
(* dropped instead (Discard).                                               *)
Receive(m) ==
    /\ m \in queue
    /\ m.report \notin revoked
    /\ queue' = queue \ {m}
    /\ reserved' = reserved \cup {m}
    /\ UNCHANGED <<revoked, revoking>>

(* Variant: the message is not acknowledged when a process takes it.        *)
AcceptLate(m) ==
    /\ m \in reserved
    /\ m.report \notin revoked
    /\ UNCHANGED queueVars

(* A pool process takes a reserved message, which is acknowledged at once:  *)
(* task_acks_late is not set.  An acknowledgement that is lost (kombu logs  *)
(* the connection error and goes on) leaves the message to be delivered     *)
(* again while it runs: that is a second copy of it that waits (Copies).    *)
Accept(m) ==
    /\ m \in reserved
    /\ m.report \notin revoked
    /\ reserved' = reserved \ {m}
    /\ UNCHANGED <<queue, revoked, revoking>>

Discard(m) ==
    /\ m \in Pending
    /\ m.report \in revoked
    /\ queue' = queue \ {m}
    /\ reserved' = reserved \ {m}
    /\ UNCHANGED <<revoked, revoking>>

Broadcast(r) ==
    /\ revoking' = revoking \cup {r}
    /\ UNCHANGED <<queue, reserved, revoked>>

RevokeArrives(r) ==
    /\ r \in revoking
    /\ revoking' = revoking \ {r}
    /\ revoked' = revoked \cup {r}
    /\ UNCHANGED <<queue, reserved>>

(* The node stops and restarts: what it had not acknowledged returns to the *)
(* list; the revoked set and the broadcasts it did not read are gone.       *)
NodeRestart ==
    /\ queue' = queue \cup reserved
    /\ reserved' = {}
    /\ revoked' = {}
    /\ revoking' = {}

=============================================================================
