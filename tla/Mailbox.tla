------------------------------ MODULE Mailbox ------------------------------
(***************************************************************************)
(* What a mailbox promises: a queue that takes an entry at most once, hands *)
(* the whole of it to one reader, and loses entries only by expiry.        *)
(***************************************************************************)
EXTENDS Naturals, Sequences

CONSTANTS
  Entries,    \* what may be sent
  Capacity    \* entries a mailbox queues at once

VARIABLES
  open,       \* the mailbox exists
  queue,      \* entries accepted and not yet delivered, oldest first
  delivered,  \* entries a consuming read returned
  expired     \* entries dropped with a stale backlog or an expired mailbox

vars == << open, queue, delivered, expired >>

Ids(q) == { q[i] : i \in 1 .. Len(q) }

Known == Ids(queue) \cup delivered \cup expired

Init ==
  /\ open = FALSE
  /\ queue = << >>
  /\ delivered = {}
  /\ expired = {}

Create ==
  /\ open' = TRUE
  /\ UNCHANGED << queue, delivered, expired >>

(***************************************************************************)
(* A stale backlog is found out by the operation that meets it: that       *)
(* operation then acts on what is left.                                    *)
(***************************************************************************)
Remaining(kept) ==
  /\ kept \in {queue, << >>}
  /\ expired' = IF kept = queue THEN expired ELSE expired \cup Ids(queue)

Accept(e) ==
  /\ open
  /\ e \notin Known
  /\ \E kept \in {queue, << >>} :
       /\ Remaining(kept)
       /\ Len(kept) < Capacity
       /\ queue' = Append(kept, e)
  /\ UNCHANGED << open, delivered >>

Deliver ==
  /\ open
  /\ \E kept \in {queue, << >>} :
       /\ Remaining(kept)
       /\ delivered' = delivered \cup Ids(kept)
  /\ queue' = << >>
  /\ UNCHANGED open

Look ==
  /\ open
  /\ \E kept \in {queue, << >>} : Remaining(kept) /\ queue' = kept
  /\ UNCHANGED << open, delivered >>

Expire ==
  /\ open
  /\ open' = FALSE
  /\ queue' = << >>
  /\ expired' = expired \cup Ids(queue)
  /\ UNCHANGED delivered

Next ==
  \/ Create
  \/ \E e \in Entries : Accept(e)
  \/ Deliver
  \/ Look
  \/ Expire

Spec == Init /\ [][Next]_vars

=============================================================================
