--------------------------- MODULE LinkRefinement ---------------------------
(* Clients, queue set and runner implement the abstract link: a request      *)
(* arrives when finish_push appends it, its result is the answer the runner  *)
(* sends, and the service is up until close_runner or the loss of the task.  *)
EXTENDS LinkRunner

Service == INSTANCE LinkService
             WITH arrival <- ticket, result <- answer,
                  up <- ~runner_closed /\ rpc # "gone"

(* Through pops, coalescing, requeue after a failed exchange, cancellation,  *)
(* deadline, sweep and abort, the link does only what LinkService allows:    *)
(* every request gets at most one result, in the order of its queue, and     *)
(* none is served once the link is down.                                     *)
ImplementsService == Service!ServiceSpec
=============================================================================
