---------------------------- MODULE AgentRequests ----------------------------
(***************************************************************************)
(* What a request to the desktop app promises to the tool that makes it,   *)
(* without sockets, frames or timers: it is settled once, with an answer   *)
(* only if the desktop did the work.  A request that failed promises       *)
(* nothing: the desktop may never have seen it, may have done the work, or *)
(* may do it later.                                                        *)
(*                                                                         *)
(* AgentHub is shown to implement this module; WorkspaceFiles and          *)
(* VerificationGate are built on it.                                       *)
(***************************************************************************)
CONSTANT Requests   \* each is made once

VARIABLE rpc    \* rpc[r]: what the backend and the desktop know of request r

Waiters == {"none", "waiting", "answered", "failed"}
Works == {"none", "sent", "done"}

RpcTypeOK == rpc \in [Requests -> [waiter : Waiters, work : Works]]

Unasked == [waiter |-> "none", work |-> "none"]
Asked == [waiter |-> "waiting", work |-> "sent"]
Refused == [waiter |-> "failed", work |-> "none"]   \* the socket was not open

Answerable(q) == q.waiter = "waiting" /\ q.work = "done"

Performed(q) == [q EXCEPT !.work = "done"]
Answered(q) == [q EXCEPT !.waiter = "answered"]
Failed(q) == [q EXCEPT !.waiter = "failed"]

\* The desktop does the work whether or not anybody waits for it still, and the
\* backend gives up whether or not it was done.
Moves(q, next) ==
    \/ next = q
    \/ q = Unasked /\ next \in {Asked, Refused}
    \/ q.work = "sent" /\ next = Performed(q)
    \/ Answerable(q) /\ next = Answered(q)
    \/ q.waiter = "waiting" /\ next = Failed(q)

RpcInit == rpc = [r \in Requests |-> Unasked]

\* One step of the program may settle several requests and make another.
RpcNext ==
    /\ rpc' \in [Requests -> [waiter : Waiters, work : Works]]
    /\ \A r \in Requests : Moves(rpc[r], rpc'[r])

RpcSpec == RpcInit /\ [][RpcNext]_rpc
=============================================================================
