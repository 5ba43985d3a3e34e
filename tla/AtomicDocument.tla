--------------------------- MODULE AtomicDocument ---------------------------
(***************************************************************************)
(* What src/lib/json-store.js promises of one document: updates take       *)
(* effect one at a time, as a whole or not at all, and for good.  A        *)
(* document is the set of the updates that made it.                        *)
(***************************************************************************)
CONSTANTS Updates, Readers

VARIABLES
    doc,        \* the document
    answer,     \* answer[u]: what the caller of update u was answered
    seen        \* seen[r]: the document reader r was given last

vars == <<doc, answer, seen>>

Init ==
    /\ doc = {}
    /\ answer = [u \in Updates |-> "none"]
    /\ seen = [r \in Readers |-> {}]

\* An update takes effect; its caller may never hear of it.
Apply(u) ==
    /\ answer[u] = "none"
    /\ u \notin doc
    /\ doc' = doc \cup {u}
    /\ answer' \in {answer, [answer EXCEPT ![u] = "done"]}
    /\ UNCHANGED seen

\* One that is refused never takes effect.
Refuse(u) ==
    /\ answer[u] = "none"
    /\ u \notin doc
    /\ answer' = [answer EXCEPT ![u] = "failed"]
    /\ UNCHANGED <<doc, seen>>

Read(r) ==
    /\ seen' = [seen EXCEPT ![r] = doc]
    /\ UNCHANGED <<doc, answer>>

Next ==
    \/ \E u \in Updates : Apply(u) \/ Refuse(u)
    \/ \E r \in Readers : Read(r)

Spec == Init /\ [][Next]_vars
=============================================================================
