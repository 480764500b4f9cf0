------------------------------ MODULE Outcome ------------------------------
(***************************************************************************)
(* What the transaction layer promises to the code that issues requests:   *)
(* "The caller registers a callback function, which is called, when either *)
(* the result is received or a timeout occurs" (coap/transaction.c).       *)
(* A request is refused at once, or it is pending until it gets exactly    *)
(* one callback, unless its peer is removed before.                        *)
(***************************************************************************)
EXTENDS Naturals

CONSTANTS Requests, Peers

VARIABLES
    status,  \* status[r]
    owner,   \* owner[p]: the pending requests sent to p
    calls    \* calls[r]: number of callbacks

vars == <<status, owner, calls>>

Pending == {r \in Requests : status[r] = "pending"}

Init ==
    /\ status = [r \in Requests |-> "none"]
    /\ owner = [p \in Peers |-> {}]
    /\ calls = [r \in Requests |-> 0]

\* The requests of S get their callback, the one call each is entitled to.
Served(S) == calls' = [r \in Requests |-> IF r \in S THEN calls[r] + 1 ELSE calls[r]]

\* r is accepted; the packet that made the library issue it may also have
\* completed requests, in the worst case r itself.
Issue(r, p, S) ==
    /\ status[r] = "none"
    /\ S \subseteq Pending \cup {r}
    /\ Served(S)
    /\ status' = [q \in Requests |-> IF q \in S THEN "called"
                                     ELSE IF q = r THEN "pending" ELSE status[q]]
    /\ owner' = [q \in Peers |-> (IF q = p THEN owner[q] \cup {r} ELSE owner[q]) \ S]

Complete(S) ==
    /\ S \subseteq Pending
    /\ Served(S)
    /\ status' = [q \in Requests |-> IF q \in S THEN "called" ELSE status[q]]
    /\ owner' = [q \in Peers |-> owner[q] \ S]

\* The request is not accepted, and there is no callback: the caller is told.
Refuse(r) ==
    /\ status[r] = "none"
    /\ status' = [status EXCEPT ![r] = "dropped"]
    /\ UNCHANGED <<owner, calls>>

\* All that is pending at a peer goes, and nothing else, without callback.
RemovePeer(p) ==
    /\ status' = [q \in Requests |-> IF q \in owner[p] THEN "dropped" ELSE status[q]]
    /\ owner' = [owner EXCEPT ![p] = {}]
    /\ UNCHANGED calls

Next ==
    \/ \E r \in Requests, p \in Peers, S \in SUBSET Requests : Issue(r, p, S)
    \/ \E S \in SUBSET Requests : Complete(S)
    \/ \E r \in Requests : Refuse(r)
    \/ \E p \in Peers : RemovePeer(p)

Spec == Init /\ [][Next]_vars
============================================================================
