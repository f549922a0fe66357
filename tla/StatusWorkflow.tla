--------------------------- MODULE StatusWorkflow ---------------------------
(***************************************************************************)
(* What every reviewed document of the platform promises: it comes to be   *)
(* in one status and moves only along the edges of its workflow, so that   *)
(* a status without an edge out of it is for ever.                         *)
(***************************************************************************)
CONSTANTS
    Items,      \* the documents
    Start,      \* the status of a new one
    Edges       \* the pairs <<from, to>> the workflow allows

Absent == "NONE"

VARIABLE status

Create(i) ==
    /\ status[i] = Absent
    /\ status' = [status EXCEPT ![i] = Start]

Move(i) ==
    \E e \in Edges :
        /\ status[i] = e[1]
        /\ status' = [status EXCEPT ![i] = e[2]]

Init == status = [i \in Items |-> Absent]
Next == \E i \in Items : Create(i) \/ Move(i)
Spec == Init /\ [][Next]_status

\* The same where one step may take several documents along, as a sweep does.
Together ==
    /\ DOMAIN status' = Items
    /\ \A i \in Items :
         \/ status'[i] = status[i]
         \/ status[i] = Absent /\ status'[i] = Start
         \/ <<status[i], status'[i]>> \in Edges
TogetherSpec == Init /\ [][Together]_status

Terminal(s) == s # Absent /\ \A e \in Edges : e[1] # s

\* What a workflow is for: a document in a terminal status stays in it.
TerminalPermanent ==
    [][\A i \in Items : Terminal(status[i]) => status'[i] = status[i]]_status

=============================================================================
