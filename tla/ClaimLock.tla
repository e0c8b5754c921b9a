------------------------------ MODULE ClaimLock ------------------------------
(***************************************************************************)
(* What the claim of a task promises, free of statements and locals: one   *)
(* lock per task.  A claim is let in while the task is not locked and      *)
(* takes effect, or comes to nothing, later; of several claims let in the  *)
(* last to take effect has the task.  Nothing but a claim that was let in, *)
(* a placement, a drop, a status set by hand or a departure moves a lock.  *)
(***************************************************************************)
CONSTANTS Tasks, Members, Requests, None

VARIABLES
    state,    \* "absent", "free", "dropped" or "locked"
    holder,   \* the member the task is with, or None
    admitted  \* the claims let in: <<request, task, member>>

Init ==
    /\ state = [t \in Tasks |-> "absent"]
    /\ holder = [t \in Tasks |-> None]
    /\ admitted = {}

Set(t, s, m) ==
    /\ state' = [state EXCEPT ![t] = s]
    /\ holder' = [holder EXCEPT ![t] = m]

Create(t) == state[t] = "absent" /\ Set(t, "free", None)
Place(t, m) == state[t] # "absent" /\ Set(t, "free", m)
Drop(t) == state[t] # "absent" /\ Set(t, "dropped", None)

\* A status set by hand keeps the holder.
Mark(t) ==
    /\ state[t] # "absent"
    /\ \E s \in {"free", "dropped", "locked"} : Set(t, s, holder[t])

\* A member who leaves the household leaves every task.
Forget(m) ==
    /\ holder' = [t \in Tasks |-> IF holder[t] = m THEN None ELSE holder[t]]
    /\ UNCHANGED state

Admit(r, t, m) ==
    /\ \A c \in admitted : c[1] # r
    /\ state[t] \in {"free", "dropped"}
    /\ admitted' = admitted \cup {<<r, t, m>>}
    /\ UNCHANGED <<state, holder>>

Claim(c) == Set(c[2], "locked", c[3]) /\ admitted' = admitted \ {c}
Withdraw(c) == admitted' = admitted \ {c} /\ UNCHANGED <<state, holder>>

Next ==
    \/ /\ \/ \E t \in Tasks : Create(t) \/ Drop(t) \/ Mark(t)
          \/ \E t \in Tasks, m \in Members : Place(t, m)
          \/ \E m \in Members : Forget(m)
       /\ UNCHANGED admitted
    \/ \E r \in Requests, t \in Tasks, m \in Members : Admit(r, t, m)
    \/ \E c \in admitted : Claim(c) \/ Withdraw(c)

Spec == Init /\ [][Next]_<<state, holder, admitted>>
=============================================================================
