-------------------------- MODULE CredentialStore --------------------------
(***************************************************************************)
(* What the local credential store promises to the processes that share   *)
(* it: every operation takes effect at one moment between its call and     *)
(* its return, or not at all; nothing changes while the store is locked,   *)
(* and only a store that exists is locked or unlocked.                     *)
(***************************************************************************)
CONSTANTS Procs,
          Ops,             \* operations: what kind of step, and a change
          Change(_, _),    \* the content after an operation that changes it
          NoContent,       \* before the first use
          NoOp

VARIABLES content,   \* what the store holds
          frozen,    \* the store is locked
          asked,     \* the operation a process called, NoOp when there is none
          took       \* its operation took effect

vars == <<content, frozen, asked, took>>

Init == /\ content = NoContent
        /\ frozen = FALSE
        /\ asked = [p \in Procs |-> NoOp]
        /\ took = [p \in Procs |-> FALSE]

Call(p) ==
    /\ asked[p] = NoOp
    /\ asked'[p] \in Ops
    /\ asked' = [asked EXCEPT ![p] = asked'[p]]
    /\ UNCHANGED <<content, frozen, took>>

\* The one moment at which an operation takes effect.
Effect(p) ==
    /\ asked[p] # NoOp /\ ~took[p]
    /\ took' = [took EXCEPT ![p] = TRUE]
    /\ \/ /\ asked[p].kind \in {"lock", "unlock"} /\ content # NoContent
          /\ frozen' = (asked[p].kind = "lock")
          /\ UNCHANGED content
       \/ /\ asked[p].kind \notin {"lock", "unlock"} /\ ~frozen
          /\ content' = Change(asked[p], content)
          /\ UNCHANGED frozen
    /\ UNCHANGED asked

\* It returns, refuses, or its process dies: with its effect or without.
Return(p) ==
    /\ asked[p] # NoOp
    /\ asked' = [asked EXCEPT ![p] = NoOp]
    /\ took' = [took EXCEPT ![p] = FALSE]
    /\ UNCHANGED <<content, frozen>>

Next == \E p \in Procs : Call(p) \/ Effect(p) \/ Return(p)

Spec == Init /\ [][Next]_vars
=============================================================================
