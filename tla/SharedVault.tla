----------------------------- MODULE SharedVault -----------------------------
(***************************************************************************)
(* What synchronization promises to the devices that share a vault: there  *)
(* is one sequence of vaults; each is an edit of the console on the vault   *)
(* before it, or the draft of a device merged with that vault, and a draft *)
(* is committed once.  A device moves forward along the sequence, and has  *)
(* its draft replaced by a committed vault only when there is nothing in   *)
(* it to commit or when that vault is the draft.                           *)
(***************************************************************************)
EXTENDS Naturals, Sequences

CONSTANTS Devices,
          Data,           \* vaults
          FirstVaults,    \* what the vault may hold at the start
          Merge(_, _, _), \* of the base, the draft and a committed vault
          Console(_)      \* the vaults that the console makes of one

VARIABLES log,     \* the committed vaults
          base,    \* base[d]: the committed vault that device d starts from
          draft,   \* draft[d]: the vault as device d shows it
          dirty,   \* dirty[d]: there is work in it that d has not seen committed
          merged   \* merged[d]: the committed vault it was merged with, or 0

vars == <<log, base, draft, dirty, merged>>

Init ==
    \E data \in FirstVaults :
        /\ log = <<data>>
        /\ base = [d \in Devices |-> 1]
        /\ draft = [d \in Devices |-> data]
        /\ dirty = [d \in Devices |-> FALSE]
        /\ merged = [d \in Devices |-> 0]

Edit(d) ==
    /\ dirty' = [dirty EXCEPT ![d] = TRUE]
    /\ merged[d] = 0
    /\ draft'[d] \in Data
    /\ draft' = [draft EXCEPT ![d] = draft'[d]]
    /\ UNCHANGED <<log, base, merged>>

\* A draft that is behind, or was not merged yet, is merged again.
Rebase(d) ==
    /\ dirty[d]
    /\ \E n \in base[d]..Len(log) :
          /\ merged[d] # 0 => merged[d] < n
          /\ merged' = [merged EXCEPT ![d] = n]
          /\ draft' = [draft EXCEPT ![d] = Merge(log[base[d]], draft[d], log[n])]
    /\ UNCHANGED <<log, base, dirty>>

Commit(d) ==
    /\ dirty[d] /\ merged[d] = Len(log)
    /\ log' = Append(log, draft[d])
    /\ UNCHANGED <<base, draft, dirty, merged>>

\* Unsent work gives way to its own commit only.
Adopt(d) ==
    \E n \in base[d]..Len(log) :
        /\ dirty[d] => merged[d] # 0 /\ n = merged[d] + 1 /\ log[n] = draft[d]
        /\ base' = [base EXCEPT ![d] = n]
        /\ draft' = [draft EXCEPT ![d] = log[n]]
        /\ dirty' = [dirty EXCEPT ![d] = FALSE]
        /\ merged' = [merged EXCEPT ![d] = 0]
        /\ UNCHANGED log

ConsoleEdit ==
    /\ \E data \in Console(log[Len(log)]) : log' = Append(log, data)
    /\ UNCHANGED <<base, draft, dirty, merged>>

Next == (\E d \in Devices : Edit(d) \/ Rebase(d) \/ Commit(d) \/ Adopt(d)) \/ ConsoleEdit

Spec == Init /\ [][Next]_vars
=============================================================================
