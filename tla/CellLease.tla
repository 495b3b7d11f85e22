----------------------------- MODULE CellLease -----------------------------
(***************************************************************************)
(* What the claim files of grid/driver.py promise to the drivers of one    *)
(* arm.  A cell has at most one owner; only an owned cell is launched, and *)
(* only when it is not finished and nothing of it still runs; an owner     *)
(* gives a cell up only when nothing of it runs any more.  How owners are  *)
(* elected, how they die and how long a claim lasts is not said here:      *)
(* GridDriver does, and implements this specification as long as no driver *)
(* is killed, stalls or raises.                                            *)
(***************************************************************************)
CONSTANTS Drivers, Cells, None

VARIABLES
    owner,      \* the driver holding each cell's claim, or None
    busy,       \* the cells with a live process
    done        \* the cells with an ok manifest

vars == <<owner, busy, done>>

Init ==
    /\ owner = [c \in Cells |-> None]
    /\ busy = {}
    /\ done \in SUBSET Cells

Acquire(d, c) ==
    /\ owner[c] = None
    /\ owner' = [owner EXCEPT ![c] = d]
    /\ UNCHANGED <<busy, done>>

\* Only the owner of an unfinished cell starts it.
Launch(c) ==
    /\ owner[c] # None
    /\ c \notin busy \cup done
    /\ busy' = busy \cup {c}
    /\ UNCHANGED <<owner, done>>

Finish(c) ==
    /\ c \in busy
    /\ done' = done \cup {c}
    /\ UNCHANGED <<owner, busy>>

End(c) ==
    /\ c \in busy
    /\ busy' = busy \ {c}
    /\ UNCHANGED <<owner, done>>

\* A claim is dropped only after the cell's process is gone.
Release(c) ==
    /\ owner[c] # None
    /\ c \notin busy
    /\ owner' = [owner EXCEPT ![c] = None]
    /\ UNCHANGED <<busy, done>>

Next ==
    \E c \in Cells :
        \/ \E d \in Drivers : Acquire(d, c)
        \/ Launch(c)
        \/ Finish(c)
        \/ End(c)
        \/ Release(c)

Spec == Init /\ [][Next]_vars
=============================================================================
