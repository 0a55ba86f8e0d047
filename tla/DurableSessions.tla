-------------------------- MODULE DurableSessions --------------------------
(***************************************************************************)
(* What saving promises to a user of the server who makes one request at a *)
(* time.  A save that ends is the truth: the server finds exactly that     *)
(* table when it starts again.  Until then each session is found as it was *)
(* at some moment since the last save that ended, but for the sessions at  *)
(* which a save broke off: of those a part of the messages may be gone.    *)
(***************************************************************************)
EXTENDS FiniteSets

CONSTANTS Sessions, Msgs, Gone

VARIABLES
    mem,        \* the messages of each session, or Gone
    kept,       \* what each session held since the last save that ended
    damaged     \* the sessions at which a save broke off since then

vars == <<mem, kept, damaged>>

States == {Gone} \cup SUBSET Msgs

Init ==
    /\ mem = [s \in Sessions |-> Gone]
    /\ kept = [s \in Sessions |-> {Gone}]
    /\ damaged = {}

\* A request changes one session, or deletes one with its children.
Request ==
    /\ \/ \E s \in Sessions, state \in States : mem' = [mem EXCEPT ![s] = state]
       \/ \E tree \in SUBSET Sessions :
             mem' = [s \in Sessions |-> IF s \in tree THEN Gone ELSE mem[s]]
    /\ kept' = [s \in Sessions |-> kept[s] \cup {mem'[s]}]
    /\ UNCHANGED damaged

\* A save ends.
Saved ==
    /\ kept' = [s \in Sessions |-> {mem[s]}]
    /\ damaged' = {}
    /\ UNCHANGED mem

\* A save breaks off.
BrokenOff ==
    /\ \E s \in Sessions : damaged' = damaged \cup {s}
    /\ UNCHANGED <<mem, kept>>

\* The server dies, perhaps while it saves one session more, and starts again
\* from what it finds.  Damage is loss, never invention, and never takes the
\* session itself.
Restart ==
    \E found \in [Sessions -> States], last \in Sessions :
        /\ \A s \in Sessions :
              \/ found[s] \in kept[s]
              \/ /\ s \in damaged \cup {last}
                 /\ found[s] # Gone
                 /\ \E whole \in kept[s] \ {Gone} : found[s] \subseteq whole
        /\ mem' = found
        /\ kept' = [s \in Sessions |-> {found[s]}]
        /\ damaged' = {}

Next == Request \/ Saved \/ BrokenOff \/ Restart

Spec == Init /\ [][Next]_vars
=============================================================================
