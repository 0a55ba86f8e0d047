----------------------------- MODULE PtyStream -----------------------------
(***************************************************************************)
(* What a terminal promises to whoever is connected to it.  The bytes the  *)
(* terminal made are numbered from 1.  A client is shown runs of           *)
(* consecutive bytes: first a replay, then live output.  Bytes may be left *)
(* out between two runs, but a run never goes back and never shows what    *)
(* was not made, with one exception: the first live run may be the last    *)
(* chunk of the replay once more.                                          *)
(***************************************************************************)
EXTENDS Naturals

CONSTANT Clients

VARIABLES
    made,   \* how many bytes the terminal has made
    run,    \* of each client: the last run it was shown: the bytes after
            \*   run.from up to run.upto
    stage   \* of each client: "none", "replay" or "live", what that run was

vars == <<made, run, stage>>

Runs == {r \in [from : 0 .. made, upto : 0 .. made] : r.from <= r.upto}

Init ==
    /\ made = 0
    /\ run = [c \in Clients |-> [from |-> 0, upto |-> 0]]
    /\ stage = [c \in Clients |-> "none"]

Make == made' \in Nat /\ made < made' /\ UNCHANGED <<run, stage>>

Show(c, r, kind) ==
    /\ run' = [run EXCEPT ![c] = r]
    /\ stage' = [stage EXCEPT ![c] = kind]
    /\ UNCHANGED made

Replay(c) == stage[c] = "none" /\ \E r \in Runs : Show(c, r, "replay")

GoOn(c) ==
    /\ stage[c] # "none"
    /\ \E r \in Runs : run[c].upto <= r.from /\ Show(c, r, "live")

RepeatTheEnd(c) ==
    /\ stage[c] = "replay"
    /\ \E r \in Runs : r.upto = run[c].upto /\ Show(c, r, "live")

Next == Make \/ \E c \in Clients : Replay(c) \/ GoOn(c) \/ RepeatTheEnd(c)

Spec == Init /\ [][Next]_vars
=============================================================================
