---------------------------- MODULE MCFileTools ----------------------------
(* Instances of FileTools for TLC: two files and the calls that meet there. *)
EXTENDS FileTools

CONSTANTS a, b

One(tool, kind, file, to) ==
    [tool |-> tool, ops |-> <<[kind |-> kind, file |-> file, to |-> to]>>]
Both(tool) ==
    [tool |-> tool, ops |-> <<[kind |-> "replace", file |-> a, to |-> a],
                              [kind |-> "replace", file |-> b, to |-> b]>>]

EditPlans == {One("edit", kind, a, a) : kind \in {"replace", "create"}}
PatchPlans == {One("patch", "delete", a, a), One("patch", "create", a, a),
               One("patch", "move", a, b), Both("patch")}
AllPlans == EditPlans \cup PatchPlans \cup {One("write", "create", a, a), Both("multiedit")}
=============================================================================
