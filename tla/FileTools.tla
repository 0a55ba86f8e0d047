----------------------------- MODULE FileTools -----------------------------
(***************************************************************************)
(* The tools of kfcode-tool that change files: edit, write, multiedit and  *)
(* apply_patch, called concurrently (by the batch tool, or by the runs of  *)
(* several sessions).  edit works under a lock per file (with_file_lock);  *)
(* the others take none.  fs::write truncates the file first, so it is two *)
(* steps, and a call may fail or be refused between any two of its steps.  *)
(*                                                                         *)
(* What a file holds is abstracted to the calls whose text is in it, and   *)
(* Old, the text it had before.                                            *)
(***************************************************************************)
EXTENDS Naturals, Sequences

CONSTANTS
    Files,      \* paths
    Calls,      \* tool calls
    NoCall,     \* no call
    Old,        \* the text that was there before
    Missing,    \* the content of a file that is not there
    Plans       \* the arguments a call may have: [tool, ops]

Tools == {"edit", "write", "multiedit", "patch"}
Kinds == {"replace", "create", "delete", "move"}
Ops == [kind : Kinds, file : Files, to : Files]

ASSUME NamesAssumption ==
    /\ NoCall \notin Calls /\ Old \notin Calls
    /\ \A texts \in SUBSET (Calls \cup {Old}) : Missing # texts
\* edit and write are about one file, which they change or make.
ASSUME PlansAssumption ==
    \A p \in Plans :
        /\ p.tool \in Tools /\ p.ops \in Seq(Ops) \ {<<>>}
        /\ p.tool \in {"edit", "write"} => Len(p.ops) = 1 /\ p.ops[1].kind \in {"replace", "create"}

VARIABLES
    content,    \* the texts each file holds, or Missing
    lock,       \* FILE_LOCKS: the call that holds the lock of each file
    pc,         \* of each call: where it is
    plan,       \* of each call: its arguments
    at,         \* of each call: the operation of its plan it is at
    read,       \* of each call: what it read, for each operation
    outcome,    \* of each call: how it returned
    wrote,      \* ghost: <<call, file>>, the files a call changed
    after       \* ghost: of each call, what happened to its files later

vars == <<content, lock, pc, plan, at, read, outcome, wrote, after>>

PC == {"idle", "lock", "read", "ask", "write", "fill", "remove", "returned"}
Contents == {Missing} \cup SUBSET (Calls \cup {Old})

Init ==
    /\ content \in [Files -> {Missing, {Old}}]
    /\ lock = [f \in Files |-> NoCall]
    /\ pc = [c \in Calls |-> "idle"]
    /\ plan \in [Calls -> Plans]
    /\ at = [c \in Calls |-> 1]
    /\ read = [c \in Calls |-> <<>>]
    /\ outcome = [c \in Calls |-> "none"]
    /\ wrote = {}
    /\ after = [c \in Calls |-> {}]

Op(c) == plan[c].ops[at[c]]
IsLastOp(c) == at[c] = Len(plan[c].ops)
Uses(c, tool) == plan[c].tool = tool
Goto(c, label) == pc' = [pc EXCEPT ![c] = label]

\* The file an operation writes: the target of a move, else its own.
Target(op) == IF op.kind = "move" THEN op.to ELSE op.file

\* (mutant) a guard that outlives a call that fails.
ReturnKeepsLock(c, how) ==
    /\ Goto(c, "returned")
    /\ outcome' = [outcome EXCEPT ![c] = how]
    /\ lock' = [f \in Files |-> IF lock[f] = c /\ how = "ok" THEN NoCall ELSE lock[f]]

\* The call returns; the guard of its lock is dropped, whatever the outcome.
Return(c, how) ==
    /\ Goto(c, "returned")
    /\ outcome' = [outcome EXCEPT ![c] = how]
    /\ lock' = [f \in Files |-> IF lock[f] = c THEN NoCall ELSE lock[f]]

GoOn(c, label) == Goto(c, label) /\ UNCHANGED <<outcome, lock>>

\* Ghost: what c did to f, noted for the calls that changed f before.
Note(c, f, what) ==
    after' = [d \in Calls |-> IF d # c /\ <<d, f>> \in wrote
                              THEN after[d] \cup {what} ELSE after[d]]
Manner(c) == IF Op(c).kind = "create" THEN "create" ELSE plan[c].tool

-----------------------------------------------------------------------------
Begin(c) ==
    /\ pc[c] = "idle"
    /\ Goto(c, IF Uses(c, "edit") THEN "lock" ELSE "read")
    /\ UNCHANGED <<content, lock, plan, at, read, outcome, wrote, after>>

\* (mutant) a mutex of the call's own: nobody waits.
LockOwn(c) ==
    /\ pc[c] = "lock"
    /\ Goto(c, "read")
    /\ UNCHANGED <<content, lock, plan, at, read, outcome, wrote, after>>

\* with_file_lock: one mutex per path, made on demand.
Lock(c) ==
    /\ pc[c] = "lock"
    /\ lock[Op(c).file] = NoCall
    /\ lock' = [lock EXCEPT ![Op(c).file] = c]
    /\ Goto(c, "read")
    /\ UNCHANGED <<content, plan, at, read, outcome, wrote, after>>

\* A path outside the project is asked about first: by edit before it takes the
\* lock, by apply_patch before each file it reads, by multiedit never.
ExternalRefused(c) ==
    /\ pc[c] = (IF Uses(c, "edit") THEN "lock" ELSE "read")
    /\ ~Uses(c, "multiedit")
    /\ Return(c, "refused")
    /\ UNCHANGED <<content, plan, at, read, wrote, after>>

\* edit reads the file even to replace all of it; write takes a missing file
\* for an empty one; apply_patch does not look at a file it adds.
NeedsFile(c) == Uses(c, "edit") \/ Op(c).kind # "create"

\* The file is missing, or has not the text to replace.  Nothing ever fails to
\* match in apply_patch: apply_hunks compares no line.
ReadFails(c) ==
    /\ pc[c] = "read"
    /\ \/ NeedsFile(c) /\ content[Op(c).file] = Missing
       \/ Op(c).kind = "replace" /\ ~Uses(c, "patch")
    /\ Return(c, "noMatch")
    /\ UNCHANGED <<content, plan, at, read, wrote, after>>

\* apply_patch reads every file before it asks; multiedit never asks.
Read(c) ==
    /\ pc[c] = "read"
    /\ NeedsFile(c) => content[Op(c).file] # Missing
    /\ read' = [read EXCEPT ![c] = Append(@, content[Op(c).file])]
    /\ IF Uses(c, "patch") /\ ~IsLastOp(c)
       THEN GoOn(c, "read") /\ at' = [at EXCEPT ![c] = @ + 1]
       ELSE /\ GoOn(c, IF Uses(c, "multiedit") THEN "write" ELSE "ask")
            /\ at' = IF Uses(c, "patch") THEN [at EXCEPT ![c] = 1] ELSE at
    /\ UNCHANGED <<content, plan, wrote, after>>

\* ask_permission and the file-time assertion: yes or no.
Ask(c) ==
    /\ pc[c] = "ask"
    /\ GoOn(c, "write") \/ Return(c, "refused")
    /\ UNCHANGED <<content, plan, at, read, wrote, after>>

\* (mutant) a move takes the old file away before it writes the new one.
TruncateAndRemove(c) ==
    /\ pc[c] = "write"
    /\ Op(c).kind # "delete"
    /\ GoOn(c, "fill")
    /\ content' = [content EXCEPT ![Op(c).file] = Missing, ![Target(Op(c))] = {}]
    /\ Note(c, Target(Op(c)), Manner(c))
    /\ UNCHANGED <<plan, at, read, wrote>>

\* fs::write, first half.
Truncate(c) ==
    /\ pc[c] = "write"
    /\ Op(c).kind # "delete"
    /\ GoOn(c, "fill")
    /\ content' = [content EXCEPT ![Target(Op(c))] = {}]
    /\ Note(c, Target(Op(c)), Manner(c))
    /\ UNCHANGED <<plan, at, read, wrote>>

\* fs::write fails, before or after it has truncated the file.
WriteFails(c) ==
    /\ pc[c] \in {"write", "fill"}
    /\ Return(c, "failed")
    /\ Note(c, Target(Op(c)), "broken")
    /\ UNCHANGED <<content, plan, at, read, wrote>>

\* (mutant) apply_patch asks before each file it writes.
NextOpAsks(c) ==
    IF IsLastOp(c)
    THEN Return(c, "ok") /\ UNCHANGED at
    ELSE /\ at' = [at EXCEPT ![c] = @ + 1]
         /\ GoOn(c, IF Uses(c, "multiedit") THEN "read" ELSE "ask")

\* On to the next operation; after the last one the call returns.
NextOp(c) ==
    IF IsLastOp(c)
    THEN Return(c, "ok") /\ UNCHANGED at
    ELSE /\ at' = [at EXCEPT ![c] = @ + 1]
         /\ GoOn(c, IF Uses(c, "multiedit") THEN "read" ELSE "write")

\* After a write come do_lsp_touch_file and do_file_time_read, which may fail
\* the call: after each file in multiedit, after the last one elsewhere.
Wrote(c) ==
    \/ NextOp(c)
    \/ /\ IsLastOp(c) \/ Uses(c, "multiedit")
       /\ Return(c, "failed") /\ UNCHANGED at

\* What the call writes: its own text, and around it what it read.
NewContent(c) ==
    IF Op(c).kind = "create" THEN {c}
    ELSE {c} \cup read[c][at[c]]

\* fs::write, second half.
Fill(c) ==
    /\ pc[c] = "fill"
    /\ content' = [content EXCEPT ![Target(Op(c))] = NewContent(c)]
    /\ wrote' = wrote \cup {<<c, Target(Op(c))>>}
    /\ Note(c, Target(Op(c)), Manner(c))
    /\ IF Op(c).kind = "move" THEN GoOn(c, "remove") /\ UNCHANGED at ELSE Wrote(c)
    /\ UNCHANGED <<plan, read>>

\* fs::remove_file, of a file to delete or of the source of a move.
Remove(c) ==
    /\ pc[c] = "remove" \/ (pc[c] = "write" /\ Op(c).kind = "delete")
    /\ LET f == Op(c).file IN
       IF content[f] = Missing
       THEN Return(c, "failed") /\ UNCHANGED <<content, at, wrote, after>>
       ELSE /\ content' = [content EXCEPT ![f] = Missing]
            /\ wrote' = wrote \cup {<<c, f>>}
            /\ Note(c, f, "patch")
            /\ Wrote(c)
    /\ UNCHANGED <<plan, read>>

\* multiedit: replace_all of a text that does not occur writes nothing.
Skip(c) ==
    /\ pc[c] = "write"
    /\ Uses(c, "multiedit")
    /\ NextOp(c)
    /\ UNCHANGED <<content, plan, read, wrote, after>>

Step(c) ==
    \/ Lock(c) \/ ReadFails(c) \/ Read(c) \/ Ask(c) \/ Truncate(c)
    \/ WriteFails(c) \/ Fill(c) \/ Remove(c) \/ Skip(c)

Next == \E c \in Calls : Begin(c) \/ ExternalRefused(c) \/ Step(c)

Spec == Init /\ [][Next]_vars

\* Tasks are polled, tokio's mutexes are fair, and the user answers.
Fairness == \A c \in Calls : SF_vars(Step(c))
FairSpec == Spec /\ Fairness

-----------------------------------------------------------------------------
TypeOK ==
    /\ content \in [Files -> Contents]
    /\ lock \in [Files -> Calls \cup {NoCall}]
    /\ pc \in [Calls -> PC]
    /\ plan \in [Calls -> Plans]
    /\ at \in [Calls -> Nat] /\ \A c \in Calls : at[c] \in 1..Len(plan[c].ops)
    /\ read \in [Calls -> Seq(Contents)]
    /\ outcome \in [Calls -> {"none", "ok", "noMatch", "refused", "failed"}]
    /\ wrote \subseteq Calls \X Files
    /\ after \in [Calls -> SUBSET (Tools \cup {"create", "broken"})]

\* An edit never takes another edit away by writing what it read before (the
\* text it replaces on purpose aside), however many run at once: what an edit
\* wrote is in its file (once nobody is in the middle of writing it),
\* unless a tool without a lock, a replacement of the whole file or a broken
\* write came after it.
EditsSurviveEdits ==
    \A c \in Calls, f \in Files :
        /\ Uses(c, "edit")
        /\ <<c, f>> \in wrote
        /\ \A d \in Calls : ~(pc[d] = "fill" /\ Target(Op(d)) = f)
        /\ after[c] \subseteq {"edit"}
        => content[f] # Missing /\ c \in content[f]

Untouched(c) == \A f \in Files : <<c, f>> \notin wrote

\* The files of the operations that a call has behind it.
Behind(c) ==
    {f \in Files : \E i \in 1..(at[c] - 1) : f \in {plan[c].ops[i].file, Target(plan[c].ops[i])}}

\* A call that was refused, or whose text did not match, has changed no file,
\* also when it was to change several.  multiedit, which writes one file before
\* it reads the next, has changed none but those of the edits before the one
\* that did not match.
RefusedChangesNothing ==
    \A c \in Calls :
        outcome[c] \in {"refused", "noMatch"} =>
            \A f \in Files : <<c, f>> \in wrote => Uses(c, "multiedit") /\ f \in Behind(c)

Has(f, texts) == content[f] # Missing /\ texts \subseteq content[f]

\* Wherever a move is broken off, its text is in the old file or in the new
\* one, if no other call was there and it does not move a file onto itself.
MoveNeverLoses ==
    \A c \in Calls :
        /\ \A d \in Calls \ {c} : pc[d] = "idle"
        /\ Len(plan[c].ops) = 1 /\ Op(c).kind = "move" /\ Op(c).to # Op(c).file
        /\ read[c] # <<>>
        => Has(Op(c).file, read[c][1]) \/ Has(Op(c).to, read[c][1])

\* Every call returns: no lock is left behind by one that failed.
CallsReturn == \A c \in Calls : pc[c] # "idle" ~> pc[c] = "returned"
=============================================================================
