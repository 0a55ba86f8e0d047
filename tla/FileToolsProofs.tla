--------------------------- MODULE FileToolsProofs ---------------------------
(***************************************************************************)
(* FileTools for any files, calls and plans: the types, and its three      *)
(* promises about what calls do to one another's text.  Each follows from  *)
(* where a call is: what it has read by then (Reads), that an edit holds   *)
(* its file's lock (Locks), that nobody writes before the last question    *)
(* was asked (Quiet), that a multiedit has behind it what it wrote         *)
(* (Gradual), that what an edit read holds what earlier edits wrote        *)
(* (Lasting, Carried), and where the text of a move is (Moving).           *)
(***************************************************************************)
EXTENDS FileTools, TLAPS

Working == {"ask", "write", "fill", "remove"}

\* apply_patch reads all its files before it asks, the others one at a time.
Reads ==
    \A c \in Calls :
        /\ \A i \in 1..Len(read[c]) :
              plan[c].tool = "edit" \/ plan[c].ops[i].kind # "create" => read[c][i] # Missing
        /\ pc[c] \in {"idle", "lock"} => read[c] = <<>> /\ at[c] = 1
        /\ pc[c] = "read" => Len(read[c]) = at[c] - 1
        /\ pc[c] \in Working =>
              IF plan[c].tool = "patch" THEN Len(read[c]) = Len(plan[c].ops) ELSE Len(read[c]) = at[c]

Locks ==
    \A c \in Calls :
        Uses(c, "edit") /\ pc[c] \in {"read"} \cup Working =>
            lock[Op(c).file] = c /\ pc[c] # "remove"

Quiet ==
    \A c \in Calls :
        /\ pc[c] # "returned" => outcome[c] = "none"
        /\ ~Uses(c, "multiedit") /\ pc[c] \in {"idle", "lock", "read", "ask"} => Untouched(c)
        /\ Uses(c, "edit") /\ pc[c] # "returned" => Untouched(c)
        /\ ~Uses(c, "multiedit") /\ outcome[c] \in {"refused", "noMatch"} => Untouched(c)

\* What a multiedit wrote is behind it, but for the target of a move whose
\* source it is about to remove.
Gradual ==
    \A c \in Calls :
        Uses(c, "multiedit") /\ outcome[c] \notin {"ok", "failed"} =>
            \A f \in Files :
                <<c, f>> \in wrote => f \in Behind(c) \/ (pc[c] = "remove" /\ f = Target(Op(c)))

\* What an edit wrote and only edits followed.
Kept(c, f) == Uses(c, "edit") /\ <<c, f>> \in wrote /\ after[c] \subseteq {"edit"}

\* Tools without a lock may be in the middle of a write: they were noted.
Lasting ==
    \A c \in Calls, f \in Files :
        /\ Kept(c, f)
        /\ \A d \in Calls : ~(Uses(d, "edit") /\ pc[d] = "fill" /\ Op(d).file = f)
        => content[f] # Missing /\ c \in content[f]

Carried ==
    \A c \in Calls, d \in Calls :
        /\ Uses(d, "edit") /\ pc[d] \in Working /\ Op(d).kind # "create"
        /\ Kept(c, Op(d).file) /\ c # d
        => c \in read[d][1]

Alone(c) == \A d \in Calls \ {c} : pc[d] = "idle"
IsMove(c) == Len(plan[c].ops) = 1 /\ Op(c).kind = "move" /\ Op(c).to # Op(c).file

Moving ==
    \A c \in Calls :
        Alone(c) /\ IsMove(c) =>
            /\ pc[c] \in {"ask", "write", "fill"} => content[Op(c).file] = read[c][1]
            /\ pc[c] = "remove" => Has(Op(c).to, read[c][1])
            /\ pc[c] = "returned" /\ read[c] # <<>> =>
                  Has(Op(c).file, read[c][1]) \/ Has(Op(c).to, read[c][1])

IInv ==
    /\ TypeOK /\ Reads /\ Locks /\ Quiet /\ Gradual
    /\ Lasting /\ Carried /\ Moving

-----------------------------------------------------------------------------
\* An operation of a plan is one, and edit and write have a single one.
LEMMA Operation ==
  ASSUME TypeOK, NEW c \in Calls
  PROVE  /\ plan[c] \in Plans /\ plan[c].tool \in Tools /\ Len(plan[c].ops) \in Nat
         /\ Op(c) \in Ops /\ Op(c).kind \in Kinds /\ Op(c).file \in Files /\ Op(c).to \in Files
         /\ Target(Op(c)) \in Files
         /\ plan[c].tool \in {"edit", "write"} =>
               /\ at[c] = 1 /\ IsLastOp(c) /\ Target(Op(c)) = Op(c).file
               /\ Op(c).kind \in {"replace", "create"}
<1>1. plan[c] \in Plans /\ at[c] \in 1..Len(plan[c].ops)
  BY DEF TypeOK
<1>2. plan[c].tool \in Tools /\ plan[c].ops \in Seq(Ops)
  BY <1>1, PlansAssumption
<1>3. Op(c) \in Ops
  BY <1>1, <1>2 DEF Op
<1>4. Op(c).kind \in Kinds /\ Op(c).file \in Files /\ Op(c).to \in Files
  BY <1>3 DEF Ops
<1>5. plan[c].tool \in {"edit", "write"} =>
        Len(plan[c].ops) = 1 /\ plan[c].ops[1].kind \in {"replace", "create"}
  BY <1>1, PlansAssumption
<1>6. Target(Op(c)) \in Files
  BY <1>4 DEF Target
<1>7. Len(plan[c].ops) \in Nat
  BY <1>2
<1>8. ASSUME plan[c].tool \in {"edit", "write"}
      PROVE  /\ at[c] = 1 /\ IsLastOp(c) /\ Target(Op(c)) = Op(c).file
             /\ Op(c).kind \in {"replace", "create"}
  <2>1. Len(plan[c].ops) = 1 /\ plan[c].ops[1].kind \in {"replace", "create"}
    BY <1>5, <1>8
  <2>2. at[c] \in 1..1
    BY <1>1, <2>1
  <2>3. at[c] = 1
    BY <2>2
  <2> QED
    BY <2>1, <2>3 DEF IsLastOp, Target, Op
<1> QED
  BY <1>1, <1>2, <1>3, <1>4, <1>6, <1>7, <1>8

\* How a call goes on or returns.
LEMMA Going ==
  ASSUME TypeOK, NEW c \in Calls, NEW label \in PC, GoOn(c, label)
  PROVE  /\ pc' \in [Calls -> PC] /\ pc' = [pc EXCEPT ![c] = label]
         /\ lock' = lock /\ outcome' = outcome
BY DEF TypeOK, GoOn, Goto

Outcomes == {"none", "ok", "noMatch", "refused", "failed"}
LEMMA Returning ==
  ASSUME TypeOK, NEW c \in Calls, NEW how \in Outcomes, Return(c, how)
  PROVE  /\ pc' \in [Calls -> PC] /\ pc' = [pc EXCEPT ![c] = "returned"]
         /\ outcome' \in [Calls -> Outcomes] /\ outcome' = [outcome EXCEPT ![c] = how]
         /\ lock' \in [Files -> Calls \cup {NoCall}]
         /\ \A f \in Files : lock'[f] # lock[f] => lock[f] = c
BY DEF TypeOK, Return, Goto, PC, Outcomes

\* What is noted about a call stays noted, and is noted for all that wrote.
LEMMA Noting ==
  ASSUME TypeOK, NEW c \in Calls, NEW f \in Files, NEW what \in Tools \cup {"create", "broken"},
         Note(c, f, what)
  PROVE  /\ after' \in [Calls -> SUBSET (Tools \cup {"create", "broken"})]
         /\ \A d \in Calls : after[d] \subseteq after'[d]
         /\ \A d \in Calls \ {c} : <<d, f>> \in wrote => what \in after'[d]
BY DEF TypeOK, Note

\* A step of one call leaves the others where they are.
Others(c) ==
    /\ plan' = plan
    /\ \A d \in Calls \ {c} : pc'[d] = pc[d] /\ at'[d] = at[d] /\ read'[d] = read[d]
                                /\ outcome'[d] = outcome[d] /\ Op(d)' = Op(d)

Act(c) == Begin(c) \/ ExternalRefused(c) \/ Step(c)

LEMMA Frame == ASSUME TypeOK, NEW c \in Calls, Act(c) PROVE Others(c)
<1> USE DEF TypeOK, Others, Op
<1>1. CASE Begin(c)
  BY <1>1 DEF Begin, Return, GoOn, Goto, NextOp, Wrote
<1>2. CASE Lock(c)
  BY <1>2 DEF Lock, Return, GoOn, Goto, NextOp, Wrote
<1>3. CASE ExternalRefused(c)
  BY <1>3 DEF ExternalRefused, Return, GoOn, Goto, NextOp, Wrote
<1>4. CASE ReadFails(c)
  BY <1>4 DEF ReadFails, Return, GoOn, Goto, NextOp, Wrote
<1>5. CASE Read(c)
  BY <1>5 DEF Read, Return, GoOn, Goto, NextOp, Wrote
<1>6. CASE Ask(c)
  BY <1>6 DEF Ask, Return, GoOn, Goto, NextOp, Wrote
<1>7. CASE Truncate(c)
  BY <1>7 DEF Truncate, Return, GoOn, Goto, NextOp, Wrote
<1>8. CASE WriteFails(c)
  BY <1>8 DEF WriteFails, Return, GoOn, Goto, NextOp, Wrote
<1>9. CASE Fill(c)
  BY <1>9 DEF Fill, Return, GoOn, Goto, NextOp, Wrote
<1>10. CASE Remove(c)
  BY <1>10 DEF Remove, Return, GoOn, Goto, NextOp, Wrote
<1>11. CASE Skip(c)
  BY <1>11 DEF Skip, Return, GoOn, Goto, NextOp, Wrote
<1> QED
  BY <1>1, <1>2, <1>3, <1>4, <1>5, <1>6, <1>7, <1>8, <1>9, <1>10, <1>11 DEF Act, Step

\* After a write the call returns, or goes on with its next operation.
LEMMA Continuing ==
  ASSUME TypeOK, NEW c \in Calls, Wrote(c) \/ NextOp(c)
  PROVE  \/ \E how \in {"ok", "failed"} : Return(c, how) /\ at' = at
         \/ /\ plan[c].tool \notin {"edit", "write"}
            /\ at' = [at EXCEPT ![c] = at[c] + 1] /\ at[c] + 1 \in 1..Len(plan[c].ops)
            /\ GoOn(c, IF Uses(c, "multiedit") THEN "read" ELSE "write")
<1>1. at[c] \in 1..Len(plan[c].ops) /\ at[c] \in Nat /\ Len(plan[c].ops) \in Nat
  BY Operation DEF TypeOK
<1>2. plan[c].tool \in {"edit", "write"} => IsLastOp(c)
  BY Operation
<1>3. CASE IsLastOp(c)
  BY <1>3 DEF Wrote, NextOp
<1>4. CASE ~IsLastOp(c)
  <2>1. at[c] + 1 \in 1..Len(plan[c].ops)
    BY <1>1, <1>4 DEF IsLastOp
  <2>2. CASE NextOp(c)
    BY <1>2, <1>4, <2>1, <2>2 DEF NextOp
  <2>3. CASE ~NextOp(c)
    BY <2>3 DEF Wrote
  <2> QED
    BY <2>2, <2>3
<1> QED
  BY <1>3, <1>4

-----------------------------------------------------------------------------
\* What a call writes is text.
LEMMA Filling ==
  ASSUME TypeOK, Reads, NEW c \in Calls, pc[c] = "fill"
  PROVE  NewContent(c) \in SUBSET (Calls \cup {Old})
<1>1. at[c] \in 1..Len(plan[c].ops) /\ read[c] \in Seq(Contents)
  BY DEF TypeOK
<1>2. at[c] \in 1..Len(read[c])
  BY <1>1, Operation DEF Reads, Working
<1>3. Op(c).kind # "create" => read[c][at[c]] # Missing
  BY <1>2 DEF Reads, Op
<1>4. read[c][at[c]] \in Contents
  BY <1>1, <1>2
<1> QED
  BY <1>3, <1>4 DEF NewContent, Contents

\* The types.
LEMMA Typed == ASSUME TypeOK, Reads, NEW c \in Calls, Act(c) PROVE TypeOK'
<1>a. /\ plan[c].tool \in Tools /\ Op(c) \in Ops /\ Target(Op(c)) \in Files
      /\ Op(c).file \in Files /\ Op(c).to \in Files /\ Op(c).kind \in Kinds
  BY Operation
<1>b. Manner(c) \in Tools \cup {"create", "broken"}
  BY <1>a DEF Manner
<1>c. content \in [Files -> Contents] /\ {} \in Contents /\ Missing \in Contents
  BY DEF TypeOK, Contents
<1>d. at[c] \in 1..Len(plan[c].ops) /\ at \in [Calls -> Nat] /\ read \in [Calls -> Seq(Contents)]
  BY DEF TypeOK
<1> USE DEF Outcomes
<1>0. CASE Begin(c)
  <2>1. pc' \in [Calls -> PC]
    BY <1>0 DEF Begin, Goto, TypeOK, PC
  <2> QED
    BY <1>0, <2>1 DEF TypeOK, Begin
<1>1. CASE Lock(c)
  <2>1. pc' \in [Calls -> PC]
    BY <1>1 DEF Lock, Goto, TypeOK, PC
  <2> QED
    BY <1>1, <1>a, <2>1 DEF TypeOK, Lock
<1>2. CASE ExternalRefused(c) \/ ReadFails(c)
  BY <1>2, Returning DEF TypeOK, ExternalRefused, ReadFails
<1>3. CASE Read(c)
  <2>1. content[Op(c).file] \in Contents
    BY <1>a, <1>c
  <2>2. read' \in [Calls -> Seq(Contents)]
    BY <1>3, <1>d, <2>1 DEF Read
  <2>3. at' \in [Calls -> Nat] /\ \A d \in Calls : at'[d] \in 1..Len(plan[d].ops)
    <3>1. Len(plan[c].ops) \in Nat /\ (~IsLastOp(c) => at[c] + 1 \in 1..Len(plan[c].ops))
      BY <1>d, Operation DEF IsLastOp
    <3>2. 1 \in 1..Len(plan[c].ops)
      BY <1>d, <3>1
    <3>3. at' = at \/ at' = [at EXCEPT ![c] = 1] \/ (~IsLastOp(c) /\ at' = [at EXCEPT ![c] = at[c] + 1])
      BY <1>3 DEF Read
    <3>4. at'[c] \in 1..Len(plan[c].ops) /\ \A d \in Calls \ {c} : at'[d] = at[d]
      BY <1>d, <3>1, <3>2, <3>3
    <3>5. at' \in [Calls -> Nat]
      BY <1>d, <3>1, <3>3
    <3> QED
      BY <3>4, <3>5 DEF TypeOK
  <2>4. GoOn(c, "read") \/ GoOn(c, "write") \/ GoOn(c, "ask")
    BY <1>3 DEF Read
  <2>5. pc' \in [Calls -> PC] /\ lock' = lock /\ outcome' = outcome
    BY <2>4, Going DEF PC
  <2> QED
    BY <1>3, <2>2, <2>3, <2>5 DEF TypeOK, Read
<1>4. CASE Ask(c)
  BY <1>4, Returning, Going DEF TypeOK, Ask, PC
<1>5. CASE Truncate(c)
  <2>1. content' \in [Files -> Contents]
    BY <1>5, <1>a, <1>c DEF Truncate
  <2>2. after' \in [Calls -> SUBSET (Tools \cup {"create", "broken"})]
    BY <1>5, <1>a, <1>b, Noting DEF Truncate
  <2>3. pc' \in [Calls -> PC] /\ lock' = lock /\ outcome' = outcome
    BY <1>5, Going DEF Truncate, PC
  <2> QED
    BY <1>5, <2>1, <2>2, <2>3 DEF TypeOK, Truncate
<1>6. CASE WriteFails(c)
  <2>1. after' \in [Calls -> SUBSET (Tools \cup {"create", "broken"})]
    BY <1>6, <1>a, Noting DEF WriteFails
  <2>2. /\ pc' \in [Calls -> PC] /\ outcome' \in [Calls -> Outcomes]
        /\ lock' \in [Files -> Calls \cup {NoCall}]
    BY <1>6, Returning DEF WriteFails
  <2> QED
    BY <1>6, <2>1, <2>2 DEF TypeOK, WriteFails
<1>7. ASSUME Wrote(c) \/ NextOp(c)
      PROVE  /\ pc' \in [Calls -> PC] /\ outcome' \in [Calls -> Outcomes]
             /\ lock' \in [Files -> Calls \cup {NoCall}]
             /\ at' \in [Calls -> Nat] /\ \A d \in Calls : at'[d] \in 1..Len(plan[d].ops)
  <2>1. CASE \E how \in {"ok", "failed"} : Return(c, how) /\ at' = at
    BY <2>1, Returning DEF TypeOK
  <2>2. CASE /\ at' = [at EXCEPT ![c] = at[c] + 1] /\ at[c] + 1 \in 1..Len(plan[c].ops)
             /\ GoOn(c, IF Uses(c, "multiedit") THEN "read" ELSE "write")
    <3>1. pc' \in [Calls -> PC] /\ lock' = lock /\ outcome' = outcome
      BY <2>2, Going DEF PC
    <3>2. at'[c] \in 1..Len(plan[c].ops) /\ \A d \in Calls \ {c} : at'[d] = at[d]
      BY <1>d, <2>2
    <3>3. at' \in [Calls -> Nat]
      BY <1>d, <2>2
    <3> QED
      BY <3>1, <3>2, <3>3 DEF TypeOK
  <2> QED
    BY <1>7, <2>1, <2>2, Continuing
<1>8. CASE Fill(c)
  <2>1. NewContent(c) \in Contents
    BY <1>8, Filling DEF Fill, Contents
  <2>2. content' \in [Files -> Contents] /\ wrote' \subseteq Calls \X Files
    BY <1>8, <1>a, <1>c, <2>1 DEF Fill, TypeOK
  <2>3. after' \in [Calls -> SUBSET (Tools \cup {"create", "broken"})]
    BY <1>8, <1>a, <1>b, Noting DEF Fill
  <2>4. CASE Op(c).kind = "move"
    <3>1. pc' \in [Calls -> PC] /\ lock' = lock /\ outcome' = outcome
      BY <1>8, <2>4, Going DEF Fill, PC
    <3> QED
      BY <1>8, <2>2, <2>3, <2>4, <3>1 DEF TypeOK, Fill
  <2>5. CASE Op(c).kind # "move"
    BY <1>7, <1>8, <2>2, <2>3, <2>5 DEF TypeOK, Fill
  <2> QED
    BY <2>4, <2>5
<1>9. CASE Remove(c)
  <2>1. CASE content[Op(c).file] = Missing
    <3>1. /\ pc' \in [Calls -> PC] /\ outcome' \in [Calls -> Outcomes]
          /\ lock' \in [Files -> Calls \cup {NoCall}]
      BY <1>9, <2>1, Returning DEF Remove
    <3> QED
      BY <1>9, <2>1, <3>1 DEF TypeOK, Remove
  <2>2. CASE content[Op(c).file] # Missing
    <3>1. content' \in [Files -> Contents] /\ wrote' \subseteq Calls \X Files
      BY <1>9, <1>a, <1>c, <2>2 DEF Remove, TypeOK
    <3>2. after' \in [Calls -> SUBSET (Tools \cup {"create", "broken"})]
      BY <1>9, <1>a, <2>2, Noting DEF Remove, Tools
    <3> QED
      BY <1>7, <1>9, <2>2, <3>1, <3>2 DEF TypeOK, Remove
  <2> QED
    BY <2>1, <2>2
<1>10. CASE Skip(c)
  BY <1>7, <1>10 DEF TypeOK, Skip
<1> QED
  BY <1>0, <1>1, <1>2, <1>3, <1>4, <1>5, <1>6, <1>8, <1>9, <1>10 DEF Act, Step

-----------------------------------------------------------------------------
\* What was read, by how far a call is.
LEMMA ReadsKept == ASSUME TypeOK, Reads, NEW c \in Calls, Act(c) PROVE Reads'
<1>a. /\ at[c] \in 1..Len(plan[c].ops) /\ Len(plan[c].ops) \in Nat /\ read[c] \in Seq(Contents)
      /\ pc \in [Calls -> PC] /\ at \in [Calls -> Nat] /\ read \in [Calls -> Seq(Contents)]
      /\ plan[c].tool \in Tools
  BY Operation DEF TypeOK
<1>b. Others(c)
  BY Frame
<1> DEFINE Full(r, p) ==
       \A i \in 1..Len(r) : plan[c].tool = "edit" \/ plan[c].ops[i].kind # "create" => r[i] # Missing
<1> DEFINE Mine(r, k, p) ==
       /\ Full(r, p)
       /\ p \in {"idle", "lock"} => r = <<>> /\ k = 1
       /\ p = "read" => Len(r) = k - 1
       /\ p \in Working =>
             IF plan[c].tool = "patch" THEN Len(r) = Len(plan[c].ops) ELSE Len(r) = k
<1>c. Mine(read[c], at[c], pc[c])
  BY DEF Reads
<1>d. SUFFICES Mine(read'[c], at'[c], pc'[c])
  BY <1>b DEF Reads, Others
<1> HIDE DEF Mine
<1>e. ASSUME Wrote(c) \/ NextOp(c), read' = read, pc[c] \in Working PROVE Mine(read'[c], at'[c], pc'[c])
  <2>1. CASE \E how \in {"ok", "failed"} : Return(c, how) /\ at' = at
    BY <1>a, <1>c, <1>e, <2>1 DEF Return, Goto, Mine, Working
  <2>2. CASE /\ plan[c].tool \notin {"edit", "write"}
             /\ at' = [at EXCEPT ![c] = at[c] + 1] /\ at[c] + 1 \in 1..Len(plan[c].ops)
             /\ GoOn(c, IF Uses(c, "multiedit") THEN "read" ELSE "write")
    BY <1>a, <1>c, <1>e, <2>2 DEF GoOn, Goto, Mine, Working, Uses, Tools
  <2> QED
    BY <1>e, <2>1, <2>2, Continuing
<1>f. ASSUME NEW how \in Outcomes, Return(c, how), read' = read, at' = at
      PROVE Mine(read'[c], at'[c], pc'[c])
  BY <1>a, <1>c, <1>f DEF Return, Goto, Mine, Working
<1> USE DEF Outcomes
<1>1. CASE Begin(c)
  BY <1>1, <1>a, <1>c DEF Begin, Goto, Mine, Working
<1>2. CASE Lock(c)
  BY <1>2, <1>a, <1>c DEF Lock, Goto, Mine, Working
<1>3. CASE ExternalRefused(c) \/ ReadFails(c) \/ WriteFails(c)
  BY <1>3, <1>f DEF ExternalRefused, ReadFails, WriteFails
<1>4. CASE Read(c)
  <2>1. content[Op(c).file] \in Contents
    BY Operation DEF TypeOK
  <2>2. read'[c] = Append(read[c], content[Op(c).file]) /\ Len(read[c]) = at[c] - 1
    BY <1>4, <1>a, <1>c DEF Read, Mine
  <2>3. Len(read'[c]) = at[c] /\ read'[c][at[c]] = content[Op(c).file]
        /\ \A i \in 1..(at[c] - 1) : read'[c][i] = read[c][i]
    BY <1>a, <2>1, <2>2
  <2>4. plan[c].tool = "edit" \/ plan[c].ops[at[c]].kind # "create" => content[Op(c).file] # Missing
    BY <1>4 DEF Read, NeedsFile, Uses, Op
  <2>5. Full(read'[c], pc'[c])
    BY <1>a, <1>c, <2>2, <2>3, <2>4 DEF Mine
  <2>6. CASE Uses(c, "patch") /\ ~IsLastOp(c)
    BY <1>4, <1>a, <2>3, <2>5, <2>6 DEF Read, GoOn, Goto, Mine, Working
  <2>7. CASE ~(Uses(c, "patch") /\ ~IsLastOp(c))
    BY <1>4, <1>a, <2>3, <2>5, <2>7 DEF Read, GoOn, Goto, Mine, Working, Uses, IsLastOp
  <2> QED
    BY <2>6, <2>7
<1>5. CASE Ask(c)
  BY <1>5, <1>a, <1>c, <1>f DEF Ask, GoOn, Goto, Mine, Working
<1>6. CASE Truncate(c)
  BY <1>6, <1>a, <1>c DEF Truncate, GoOn, Goto, Mine, Working
<1>7. CASE Fill(c)
  BY <1>7, <1>a, <1>c, <1>e DEF Fill, GoOn, Goto, Mine, Working
<1>8. CASE Remove(c)
  BY <1>8, <1>a, <1>e, <1>f DEF Remove, Working
<1>9. CASE Skip(c)
  BY <1>9, <1>a, <1>e DEF Skip, Working
<1> QED
  BY <1>1, <1>2, <1>3, <1>4, <1>5, <1>6, <1>7, <1>8, <1>9 DEF Act, Step

-----------------------------------------------------------------------------
\* An edit is about one file all along.
LEMMA Editing ==
  ASSUME TypeOK, TypeOK', plan' = plan, NEW d \in Calls, Uses(d, "edit")
  PROVE  Op(d)' = Op(d) /\ at[d] = 1 /\ at'[d] = 1 /\ Target(Op(d)) = Op(d).file
<1>1. at[d] = 1 /\ Target(Op(d)) = Op(d).file
  BY Operation DEF Uses
<1>2. at'[d] \in 1..Len(plan[d].ops) /\ Len(plan[d].ops) = 1
  BY PlansAssumption DEF TypeOK, Uses
<1>3. at'[d] = 1
  BY <1>2
<1> QED
  BY <1>1, <1>3 DEF Op

\* Only its holder gives a lock back.
LEMMA Locking ==
  ASSUME TypeOK, NEW c \in Calls, Act(c)
  PROVE  /\ \A f \in Files : lock[f] \notin {c, NoCall} => lock'[f] = lock[f]
         /\ pc'[c] \in {"read"} \cup Working =>
               \/ lock' = lock /\ pc[c] \in {"read"} \cup Working
               \/ lock'[Op(c).file] = c
               \/ ~Uses(c, "edit")
         /\ Uses(c, "edit") => pc'[c] # "remove"
<1>a. Op(c).file \in Files /\ (Uses(c, "edit") => Op(c).kind # "move") /\ pc \in [Calls -> PC]
  BY Operation DEF Uses, TypeOK
<1>b. ASSUME NEW how \in Outcomes, Return(c, how)
      PROVE  /\ \A f \in Files : lock[f] # c => lock'[f] = lock[f]
             /\ pc'[c] = "returned"
  BY <1>b DEF Return, Goto, TypeOK
<1>c. ASSUME Wrote(c) \/ NextOp(c)
      PROVE \/ \E how \in Outcomes : Return(c, how)
            \/ lock' = lock /\ pc'[c] # "remove"
  BY <1>a, <1>c, Continuing DEF GoOn, Goto, Outcomes
<1> USE DEF Outcomes, Working
<1>1. CASE Begin(c)
  BY <1>1 DEF Begin, Goto, TypeOK
<1>2. CASE Lock(c)
  BY <1>2, <1>a DEF Lock, Goto, TypeOK
<1>3. CASE ExternalRefused(c) \/ ReadFails(c) \/ WriteFails(c)
  BY <1>3, <1>b DEF ExternalRefused, ReadFails, WriteFails
<1>4. CASE Read(c) \/ Truncate(c)
  BY <1>4, <1>a DEF Read, Truncate, GoOn, Goto
<1>5. CASE Ask(c)
  BY <1>5, <1>a, <1>b DEF Ask, GoOn, Goto
<1>6. CASE Fill(c)
  BY <1>6, <1>a, <1>b, <1>c DEF Fill, GoOn, Goto
<1>7. CASE Remove(c)
  BY <1>7, <1>b, <1>c DEF Remove
<1>8. CASE Skip(c)
  BY <1>8, <1>b, <1>c DEF Skip
<1> QED
  BY <1>1, <1>2, <1>3, <1>4, <1>5, <1>6, <1>7, <1>8 DEF Act, Step

LEMMA LocksKept == ASSUME TypeOK, TypeOK', Locks, NEW c \in Calls, Act(c) PROVE Locks'
<1>1. Others(c)
  BY Frame
<1>2. SUFFICES ASSUME NEW d \in Calls, Uses(d, "edit"), pc'[d] \in {"read"} \cup Working
               PROVE  lock'[Op(d).file] = d /\ pc'[d] # "remove"
  BY <1>1, Editing DEF Locks, Others, Uses
<1>3. Op(d).file \in Files /\ d # NoCall
  BY Operation, NamesAssumption
<1>4. CASE d = c
  BY <1>2, <1>4, Locking DEF Locks
<1>5. CASE d # c
  <2>1. lock[Op(d).file] = d /\ pc'[d] # "remove"
    BY <1>1, <1>2, <1>5 DEF Locks, Others
  <2> QED
    BY <1>3, <1>5, <2>1, Locking
<1> QED
  BY <1>4, <1>5

-----------------------------------------------------------------------------
\* Nothing is written before the last question was answered.
LEMMA QuietKept ==
  ASSUME TypeOK, TypeOK', Quiet, NEW c \in Calls, Act(c)
  PROVE  Quiet'
<1>a. Others(c) /\ plan[c].tool \in Tools /\ Op(c).kind \in Kinds
      /\ pc \in [Calls -> PC] /\ outcome \in [Calls -> Outcomes]
  BY Frame, Operation DEF TypeOK, Outcomes
<1> DEFINE Q(p, o, w) ==
       /\ p # "returned" => o = "none"
       /\ ~Uses(c, "multiedit") /\ p \in {"idle", "lock", "read", "ask"} => w
       /\ Uses(c, "edit") /\ p # "returned" => w
       /\ ~Uses(c, "multiedit") /\ o \in {"refused", "noMatch"} => w
<1>b. Q(pc[c], outcome[c], Untouched(c))
  BY DEF Quiet
<1>c. ASSUME wrote' = wrote \/ \E f \in Files : wrote' = wrote \cup {<<c, f>>}
      PROVE  \A d \in Calls \ {c} : Untouched(d) => Untouched(d)'
  BY <1>c DEF Untouched
<1>d. SUFFICES /\ Q(pc'[c], outcome'[c], Untouched(c)')
               /\ wrote' = wrote \/ \E f \in Files : wrote' = wrote \cup {<<c, f>>}
  BY <1>a, <1>c DEF Quiet, Others, Uses
<1>e. wrote' = wrote => Untouched(c)' = Untouched(c)
  BY DEF Untouched
<1>f. ASSUME Return(c, "ok") \/ Return(c, "failed")
      PROVE  Q(pc'[c], outcome'[c], Untouched(c)')
  BY <1>a, <1>f DEF Return, Goto
<1>g. ASSUME Wrote(c) \/ NextOp(c), pc[c] \in Working
      PROVE  Q(pc'[c], outcome'[c], Untouched(c)')
  <2>1. CASE \E how \in {"ok", "failed"} : Return(c, how) /\ at' = at
    BY <1>f, <2>1
  <2>2. CASE /\ plan[c].tool \notin {"edit", "write"}
             /\ GoOn(c, IF Uses(c, "multiedit") THEN "read" ELSE "write")
    BY <1>a, <1>b, <1>g, <2>2 DEF GoOn, Goto, Uses, Tools, Working
  <2> QED
    BY <1>g, <2>1, <2>2, Continuing
<1>1. CASE Begin(c) \/ Lock(c) \/ Truncate(c)
  BY <1>1, <1>a, <1>b, <1>e DEF Begin, Lock, Truncate, GoOn, Goto, Uses
<1>2. CASE ExternalRefused(c) \/ ReadFails(c)
  BY <1>2, <1>a, <1>b, <1>e DEF ExternalRefused, ReadFails, Return, Goto, Uses
<1>3. CASE Read(c)
  BY <1>3, <1>a, <1>b, <1>e DEF Read, GoOn, Goto, Uses
<1>4. CASE Ask(c)
  BY <1>4, <1>a, <1>b, <1>e DEF Ask, Return, GoOn, Goto, Uses
<1>5. CASE WriteFails(c)
  BY <1>5, <1>f DEF WriteFails
<1>6. CASE Fill(c)
  <2>1. wrote' = wrote \cup {<<c, Target(Op(c))>>} /\ Target(Op(c)) \in Files
    BY <1>6, Operation DEF Fill
  <2>2. CASE Op(c).kind = "move"
    <3>1. ~Uses(c, "edit")
      BY <2>2, Operation DEF Uses
    <3> QED
      BY <1>6, <1>a, <1>b, <2>1, <2>2, <3>1 DEF Fill, GoOn, Goto
  <2>3. CASE Op(c).kind # "move"
    BY <1>6, <1>g, <2>1, <2>3 DEF Fill, Working
  <2> QED
    BY <2>2, <2>3
<1>7. CASE Remove(c)
  <2>1. CASE content[Op(c).file] = Missing
    BY <1>7, <1>f, <2>1 DEF Remove
  <2>2. CASE content[Op(c).file] # Missing
    <3>1. Wrote(c) /\ wrote' = wrote \cup {<<c, Op(c).file>>}
      BY <1>7, <2>2 DEF Remove
    <3> QED
      BY <1>7, <1>g, <3>1, Operation DEF Remove, Working
  <2> QED
    BY <2>1, <2>2
<1>8. CASE Skip(c)
  BY <1>8, <1>g DEF Skip, Working
<1> QED
  BY <1>1, <1>2, <1>3, <1>4, <1>5, <1>6, <1>7, <1>8 DEF Act, Step

-----------------------------------------------------------------------------
\* A multiedit has the files it wrote behind it.
LEMMA GradualKept ==
  ASSUME TypeOK, TypeOK', Quiet, Gradual, NEW c \in Calls, Act(c)
  PROVE  Gradual'
<1>a. /\ Others(c) /\ plan[c].tool \in Tools /\ at[c] \in 1..Len(plan[c].ops)
      /\ pc \in [Calls -> PC] /\ outcome \in [Calls -> Outcomes] /\ at \in [Calls -> Nat]
      /\ plan[c].ops[at[c]] = Op(c) /\ Len(plan[c].ops) \in Nat
  BY Frame, Operation DEF TypeOK, Outcomes, Op
<1> DEFINE Past(n) ==
       {f \in Files : \E i \in 1..(n - 1) : f \in {plan[c].ops[i].file, Target(plan[c].ops[i])}}
<1>b. Behind(c) = Past(at[c]) /\ Behind(c)' = Past(at'[c]) /\ (at'[c] = at[c] => Op(c)' = Op(c))
  BY <1>a DEF Behind, Target, Others, Op
<1>c. SUFFICES
        /\ wrote' = wrote \/ \E f \in Files : wrote' = wrote \cup {<<c, f>>}
        /\ Uses(c, "multiedit") /\ outcome'[c] \notin {"ok", "failed"} =>
              \A f \in Files : <<c, f>> \in wrote' =>
                 f \in Past(at'[c]) \/ (pc'[c] = "remove" /\ at'[c] = at[c] /\ f = Target(Op(c)))
  <2>1. ASSUME NEW d \in Calls, d # c
        PROVE  /\ Behind(d)' = Behind(d) /\ Op(d)' = Op(d) /\ pc'[d] = pc[d]
               /\ outcome'[d] = outcome[d] /\ Uses(d, "multiedit")' = Uses(d, "multiedit")
               /\ Target(Op(d))' = Target(Op(d))
               /\ \A f \in Files : <<d, f>> \in wrote' => <<d, f>> \in wrote
    BY <1>a, <1>c, <2>1 DEF Others, Behind, Uses, Target
  <2>2. ASSUME NEW f \in Files, Uses(c, "multiedit"), outcome'[c] \notin {"ok", "failed"}, <<c, f>> \in wrote'
        PROVE  f \in Behind(c)' \/ (pc'[c] = "remove" /\ f = Target(Op(c))')
    BY <1>b, <1>c, <2>2 DEF Target
  <2>3. Uses(c, "multiedit")' = Uses(c, "multiedit")
    BY <1>a DEF Others, Uses
  <2> QED
    BY <2>1, <2>2, <2>3 DEF Gradual
<1>d. ASSUME Uses(c, "multiedit"), outcome[c] \notin {"ok", "failed"}, pc[c] # "remove",
             NEW f \in Files, <<c, f>> \in wrote
      PROVE  f \in Past(at[c])
  BY <1>b, <1>d DEF Gradual
<1>e. ASSUME Uses(c, "multiedit"), outcome[c] \notin {"ok", "failed"},
             NEW f \in Files, <<c, f>> \in wrote, at'[c] = at[c] + 1
      PROVE  f \in Past(at'[c])
  <2>1. f \in Past(at[c]) \/ f = Target(Op(c))
    BY <1>b, <1>e DEF Gradual
  <2> QED
    BY <1>a, <1>e, <2>1
<1>f. ASSUME NEW f \in Files, f \in {Op(c).file, Target(Op(c))}, at'[c] = at[c] + 1
      PROVE  f \in Past(at'[c])
  BY <1>a, <1>f
\* The call goes on to its next operation, or it returns from this one.
<1>g. ASSUME Wrote(c) \/ NextOp(c), pc[c] \in Working
      PROVE  \/ outcome'[c] \in {"ok", "failed"}
             \/ at'[c] = at[c] + 1 /\ outcome' = outcome
  <2>1. CASE \E how \in {"ok", "failed"} : Return(c, how) /\ at' = at
    BY <1>a, <2>1 DEF Return
  <2>2. CASE at' = [at EXCEPT ![c] = at[c] + 1]
             /\ GoOn(c, IF Uses(c, "multiedit") THEN "read" ELSE "write")
    BY <1>a, <2>2 DEF GoOn
  <2> QED
    BY <1>g, <2>1, <2>2, Continuing
<1>h. outcome[c] = "none"
  <2>1. pc[c] # "returned"
    BY DEF Act, Step, Begin, ExternalRefused, Lock, ReadFails, Read, Ask, Truncate, WriteFails,
           Fill, Remove, Skip, Uses
  <2> QED
    BY <2>1 DEF Quiet
<1> HIDE DEF Past
<1>1. CASE Begin(c) \/ Lock(c) \/ Truncate(c) \/ Ask(c) \/ ExternalRefused(c) \/ ReadFails(c)
  <2>1. at' = at /\ wrote' = wrote /\ pc[c] # "remove"
    BY <1>1 DEF Begin, Lock, Truncate, Ask, ExternalRefused, ReadFails
  <2> QED
    BY <1>d, <1>h, <2>1
<1>2. CASE Read(c)
  <2>1. wrote' = wrote /\ pc[c] # "remove" /\ (Uses(c, "multiedit") => at' = at)
    BY <1>2 DEF Read, Uses
  <2> QED
    BY <1>d, <1>h, <2>1
<1>3. CASE WriteFails(c)
  BY <1>3, <1>a DEF WriteFails, Return
<1>4. CASE Fill(c)
  <2>1. wrote' = wrote \cup {<<c, Target(Op(c))>>} /\ Target(Op(c)) \in Files /\ pc[c] = "fill"
    BY <1>4, Operation DEF Fill
  <2>2. CASE Op(c).kind = "move"
    <3>1. pc'[c] = "remove" /\ at' = at
      BY <1>4, <1>a, <2>2 DEF Fill, GoOn, Goto
    <3> QED
      BY <1>d, <1>h, <2>1, <3>1
  <2>3. CASE Op(c).kind # "move"
    <3>1. Wrote(c)
      BY <1>4, <2>3 DEF Fill
    <3> QED
      BY <1>e, <1>f, <1>g, <1>h, <2>1, <3>1 DEF Working
  <2> QED
    BY <2>2, <2>3
<1>5. CASE Remove(c)
  <2>1. Op(c).file \in Files /\ pc[c] \in Working
    BY <1>5, Operation DEF Remove, Working
  <2>2. CASE content[Op(c).file] = Missing
    BY <1>5, <1>a, <2>2 DEF Remove, Return
  <2>3. CASE content[Op(c).file] # Missing
    <3>1. Wrote(c) /\ wrote' = wrote \cup {<<c, Op(c).file>>}
      BY <1>5, <2>3 DEF Remove
    <3> QED
      BY <1>e, <1>f, <1>g, <1>h, <2>1, <3>1
  <2> QED
    BY <2>2, <2>3
<1>6. CASE Skip(c)
  BY <1>6, <1>e, <1>g, <1>h DEF Skip, Working
<1> QED
  BY <1>1, <1>2, <1>3, <1>4, <1>5, <1>6 DEF Act, Step

-----------------------------------------------------------------------------
\* What a step does to the files: it changes one at most, which is the
\* operation's, and says so.
Effect(c) ==
    \/ /\ content' = content /\ wrote' = wrote /\ after' = after
       /\ pc[c] # "fill"
    \/ /\ content' = content /\ wrote' = wrote /\ Note(c, Target(Op(c)), "broken")
    \/ /\ pc'[c] = "fill" /\ wrote' = wrote /\ Note(c, Target(Op(c)), Manner(c))
       /\ content' = [content EXCEPT ![Target(Op(c))] = {}]
    \/ Fill(c)
    \/ /\ content' = [content EXCEPT ![Op(c).file] = Missing] /\ Note(c, Op(c).file, "patch")
       /\ wrote' = wrote \cup {<<c, Op(c).file>>} /\ ~Uses(c, "edit")

LEMMA Effects == ASSUME TypeOK, Locks, NEW c \in Calls, Act(c) PROVE Effect(c)
<1>a. pc \in [Calls -> PC]
  BY DEF TypeOK
<1>1. CASE Begin(c) \/ Lock(c) \/ ExternalRefused(c) \/ ReadFails(c) \/ Read(c) \/ Ask(c) \/ Skip(c)
  BY <1>1 DEF Begin, Lock, ExternalRefused, ReadFails, Read, Ask, Skip, Effect
<1>2. CASE Truncate(c)
  BY <1>2, <1>a DEF Truncate, GoOn, Goto, Effect
<1>3. CASE WriteFails(c)
  BY <1>3 DEF WriteFails, Effect
<1>4. CASE Fill(c)
  BY <1>4 DEF Effect
<1>5. CASE Remove(c)
  <2>1. CASE content[Op(c).file] = Missing
    BY <1>5, <2>1 DEF Remove, Effect
  <2>2. CASE content[Op(c).file] # Missing
    <3>1. ~Uses(c, "edit")
      BY <1>5, Operation DEF Remove, Locks, Uses, Working
    <3> QED
      BY <1>5, <2>2, <3>1 DEF Remove, Effect
  <2> QED
    BY <2>1, <2>2
<1> QED
  BY <1>1, <1>2, <1>3, <1>4, <1>5 DEF Act, Step

\* Whose text is kept now was kept before, but for what the step itself wrote.
LEMMA KeptBefore ==
  ASSUME TypeOK, NEW c \in Calls, Act(c), Effect(c), NEW e \in Calls, NEW f \in Files, Kept(e, f)'
  PROVE  Kept(e, f) \/ (e = c /\ Fill(c) /\ f = Target(Op(c)))
<1>1. plan' = plan /\ Target(Op(c)) \in Files /\ Op(c).file \in Files /\ Manner(c) \in Tools \cup {"create", "broken"}
  BY Frame, Operation DEF Others, Manner
<1>2. after[e] \subseteq after'[e]
  BY <1>1, Noting DEF Effect, Fill, Tools
<1>3. <<e, f>> \in wrote \/ (e = c /\ Fill(c) /\ f = Target(Op(c)))
  BY <1>1 DEF Effect, Fill, Kept, Uses
<1> QED
  BY <1>1, <1>2, <1>3 DEF Kept, Uses

LEMMA LastingKept ==
  ASSUME TypeOK, TypeOK', Reads, Locks, Quiet, Lasting, Carried, NEW c \in Calls, Act(c)
  PROVE  Lasting'
<1>a. Others(c) /\ Effect(c)
  BY Frame, Effects
<1>b. /\ Target(Op(c)) \in Files /\ Op(c).file \in Files /\ Manner(c) \in Tools \cup {"create", "broken"}
      /\ Uses(c, "edit") => Target(Op(c)) = Op(c).file /\ at[c] = 1 /\ Op(c).kind # "move"
  BY Operation DEF Manner, Uses
<1>1. SUFFICES ASSUME NEW e \in Calls, NEW f \in Files, Kept(e, f)',
                      \A d \in Calls : ~(Uses(d, "edit") /\ pc'[d] = "fill" /\ Op(d).file = f)
               PROVE  content'[f] # Missing /\ e \in content'[f]
  BY <1>a, Editing DEF Lasting, Others, Uses
<1>2. Kept(e, f) \/ (e = c /\ Fill(c) /\ f = Target(Op(c)))
  BY <1>1, <1>a, KeptBefore
<1>3. \A d \in Calls : Uses(d, "edit") /\ pc[d] = "fill" /\ Op(d).file = f => d = c
  BY <1>1, <1>a DEF Others
<1>4. ASSUME ~(Uses(c, "edit") /\ pc[c] = "fill" /\ Op(c).file = f), Kept(e, f)
      PROVE  content[f] # Missing /\ e \in content[f]
  BY <1>3, <1>4 DEF Lasting
<1>5. Uses(e, "edit") /\ after'[e] \subseteq {"edit"}
  BY <1>1, <1>a DEF Kept, Others, Uses
<1>6. ASSUME Kept(e, f), Uses(c, "edit"), pc[c] # "returned"
      PROVE  e # c
  BY <1>6 DEF Quiet, Untouched, Kept
<1>7. CASE content' = content /\ wrote' = wrote /\ after' = after /\ pc[c] # "fill"
  BY <1>2, <1>4, <1>7 DEF Fill
<1>8. ASSUME NEW what \in {"create", "broken", "write", "multiedit", "patch"}, NEW g \in Files,
             Note(c, g, what), Kept(e, f), e # c
      PROVE  f # g
  <2>1. <<e, f>> \in wrote
    BY <1>8 DEF Kept
  <2>2. what \in Tools \cup {"create", "broken"}
    BY DEF Tools
  <2>3. f = g => what \in after'[e]
    BY <1>8, <2>1, <2>2, Noting
  <2> QED
    BY <1>5, <2>3
<1>9. pc[c] # "returned"
  BY DEF Act, Step, Begin, Lock, ExternalRefused, ReadFails, Read, Ask, Truncate, WriteFails,
         Fill, Remove, Skip
<1>10. CASE content' = content /\ wrote' = wrote /\ Note(c, Target(Op(c)), "broken") /\ ~Fill(c)
  <2>1. Kept(e, f)
    BY <1>2, <1>10
  <2>2. e # c => f # Target(Op(c))
    BY <1>8, <1>10, <1>b, <2>1
  <2>3. ~(Uses(c, "edit") /\ pc[c] = "fill" /\ Op(c).file = f)
    BY <1>6, <1>9, <1>b, <2>1, <2>2
  <2> QED
    BY <1>4, <1>10, <2>1, <2>3
<1>11. CASE /\ pc'[c] = "fill" /\ wrote' = wrote /\ Note(c, Target(Op(c)), Manner(c)) /\ ~Fill(c)
            /\ content' = [content EXCEPT ![Target(Op(c))] = {}]
  <2>1. Kept(e, f)
    BY <1>2, <1>11
  <2>2. f # Target(Op(c))
    <3>1. CASE Uses(c, "edit")
      BY <1>1, <1>11, <1>b, <3>1
    <3>2. CASE ~Uses(c, "edit")
      <4>1. e # c
        BY <1>5, <3>2
      <4>2. Manner(c) \in {"create", "broken", "write", "multiedit", "patch"}
        BY <3>2, Operation DEF Manner, Uses, Tools
      <4> QED
        BY <1>8, <1>11, <1>b, <2>1, <4>1, <4>2
    <3> QED
      BY <3>1, <3>2
  <2>3. content'[f] = content[f]
    BY <1>11, <2>2 DEF TypeOK
  <2> QED
    BY <1>4, <1>b, <2>1, <2>2, <2>3
<1>12. CASE Fill(c)
  <2>1. content' = [content EXCEPT ![Target(Op(c))] = NewContent(c)]
    BY <1>12 DEF Fill
  <2>2. CASE f # Target(Op(c))
    BY <1>2, <1>4, <1>b, <2>1, <2>2 DEF TypeOK
  <2>3. CASE f = Target(Op(c))
    <3>1. content'[f] = NewContent(c) /\ c \in NewContent(c)
      BY <2>1, <2>3 DEF TypeOK, NewContent
    <3>2. content'[f] # Missing
      BY <1>12, <3>1, Filling, NamesAssumption DEF Fill
    <3>3. CASE e = c
      BY <3>1, <3>2, <3>3
    <3>4. CASE e # c
      <4>1. Kept(e, f) /\ Note(c, Target(Op(c)), Manner(c))
        BY <1>2, <1>12, <3>4 DEF Fill
      <4>2. Manner(c) = "edit" \/ Manner(c) \in {"create", "broken", "write", "multiedit", "patch"}
        BY Operation DEF Manner, Uses, Tools
      <4>3. Manner(c) = "edit"
        BY <1>8, <1>b, <2>3, <3>4, <4>1, <4>2
      <4>4. Uses(c, "edit") /\ Op(c).kind # "create"
        BY <4>3 DEF Manner, Uses
      <4>5. e \in read[c][1]
        BY <1>12, <1>b, <2>3, <3>4, <4>1, <4>4 DEF Carried, Fill, Working
      <4> QED
        BY <1>b, <3>1, <3>2, <4>4, <4>5 DEF NewContent
    <3> QED
      BY <3>3, <3>4
  <2> QED
    BY <2>2, <2>3
<1>13. CASE /\ content' = [content EXCEPT ![Op(c).file] = Missing] /\ Note(c, Op(c).file, "patch")
            /\ wrote' = wrote \cup {<<c, Op(c).file>>} /\ ~Uses(c, "edit") /\ ~Fill(c)
  <2>1. Kept(e, f) /\ e # c
    BY <1>2, <1>5, <1>13
  <2>2. f # Op(c).file
    BY <1>8, <1>13, <1>b, <2>1
  <2>3. content'[f] = content[f]
    BY <1>13, <2>2 DEF TypeOK
  <2> QED
    BY <1>4, <1>13, <2>1, <2>3
<1> QED
  BY <1>a, <1>7, <1>10, <1>11, <1>12, <1>13 DEF Effect

LEMMA CarriedKept ==
  ASSUME TypeOK, TypeOK', Reads, Locks, Lasting, Carried, NEW c \in Calls, Act(c)
  PROVE  Carried'
<1>a. Others(c) /\ Effect(c)
  BY Frame, Effects
<1>1. SUFFICES ASSUME NEW e \in Calls, NEW d \in Calls, Uses(d, "edit"), pc'[d] \in Working,
                      Op(d).kind # "create", Kept(e, Op(d).file)', e # d
               PROVE  e \in read'[d][1]
  BY <1>a, Editing DEF Carried, Others, Uses, Kept
<1>2. Op(d).file \in Files /\ Op(d)' = Op(d) /\ at[d] = 1
  BY <1>a, <1>1, Operation, Editing DEF Others
<1>3. Kept(e, Op(d).file) \/ (e = c /\ Fill(c) /\ Op(d).file = Target(Op(c)))
  BY <1>1, <1>2, <1>a, KeptBefore
<1>4. CASE d # c
  <2>1. pc[d] \in Working /\ read'[d] = read[d]
    BY <1>1, <1>4, <1>a DEF Others
  <2>2. ~(e = c /\ Fill(c) /\ Op(d).file = Target(Op(c)))
    <3>1. SUFFICES ASSUME e = c, Fill(c), Op(d).file = Target(Op(c)) PROVE FALSE
      OBVIOUS
    <3>2. Uses(c, "edit")
      BY <1>1, <1>a, <3>1 DEF Kept, Others, Uses
    <3>3. lock[Op(c).file] = c /\ Target(Op(c)) = Op(c).file
      BY <3>1, <3>2, Operation DEF Locks, Fill, Working, Uses
    <3>4. lock[Op(d).file] = d
      BY <1>1, <2>1 DEF Locks
    <3> QED
      BY <1>4, <3>1, <3>3, <3>4
  <2> QED
    BY <1>1, <1>3, <2>1, <2>2 DEF Carried
<1>5. CASE d = c
  <2>1. Kept(e, Op(c).file)
    BY <1>1, <1>3, <1>5
  <2>2. CASE Read(c)
    <3>1. lock[Op(c).file] = c
      BY <1>1, <1>5, <2>2 DEF Read, Locks
    <3>2. \A x \in Calls : ~(Uses(x, "edit") /\ pc[x] = "fill" /\ Op(x).file = Op(c).file)
      BY <2>2, <3>1 DEF Read, Locks, Working
    <3>3. content[Op(c).file] # Missing /\ e \in content[Op(c).file]
      BY <1>2, <1>5, <2>1, <3>2 DEF Lasting
    <3>4. read[c] = <<>> /\ content[Op(c).file] \in Contents
      <4>1. Len(read[c]) = 0 /\ read[c] \in Seq(Contents)
        BY <1>2, <1>5, <2>2 DEF Reads, Read, TypeOK
      <4> QED
        BY <1>2, <1>5, <4>1 DEF TypeOK
    <3>5. read'[c] = Append(read[c], content[Op(c).file])
      BY <2>2 DEF Read, TypeOK
    <3> QED
      BY <1>5, <3>3, <3>4, <3>5
  <2>3. CASE ~Read(c)
    <3>1. pc[c] \in Working /\ read'[c] = read[c]
      <4>1. pc \in [Calls -> PC]
        BY DEF TypeOK
      <4> QED
        BY <1>1, <1>5, <2>3, <4>1
           DEF Act, Step, Begin, Lock, ExternalRefused, ReadFails, Ask, Truncate, WriteFails, Fill, Remove,
               Skip, Return, Goto, Working
    <3> QED
      BY <1>1, <1>5, <2>1, <3>1 DEF Carried
  <2> QED
    BY <2>2, <2>3
<1> QED
  BY <1>4, <1>5

-----------------------------------------------------------------------------
\* Where the text of a move is, while nobody else has begun.
LEMMA MovingKept ==
  ASSUME TypeOK, TypeOK', Reads, Moving, NEW c \in Calls, Act(c)
  PROVE  Moving'
<1>a. Others(c) /\ pc \in [Calls -> PC] /\ content \in [Files -> Contents]
  BY Frame DEF TypeOK
<1>b. pc'[c] # "idle"
  BY <1>a DEF Act, Step, Begin, Lock, ExternalRefused, ReadFails, Read, Ask, Truncate, WriteFails,
              Fill, Remove, Skip, Return, GoOn, Goto, Wrote, NextOp
<1>1. SUFFICES ASSUME Alone(c)', IsMove(c)' PROVE
        /\ pc'[c] \in {"ask", "write", "fill"} => content'[Op(c)'.file] = read'[c][1]
        /\ pc'[c] = "remove" => Has(Op(c).to, read[c][1])'
        /\ pc'[c] = "returned" /\ read'[c] # <<>> =>
              Has(Op(c).file, read[c][1])' \/ Has(Op(c).to, read[c][1])'
  BY <1>b DEF Moving, Alone
<1>2. at[c] = 1 /\ at'[c] = 1 /\ Op(c)' = Op(c) /\ IsLastOp(c)
  <2>1. at[c] \in 1..1 /\ at'[c] \in 1..1 /\ Len(plan[c].ops) = 1
    BY <1>1, <1>a DEF IsMove, TypeOK, Others
  <2>2. at[c] = 1 /\ at'[c] = 1
    BY <2>1
  <2> QED
    BY <1>a, <2>1, <2>2 DEF Op, IsLastOp, Others
<1>3. Alone(c) /\ IsMove(c)
  BY <1>1, <1>2, <1>a DEF Alone, IsMove, Others
<1>4. /\ Op(c).kind = "move" /\ Op(c).to # Op(c).file /\ Op(c).to \in Files /\ Op(c).file \in Files
      /\ Target(Op(c)) = Op(c).to /\ plan[c].tool \notin {"edit", "write"}
  BY <1>3, Operation DEF IsMove, Target
<1>5. /\ pc[c] \in {"ask", "write", "fill"} => content[Op(c).file] = read[c][1]
      /\ pc[c] = "remove" => Has(Op(c).to, read[c][1])
  BY <1>3 DEF Moving
<1>6. pc[c] \in Working => Len(read[c]) = 1 /\ read[c][1] # Missing
  <2>1. pc[c] \in Working => Len(read[c]) = 1
    BY <1>2, <1>3 DEF Reads, IsMove
  <2>2. plan[c].ops[1].kind # "create"
    BY <1>2, <1>4 DEF Op
  <2> QED
    BY <2>1, <2>2 DEF Reads
<1>7. ASSUME Wrote(c) \/ NextOp(c) PROVE pc'[c] = "returned"
  BY <1>2, <1>7, <1>a DEF Wrote, NextOp, Return, Goto
<1>8. CASE Begin(c) \/ Lock(c)
  BY <1>8, <1>a DEF Begin, Lock, Goto
<1>9. CASE ExternalRefused(c) \/ ReadFails(c)
  <2>1. read'[c] = <<>>
    <3>1. Len(read[c]) = 0 \/ read[c] = <<>>
      BY <1>9, <1>2 DEF ExternalRefused, ReadFails, Reads
    <3>2. read[c] \in Seq(Contents)
      BY DEF TypeOK
    <3> QED
      BY <1>9, <3>1, <3>2 DEF ExternalRefused, ReadFails
  <2> QED
    BY <1>9, <1>a, <2>1 DEF ExternalRefused, ReadFails, Return, Goto
<1>10. CASE Read(c)
  <2>1. read'[c] = Append(read[c], content[Op(c).file]) /\ Len(read[c]) = 0 /\ read[c] \in Seq(Contents)
        /\ content[Op(c).file] \in Contents /\ content' = content
    BY <1>2, <1>4, <1>10, <1>a DEF Read, TypeOK, Reads
  <2>2. read'[c][1] = content[Op(c).file]
    BY <2>1
  <2>3. pc'[c] \in {"write", "ask"}
    BY <1>2, <1>10, <1>a DEF Read, GoOn, Goto
  <2> QED
    BY <1>2, <2>1, <2>2, <2>3
<1>11. CASE Ask(c) \/ Skip(c)
  <2>1. content' = content /\ read' = read /\ pc[c] \in {"ask", "write"}
        /\ pc'[c] \in {"write", "returned"}
    BY <1>7, <1>11, <1>a DEF Ask, Skip, GoOn, Return, Goto
  <2> QED
    BY <1>2, <1>5, <1>6, <2>1 DEF Has, Working
<1>12. CASE Truncate(c) \/ WriteFails(c)
  <2>1. content'[Op(c).file] = content[Op(c).file] /\ read' = read /\ pc[c] \in {"write", "fill"}
        /\ pc'[c] \in {"fill", "returned"}
    BY <1>4, <1>12, <1>a DEF Truncate, WriteFails, GoOn, Return, Goto
  <2> QED
    BY <1>2, <1>5, <1>6, <2>1 DEF Has, Working
<1>13. CASE Fill(c)
  <2>1. content'[Op(c).to] = {c} \cup read[c][1] /\ read' = read /\ pc'[c] = "remove"
    BY <1>2, <1>4, <1>13, <1>a DEF Fill, NewContent, GoOn, Goto
  <2>2. content'[Op(c).to] # Missing
    <3>1. read[c][1] \in SUBSET (Calls \cup {Old})
      <4>1. read[c] \in Seq(Contents) /\ Len(read[c]) = 1 /\ read[c][1] # Missing
        BY <1>6, <1>13 DEF TypeOK, Fill, Working
      <4>2. read[c][1] \in Contents
        BY <4>1
      <4> QED
        BY <4>1, <4>2 DEF Contents
    <3> QED
      BY <2>1, <3>1, NamesAssumption
  <2> QED
    BY <1>2, <2>1, <2>2 DEF Has
<1>14. CASE Remove(c)
  <2>1. pc[c] = "remove" /\ Has(Op(c).to, read[c][1]) /\ read' = read
    BY <1>4, <1>5, <1>14 DEF Remove
  <2>2. content'[Op(c).to] = content[Op(c).to]
    BY <1>4, <1>14, <1>a DEF Remove
  <2>3. pc'[c] = "returned"
    BY <1>7, <1>14, <1>a DEF Remove, Return, Goto
  <2> QED
    BY <1>2, <2>1, <2>2, <2>3 DEF Has
<1> QED
  BY <1>8, <1>9, <1>10, <1>11, <1>12, <1>13, <1>14 DEF Act, Step

-----------------------------------------------------------------------------
LEMMA Inductive == IInv /\ [Next]_vars => IInv'
<1> SUFFICES ASSUME IInv, [Next]_vars PROVE IInv'
  OBVIOUS
<1>1. ASSUME NEW c \in Calls, Act(c) PROVE IInv'
  <2>1. TypeOK'
    BY <1>1, Typed DEF IInv
  <2>2. Reads' /\ Locks'
    BY <1>1, <2>1, ReadsKept, LocksKept DEF IInv
  <2>3. Quiet' /\ Gradual'
    BY <1>1, <2>1, QuietKept, GradualKept DEF IInv
  <2>4. Lasting' /\ Carried' /\ Moving'
    BY <1>1, <2>1, LastingKept, CarriedKept, MovingKept DEF IInv
  <2> QED
    BY <2>1, <2>2, <2>3, <2>4 DEF IInv
<1>2. CASE UNCHANGED vars
  <2> USE <1>2 DEF vars, IInv
  <2>1. TypeOK' /\ Reads'
    BY DEF TypeOK, Reads
  <2>2. Quiet'
    BY DEF Quiet, Uses, Untouched
  <2>3. Gradual'
    BY DEF Gradual, Uses, Behind, Op
  <2>4. Locks'
    BY DEF Locks, Op, Uses
  <2>5. Moving'
    BY DEF Moving, Op, Alone, IsMove, Has
  <2>6. Lasting'
    BY DEF Lasting, Op, Uses, Kept
  <2>7. Carried'
    BY DEF Carried, Op, Uses, Kept
  <2> QED
    BY <2>1, <2>2, <2>3, <2>4, <2>5, <2>6, <2>7
<1> QED
  BY <1>1, <1>2 DEF Next, Act

LEMMA Initial == Init => IInv
<1> SUFFICES ASSUME Init PROVE IInv
  OBVIOUS
<1>1. TypeOK
  <2>1. content \in [Files -> Contents] /\ <<>> \in Seq(Contents)
    BY DEF Init, Contents
  <2>2. \A c \in Calls : 1 \in 1..Len(plan[c].ops)
    <3>1. \A c \in Calls : plan[c].ops \in Seq(Ops) \ {<<>>}
      BY PlansAssumption DEF Init
    <3> QED
      BY <3>1
  <2> QED
    BY <2>1, <2>2 DEF Init, TypeOK, PC
<1>2. Reads /\ Locks /\ Quiet /\ Gradual
  BY DEF Init, Reads, Locks, Quiet, Gradual, Working, Untouched
<1>3. Lasting /\ Carried /\ Moving
  BY DEF Init, Lasting, Carried, Moving, Kept, Working
<1> QED
  BY <1>1, <1>2, <1>3 DEF IInv

LEMMA Invariant == Spec => []IInv
BY Initial, Inductive, PTL DEF Spec

\* Whatever calls run at once and wherever they fail, every call is at an
\* operation of its plan, and a file holds texts or is not there.
THEOREM TypeCorrect == Spec => []TypeOK
<1>1. IInv => TypeOK
  BY DEF IInv
<1> QED
  BY Invariant, <1>1, PTL

\* However many edits of a file run at once, none takes away what another one
\* wrote: each reads under the lock under which it writes.
THEOREM EditsSurvive == Spec => []EditsSurviveEdits
<1>1. IInv => EditsSurviveEdits
  BY Operation DEF IInv, Lasting, Kept, EditsSurviveEdits, Uses
<1> QED
  BY Invariant, <1>1, PTL

\* A call that was refused or found no match changed no file, in whatever order
\* it asked, read and failed, or, if it is a multiedit, none but the files of
\* the edits behind it.
THEOREM RefusalChangesNothing == Spec => []RefusedChangesNothing
<1>1. IInv => RefusedChangesNothing
  <2> SUFFICES ASSUME IInv, NEW c \in Calls, outcome[c] \in {"refused", "noMatch"},
                      NEW f \in Files, <<c, f>> \in wrote
               PROVE  Uses(c, "multiedit") /\ f \in Behind(c)
    BY DEF RefusedChangesNothing
  <2>1. pc[c] = "returned"
    BY DEF IInv, Quiet
  <2>2. Uses(c, "multiedit")
    BY DEF IInv, Quiet, Untouched
  <2>3. f \in Behind(c)
    BY <2>1, <2>2 DEF IInv, Gradual
  <2> QED
    BY <2>2, <2>3
<1> QED
  BY Invariant, <1>1, PTL

\* A move that is broken off anywhere leaves its text in one of its files.
THEOREM MovesNeverLose == Spec => []MoveNeverLoses
<1>1. IInv => MoveNeverLoses
  <2> SUFFICES ASSUME IInv, NEW c \in Calls, Alone(c), IsMove(c), read[c] # <<>>
               PROVE  Has(Op(c).file, read[c][1]) \/ Has(Op(c).to, read[c][1])
    BY DEF MoveNeverLoses, Alone, IsMove
  <2>1. pc[c] \in {"returned"} \cup Working
    <3>1. pc[c] \in PC /\ read[c] \in Seq(Contents) /\ at[c] \in 1..1
      BY DEF IInv, TypeOK, IsMove
    <3>2. pc[c] # "read"
      <4>1. SUFFICES ASSUME pc[c] = "read" PROVE FALSE
        OBVIOUS
      <4>2. Len(read[c]) = 0
        BY <3>1, <4>1 DEF IInv, Reads
      <4> QED
        BY <3>1, <4>2
    <3> QED
      BY <3>1, <3>2 DEF IInv, Reads, PC, Working
  <2>2. pc[c] \in {"ask", "write", "fill"} => read[c][1] # Missing
    <3>1. at[c] \in 1..1 /\ Len(plan[c].ops) = 1
      BY DEF IInv, TypeOK, IsMove
    <3>2. at[c] = 1
      BY <3>1
    <3>3. pc[c] \in {"ask", "write", "fill"} => Len(read[c]) = 1
      BY <3>1, <3>2 DEF IInv, Reads, Working
    <3>4. plan[c].ops[1].kind # "create"
      BY <3>2 DEF IsMove, Op
    <3> QED
      BY <3>3, <3>4 DEF IInv, Reads
  <2> QED
    BY <2>1, <2>2 DEF IInv, Moving, Has, Working
<1> QED
  BY Invariant, <1>1, PTL
=============================================================================
