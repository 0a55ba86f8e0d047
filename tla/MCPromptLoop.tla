---------------------------- MODULE MCPromptLoop ----------------------------
(* Instances of PromptLoop for TLC: first prompts, follow-up prompts, a     *)
(* prompt with two subtasks, and one after a run that died in a tool round. *)
EXTENDS PromptLoop

CONSTANTS c1, c2

FirstPrompt == <<User(0)>>
WithSubtasks == <<User(2)>>
FollowUp == <<User(0), Assistant(TRUE), User(0)>>
AfterCrash ==
    <<User(0), [Assistant(FALSE) EXCEPT !.calls = {c1}],
      Assistant(FALSE), User(0)>>

\* What an earlier run left when a plugin had put its first answer under another
\* role: calls that nothing answers and no assistant message.
AfterPlugin == <<User(0), [User(0) EXCEPT !.calls = {c1}, !.hooked = TRUE], User(0)>>

\* A plugin may leave other calls, some with their results in the message
\* itself; no call; or a message of another role, with a subtask or a call.
RewrittenAnswers ==
    {[Assistant(FALSE) EXCEPT !.calls = {c1}],
     [Assistant(FALSE) EXCEPT !.calls = {c1, c2},
                              !.results = {[call |-> c1, how |-> "done"]}],
     Assistant(TRUE),
     [User(1) EXCEPT !.calls = {c2}],
     [Assistant(FALSE) EXCEPT !.role = "other", !.calls = {c1}]}
NothingRewritten == {}

EveryHistory == {FirstPrompt, WithSubtasks, FollowUp, AfterCrash, AfterPlugin}
OnlyFollowUp == {FollowUp}
=============================================================================
