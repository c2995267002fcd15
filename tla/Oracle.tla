------------------------------- MODULE Oracle -------------------------------
(***************************************************************************)
(* What src/recognize.rs promises its caller, with nothing of how: a       *)
(* question about a rule is answered with exactly the ends the grammar     *)
(* gives it, or given up for a limit the caller set.  "Does not match" is  *)
(* an answer, never an error, and a rule that can reach prose is refused   *)
(* before any input is read.                                               *)
(***************************************************************************)
EXTENDS Language

CONSTANTS
  Inputs,        \* The inputs an oracle may be bound to.
  OptionSets,    \* The limits the caller may set.
  Recognizable,  \* The rules it does not refuse.
  Starts,        \* The start positions asked about.
  Sem,           \* What the grammar means on each input.
  MaxCalls       \* Bound: the number of questions.

VARIABLES
  input,     \* What it is bound to.
  options,   \* The limits in force.
  asking,    \* Whether a question is open.
  query,     \* The question open or last answered.
  reply,     \* What the last one was answered with.
  calls      \* How many were asked.

vars == <<input, options, asking, query, reply, calls>>

Init ==
  /\ input \in Inputs
  /\ options \in OptionSets
  /\ asking = FALSE
  /\ query = None
  /\ reply = None
  /\ calls = 0

SetLimits ==
  /\ ~asking
  /\ options' \in OptionSets
  /\ UNCHANGED <<input, asking, query, reply, calls>>

Ask(r, s) ==
  /\ ~asking /\ calls < MaxCalls
  /\ calls' = calls + 1
  /\ query' = [rule |-> r, start |-> s]
  /\ IF r \in Recognizable
     THEN asking' = TRUE /\ reply' = None
     ELSE asking' = FALSE /\ reply' = Err("Refused")
  /\ UNCHANGED <<input, options>>

Conclude(r) == asking /\ asking' = FALSE /\ reply' = r /\ UNCHANGED <<input, options, query, calls>>

AnswerExactly == Conclude(Ok(Sem[input][Body[query.rule]][query.start]))

GiveUp ==
  \/ options.max_steps # None /\ Conclude(Err("StepLimit"))
  \/ options.max_depth # None /\ Conclude(Err("DepthLimit"))

Next ==
  \/ SetLimits
  \/ \E r \in Rules, s \in Starts : Ask(r, s)
  \/ AnswerExactly
  \/ GiveUp

(* A question is not left open.                                            *)
Spec == Init /\ [][Next]_vars /\ WF_vars(AnswerExactly \/ GiveUp)
=============================================================================
