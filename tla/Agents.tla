------------------------------- MODULE Agents -------------------------------
(***************************************************************************)
(* The query agent's loop (crates/nlq/src/lib.rs) over the read-only tools *)
(* (crates/agent-tools), and the briefing that runs a list of questions    *)
(* through it and mails the result (crates/briefing).                      *)
(*                                                                         *)
(* External: the planning model, which answers, asks for any tool, or      *)
(* fails; and the engine behind the tools.  Of a tool's output the loop    *)
(* looks at the lines that start with "provenance: ": the line the tool    *)
(* ends with when the engine sent a manifest, and any other line that      *)
(* happens to start so (a bucket of a value count with that name, a line   *)
(* break in a field, an address or an error).                              *)
(***************************************************************************)
EXTENDS Integers, Sequences, SequencesExt

CONSTANTS
  Questions,      \* number of questions of a briefing
  max_tool_calls, \* Budget (6)
  Recipients,     \* number of recipients of a briefing
  Allowed,        \* those of them that are on the allowlist
  MaxLookalikes   \* bound on other lines with the prefix in one output

ASSUME AgentsAssumption ==
  /\ Questions \in Nat /\ max_tool_calls \in Nat /\ Recipients \in Nat
  /\ MaxLookalikes \in Nat

Lookalike == 0

VARIABLES
  question,     \* number of the question in hand; Questions + 1: mailing; then done
  provenance,   \* provenance lines of this question's answer: the manifest's
                \* number, or Lookalike
  calls,        \* tool calls of this question, as many as observations
  answers,      \* answers so far: [text, exhausted, provenance, calls]
  mails,        \* results of the mails, in the order of the recipients
  left,         \* history: recipients for whom a mail left
  sent,         \* history: manifests that the engine sent
  mimics        \* history: lookalikes in the outputs

agent_vars == <<question, provenance, calls, answers, mails, left, sent, mimics>>

AgentsInit ==
  /\ question = 1
  /\ provenance = <<>> /\ calls = 0
  /\ answers = <<>> /\ mails = <<>> /\ left = {} /\ sent = 0 /\ mimics = 0

\* run returns, and compose goes to the next question.
Return(text, exhausted) ==
  /\ answers' = Append(answers, [text |-> text, exhausted |-> exhausted,
                                 provenance |-> provenance, calls |-> calls])
  /\ question' = question + 1
  /\ provenance' = <<>> /\ calls' = 0
  /\ UNCHANGED <<mails, left, sent, mimics>>

\* next_step: the model has failed, or it answers.
ModelFails == question <= Questions /\ Return("error", FALSE)

AnswerStep == question <= Questions /\ Return("answer", FALSE)

\* The lines of an output that have the prefix: n lookalikes, and the manifest
\* at its end if it has one
Prefixed(n, manifest) ==
  [i \in 1 .. n |-> Lookalike] \o (IF manifest THEN <<sent + 1>> ELSE <<>>)

\* Mutant: the first line with the prefix is taken.
CallTool_FirstLine(n, manifest) ==
  /\ question <= Questions
  /\ IF calls >= max_tool_calls
     THEN Return(IF calls = 0 THEN "nothing" ELSE "partial", TRUE)
     ELSE /\ calls' = calls + 1
          /\ provenance' = LET lines == Prefixed(n, manifest)
                           IN IF lines = <<>> THEN provenance
                              ELSE Append(provenance, Head(lines))
          /\ sent' = sent + (IF manifest THEN 1 ELSE 0) /\ mimics' = mimics + n
          /\ UNCHANGED <<question, answers, mails, left>>

\* agent_tools::call: a search or an aggregate with its manifest, the cluster
\* state without one, or an error, which is an output too.  Every line with the
\* prefix is lifted.
CallTool(n, manifest) ==
  /\ question <= Questions
  /\ IF calls >= max_tool_calls
     THEN Return(IF calls = 0 THEN "nothing" ELSE "partial", TRUE)
     ELSE /\ calls' = calls + 1
          /\ provenance' = provenance \o Prefixed(n, manifest)
          /\ sent' = sent + (IF manifest THEN 1 ELSE 0) /\ mimics' = mimics + n
          /\ UNCHANGED <<question, answers, mails, left>>

\* compose: the evidence behind the whole briefing
Evidence == FlattenSeq([i \in DOMAIN answers |-> answers[i].provenance])

allows(r) == r \in Allowed

\* brief_and_send: the next recipient; the emailer is reached behind the
\* allowlist only, and an error does not end the round.
SendNext(ok) ==
  /\ question = Questions + 1 /\ Len(mails) < Recipients
  /\ LET r == Len(mails) + 1
     IN IF ~allows(r) THEN mails' = Append(mails, "refused") /\ UNCHANGED left
        ELSE /\ mails' = Append(mails, IF ok THEN "delivered" ELSE "failed")
             /\ left' = left \cup {r}
  /\ UNCHANGED <<question, provenance, calls, answers, sent, mimics>>

AgentsNext ==
  \/ ModelFails
  \/ AnswerStep
  \/ \E n \in 0 .. MaxLookalikes, manifest \in BOOLEAN : CallTool(n, manifest)
  \/ \E ok \in BOOLEAN : SendNext(ok)

-----------------------------------------------------------------------------
\* E lists the manifests in the order in which they were sent, each once, and
\* as many lines besides as outputs had lookalikes.
Faithful(E) ==
  /\ \A m \in 1 .. sent : \E i \in DOMAIN E : E[i] = m
  /\ \A i, j \in DOMAIN E : i < j /\ E[i] # Lookalike /\ E[j] # Lookalike => E[i] < E[j]
  /\ Len(E) = sent + mimics

\* What a briefing rests on is what the engine said: its evidence lists every
\* manifest that came back for any question, once and in order, whatever else an
\* output holds and also where the model failed or ran out of budget, which only
\* a model that wanted more than its budget of calls does; nothing else is among
\* it but lines that read like provenance; and mail is attempted for every
\* allowed recipient of the list and for no other, whatever becomes of the mails
\* before it.
BriefingHonest ==
  /\ Faithful(Evidence \o provenance)
  /\ \A i \in DOMAIN answers :
       answers[i].calls <= max_tool_calls
         /\ (answers[i].exhausted => answers[i].calls = max_tool_calls)
  /\ left = DOMAIN mails \cap Allowed
=============================================================================
