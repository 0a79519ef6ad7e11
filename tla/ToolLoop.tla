------------------------------ MODULE ToolLoop ------------------------------
(***************************************************************************)
(* The Gemini tool loop of agents/lib/gemini_loop.mjs, which every agent   *)
(* step inlines a copy of: call the model, run the tool calls it answers   *)
(* with in their order, call it again, until it answers without a tool     *)
(* call or a limit is reached.  What the tools keep for the caller         *)
(* (candidates, a decision, links) is left open: it changes only while     *)
(* tools run.                                                              *)
(***************************************************************************)
EXTENDS Naturals

CONSTANTS
  MaxTurns,   \* max_iterations
  Budget,     \* budget_usd
  MaxCost,    \* what one call may cost
  MaxCalls    \* tool calls the model may answer with

VARIABLES
  stage,
  turn,
  spent,   \* cost_usd
  calls,   \* tool calls of the turn still to run
  kept     \* what the tools keep in the context

vars == <<stage, turn, spent, calls, kept>>

Init ==
  /\ stage = "ready"
  /\ turn = 0
  /\ spent = 0
  /\ calls = 0

\* The loop starts, or its step ends before it.
Begin ==
  /\ stage = "ready"
  /\ stage' \in {"model", "over"}
  /\ UNCHANGED <<turn, spent, calls, kept>>

\* One call of the model: only below both limits.
Call ==
  /\ stage = "model"
  /\ turn < MaxTurns
  /\ spent < Budget
  /\ turn' = turn + 1
  /\ \E cost \in 0..MaxCost : spent' = spent + cost
  /\ calls' \in 0..MaxCalls
  /\ stage' = IF calls' = 0 THEN "over" ELSE "tools"
  /\ UNCHANGED kept

\* A tool call runs, in its place; the model is called when none is left.
Tool ==
  /\ stage = "tools"
  /\ calls' = calls - 1
  /\ stage' = IF calls' = 0 THEN "model" ELSE "tools"
  /\ UNCHANGED <<turn, spent>>

\* The loop ends: a limit, an error of the model, the end of the process.
Over ==
  /\ stage # "over"
  /\ stage' = "over"
  /\ turn' \in {turn, turn + 1}
  /\ UNCHANGED <<spent, calls, kept>>

Next == Begin \/ Call \/ Tool \/ Over

Spec == Init /\ [][Next]_vars
=============================================================================
