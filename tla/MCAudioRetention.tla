-------------------------- MODULE MCAudioRetention --------------------------
(* Instances of AudioRetention for TLC. *)
EXTENDS AudioRetention

CONSTANT f1

AllOfOneFile == [m \in Meetings |-> f1]

Asset(rule, e) == [retention |-> rule, expires |-> e]
Found(s, a, d, c) == [state |-> s, asset |-> a, delivered |-> d, complete |-> c]

\* What a process may leave: a meeting queued or cut while processing, one
\* ready and kept for its results, one stamped, one that failed.
RowsLeft ==
  {Found(s, Asset("deleteAfterProcessing", "none"), TRUE, FALSE) : s \in {"queued", "ready"}}
  \cup {Found("ready", Asset("keepDays", "later"), TRUE, TRUE),
        Found("ready", Asset("deleteAfterProcessing", "none"), FALSE, TRUE)}

RowsOfOne == RowsLeft \cup
  {Found("processing", Asset("keepDays", "later"), TRUE, TRUE),
   Found("failed", Asset("keepForever", "none"), TRUE, FALSE)}

\* Rows of meetings that share their master: one to be processed, one due,
\* one whose stamp runs out while the app runs.
RowsOfTwo ==
  {Found("queued", Asset("deleteAfterProcessing", "none"), TRUE, TRUE),
   Found("ready", Asset("deleteAfterProcessing", "due"), TRUE, TRUE),
   Found("ready", Asset("keepDays", "later"), TRUE, TRUE)}
=============================================================================
