---------------------------- MODULE UndoTimeline ----------------------------
(***************************************************************************)
(* What undo and redo promise: the contents an editor has had, in order,   *)
(* and a position among them.  An edit forgets what lies ahead of the      *)
(* position; it either adds to the contents or, when it continues the edit *)
(* before it, takes that edit's place.  Undo and redo only move.           *)
(***************************************************************************)
EXTENDS Naturals, Sequences

VARIABLES
    timeline,  \* the contents, oldest first
    position   \* where in the timeline the editor is

vars == <<timeline, position>>

Init == Len(timeline) = 1 /\ position = 1

\* Keep the first i contents and put something after them.
PutAfter(i) ==
    /\ Len(timeline') = i + 1
    /\ \A j \in 1..i : timeline'[j] = timeline[j]
    /\ position' = i + 1

Edit == PutAfter(position)

ContinueEdit == position > 1 /\ PutAfter(position - 1)

Load == PutAfter(0)

Undo ==
    /\ position > 1
    /\ position' = position - 1
    /\ UNCHANGED timeline

Redo ==
    /\ position < Len(timeline)
    /\ position' = position + 1
    /\ UNCHANGED timeline

Next == Edit \/ ContinueEdit \/ Load \/ Undo \/ Redo

Spec == Init /\ [][Next]_vars
=============================================================================
