----------------------------- MODULE LaggingCopy -----------------------------
(***************************************************************************)
(* What a mirror of a changing set promises: its copy is a set that the    *)
(* source once was, it becomes each set the source was, in that order and  *)
(* skipping none, and the sets it still has to become end with what the    *)
(* source is now.                                                          *)
(***************************************************************************)
EXTENDS Sequences

CONSTANT Elements   \* what the source may contain

VARIABLES
    source, \* the set that is copied
    lag,    \* the sets the copy still has to become
    copy

vars == <<source, lag, copy>>

Init ==
    /\ source = {} /\ copy = {}
    /\ lag = <<>>

\* The source changes, or says again what it is, and the copy is told.
Change ==
    /\ source' \in SUBSET Elements
    /\ lag' = Append(lag, source')
    /\ UNCHANGED copy

CatchUp ==
    /\ lag # <<>>
    /\ copy' = Head(lag)
    /\ lag' = Tail(lag)
    /\ UNCHANGED source

Next == Change \/ CatchUp

Spec == Init /\ [][Next]_vars
=============================================================================
