------------------------------- MODULE Replica -------------------------------
(***************************************************************************)
(* What a remote copy promises when connections come and go: while its     *)
(* owner is told of the source's changes, the copy becomes each state the  *)
(* source has from then on, in that order and skipping none; a lost        *)
(* connection leaves it a state the source had, and a new one begins anew. *)
(***************************************************************************)
EXTENDS Integers, Sequences

CONSTANT Nothing    \* what a copy is that nothing has arrived for

VARIABLES
    source, \* what is copied
    told,   \* changes of the source are sent
    lag,    \* what the copy becomes with each message on its way
    copy

vars == <<source, told, lag, copy>>

Init ==
    /\ told = FALSE
    /\ copy = Nothing /\ lag = <<>>

\* So many messages that leave a copy as it is.
Repeated(state, n) == [i \in 1..n |-> state]

\* What the copy is when everything has arrived: the source, while told.
Latest == IF lag = <<>> THEN copy ELSE lag[Len(lag)]

\* Messages about other things are sent.
Others == lag' = lag \o Repeated(Latest, Len(lag') - Len(lag))

Change ==
    /\ UNCHANGED <<told, copy>>
    /\ IF told THEN lag' = Append(lag, source') ELSE Others

Attach ==
    /\ ~told /\ told'
    /\ UNCHANGED <<source, copy>>
    /\ lag' = Append(lag, source)

\* Nothing about the source is sent, and no change may be any more.
Pass ==
    /\ told' \in {told, FALSE}
    /\ UNCHANGED <<source, copy>>
    /\ Others

CatchUp ==
    /\ UNCHANGED <<source, told>>
    /\ lag # <<>> /\ copy' = Head(lag)
    /\ lag' = Tail(lag)

\* What is on its way does not arrive.
Lose ==
    /\ told' = FALSE
    /\ UNCHANGED <<source, copy>>
    /\ lag' = Repeated(copy, Len(lag'))

Renew ==
    /\ told' = FALSE
    /\ UNCHANGED source
    /\ copy' = Nothing /\ lag' = Repeated(Nothing, Len(lag'))

Next == Change \/ Attach \/ Pass \/ CatchUp \/ Lose \/ Renew

Spec == Init /\ [][Next]_vars
=============================================================================
