----------------------------- MODULE FetchStream -----------------------------
(***************************************************************************)
(* What the fetch pipeline promises the DRIS: one stream of instructions   *)
(* in which every instruction sits where the prediction of the one before  *)
(* it says.  None is lost, none comes twice, and only a redirect breaks    *)
(* the stream, to go on where the redirect says.                           *)
(***************************************************************************)
EXTENDS Integers, Sequences

CONSTANTS
    Pcs,          \* word addresses
    FETCH_WORDS   \* instructions handed over per cycle, at most

VARIABLES
    next,     \* the pc of the next instruction of the stream
    issued,   \* the group handed over in the last cycle: [pc, pred] in order
    redirect  \* the pc a redirect of the last cycle named: none or one

Init ==
    /\ next \in Pcs
    /\ issued = <<>>
    /\ redirect = {}

\* The group goes on from where the stream was, each slot where the previous predicted.
Follows(group) ==
    /\ group # <<>>
    /\ Len(group) <= FETCH_WORDS
    /\ group[1].pc = next
    /\ \A w \in 2 .. Len(group) : group[w].pc = group[w - 1].pred

Deliver ==
    /\ Follows(issued')
    /\ next' = issued'[Len(issued')].pred
    /\ redirect' = {}

\* Nothing is handed over, and the stream stays where it was.
Idle ==
    /\ issued' = <<>>
    /\ next' = next
    /\ redirect' = {}

\* Only a redirect moves the stream otherwise, to where the redirect says.
Redirect ==
    \E pc \in Pcs :
        /\ redirect' = {pc}
        /\ issued' = <<>>
        /\ next' = pc

Next == Deliver \/ Idle \/ Redirect

Spec == Init /\ [][Next]_<<next, issued, redirect>>

=============================================================================
