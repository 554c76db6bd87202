----------------------------- MODULE OutputLife ------------------------------
(***************************************************************************)
(* What the wallet promises about each output, whatever the blaster does   *)
(* with it: an output it knows is free, held by the attempt in progress,   *)
(* or gone; the network may take a held output; an output the network has  *)
(* taken is never free again.                                              *)
(***************************************************************************)
EXTENDS Naturals

CONSTANT Outputs

VARIABLES
    life,    \* the state of each known output
    taken    \* those the network has seen spent

Stages == {"free", "held", "gone"}

TypeOK ==
    /\ DOMAIN life \subseteq Outputs
    /\ \A o \in DOMAIN life : life[o] \in Stages
    /\ taken \subseteq DOMAIN life

InStage(stage) == {o \in DOMAIN life : life[o] = stage}

Init ==
    /\ DOMAIN life \subseteq Outputs
    /\ \A o \in DOMAIN life : life[o] = "free"
    /\ taken = {}

\* An output becomes known.
Discover(o) ==
    /\ o \notin DOMAIN life
    /\ life' = [p \in DOMAIN life \cup {o} |-> IF p = o THEN "free" ELSE life[p]]
    /\ UNCHANGED taken

\* One attempt at a time takes hold of free outputs.
Hold(S) ==
    /\ S # {} /\ S \subseteq InStage("free")
    /\ life' = [p \in DOMAIN life |-> IF p \in S THEN "held" ELSE life[p]]
    /\ UNCHANGED taken

\* The network accepts a transaction that spends outputs being held.
Take(S) ==
    /\ S # {} /\ S \subseteq InStage("held")
    /\ taken' = taken \cup S
    /\ UNCHANGED life

\* The attempt ends: what was held goes free if nothing took it, or is gone;
\* one new output may appear in its place.
Settle(S, fresh) ==
    /\ S \subseteq InStage("held") \ taken
    /\ fresh \cap DOMAIN life = {}
    /\ life' = [p \in DOMAIN life \cup fresh |->
                  IF p \in fresh \cup S THEN "free"
                  ELSE IF life[p] = "held" THEN "gone" ELSE life[p]]
    /\ UNCHANGED taken

\* The outputs known after the step: there may be infinitely many others.
KnownNext == DOMAIN life' \cap Outputs

Next ==
    \/ \E o \in KnownNext : Discover(o)
    \/ \E S \in SUBSET DOMAIN life : Hold(S) \/ Take(S)
    \/ \E S \in SUBSET DOMAIN life : Settle(S, {}) \/ \E o \in KnownNext : Settle(S, {o})

Spec == Init /\ [][Next]_<<life, taken>>

\* An output the network has seen spent is never offered again.
NeverFreeAgain == taken \cap InStage("free") = {}
=============================================================================
