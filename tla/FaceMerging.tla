---------------------------- MODULE FaceMerging ----------------------------
(***************************************************************************)
(* What the exchange of face data promises, without vertices, ranks,       *)
(* counters and flags: in a sweep that merges, every side of every cell    *)
(* meets its neighbour's data once, before the cell's data is sent on; in  *)
(* a sweep that sends, every side at a rank boundary is offered its        *)
(* neighbour's data once.  FaceExchange implements it.                     *)
(***************************************************************************)
EXTENDS Naturals

CONSTANTS Sides,          \* pairs <<cell, neighbour>>
          RemoteSides,    \* of them, those whose neighbour is on another rank
          Sweeps,         \* the kinds of sweeps: those that
          Merging,        \*   merge face data,
          Receiving,      \*   merge it or drop it,
          Sending         \*   send it

VARIABLES sweep,          \* kind of the current sweep
          merges,         \* merges[s]: how often side s was merged in it
          offered,        \* remote sides whose neighbour's data is under way
          sent            \* sent[s]: how often data for side s was sent in it

vars == <<sweep, merges, offered, sent>>

Grows(count) == \A s \in DOMAIN count : count'[s] \in {count[s], count[s] + 1}
Touched(count) == {s \in DOMAIN count : count'[s] # count[s]}

Init == /\ sweep \in Sending \ Receiving
        /\ merges = [s \in Sides |-> 0]
        /\ offered = {}
        /\ sent = [s \in RemoteSides |-> 0]

\* Some sides meet their neighbours' data: for the first time in this sweep,
\* and across a rank boundary only if the data is there.
Merge == /\ sweep \in Merging
         /\ Grows(merges)
         /\ \A s \in Touched(merges) :
              merges[s] = 0 /\ (s \in RemoteSides => s \in offered)
         /\ offered' = offered \ Touched(merges)
         /\ UNCHANGED <<sweep, sent>>

Drop == /\ sweep \in Receiving \ Merging
        /\ offered' \subseteq offered
        /\ UNCHANGED <<sweep, merges, sent>>

\* Data of a cell that merges in this sweep is sent after it has merged.
Send == /\ sweep \in Sending
        /\ Grows(sent)
        /\ \A s \in Touched(sent) :
             /\ sent[s] = 0
             /\ sweep \in Merging => \A t \in Sides : t[1] = s[2] => merges[t] = 1
        /\ UNCHANGED <<sweep, merges, offered>>

EndIteration == /\ sweep \in Merging => \A s \in Sides : merges[s] = 1
                /\ sweep \in Receiving => offered = {}
                /\ sweep \in Sending => \A s \in RemoteSides : sent[s] = 1
                /\ offered' = IF sweep \in Sending THEN RemoteSides ELSE offered
                /\ merges' = [s \in Sides |-> 0]
                /\ sent' = [s \in RemoteSides |-> 0]
                /\ sweep' \in Sweeps

Next == Merge \/ Drop \/ Send \/ EndIteration

Spec == Init /\ [][Next]_vars
=============================================================================
