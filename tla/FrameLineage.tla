---------------------------- MODULE FrameLineage ----------------------------
(***************************************************************************)
(* What the response-frame ledger promises about one response, whatever    *)
(* indexes, manifests and locks it uses underneath                         *)
(* (docs/RESPONSES_CONTRACT.md:152-154): the durable frames of a response  *)
(* form one chain, numbered from 1 without gap or repetition, in which     *)
(* each frame names the one before it as its parent; the chain only grows, *)
(* by one frame at a time.                                                 *)
(***************************************************************************)
EXTENDS Naturals, Sequences

CONSTANTS Responses,    \* response ids
          Payloads      \* what a frame carries

VARIABLE chain          \* [Responses -> Seq(frames)]

Link(n, payload) == [seq |-> n, parent |-> n - 1, payload |-> payload]

Init == chain = [r \in Responses |-> <<>>]

Grow(r, payload) ==
    chain' = [chain EXCEPT ![r] = Append(@, Link(Len(@) + 1, payload))]

Next == \E r \in Responses, payload \in Payloads : Grow(r, payload)

Spec == Init /\ [][Next]_chain
=============================================================================
