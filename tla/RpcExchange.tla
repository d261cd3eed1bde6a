----------------------------- MODULE RpcExchange -----------------------------
(***************************************************************************)
(* What a NETCONF session promises its client: messages are answered in    *)
(* the order they were sent, each at most once, and the first one, the     *)
(* <hello>, never.  A message may stay without an answer for ever.         *)
(***************************************************************************)
EXTENDS Naturals, Sequences

VARIABLES
    asked,    \* how many messages the client sent in this session
    answers   \* the messages answered, in the order of the answers

vars == <<asked, answers>>

Init == asked = 0 /\ answers = <<>>

Ask == asked' = asked + 1 /\ UNCHANGED answers

Later(i) == answers = <<>> \/ i > answers[Len(answers)]

Answer(i) ==
    /\ i > 1
    /\ Later(i)
    /\ answers' = Append(answers, i)
    /\ UNCHANGED asked

\* The client opens the next session.
Renew == asked' = 0 /\ answers' = <<>>

Next == Ask \/ (\E i \in 1..asked : Answer(i)) \/ Renew

Spec == Init /\ [][Next]_vars
=============================================================================
