------------------------ MODULE NetconfSessionProofs ------------------------
(***************************************************************************)
(* Proofs about NetconfSession, for any number of channels and messages,   *)
(* any chunks and any operations: the state has its type, the session      *)
(* implements RpcExchange, operations run in order, and a client that      *)
(* writes one message at a time finds its replies by position.             *)
(***************************************************************************)
EXTENDS NetconfSession, TLAPS

(***************************************************************************)
(* dataReceived, by what it does with the buffer.                          *)
(***************************************************************************)
Greets(a, n)  == Complete(a, 0) /\ Greet(a, n) /\ UNCHANGED performed
Refuses(a)    == Complete(a, 0) /\ greeted # 0 /\ Raise /\ UNCHANGED performed
Serves(a, n)  == Complete(a, 0) /\ greeted # 0 /\ WellFormed(a) /\ a > 1 /\ Perform(a) /\ Reply(a, n)
Fails(a)      == /\ Complete(a, 0) /\ greeted # 0 /\ WellFormed(a) /\ a > 1 /\ stream[a].op = "fragile"
                 /\ Perform(a) /\ Raise

LEMMA DeliverCases ==
    ASSUME NEW a \in 0..MaxMessages, NEW p \in 0..2, NEW n \in BOOLEAN, Arrive(a, p, n)
    PROVE  /\ link # "lost" /\ ChunkEnd(a, p, n)
           /\ at' = a /\ part' = p /\ newline' = n
           /\ UNCHANGED <<tidy, channel, stream>>
           /\ \/ ~Complete(a, p) /\ Buffered
              \/ p = 0 /\ (Greets(a, n) \/ Refuses(a) \/ Serves(a, n) \/ Fails(a))
<1>1. ASSUME Complete(a, p)
      PROVE  p = 0 /\ (Greets(a, n) \/ Refuses(a) \/ Serves(a, n) \/ Fails(a))
  <2>1. p = 0 /\ Complete(a, 0)
    BY <1>1 DEF Complete
  <2>2. Greet(a, n) \/ Dispatch(a, n)
    BY <1>1 DEF Arrive
  <2>3. CASE Greet(a, n)
    BY <2>1, <2>3 DEF Greets, Greet
  <2>4. CASE Dispatch(a, n)
    BY <2>1, <2>4 DEF Dispatch, Refuses, Serves, Fails
  <2>. QED
    BY <2>1, <2>2, <2>3, <2>4
<1>. QED
  BY <1>1 DEF Arrive

(***************************************************************************)
(* Types.                                                                  *)
(***************************************************************************)
THEOREM SessionTypeCorrect == Spec => []TypeOK
<1>. USE SessionAssumption
<1>1. Init => TypeOK
  <2>. SUFFICES ASSUME Init PROVE TypeOK
    OBVIOUS
  <2>1. /\ stream \in Seq(Message) /\ Len(stream) = 0
        /\ performed \in Seq(Nat) /\ replies \in Seq(Nat)
    BY DEF Init
  <2>2. /\ lead \in BOOLEAN /\ junk \in BOOLEAN /\ newline \in BOOLEAN /\ tidy \in BOOLEAN
        /\ link = "open"
    BY DEF Init
  <2>3. greeted = 0 /\ at = 0 /\ part = 0 /\ from = 0 /\ channel = 1
    BY DEF Init
  <2>. QED
    BY <2>1, <2>2, <2>3 DEF TypeOK
<1>2. TypeOK /\ [Next]_vars => TypeOK'
  <2>. SUFFICES ASSUME TypeOK, [Next]_vars PROVE TypeOK'
    OBVIOUS
  <2>1. ASSUME NEW m \in Message, Send(m) PROVE TypeOK'
    <3>1. stream' \in Seq(Message) /\ Len(stream') = Len(stream) + 1
      BY <2>1 DEF Send, TypeOK
    <3>. QED
      BY <2>1, <3>1 DEF Send, TypeOK
  <2>2. ASSUME Reopen PROVE TypeOK'
    <3>1. /\ stream' \in Seq(Message) /\ Len(stream') = 0
          /\ performed' \in Seq(Nat) /\ replies' \in Seq(Nat)
      BY <2>2 DEF Reopen
    <3>2. /\ lead' \in BOOLEAN /\ junk' \in BOOLEAN /\ newline' \in BOOLEAN /\ tidy' \in BOOLEAN
          /\ link' = "open"
      BY <2>2 DEF Reopen, TypeOK
    <3>3. greeted' \in 0..channel' /\ channel' \in 1..MaxChannels
      BY <2>2 DEF Reopen, TypeOK
    <3>4. at' = 0 /\ part' = 0 /\ from' = 0
      BY <2>2 DEF Reopen
    <3>. QED
      BY <3>1, <3>2, <3>3, <3>4 DEF TypeOK
  <2>3. ASSUME NEW a \in 0..MaxMessages, NEW p \in 0..2, NEW n \in BOOLEAN, Arrive(a, p, n)
        PROVE TypeOK'
    <3>. /\ ChunkEnd(a, p, n)
         /\ at' = a /\ part' = p /\ newline' = n
         /\ UNCHANGED <<tidy, channel, stream>>
         /\ \/ Buffered
            \/ Greets(a, n) \/ Refuses(a) \/ Serves(a, n) \/ Fails(a)
      BY <2>3, DeliverCases
    <3>1. a \in at..Len(stream)
      BY DEF ChunkEnd, TypeOK
    <3>3. CASE Buffered
      BY <3>1, <3>3 DEF Buffered, TypeOK
    <3>4. CASE Greets(a, n)
      <4>1. lead' \in BOOLEAN /\ junk' \in BOOLEAN
        BY <3>4 DEF Greets, Greet, ClearBuffer
      <4>. QED
        BY <3>1, <3>4, <4>1 DEF Greets, Greet, ClearBuffer, TypeOK
    <3>5. CASE Refuses(a)
      BY <3>1, <3>5 DEF Refuses, Raise, TypeOK
    <3>6. CASE Serves(a, n)
      <4>1. a \in 1..MaxMessages
        BY <3>1, <3>6 DEF Serves
      <4>2. lead' \in BOOLEAN /\ junk' \in BOOLEAN
        BY <3>6 DEF Serves, Reply, ClearBuffer
      <4>3. performed' \in Seq(Nat)
        BY <3>6, <4>1 DEF Serves, Perform, TypeOK
      <4>4. replies' \in Seq(Nat)
        BY <3>6, <4>1 DEF Serves, Reply, TypeOK
      <4>. QED
        BY <3>1, <3>6, <4>2, <4>3, <4>4 DEF Serves, Reply, ClearBuffer, TypeOK
    <3>7. CASE Fails(a)
      <4>1. performed' \in Seq(Nat)
        BY <3>1, <3>7 DEF Fails, Perform, TypeOK
      <4>. QED
        BY <3>1, <3>7, <4>1 DEF Fails, Raise, TypeOK
    <3>. QED
      BY <3>3, <3>4, <3>5, <3>6, <3>7
  <2>4. ASSUME UNCHANGED vars PROVE TypeOK'
    BY <2>4 DEF vars, TypeOK
  <2>. QED
    BY <2>1, <2>2, <2>3, <2>4 DEF Next, Deliver
<1>. QED
  BY <1>1, <1>2, PTL DEF Spec

(***************************************************************************)
(* The replies do not run ahead of the buffer.                             *)
(***************************************************************************)
Behind == \A k \in 1..Len(replies) : replies[k] <= from

LEMMA RepliesBehind ==
    ASSUME TypeOK, Behind, [Next]_vars
    PROVE  Behind'
<1>1. ASSUME NEW m \in Message, Send(m) PROVE Behind'
  BY <1>1 DEF Send, Behind
<1>2. ASSUME Reopen PROVE Behind'
  BY <1>2 DEF Reopen, Behind
<1>3. ASSUME NEW a \in 0..MaxMessages, NEW p \in 0..2, NEW n \in BOOLEAN, Arrive(a, p, n)
      PROVE Behind'
  <2>. \/ Buffered
       \/ Greets(a, n) \/ Refuses(a) \/ Serves(a, n) \/ Fails(a)
    BY <1>3, DeliverCases
  <2>1. from \in Nat /\ replies \in Seq(Nat)
    BY DEF TypeOK
  <2>2. CASE Buffered
    BY <2>2 DEF Buffered, Behind
  <2>3. CASE Greets(a, n)
    BY <2>1, <2>3 DEF Greets, Complete, Greet, ClearBuffer, Behind
  <2>4. CASE Refuses(a)
    BY <2>4 DEF Refuses, Raise, Behind
  <2>5. CASE Serves(a, n)
    <3>1. from' = a /\ a = from + 1 /\ replies' \in {replies, Append(replies, a)}
      BY <2>5 DEF Serves, WellFormed, Reply, ClearBuffer
    <3>. QED
      BY <2>1, <3>1 DEF Behind
  <2>6. CASE Fails(a)
    BY <2>6 DEF Fails, Raise, Behind
  <2>. QED
    BY <2>2, <2>3, <2>4, <2>5, <2>6
<1>4. ASSUME UNCHANGED vars PROVE Behind'
  BY <1>4 DEF vars, Behind
<1>. QED
  BY <1>1, <1>2, <1>3, <1>4 DEF Next, Deliver

(***************************************************************************)
(* Refinement: a message sent is one asked, a reply is an answer to a      *)
(* message later than those answered before, and every other step of the   *)
(* session is a stutter of the exchange.                                   *)
(***************************************************************************)
THEOREM SessionImplementsExchange == Spec => ImplementsExchange
<1>1. Init => Exchange!Init /\ Behind
  BY DEF Init, Exchange!Init, Behind
<1>2. TypeOK /\ Behind /\ [Next]_vars => [Exchange!Next]_(Exchange!vars)
  <2>. SUFFICES ASSUME TypeOK, Behind, [Next]_vars
                PROVE  [Exchange!Next]_(Exchange!vars)
    OBVIOUS
  <2>1. ASSUME NEW m \in Message, Send(m) PROVE Exchange!Ask
    BY <2>1 DEF Send, TypeOK, Exchange!Ask
  <2>2. ASSUME Reopen PROVE Exchange!Renew
    BY <2>2 DEF Reopen, Exchange!Renew
  <2>3. ASSUME NEW a \in 0..MaxMessages, NEW p \in 0..2, NEW n \in BOOLEAN, Arrive(a, p, n)
        PROVE  (\E i \in 1..Len(stream) : Exchange!Answer(i)) \/ UNCHANGED Exchange!vars
    <3>. /\ ChunkEnd(a, p, n) /\ stream' = stream
         /\ \/ Buffered
            \/ Greets(a, n) \/ Refuses(a) \/ Serves(a, n) \/ Fails(a)
      BY <2>3, DeliverCases
    <3>1. CASE Buffered \/ Greets(a, n) \/ Refuses(a) \/ Fails(a)
      BY <3>1 DEF Buffered, Greets, Greet, Refuses, Fails, Raise, Exchange!vars
    <3>2. CASE Serves(a, n)
      <4>1. a > 1 /\ a \in 1..Len(stream) /\ a = from + 1 /\ replies' \in {replies, Append(replies, a)}
        BY <3>2 DEF Serves, WellFormed, Reply, ChunkEnd, TypeOK
      <4>2. CASE replies' = replies
        BY <4>2 DEF Exchange!vars
      <4>3. CASE replies' = Append(replies, a)
        <5>1. replies \in Seq(Nat) /\ from \in Nat
          BY DEF TypeOK
        <5>2. Exchange!Later(a)
          <6>1. ASSUME replies # <<>> PROVE Len(replies) \in 1..Len(replies)
            BY <5>1, <6>1
          <6>2. ASSUME replies # <<>> PROVE replies[Len(replies)] \in Nat /\ replies[Len(replies)] <= from
            BY <5>1, <6>1, <6>2 DEF Behind
          <6>. QED
            BY <4>1, <5>1, <6>2 DEF Exchange!Later
        <5>. QED
          BY <4>1, <4>3, <5>2 DEF Exchange!Answer
      <4>. QED
        BY <4>1, <4>2, <4>3
    <3>. QED
      BY <3>1, <3>2
  <2>4. ASSUME UNCHANGED vars PROVE UNCHANGED Exchange!vars
    BY <2>4 DEF vars, Exchange!vars
  <2>. QED
    BY <2>1, <2>2, <2>3, <2>4 DEF Next, Deliver, Exchange!Next
<1>3. TypeOK /\ Behind /\ [Next]_vars => Behind'
  BY RepliesBehind
<1>. QED
  BY <1>1, <1>2, <1>3, SessionTypeCorrect, PTL DEF Spec, ImplementsExchange, Exchange!Spec

(***************************************************************************)
(* Operations run in order.  One that runs is at most the message after    *)
(* the last one cleared, and it is that one only when it raised and is     *)
(* still in the buffer, completely received.                               *)
(***************************************************************************)
Kept ==
    \A k \in 1..Len(performed) :
        /\ performed[k] \in 1..(from + 1)
        /\ performed[k] = from + 1 => (at > from /\ stream[from + 1].op = "fragile")

InOrder ==
    \A i, j \in 1..Len(performed) :
        i < j => \/ performed[i] < performed[j]
                 \/ /\ performed[i] = performed[j]
                    /\ stream[performed[i]].op = "fragile"
                    /\ stream[performed[i]].trailer

\* A message added to the stream leaves the others alone.
LEMMA SendKeepsOrder ==
    ASSUME TypeOK, Kept, InOrder, NEW m \in Message, Send(m)
    PROVE  Kept' /\ InOrder'
<1>1. /\ stream \in Seq(Message) /\ performed \in Seq(Nat)
      /\ at \in 0..Len(stream) /\ from \in 0..at
  BY DEF TypeOK
<1>2. /\ stream' = Append(stream, m)
      /\ performed' = performed /\ from' = from /\ at' = at
  BY DEF Send
<1>3. \A i \in 1..Len(stream) : stream'[i] = stream[i]
  BY <1>1, <1>2
<1>4. ASSUME NEW k \in 1..Len(performed) PROVE performed[k] \in 1..Len(stream)
  <2>1. performed[k] \in 1..(from + 1) /\ (performed[k] = from + 1 => at > from)
    BY DEF Kept
  <2>. QED
    BY <1>1, <2>1
<1>5. Kept'
  <2>. SUFFICES ASSUME NEW k \in 1..Len(performed)
                PROVE  /\ performed[k] \in 1..(from + 1)
                       /\ performed[k] = from + 1 => (at > from /\ stream'[from + 1].op = "fragile")
    BY <1>2 DEF Kept
  <2>. QED
    BY <1>1, <1>3, <1>4 DEF Kept
<1>6. InOrder'
  <2>. SUFFICES ASSUME NEW i \in 1..Len(performed), NEW j \in 1..Len(performed), i < j
                PROVE  \/ performed[i] < performed[j]
                       \/ /\ performed[i] = performed[j]
                          /\ stream'[performed[i]].op = "fragile"
                          /\ stream'[performed[i]].trailer
    BY <1>2 DEF InOrder
  <2>. QED
    BY <1>3, <1>4 DEF InOrder
<1>. QED
  BY <1>5, <1>6

\* A message that runs comes after those that ran, or is the last of them.
LEMMA PerformKeepsOrder ==
    ASSUME TypeOK, Kept, InOrder, NEW a \in Nat, NEW n, ChunkEnd(a, 0, n),
           a = from + 1, stream' = stream, performed' = Append(performed, a)
    PROVE  /\ InOrder'
           /\ \A k \in 1..Len(performed') : performed'[k] \in 1..a
<1>1. /\ stream \in Seq(Message) /\ performed \in Seq(Nat)
      /\ at \in 0..Len(stream) /\ from \in 0..at /\ part \in 0..2
  BY DEF TypeOK
<1>2. ASSUME NEW k \in 1..Len(performed)
      PROVE  /\ performed[k] \in 1..a
             /\ performed[k] = a => (stream[a].op = "fragile" /\ stream[a].trailer)
  <2>1. performed[k] \in 1..a /\ (performed[k] = a => (at > from /\ stream[a].op = "fragile"))
    BY DEF Kept
  <2>2. at > from => stream[a].trailer
    BY <1>1 DEF ChunkEnd, HasTrailer
  <2>. QED
    BY <2>1, <2>2
<1>3. \A k \in 1..Len(performed') : performed'[k] = IF k = Len(performed) + 1 THEN a ELSE performed[k]
  BY <1>1
<1>4. Len(performed') = Len(performed) + 1 /\ Len(performed) \in Nat
  BY <1>1
<1>5. \A k \in 1..Len(performed') : performed'[k] \in 1..a
  BY <1>1, <1>2, <1>3, <1>4
<1>6. InOrder'
  <2>. SUFFICES ASSUME NEW i \in 1..Len(performed'), NEW j \in 1..Len(performed'), i < j
                PROVE  \/ performed'[i] < performed'[j]
                       \/ /\ performed'[i] = performed'[j]
                          /\ stream[performed'[i]].op = "fragile"
                          /\ stream[performed'[i]].trailer
    BY DEF InOrder
  <2>1. i \in 1..Len(performed) /\ performed'[i] = performed[i]
    BY <1>3, <1>4
  <2>2. CASE j = Len(performed) + 1
    BY <1>1, <1>2, <1>3, <2>1, <2>2
  <2>3. CASE j \in 1..Len(performed)
    BY <1>3, <1>4, <2>1, <2>3 DEF InOrder
  <2>. QED
    BY <1>4, <2>2, <2>3
<1>. QED
  BY <1>5, <1>6

LEMMA OrderKept ==
    ASSUME TypeOK, Kept, InOrder, [Next]_vars
    PROVE  Kept' /\ InOrder'
<1>1. ASSUME NEW m \in Message, Send(m) PROVE Kept' /\ InOrder'
  BY <1>1, SendKeepsOrder
<1>2. ASSUME Reopen PROVE Kept' /\ InOrder'
  <2>1. performed' = <<>>
    BY <1>2 DEF Reopen
  <2>2. 1..Len(performed') = {}
    BY <2>1
  <2>. QED
    BY <2>2 DEF Kept, InOrder
<1>3. ASSUME NEW a \in 0..MaxMessages, NEW p \in 0..2, NEW n \in BOOLEAN, Arrive(a, p, n)
      PROVE Kept' /\ InOrder'
  <2>. /\ ChunkEnd(a, p, n)
       /\ at' = a /\ stream' = stream
       /\ \/ Buffered
          \/ p = 0 /\ (Greets(a, n) \/ Refuses(a) \/ Serves(a, n) \/ Fails(a))
    BY <1>3, DeliverCases
  <2>1. /\ at \in Nat /\ from \in 0..at /\ a \in Nat /\ a >= at /\ performed \in Seq(Nat)
    BY DEF TypeOK, ChunkEnd
  <2>2. CASE Buffered \/ Refuses(a)
    <3>1. performed' = performed /\ from' = from
      BY <2>2 DEF Buffered, Refuses, Raise
    <3>. QED
      BY <2>1, <3>1 DEF Kept, InOrder
  <2>3. CASE Greets(a, n)
    <3>1. performed' = performed /\ from' = a /\ a > from
      BY <2>3 DEF Greets, Complete, Greet, ClearBuffer
    <3>2. InOrder'
      BY <3>1 DEF InOrder
    <3>3. Kept'
      BY <2>1, <3>1 DEF Kept
    <3>. QED
      BY <3>2, <3>3
  <2>4. CASE p = 0 /\ Serves(a, n)
    <3>1. from' = a /\ a = from + 1 /\ performed' \in {performed, Append(performed, a)}
      BY <2>4 DEF Serves, WellFormed, Perform, Reply, ClearBuffer
    <3>2. CASE performed' = performed
      <4>1. InOrder'
        BY <3>2 DEF InOrder
      <4>2. Kept'
        BY <2>1, <3>1, <3>2 DEF Kept
      <4>. QED
        BY <4>1, <4>2
    <3>3. CASE performed' = Append(performed, a)
      <4>1. InOrder' /\ \A k \in 1..Len(performed') : performed'[k] \in 1..a
        BY <2>1, <2>4, <3>1, <3>3, PerformKeepsOrder
      <4>2. Kept'
        BY <2>1, <3>1, <4>1 DEF Kept
      <4>. QED
        BY <4>1, <4>2
    <3>. QED
      BY <3>1, <3>2, <3>3
  <2>5. CASE p = 0 /\ Fails(a)
    <3>1. /\ from' = from /\ a = from + 1 /\ stream[a].op = "fragile"
          /\ performed' = Append(performed, a)
      BY <2>5 DEF Fails, WellFormed, Perform, Raise
    <3>2. InOrder' /\ \A k \in 1..Len(performed') : performed'[k] \in 1..a
      BY <2>1, <2>5, <3>1, PerformKeepsOrder
    <3>3. Kept'
      BY <2>1, <3>1, <3>2 DEF Kept
    <3>. QED
      BY <3>2, <3>3
  <2>. QED
    BY <2>2, <2>3, <2>4, <2>5
<1>4. ASSUME UNCHANGED vars PROVE Kept' /\ InOrder'
  BY <1>4 DEF vars, Kept, InOrder
<1>. QED
  BY <1>1, <1>2, <1>3, <1>4 DEF Next, Deliver

\* Operations run once and in order, except one that raised and is found
\* again in the buffer.
THEOREM OperationsRunInOrder == Spec => []PerformedInOrder
<1>1. Init => Kept /\ InOrder
  <2>. SUFFICES ASSUME Init PROVE Kept /\ InOrder
    OBVIOUS
  <2>1. performed = <<>>
    BY DEF Init
  <2>2. 1..Len(performed) = {}
    BY <2>1
  <2>. QED
    BY <2>2 DEF Kept, InOrder
<1>2. TypeOK /\ Kept /\ InOrder /\ [Next]_vars => Kept' /\ InOrder'
  BY OrderKept
<1>3. TypeOK /\ InOrder => PerformedInOrder
  <2>1. TypeOK => DOMAIN performed = 1..Len(performed)
    BY DEF TypeOK
  <2>. QED
    BY <2>1 DEF InOrder, PerformedInOrder
<1>. QED
  BY <1>1, <1>2, <1>3, SessionTypeCorrect, PTL DEF Spec

(***************************************************************************)
(* A client that writes one message at a time.  Its greeting is message 1; *)
(* from then on, as long as the channel is open, the replies are one       *)
(* behind the messages cleared.  It has at most one request outstanding,   *)
(* so a close-session that was performed is the last message it wrote.     *)
(***************************************************************************)
Pace ==
    tidy => /\ greeted = 0 => (at = 0 /\ from = 0)
            /\ from = 0 => Len(replies) = 0
            /\ (link = "open" /\ from > 0) => Len(replies) = from - 1
            /\ \A k \in 1..Len(replies) : replies[k] = k + 1

OneOutstanding ==
    tidy => /\ Len(stream) > 2 => from >= Len(stream) - 1
            /\ \A i \in 1..Len(performed) :
                 stream[performed[i]].op = "close" =>
                     (i = Len(performed) /\ link # "open" /\ from = Len(stream))

LEMMA PaceKept ==
    ASSUME TypeOK, Pace, [Next]_vars
    PROVE  Pace'
<1>1. ASSUME NEW m \in Message, Send(m) PROVE Pace'
  BY <1>1 DEF Send, Pace
<1>2. ASSUME Reopen PROVE Pace'
  <2>1. Len(replies') = 0 /\ at' = 0 /\ from' = 0
    BY <1>2 DEF Reopen
  <2>. QED
    BY <2>1 DEF Pace
<1>3. ASSUME NEW a \in 0..MaxMessages, NEW p \in 0..2, NEW n \in BOOLEAN, Arrive(a, p, n)
      PROVE Pace'
  <2>. /\ ChunkEnd(a, p, n)
       /\ at' = a /\ tidy' = tidy
       /\ \/ ~Complete(a, p) /\ Buffered
          \/ p = 0 /\ (Greets(a, n) \/ Refuses(a) \/ Serves(a, n) \/ Fails(a))
    BY <1>3, DeliverCases
  <2>. SUFFICES ASSUME tidy PROVE Pace'
    BY DEF Pace
  <2>1. /\ at \in Nat /\ from \in 0..at /\ a \in Nat /\ a >= at /\ replies \in Seq(Nat)
        /\ a > at => (a = at + 1 /\ p = 0)
    BY DEF TypeOK, ChunkEnd
  <2>2. CASE ~Complete(a, p) /\ Buffered
    <3>1. replies' = replies /\ from' = from /\ greeted' = greeted /\ link' = link
      BY <2>2 DEF Buffered
    <3>2. greeted = 0 => a = 0
      BY <2>1, <2>2 DEF Pace, Complete
    <3>. QED
      BY <2>1, <3>1, <3>2 DEF Pace
  <2>3. CASE Greets(a, n)
    <3>1. replies' = replies /\ from' = a /\ greeted = 0 /\ link' = link /\ a > from
      BY <2>3 DEF Greets, Complete, Greet, ClearBuffer
    <3>2. a = 1 /\ Len(replies) = 0
      BY <2>1, <3>1 DEF Pace
    <3>3. greeted' # 0
      BY <2>3 DEF Greets, Greet, TypeOK
    <3>. QED
      BY <2>1, <3>1, <3>2, <3>3 DEF Pace
  <2>4. CASE Refuses(a) \/ Fails(a)
    <3>1. /\ replies' = replies /\ from' = from /\ greeted' = greeted /\ greeted # 0
          /\ link' \in {link, "lost"}
      BY <2>4 DEF Refuses, Fails, Raise
    <3>. QED
      BY <3>1 DEF Pace
  <2>5. CASE Serves(a, n)
    <3>1. /\ from' = a /\ a = from + 1 /\ a > 1 /\ greeted' = greeted /\ greeted # 0
          /\ replies' = IF link = "open" THEN Append(replies, a) ELSE replies
          /\ link' \in {link, "closed"}
      BY <2>5 DEF Serves, WellFormed, Reply, ClearBuffer
    <3>2. CASE link = "open"
      <4>1. replies' = Append(replies, a) /\ Len(replies) = from - 1
        BY <2>1, <3>1, <3>2 DEF Pace
      <4>2. Len(replies') = Len(replies) + 1 /\ Len(replies) \in Nat
        BY <2>1, <4>1
      <4>3. ASSUME NEW k \in 1..Len(replies') PROVE replies'[k] = k + 1
        BY <2>1, <3>1, <4>1, <4>2 DEF Pace
      <4>. QED
        BY <2>1, <3>1, <4>1, <4>2, <4>3 DEF Pace
    <3>3. CASE link # "open"
      BY <2>1, <3>1, <3>3 DEF Pace
    <3>. QED
      BY <3>2, <3>3
  <2>. QED
    BY <2>2, <2>3, <2>4, <2>5
<1>4. ASSUME UNCHANGED vars PROVE Pace'
  BY <1>4 DEF vars, Pace
<1>. QED
  BY <1>1, <1>2, <1>3, <1>4 DEF Next, Deliver

LEMMA OneOutstandingKept ==
    ASSUME TypeOK, Behind, Kept, OneOutstanding, [Next]_vars
    PROVE  OneOutstanding'
<1>1. ASSUME NEW m \in Message, Send(m) PROVE OneOutstanding'
  <2>. SUFFICES ASSUME tidy PROVE OneOutstanding'
    BY <1>1 DEF Send, OneOutstanding
  <2>1. /\ stream \in Seq(Message) /\ performed \in Seq(Nat) /\ replies \in Seq(Nat)
        /\ at \in 0..Len(stream) /\ from \in 0..at
    BY DEF TypeOK
  <2>2. /\ stream' = Append(stream, m) /\ performed' = performed /\ from' = from
        /\ link = "open"
        /\ Len(stream) > 1 => Answered(Len(stream))
    BY <1>1 DEF Send
  <2>3. Len(stream) > 1 => Len(stream) <= from
    BY <2>1, <2>2 DEF Answered, Behind
  <2>4. Len(stream') = Len(stream) + 1
    BY <2>1, <2>2
  <2>5. ASSUME NEW i \in 1..Len(performed) PROVE stream'[performed[i]].op # "close"
    <3>1. performed[i] \in 1..Len(stream)
      <4>1. performed[i] \in 1..(from + 1) /\ (performed[i] = from + 1 => at > from)
        BY DEF Kept
      <4>. QED
        BY <2>1, <4>1
    <3>. QED
      BY <2>1, <2>2, <3>1 DEF OneOutstanding
  <2>6. Len(stream') > 2 => from' >= Len(stream') - 1
    BY <2>1, <2>2, <2>3, <2>4
  <2>7. \A i \in 1..Len(performed') : stream'[performed'[i]].op # "close"
    BY <2>2, <2>5
  <2>. QED
    BY <2>6, <2>7 DEF OneOutstanding
<1>2. ASSUME Reopen PROVE OneOutstanding'
  <2>1. Len(stream') = 0 /\ 1..Len(performed') = {}
    BY <1>2 DEF Reopen
  <2>. QED
    BY <2>1 DEF OneOutstanding
<1>3. ASSUME NEW a \in 0..MaxMessages, NEW p \in 0..2, NEW n \in BOOLEAN, Arrive(a, p, n)
      PROVE OneOutstanding'
  <2>. /\ ChunkEnd(a, p, n)
       /\ stream' = stream /\ tidy' = tidy
       /\ \/ Buffered
          \/ p = 0 /\ (Greets(a, n) \/ Refuses(a) \/ Serves(a, n) \/ Fails(a))
    BY <1>3, DeliverCases
  <2>. SUFFICES ASSUME tidy PROVE OneOutstanding'
    BY DEF OneOutstanding
  <2>1. /\ stream \in Seq(Message) /\ performed \in Seq(Nat)
        /\ at \in Nat /\ from \in 0..at /\ a \in at..Len(stream)
        /\ Len(performed) \in Nat
    BY DEF TypeOK, ChunkEnd
  <2>2. CASE Buffered \/ Refuses(a)
    <3>1. performed' = performed /\ from' = from /\ link' \in {link, "lost"}
      BY <2>2 DEF Buffered, Refuses, Raise
    <3>. QED
      BY <3>1 DEF OneOutstanding
  <2>3. CASE Greets(a, n)
    <3>1. performed' = performed /\ from' = a /\ a > from /\ link' = link
      BY <2>3 DEF Greets, Complete, Greet, ClearBuffer
    <3>. QED
      BY <2>1, <3>1 DEF OneOutstanding
  <2>4. ASSUME a = from + 1, a > 1
        PROVE  /\ a = Len(stream)
               /\ \A i \in 1..Len(performed) : stream[performed[i]].op # "close"
    BY <2>1, <2>4 DEF OneOutstanding
  <2>5. CASE Serves(a, n)
    <3>1. /\ from' = a /\ a = from + 1 /\ a > 1
          /\ performed' \in {performed, Append(performed, a)}
          /\ stream[a].op = "close" => link' = "closed"
      BY <2>5 DEF Serves, WellFormed, Perform, Reply, ClearBuffer
    <3>2. a = Len(stream) /\ \A i \in 1..Len(performed) : stream[performed[i]].op # "close"
      BY <2>4, <3>1
    <3>3. CASE performed' = performed
      BY <2>1, <3>1, <3>2, <3>3 DEF OneOutstanding
    <3>4. CASE performed' = Append(performed, a)
      <4>1. /\ Len(performed') = Len(performed) + 1
            /\ performed'[Len(performed')] = a
            /\ \A i \in 1..Len(performed) : performed'[i] = performed[i]
        BY <2>1, <3>4
      <4>2. \A i \in 1..Len(performed') : i \in 1..Len(performed) \/ i = Len(performed')
        BY <2>1, <4>1
      <4>. QED
        BY <2>1, <3>1, <3>2, <4>1, <4>2 DEF OneOutstanding
    <3>. QED
      BY <3>1, <3>3, <3>4
  <2>6. CASE Fails(a)
    <3>1. /\ from' = from /\ a = from + 1 /\ a > 1 /\ stream[a].op = "fragile"
          /\ performed' = Append(performed, a)
      BY <2>6 DEF Fails, WellFormed, Perform, Raise
    <3>2. \A i \in 1..Len(performed) : stream[performed[i]].op # "close"
      BY <2>4, <3>1
    <3>3. /\ Len(performed') = Len(performed) + 1
          /\ performed'[Len(performed')] = a
          /\ \A i \in 1..Len(performed) : performed'[i] = performed[i]
      BY <2>1, <3>1
    <3>4. \A i \in 1..Len(performed') : i \in 1..Len(performed) \/ i = Len(performed')
      BY <2>1, <3>3
    <3>5. \A i \in 1..Len(performed') : stream[performed'[i]].op # "close"
      BY <3>1, <3>2, <3>3, <3>4
    <3>. QED
      BY <2>1, <3>1, <3>5 DEF OneOutstanding
  <2>. QED
    BY <2>2, <2>3, <2>5, <2>6
<1>4. ASSUME UNCHANGED vars PROVE OneOutstanding'
  BY <1>4 DEF vars, OneOutstanding
<1>. QED
  BY <1>1, <1>2, <1>3, <1>4 DEF Next, Deliver

LEMMA EmptyAtStart ==
    ASSUME Init
    PROVE  Behind /\ Kept /\ InOrder /\ Pace /\ OneOutstanding
<1>1. /\ Len(stream) = 0 /\ Len(replies) = 0 /\ at = 0 /\ from = 0
      /\ 1..Len(replies) = {} /\ 1..Len(performed) = {}
  BY DEF Init
<1>. QED
  BY <1>1 DEF Behind, Kept, InOrder, Pace, OneOutstanding

\* The k-th reply a client that writes one message at a time gets is the
\* reply to its k-th request, which is message k + 1.
THEOREM RepliesByPosition == Spec => []RepliesInStep
<1>1. Init => Pace
  BY EmptyAtStart
<1>2. TypeOK /\ Pace /\ [Next]_vars => Pace'
  BY PaceKept
<1>3. TypeOK /\ Pace => RepliesInStep
  <2>1. TypeOK => DOMAIN replies = 1..Len(replies)
    BY DEF TypeOK
  <2>. QED
    BY <2>1 DEF Pace, RepliesInStep
<1>. QED
  BY <1>1, <1>2, <1>3, SessionTypeCorrect, PTL DEF Spec

\* Nothing runs for such a client after its close-session.
THEOREM CloseIsLast == Spec => []NothingAfterClose
<1>1. Init => Behind /\ Kept /\ InOrder /\ OneOutstanding
  BY EmptyAtStart
<1>2. TypeOK /\ Behind /\ Kept /\ InOrder /\ OneOutstanding /\ [Next]_vars
        => Behind' /\ Kept' /\ InOrder' /\ OneOutstanding'
  BY RepliesBehind, OrderKept, OneOutstandingKept
<1>3. TypeOK /\ OneOutstanding => NothingAfterClose
  <2>1. TypeOK => DOMAIN performed = 1..Len(performed)
    BY DEF TypeOK
  <2>. QED
    BY <2>1 DEF OneOutstanding, NothingAfterClose
<1>. QED
  BY <1>1, <1>2, <1>3, SessionTypeCorrect, PTL DEF Spec
=============================================================================
