--------------------------- MODULE NetconfSession ---------------------------
(***************************************************************************)
(* The NETCONF sessions of one SSH connection: NetconfProtocol             *)
(* (netconf/netconf_protocol.py) frames messages by their end marker and   *)
(* dispatches them to the capabilities (netconf/capabilities.py).  The     *)
(* avatar of the connection keeps one protocol object for all its channels *)
(* (transports/ssh_service.py, __call__), so the input buffer and the      *)
(* greeting outlive a channel.                                             *)
(*                                                                         *)
(* The text a client sends is a stream of messages.  A message is its      *)
(* body, the end marker in two parts, and perhaps a trailing newline; a    *)
(* chunk given to dataReceived ends anywhere in it.                        *)
(***************************************************************************)
EXTENDS Naturals, Sequences

CONSTANTS
    Operations,    \* what the requests of clients come to, see Message
    MaxMessages,   \* bound on the messages of a channel
    MaxChannels    \* bound on the channels opened on the connection

(***************************************************************************)
(* op: "done" a capability's method returns its response, "refused" it     *)
(* raises a NetconfError, "unknown" no capability has the method, "close"  *)
(* close-session, "fragile" the method may raise an error that is not a    *)
(* NetconfError.  declared: the body starts with an XML declaration.       *)
(* trailer: a newline follows the end marker.                              *)
(***************************************************************************)
RequestOps == {"done", "refused", "unknown", "close", "fragile"}

Message == [op : Operations \cup {"hello"}, declared : BOOLEAN, trailer : BOOLEAN]

ASSUME SessionAssumption ==
    /\ Operations \subseteq RequestOps
    /\ MaxMessages \in Nat
    /\ MaxChannels \in Nat \ {0}

VARIABLES
    tidy,       \* the client writes each message in packets of its own, and
                \* the next request only after the reply to the last one
    link,       \* "open", "closed" by close-session, or "lost": no connection
    channel,    \* session_count: the channels opened so far
    greeted,    \* been_greeted: 0, or the channel whose message was taken as
                \* the greeting
    stream,     \* the messages the client wrote on this channel
    at,         \* how many of them have arrived up to their end marker
    part,       \* what has arrived of the next one: 0 nothing, 1 some of the
                \* body, 2 some of the end marker too
    newline,    \* the trailer of message at has arrived
    from,       \* input_buffer holds what arrived after message from
    lead,       \* ... and that starts with the trailer of message from
    junk,       \* ... and with text of an earlier channel
    performed,  \* the messages of this channel whose method ran, in order
    replies     \* the messages of this channel replied to, in order

vars == <<tidy, link, channel, greeted, stream, at, part, newline,
          from, lead, junk, performed, replies>>

Init ==
    /\ tidy \in BOOLEAN
    /\ link = "open" /\ channel = 1 /\ greeted = 0
    /\ stream = <<>> /\ at = 0 /\ part = 0 /\ newline = FALSE
    /\ from = 0 /\ lead = FALSE /\ junk = FALSE
    /\ performed = <<>> /\ replies = <<>>

Answered(i) == \E k \in DOMAIN replies : replies[k] = i
-----------------------------------------------------------------------------
(***************************************************************************)
(* The client.                                                             *)
(***************************************************************************)
Send(m) ==
    /\ link = "open"
    /\ Len(stream) < MaxMessages
    /\ (m.op = "hello") <=> (stream = <<>>)
    /\ (tidy /\ Len(stream) > 1) => Answered(Len(stream))
    /\ stream' = Append(stream, m)
    /\ UNCHANGED <<tidy, link, channel, greeted, at, part, newline,
                   from, lead, junk, performed, replies>>

\* Another channel on the same connection: makeConnection gives the protocol
\* object its new transport.  What was left to send on the old one is lost.
Reopen ==
    /\ link # "lost"
    /\ channel < MaxChannels
    /\ link' = "open" /\ channel' = channel + 1
    /\ stream' = <<>> /\ at' = 0 /\ part' = 0 /\ newline' = FALSE
    /\ from' = 0 /\ lead' = FALSE
    /\ junk' = (junk \/ at > from \/ part > 0)
    /\ performed' = <<>> /\ replies' = <<>>
    /\ UNCHANGED <<tidy, greeted>>
-----------------------------------------------------------------------------
(***************************************************************************)
(* dataReceived.  A chunk ends after the end marker of message a, after    *)
(* its trailer too when n, and after part p of message a + 1.              *)
(***************************************************************************)
HasTrailer(i) == i > 0 /\ stream[i].trailer

ChunkEnd(a, p, n) ==
    /\ a \in at..Len(stream)
    /\ n => HasTrailer(a)
    /\ p > 0 => (a < Len(stream) /\ n = HasTrailer(a))
    /\ a = at => (p > part \/ (p = part /\ p = 0 /\ n /\ ~newline))
    /\ (tidy /\ a > at) => (a = at + 1 /\ p = 0)

\* input_buffer.rstrip() ends with the end marker.
Complete(a, p) == p = 0 /\ a > from

\* The buffer is one XML document.
WellFormed(a) ==
    /\ ~junk
    /\ a = from + 1
    /\ ~(lead /\ stream[a].declared)

\* Faults: the buffer is not cleared; a request stays in it; it is cleared
\* past what has arrived.
ClearBufferNever(a, n) == UNCHANGED <<from, lead, junk>>

ClearBufferButLast(a, n) ==
    from' = (IF greeted = 0 THEN a ELSE a - 1) /\ lead' = FALSE /\ junk' = FALSE

ClearBufferBeyond(a, n) == from' = a + 1 /\ lead' = FALSE /\ junk' = FALSE

ClearBuffer(a, n) ==
    /\ from' = a
    /\ lead' = (HasTrailer(a) /\ ~n)
    /\ junk' = FALSE

Buffered == UNCHANGED <<from, lead, junk, greeted, link, performed, replies>>

\* Whatever comes first is the client's greeting.
Greet(a, n) ==
    /\ greeted = 0
    /\ greeted' = channel
    /\ ClearBuffer(a, n)
    /\ UNCHANGED <<link, performed, replies>>

\* The error leaves dataReceived before the buffer is cleared.  Conch logs
\* it, or the connection is lost with it.
Raise ==
    /\ link' \in {link, "lost"}
    /\ UNCHANGED <<greeted, from, lead, junk, replies>>

\* Faults: the reply carries the id of the message before; close-session
\* leaves the channel open.
ReplyToPrevious(a, n) ==
    /\ replies' = IF link = "open" THEN Append(replies, a - 1) ELSE replies
    /\ link' = IF stream[a].op = "close" THEN "closed" ELSE link
    /\ ClearBuffer(a, n)
    /\ UNCHANGED greeted

ReplyWithoutClosing(a, n) ==
    /\ replies' = Append(replies, a)
    /\ ClearBuffer(a, n)
    /\ UNCHANGED <<greeted, link>>

\* say: a channel closed on this side sends nothing any more.
Reply(a, n) ==
    /\ replies' = IF link = "open" THEN Append(replies, a) ELSE replies
    /\ link' = IF stream[a].op = "close" THEN "closed" ELSE link
    /\ ClearBuffer(a, n)
    /\ UNCHANGED greeted

Perform(a) ==
    performed' = IF stream[a].op = "unknown" THEN performed ELSE Append(performed, a)

Dispatch(a, n) ==
    /\ greeted # 0
    /\ \/ /\ ~WellFormed(a)
          /\ Raise /\ UNCHANGED performed
       \* a <hello> has no message-id to put into the reply
       \/ /\ WellFormed(a) /\ a = 1
          /\ Raise /\ UNCHANGED performed
       \/ /\ WellFormed(a) /\ a > 1
          /\ Perform(a)
          /\ Reply(a, n) \/ (stream[a].op = "fragile" /\ Raise)

Arrive(a, p, n) ==
    /\ link # "lost"
    /\ ChunkEnd(a, p, n)
    /\ at' = a /\ part' = p /\ newline' = n
    /\ IF Complete(a, p) THEN Greet(a, n) \/ Dispatch(a, n) ELSE Buffered
    /\ UNCHANGED <<tidy, channel, stream>>

Deliver == \E a \in 0..MaxMessages, p \in 0..2, n \in BOOLEAN : Arrive(a, p, n)

Next == (\E m \in Message : Send(m)) \/ Reopen \/ Deliver

\* What a client wrote arrives; nothing makes it write.
Spec == Init /\ [][Next]_vars /\ WF_vars(Deliver)
-----------------------------------------------------------------------------
TypeOK ==
    /\ tidy \in BOOLEAN
    /\ link \in {"open", "closed", "lost"}
    /\ channel \in 1..MaxChannels
    /\ greeted \in 0..channel
    /\ stream \in Seq(Message) /\ Len(stream) <= MaxMessages
    /\ at \in 0..Len(stream) /\ part \in 0..2 /\ newline \in BOOLEAN
    /\ from \in 0..at /\ lead \in BOOLEAN /\ junk \in BOOLEAN
    /\ performed \in Seq(Nat)
    /\ replies \in Seq(Nat)

(***************************************************************************)
(* Whatever a client writes and wherever its chunks end, replies come in   *)
(* the order of the requests, at most one each and none to the greeting:   *)
(* dataReceived and process implement RpcExchange.                         *)
(***************************************************************************)
Exchange == INSTANCE RpcExchange WITH asked <- Len(stream), answers <- replies

ImplementsExchange == Exchange!Spec

(***************************************************************************)
(* An operation runs once, and after those sent before it; it runs again   *)
(* only when it raised and its trailing newline came in a chunk of its     *)
(* own, which finds the message still in the buffer.                       *)
(***************************************************************************)
PerformedInOrder ==
    \A i, j \in DOMAIN performed :
        i < j => \/ performed[i] < performed[j]
                 \/ /\ performed[i] = performed[j]
                    /\ stream[performed[i]].op = "fragile"
                    /\ stream[performed[i]].trailer

\* A client that writes one message at a time reads its replies by
\* position: the k-th reply is the one to its k-th request.
RepliesInStep == tidy => \A k \in DOMAIN replies : replies[k] = k + 1

\* Nothing is performed for a client after its close-session, except what it
\* had sent without waiting for the reply.
NothingAfterClose ==
    tidy => \A i \in DOMAIN performed : stream[performed[i]].op = "close" => i = Len(performed)

(***************************************************************************)
(* Every request of a client that writes one message at a time is replied  *)
(* to, on the channel that greeted: unless the operation itself may raise, *)
(* or an XML declaration follows the newline of an earlier message, or the *)
(* client leaves for another channel.                                      *)
(***************************************************************************)
Sound(i) ==
    /\ stream[i].op # "fragile"
    /\ stream[i].declared => \A j \in 1..(i - 1) : ~stream[j].trailer

RequestsAnswered ==
    \A c \in 1..MaxChannels : \A i \in 2..MaxMessages :
        (tidy /\ channel = c /\ greeted \in {0, c} /\ Len(stream) >= i /\ Sound(i))
            ~> (channel # c \/ Answered(i))
=============================================================================
