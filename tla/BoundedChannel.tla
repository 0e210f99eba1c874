--------------------------- MODULE BoundedChannel ---------------------------
(***************************************************************************)
(* What a message file promises to its users: a FIFO of at most Size       *)
(* messages.  A sender that finds it full and a receiver that finds it     *)
(* empty wait.                                                             *)
(***************************************************************************)
EXTENDS Naturals, Sequences

CONSTANTS
  Size,      \* how many messages it holds at most, a positive number
  Msgs,      \* the messages
  Readers,   \* who receives
  NoMsg      \* not a message: what a reader has before its first one

VARIABLES
  channel,   \* the messages sent and not yet received, oldest first
  inbox      \* the last message each reader received

cvars == <<channel, inbox>>

ChannelTypeOK ==
  /\ channel \in Seq(Msgs) /\ Len(channel) <= Size
  /\ inbox \in [Readers -> Msgs \cup {NoMsg}]

ChannelInit == channel = <<>> /\ inbox = [r \in Readers |-> NoMsg]

Send(msg) ==
  /\ Len(channel) < Size
  /\ channel' = Append(channel, msg)
  /\ UNCHANGED inbox

Receive(r) ==
  /\ channel # <<>>
  /\ inbox' = [inbox EXCEPT ![r] = Head(channel)]
  /\ channel' = Tail(channel)

ChannelNext ==
  \/ \E msg \in Msgs : Send(msg)
  \/ \E r \in Readers : Receive(r)

ChannelSpec == ChannelInit /\ [][ChannelNext]_cvars
=============================================================================
