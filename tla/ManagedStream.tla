---------------------------- MODULE ManagedStream ----------------------------
(***************************************************************************)
(* A streamed response, end to end: the server program of the example      *)
(* managed_stream.rs feeds a body to Server::stream_send as the transport  *)
(* takes it, and on the receiving side ClientBuilder::stream of            *)
(* src/nwep/src/runtime.rs reads it on an owner thread and hands it chunk  *)
(* by chunk, through a bounded channel, to AsyncStream::recv.              *)
(*                                                                         *)
(* A byte is a position in the body, a chunk the range of positions it     *)
(* covers.  The transport (external) keeps order, holds at most Window     *)
(* bytes, and may fail.                                                    *)
(*                                                                         *)
(* An operator marked "faulty" is a bug the code does not have; it stands  *)
(* beside the definition it would replace, to test the properties with.    *)
(***************************************************************************)
EXTENDS Naturals, Sequences, FiniteSets

CONSTANTS
  Body,      \* the length of the body the server has to send
  Window,    \* the bytes the transport takes ahead of the reader
  Chunk,     \* STREAM_CHUNK
  Capacity,  \* the bound of the chunk channel (8 in the code)
  MaxRecv    \* how many recv calls the consumer makes

ASSUME StreamAssumption ==
  /\ {Body, MaxRecv} \subseteq Nat
  /\ {Window, Chunk, Capacity} \subseteq Nat \ {0}

VARIABLES
  peer,      \* what the sender does: the whole body, one cut short, a forged one
  keyKnown,  \* peer_pubkey succeeds
  sent,      \* bytes the transport has accepted from the server
  finished,  \* stream_end was called
  read,      \* bytes the owner has read
  sawEnd,    \* a read has reported the end
  pc,        \* the stage of the owner thread
  item,      \* the item the owner has in hand
  ready,     \* the metadata oneshot
  api,       \* the stream future, then the AsyncStream
  chunks,    \* the chunk channel
  waiting,   \* a recv future is pending
  got        \* what the recv calls returned

server == <<peer, keyKnown, sent, finished>>
owner  == <<read, sawEnd, pc, item>>
vars == <<peer, keyKnown, sent, finished, read, sawEnd, pc, item, ready, api, chunks,
          waiting, got>>

Item(kind, from, to) == [kind |-> kind, from |-> from, to |-> to]
End(kind) == Item(kind, read, read)

DropUnseen == TRUE   \* faulty: the owner never learns of the drop
ReceiverAlive == api \in {"awaiting", "open"}

Init ==
  /\ peer \in {"whole", "cut", "forged"}
  /\ keyKnown \in BOOLEAN
  /\ sent = 0 /\ finished = FALSE
  /\ read = 0 /\ sawEnd = FALSE
  /\ pc = "connecting"
  /\ item = Item("none", 0, 0)
  /\ ready = "unsent"
  /\ api = "awaiting"
  /\ chunks = <<>>
  /\ waiting = FALSE
  /\ got = <<>>

-----------------------------------------------------------------------------
(* The server's loop: offer the unsent tail until nothing is taken, retry  *)
(* after a tick, and end the stream when all of it is accepted.            *)

Accepts(n) == n <= Body - sent /\ sent - read + n <= Window

Feed ==
  /\ pc # "connecting" /\ ~finished
  /\ \E n \in 1..Window : Accepts(n) /\ sent' = sent + n
  /\ UNCHANGED <<peer, keyKnown, finished, owner, ready, api, chunks, waiting, got>>

Finish ==
  /\ pc # "connecting" /\ ~finished
  /\ sent = Body \/ peer = "cut"
  /\ finished' = TRUE
  /\ UNCHANGED <<peer, keyKnown, sent, owner, ready, api, chunks, waiting, got>>

-----------------------------------------------------------------------------
(* The stream future and the AsyncStream.                                  *)

StreamReturns ==
  /\ api = "awaiting"
  /\ \/ ready = "ok"  /\ api' = "open"
     \/ ready = "err" /\ pc = "gone" /\ api' = "failed"
  /\ UNCHANGED <<server, owner, ready, chunks, waiting, got>>

(* The future is dropped at its await, and both receivers with it.         *)
CancelStream ==
  /\ api = "awaiting"
  /\ api' = "cancelled"
  /\ chunks' = <<>>
  /\ UNCHANGED <<server, owner, ready, waiting, got>>

StartRecv ==
  /\ api = "open"
  /\ ~waiting
  /\ Len(got) < MaxRecv
  /\ waiting' = TRUE
  /\ UNCHANGED <<server, owner, ready, api, chunks, got>>

(* recv takes the oldest item; with no item and no sender left it returns  *)
(* Ok(None).                                                               *)
RecvReturns ==
  /\ waiting
  /\ waiting' = FALSE
  /\ \/ /\ chunks # <<>>
        /\ got' = Append(got, Head(chunks))
        /\ chunks' = Tail(chunks)
     \/ /\ chunks = <<>> /\ pc = "gone"
        /\ got' = Append(got, End("none"))
        /\ UNCHANGED chunks
  /\ UNCHANGED <<server, owner, ready, api>>

(* A recv future dropped while it waits has taken nothing.                 *)
CancelRecv ==
  /\ waiting
  /\ waiting' = FALSE
  /\ UNCHANGED <<server, owner, ready, api, chunks, got>>

DropStream ==
  /\ api = "open"
  /\ ~waiting
  /\ api' = "closed"
  /\ chunks' = <<>>
  /\ UNCHANGED <<server, owner, ready, waiting, got>>

-----------------------------------------------------------------------------
(* The owner thread.                                                       *)

(* connect and open_stream, either of which may fail.                      *)
Connect ==
  /\ pc = "connecting"
  /\ \/ pc' = "metadata" /\ UNCHANGED ready
     \/ pc' = "gone" /\ ready' = "err"
  /\ UNCHANGED <<server, read, sawEnd, item, api, chunks, waiting, got>>

(* The metadata frame, or an error; ready_tx.send fails when the future    *)
(* has been dropped.                                                       *)
Metadata ==
  /\ pc = "metadata"
  /\ \/ ready' = "ok" /\ pc' = IF ReceiverAlive THEN "reading" ELSE "gone"
     \/ ready' = "err" /\ pc' = "gone"
  /\ UNCHANGED <<server, read, sawEnd, item, api, chunks, waiting, got>>

Advance(n, end) ==
  /\ read' = read + n
  /\ sawEnd' = end

EndBeforeBytes(end) == IF end THEN "verifying" ELSE "sending"   \* faulty: bytes of the last read lost
AfterRead(end) == "sending"

(* stream.recv returns bytes; the end may come with the last of them.      *)
ReadBytes ==
  /\ pc = "reading" /\ ~sawEnd
  /\ \E n \in 1..Chunk, end \in BOOLEAN :
       /\ n <= sent - read
       /\ end => finished /\ read + n = sent
       /\ Advance(n, end)
       /\ item' = Item("chunk", read, read + n)
       /\ pc' = AfterRead(end)
  /\ UNCHANGED <<server, ready, api, chunks, waiting, got>>

(* .. or the end alone.                                                    *)
ReadEnd ==
  /\ pc = "reading" /\ ~sawEnd
  /\ finished /\ read = sent
  /\ Advance(0, TRUE)
  /\ pc' = "verifying"
  /\ UNCHANGED <<server, item, ready, api, chunks, waiting, got>>

ReadFails ==
  /\ pc = "reading" /\ ~sawEnd
  /\ Advance(0, FALSE)
  /\ item' = End("error")
  /\ pc' = "sending"
  /\ UNCHANGED <<server, ready, api, chunks, waiting, got>>

(* stream.verify against the peer's key, zeros when there is none; it      *)
(* rejects a missing, invalid or truncated signature.                      *)
Unverified == TRUE   \* faulty: the result of verify is dropped
Verifies == keyKnown /\ peer = "whole"

Verify ==
  /\ pc = "verifying"
  /\ item' = End(IF Verifies THEN "end" ELSE "error")
  /\ pc' = "sending"
  /\ UNCHANGED <<server, read, sawEnd, ready, api, chunks, waiting, got>>

RoomForOneMore == Len(chunks) <= Capacity   \* faulty: off by one
ChannelHasRoom == Len(chunks) < Capacity

EndForgotten ==   \* faulty: the end is looked for only in an empty read
  IF item.kind # "chunk" THEN "gone" ELSE "reading"
AfterSend == IF item.kind # "chunk" THEN "gone"
             ELSE IF sawEnd THEN "verifying" ELSE "reading"

(* blocking_send: it waits for room, and fails once the receiver is gone.  *)
Send ==
  /\ pc = "sending"
  /\ ReceiverAlive
  /\ ChannelHasRoom
  /\ chunks' = Append(chunks, item)
  /\ pc' = AfterSend
  /\ UNCHANGED <<server, read, sawEnd, item, ready, api, waiting, got>>

SendFails ==
  /\ pc = "sending"
  /\ ~ReceiverAlive
  /\ pc' = "gone"
  /\ UNCHANGED <<server, read, sawEnd, item, ready, api, chunks, waiting, got>>

-----------------------------------------------------------------------------
ServerStep == Feed \/ Finish

ConsumerStep == StreamReturns \/ CancelStream \/ StartRecv \/ RecvReturns \/ CancelRecv
                \/ DropStream

OwnerStep == Connect \/ Metadata \/ ReadBytes \/ ReadEnd \/ ReadFails \/ Verify \/ Send
             \/ SendFails

(* The consumer may let go of the stream and the thread ends: the system   *)
(* may stop there, and only there.                                         *)
Terminated ==
  /\ pc = "gone"
  /\ api \in {"failed", "cancelled", "closed"}
  /\ UNCHANGED vars

Next == ServerStep \/ ConsumerStep \/ OwnerStep \/ Terminated

Spec == Init /\ [][Next]_vars

(* The server keeps feeding, the owner keeps running, a ready future is    *)
(* resumed.  The consumer need not call recv nor drop the stream.          *)
Fairness ==
  /\ WF_vars(Feed) /\ WF_vars(Finish)
  /\ WF_vars(OwnerStep)
  /\ WF_vars(StreamReturns)
  /\ WF_vars(RecvReturns)

FairSpec == Spec /\ Fairness

-----------------------------------------------------------------------------
(* Properties.                                                             *)

Kinds == {"none", "chunk", "end", "error"}
ItemType == [kind : Kinds, from : 0..Body, to : 0..Body]

TypeOK ==
  /\ peer \in {"whole", "cut", "forged"}
  /\ keyKnown \in BOOLEAN /\ finished \in BOOLEAN /\ sawEnd \in BOOLEAN
  /\ waiting \in BOOLEAN
  /\ sent \in 0..Body /\ read \in 0..sent
  /\ pc \in {"connecting", "metadata", "reading", "verifying", "sending", "gone"}
  /\ ready \in {"unsent", "ok", "err"}
  /\ api \in {"awaiting", "open", "failed", "cancelled", "closed"}
  /\ item \in ItemType
  /\ chunks \in Seq(ItemType) /\ Len(chunks) <= Capacity
  /\ got \in Seq(ItemType)

(* What the consumer has, what the channel holds and what the owner has in *)
(* hand is the body as far as it was read, each byte once and in order,    *)
(* and nothing follows the item that ends it (runtime.rs:702-725).         *)
Flow == got \o chunks \o (IF pc = "sending" THEN <<item>> ELSE <<>>)
EndOf(s) == IF s = <<>> THEN 0 ELSE s[Len(s)].to
Contiguous(s) == \A k \in DOMAIN s : s[k].from = (IF k = 1 THEN 0 ELSE s[k - 1].to)
NothingAfterEnd(s) ==
  \A k \in DOMAIN s : s[k].kind # "chunk" => \A j \in k + 1..Len(s) : s[j].kind = "none"

InOrder == ReceiverAlive => EndOf(Flow) = read /\ Contiguous(Flow) /\ NothingAfterEnd(Flow)

(* A consumer that stops at the first answer other than a chunk takes an   *)
(* Ok(None) only after a whole body that verified: neither a truncation, a *)
(* forged body nor the owner's end looks like one (runtime.rs:624-632).    *)
FirstEndIsVerified ==
  \A k \in DOMAIN got :
    /\ got[k].kind \in {"end", "none"}
    /\ \A j \in 1..k - 1 : got[j].kind = "chunk"
    => /\ peer = "whole" /\ keyKnown
       /\ (IF k = 1 THEN 0 ELSE got[k - 1].to) = Body

(* A recv returns whatever the peer, the transport and the owner do        *)
(* (runtime.rs:633-638).                                                   *)
RecvAnswered == waiting ~> ~waiting

(* A cancelled or dropped stream ends the owner thread, blocked on a full  *)
(* channel or not (runtime.rs:697-710, 726).                               *)
StreamCloses == api \in {"failed", "cancelled", "closed"} ~> pc = "gone"
=============================================================================
