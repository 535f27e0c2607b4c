-------------------------------- MODULE Framing --------------------------------
(***************************************************************************)
(* How documents are found in the byte stream of a socket: the data handler *)
(* of a MosSocketClient (connection/mosSocketClient.ts, dataChunks) and that*)
(* of an incoming socket (MosConnection.ts, chunks).                        *)
(*                                                                         *)
(* The peer sends document after document.  A document is a sequence of     *)
(* pieces, and TCP delivers the stream in packets that end after any piece: *)
(*     1 "<m"   2 "os>"   3 text   4 white space   5 text   6 "</m"   7 "os>"  *)
(* A connection that is lost takes the rest of its document with it.        *)
(***************************************************************************)
EXTENDS Integers, Sequences

CONSTANT MaxDocs   \* bounds the documents that are sent

ASSUME DocsAssumption == MaxDocs \in Nat

Blank == 4
Docs  == 1 .. MaxDocs

(* The pieces of the whole stream: the k-th is of this document.            *)
Piece(k) == [doc |-> ((k - 1) \div 7) + 1, part |-> ((k - 1) % 7) + 1]
Content(d) == [i \in 1 .. 7 |-> [doc |-> d, part |-> i]]
Unspaced(d) == [i \in 1 .. 6 |-> [doc |-> d, part |-> IF i < Blank THEN i ELSE i + 1]]

VARIABLES
    side,        \* which of the two handlers, "client" or "server"
    at,          \* pieces of the stream that have arrived or are lost
    buffer,      \* dataChunks, or chunks of the socket
    delivered,   \* the documents that were parsed and acted on, as they were
    received,    \* ghost: the documents that have arrived, every piece of them
    mistaken,    \* ghost: those that shared a packet, or had a tag cut in two
    trimmed      \* ghost: those that were cut next to their white space

framingVars == <<side, at, buffer, delivered, received, mistaken, trimmed>>

FramingInit ==
  /\ side \in {"client", "server"}
  /\ at = 0 /\ buffer = <<>> /\ delivered = <<>>
  /\ received = {} /\ mistaken = {} /\ trimmed = {}

-----------------------------------------------------------------------------
(* String.trim of a packet: a white space can be at either end of it.       *)
IsBlank(piece) == piece.part = Blank
TrimStart(s)   == IF s # <<>> /\ IsBlank(Head(s)) THEN Tail(s) ELSE s
TrimEnd(s)     == IF s # <<>> /\ IsBlank(s[Len(s)]) THEN SubSeq(s, 1, Len(s) - 1) ELSE s
Trim(s)        == TrimEnd(TrimStart(s))

(* The packet begins with "<mos>", or ends with "</mos>".                   *)
Begins(s) == Len(s) >= 2 /\ s[1].part = 1 /\ s[2].part = 2
Ends(s)  == Len(s) >= 2 /\ s[Len(s) - 1].part = 6 /\ s[Len(s)].part = 7

(* xml2js: what is well-formed is one element, or several in a row.         *)
Texts == {3, Blank, 5}
IsDocument(s) ==
  /\ Len(s) >= 4 /\ Begins(s) /\ Ends(s)
  /\ \A i \in 3 .. Len(s) - 2 : s[i].part \in Texts

IsDocuments(s) ==
  LET from[i \in 1 .. Len(s) + 1] ==
        \/ i = Len(s) + 1
        \/ \E j \in i .. Len(s) : IsDocument(SubSeq(s, i, j)) /\ from[j + 1]
  IN  s # <<>> /\ from[1]

(* Parse s; the buffer becomes rest unless the parser throws.  Several      *)
(* documents at once are an array without the fields that are looked for:   *)
(* the client takes it for an unknown message, the server for one of a      *)
(* device it does not know.  (A parser may also refuse them.)               *)
Parse(s, rest) ==
  \/ /\ IsDocument(s)
     /\ delivered' = Append(delivered, s) /\ buffer' = rest
  \/ ~IsDocument(s) /\ IsDocuments(s) /\ buffer' = rest /\ UNCHANGED delivered
  \/ ~IsDocument(s) /\ UNCHANGED <<buffer, delivered>>

(* _onData, and the data handler of _registerIncomingClient.  Only the      *)
(* client clears its buffer when a whole document arrives.                  *)
OnDataIgnoresMutant(packet) ==
  LET s == Trim(packet)
  IN  IF Begins(s) /\ Ends(s) THEN Parse(s, <<>>)
      ELSE IF Ends(s) THEN Parse(buffer \o s, <<>>)
      ELSE buffer' = (IF Begins(s) THEN s ELSE buffer) /\ UNCHANGED delivered

OnDataKeepsMutant(packet) ==
  LET s == Trim(packet)
  IN  IF Begins(s) /\ Ends(s) THEN Parse(s, buffer)
      ELSE IF Ends(s) THEN Parse(buffer \o s, <<>>)
      ELSE buffer' = (IF Begins(s) /\ buffer = <<>> THEN s ELSE buffer \o s)
           /\ UNCHANGED delivered

OnData(packet) ==
  LET s == Trim(packet)
  IN  IF Begins(s) /\ Ends(s)
      THEN Parse(s, IF side = "client" THEN <<>> ELSE buffer)
      ELSE IF Ends(s) THEN Parse(buffer \o s, <<>>)
      ELSE buffer' = (IF Begins(s) THEN s ELSE buffer \o s) /\ UNCHANGED delivered

-----------------------------------------------------------------------------

(* A packet of n pieces.                                                    *)
Arrives(n) ==
  /\ at + n <= 7 * MaxDocs
  /\ LET packet == [i \in 1 .. n |-> Piece(at + i)]
         docs   == {packet[i].doc : i \in 1 .. n}
         end    == packet[n]
     IN  /\ OnData(packet)
         /\ received' = received \cup {packet[i].doc : i \in {j \in 1 .. n : packet[j].part = 7}}
         /\ mistaken' = mistaken \cup
              IF packet[1].doc # end.doc \/ end.part \in {1, 6} THEN docs ELSE {}
         /\ trimmed' = trimmed \cup IF end.part \in {Blank - 1, Blank} THEN {end.doc} ELSE {}
  /\ at' = at + n /\ UNCHANGED side

(* The connection is lost and there is a new one, which the peer uses from  *)
(* some later document on.  A client keeps its buffer; on the other side    *)
(* there is a new socket with an empty one.                                 *)
Reconnect ==
  /\ \E d \in Docs : at < 7 * d /\ at' = 7 * d
  /\ buffer' = IF side = "client" THEN buffer ELSE <<>>
  /\ UNCHANGED <<side, delivered, received, mistaken, trimmed>>

FramingNext == Reconnect \/ \E n \in 1 .. 7 * MaxDocs : Arrives(n)

FramingSpec == FramingInit /\ [][FramingNext]_framingVars

-----------------------------------------------------------------------------

Position(piece) == 7 * (piece.doc - 1) + piece.part

(* The buffer is a subsequence of what has arrived.                         *)
FramingTypeOK ==
  /\ at \in 0 .. 7 * MaxDocs
  /\ side \in {"client", "server"}
  /\ received \subseteq Docs /\ mistaken \subseteq Docs /\ trimmed \subseteq Docs
  /\ \A i \in DOMAIN buffer : Position(buffer[i]) \in 1 .. at
  /\ \A i \in 2 .. Len(buffer) : Position(buffer[i - 1]) < Position(buffer[i])

(* Document d, but for white space.                                         *)
SameText(s, d) == s \in {Content(d), Unspaced(d)}

(* Nothing is acted on that was not sent: what is delivered is, but for     *)
(* white space, a document of the peer; each at most once, in their order.  *)
NothingIsInvented ==
  /\ \A i \in 1 .. Len(delivered) : SameText(delivered[i], delivered[i][1].doc)
  /\ \A i, j \in 1 .. Len(delivered) :
       i < j => delivered[i][1].doc < delivered[j][1].doc

(* Every document that has arrived is delivered, however it was cut, and    *)
(* whatever was lost or broken before it; but for those in a packet with    *)
(* others, and those whose "<mos>" or "</mos>" was cut in two.              *)
ReceivedIsDelivered ==
  \A d \in received \ mistaken : \E i \in 1 .. Len(delivered) : SameText(delivered[i], d)

(* A document that is delivered is the one that was sent, but for those of  *)
(* which a packet ends next to a white space.                               *)
DeliveredIsUnchanged ==
  \A i \in 1 .. Len(delivered) :
    delivered[i][1].doc \notin trimmed => delivered[i] = Content(delivered[i][1].doc)

(* What a handler acts on is what the peer has sent.                         *)
DeliveredIsSent == FramingTypeOK /\ NothingIsInvented /\ DeliveredIsUnchanged
=============================================================================
