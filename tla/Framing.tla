------------------------------ MODULE Framing ------------------------------
(***************************************************************************)
(* client_events of server/server.c and client_event_handler of              *)
(* client/client.c: how the byte stream of one connection becomes texts. TCP  *)
(* hands the bytes over in segments of its own choosing; a read takes what    *)
(* has come, up to MAX_MSGLEN bytes, and cJSON_Parse reads one value from the *)
(* start of the buffer and ignores what follows it. Nothing is kept from one  *)
(* read for the next. ServerLoop counts a text as one unit; here it has a     *)
(* length.                                                                  *)
(***************************************************************************)
EXTENDS Integers, Sequences, SequencesExt

CONSTANTS
  MAX_MSGLEN,     \* size of the read buffer, in bytes
  Lengths,        \* lengths of texts
  MaxTexts        \* bound: texts the device sends

ASSUME FramingAssumption ==
  /\ MAX_MSGLEN \in Nat \ {0}
  /\ Lengths \subseteq Nat \ {0}
  /\ MaxTexts \in Nat

VARIABLES
  ending,     \* what the device puts behind a text
  sent,       \* the lengths of the texts sent
  transit,    \* bytes on their way
  inbox,      \* bytes received and unread
  conn,       \* "up", "fin" or "rst" as the device left it, "closed";
              \* "dead" when the process has ended
  handled,    \* the texts client_event_handler has parsed, by their numbers
  alone       \* texts that came in one segment while nothing was unread

vars == <<ending, sent, transit, inbox, conn, handled, alone>>

(* Byte pos of text number text; the ending has the position after the last. *)
Texts == 1 .. MaxTexts
Bytes == [text : Texts, pos : Nat \ {0}]

Endings == {"none", "nul", "newline"}

IsEnding(b)  == b.pos > sent[b.text]
IsFirst(b)   == b.pos = 1

Init ==
  /\ ending \in Endings
  /\ sent = << >>
  /\ transit = << >>
  /\ inbox = << >>
  /\ conn = "up"
  /\ handled = << >>
  /\ alone = {}
------------------------------------------------------------------------------
(* The device and the network.                                             *)
BytesSent(length) == IF ending = "none" THEN length ELSE length + 1

Send(length) ==
  /\ conn = "up" /\ Len(sent) < MaxTexts
  /\ sent' = Append(sent, length)
  /\ transit' = transit \o [i \in 1 .. BytesSent(length) |->
                              [text |-> Len(sent) + 1, pos |-> i]]
  /\ UNCHANGED <<ending, inbox, conn, handled, alone>>

(* The texts that the first n bytes in transit begin with and contain.       *)
WholeInFront(bytes) ==
  {k \in 1 .. Len(sent) : /\ bytes # << >>
                          /\ bytes[1] = [text |-> k, pos |-> 1]
                          /\ sent[k] <= Len(bytes)}

Arrive(n) ==
  /\ conn \notin {"closed", "dead"}
  /\ inbox' = inbox \o SubSeq(transit, 1, n)
  /\ transit' = SubSeq(transit, n + 1, Len(transit))
  /\ alone' = IF inbox = << >>
                THEN alone \cup WholeInFront(SubSeq(transit, 1, n)) ELSE alone
  /\ UNCHANGED <<ending, sent, conn, handled>>

(* The device closes, or resets: what is in transit does not come any more.   *)
Leave ==
  /\ conn = "up"
  /\ \/ conn' = "fin" /\ UNCHANGED transit
     \/ conn' = "rst" /\ transit' = << >>
  /\ UNCHANGED <<ending, sent, inbox, handled, alone>>
------------------------------------------------------------------------------
(* read, and the buffer as client_event_handler sees it.                     *)
ChunkOneShort(bytes) ==
  SubSeq(bytes, 1, IF Len(bytes) < MAX_MSGLEN THEN Len(bytes) ELSE MAX_MSGLEN - 1)

Chunk(bytes) ==
  SubSeq(bytes, 1, IF Len(bytes) < MAX_MSGLEN THEN Len(bytes) ELSE MAX_MSGLEN)

(* cJSON_Parse skips white space in front of a value. A NUL there makes the   *)
(* length 0, and the handler returns.                                       *)
Skipped(chunk) ==
  IF ending = "newline" /\ IsEnding(chunk[1]) THEN Tail(chunk) ELSE chunk

(* The text it finds: the one the rest begins with, if it is there in whole.  *)
(* The end of a cut text may parse as a value of its own, but is an object    *)
(* with a "msgtype" only if texts are nested, which no text of this protocol  *)
(* is.                                                                      *)
Parsed(chunk) == WholeInFront(Skipped(chunk))

(* client_events, when read returns bytes. First: as if they could stay in    *)
(* the socket, and as if the handler waited for an ending.                   *)
ReadPeeking ==
  /\ conn # "dead" /\ inbox # << >>
  /\ \/ inbox' = SubSeq(inbox, Len(Chunk(inbox)) + 1, Len(inbox))
     \/ UNCHANGED inbox
  /\ handled' = handled \o SetToSeq(Parsed(Chunk(inbox)))
  /\ UNCHANGED <<ending, sent, transit, conn, alone>>

ReadWaitingForEnding ==
  /\ conn # "dead" /\ \E i \in DOMAIN inbox : IsEnding(inbox[i])
  /\ inbox' = SubSeq(inbox, Len(Chunk(inbox)) + 1, Len(inbox))
  /\ handled' = handled \o SetToSeq(Parsed(Chunk(inbox)))
  /\ UNCHANGED <<ending, sent, transit, conn, alone>>

Read ==
  /\ conn # "dead" /\ inbox # << >>
  /\ inbox' = SubSeq(inbox, Len(Chunk(inbox)) + 1, Len(inbox))
  /\ handled' = handled \o SetToSeq(Parsed(Chunk(inbox)))
  /\ UNCHANGED <<ending, sent, transit, conn, alone>>

(* A read that fills the buffer puts the terminator behind it, on a byte of   *)
(* the frame that the build chooses; the process may not survive that.        *)
ReadIsFatal ==
  /\ conn # "dead" /\ Len(Chunk(inbox)) = MAX_MSGLEN
  /\ conn' = "dead"
  /\ UNCHANGED <<ending, sent, transit, inbox, handled, alone>>

(* read returns -1 once after a reset, and 0 at the end of the stream. First:  *)
(* as if the hangup that poll reports were looked at before the data.        *)
ReadFails ==
  /\ inbox = << >> /\ conn = "rst"
  /\ conn' = "fin"
  /\ UNCHANGED <<ending, sent, transit, inbox, handled, alone>>

DisconnectOnHangup ==
  /\ conn = "fin"
  /\ conn' = "closed"
  /\ UNCHANGED <<ending, sent, transit, inbox, handled, alone>>

Disconnect ==
  /\ inbox = << >> /\ conn = "fin" /\ transit = << >>
  /\ conn' = "closed"
  /\ UNCHANGED <<ending, sent, transit, inbox, handled, alone>>
------------------------------------------------------------------------------
ServerStep == Read \/ ReadIsFatal \/ ReadFails \/ Disconnect

Next == \/ \E length \in Lengths : Send(length)
        \/ \E n \in 1 .. Len(transit) : Arrive(n)
        \/ Leave
        \/ ServerStep

Spec == Init /\ [][Next]_vars

FairSpec == Spec /\ WF_vars(ServerStep)
------------------------------------------------------------------------------
TypeOK ==
  /\ ending \in Endings
  /\ sent \in Seq(Lengths) /\ Len(sent) <= MaxTexts
  /\ transit \in Seq(Bytes) /\ inbox \in Seq(Bytes)
  /\ conn \in {"up", "fin", "rst", "closed", "dead"}
  /\ handled \in Seq(Texts)
  /\ alone \subseteq 1 .. Len(sent)
  /\ conn = "closed" => inbox = << >> /\ transit = << >>

(* Cut, merged and rejected texts are lost, but no text is handled twice, out  *)
(* of order or before it was sent.                                          *)
Channel == INSTANCE LossyChannel WITH offered <- Len(sent), taken <- handled

ImplementsLossyChannel == Channel!Spec

IsHandled(k) == \E i \in DOMAIN handled : handled[i] = k

Unread(k) == \E i \in DOMAIN inbox : inbox[i].text = k /\ inbox[i].pos <= sent[k]

(* A text is lost only in the company of another one, in pieces, or if it     *)
(* does not fit in the buffer: one that comes in one segment when everything  *)
(* before it has been read is handled, whatever was lost before it and        *)
(* whatever follows it into the same read.                                  *)
LostInCompanyOnly ==
  \A k \in alone : sent[k] <= MAX_MSGLEN => Unread(k) \/ IsHandled(k)

(* Such a text does not wait for others to come: the server thread handles it  *)
(* without a terminator, also when the device leaves behind it.              *)
LoneTextIsHandled ==
  \A k \in Texts :
    (k \in alone /\ sent[k] <= MAX_MSGLEN) ~> (IsHandled(k) \/ conn = "dead")
------------------------------------------------------------------------------
(* What comments of the code say and the code does not do.                  *)

(* "Handle the received message" (server.c:465): a text that has come whole   *)
(* and fits in the buffer is handled.                                       *)
WholeTextHandled ==
  \A k \in 1 .. Len(sent) :
    (sent[k] <= MAX_MSGLEN /\ conn = "up" /\ transit = << >> /\ inbox = << >>)
      => IsHandled(k)
=============================================================================
