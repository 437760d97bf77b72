---------------------------- MODULE WireCodecs ----------------------------
(***************************************************************************)
(* From a CoAP packet to the bytes of a connection and back:               *)
(* protocol/coap/packet.go, protocol/session/codec.go,                     *)
(* protocol/framing/framing.go and writeFrame of protocol/tcp/client.go.   *)
(* Several goroutines of one client write; the other side reads as         *)
(* ServeSession does.  Bytes are counted, not listed: of tokens, option    *)
(* values and payloads only the lengths matter, of an option's header      *)
(* every byte does.  Encryption and its MAC keep what is in a frame.       *)
(***************************************************************************)
EXTENDS Naturals, Sequences, FiniteSets

CONSTANTS
  FrameWriters,  \* goroutines that send on the connection
  Packets,       \* [id, token, options : Seq([number, length]), payload]: lengths
  MaxSends       \* bound of the packets sent

Width == 256 * 256   \* of 16 bits

\* Numbers are 16 bits wide; no packet the program builds has more than twelve options.
ASSUME WireAssumption ==
  /\ "nobody" \notin FrameWriters /\ MaxSends \in Nat
  /\ \A p \in Packets :
       /\ p = [id |-> p.id, token |-> p.token, options |-> p.options, payload |-> p.payload]
       /\ p.id # "none" /\ p.token \in Nat /\ p.payload \in Nat
       /\ p.options \in Seq([number : 0 .. Width - 1, length : Nat]) /\ Len(p.options) <= 12

VARIABLES
  sender,     \* the goroutines: label, packet, encoded packet
  writing,    \* who holds writeMutex, or "nobody"
  stream,     \* the connection: frame headers and bodies not yet read
  reading,    \* the reader: label, and the size it has read
  cut,        \* the connection has been closed
  sends,      \* how many packets have been sent
  written,    \* history: packets in the order their frames were begun
  received    \* history: packets in the order they were parsed

wireVars == <<sender, writing, stream, reading, cut, sends, written, received>>

MaxTokenSize == 8
payloadMarker == 255
BlockSize == 16
HMACSHA1Size == 20
MaxFrame == Width - 1            \* what WriteFrame lets through
DefaultMaxFrameSize == 64 * 1024 \* what ReadFrame lets through

Uint16(n) == n % Width
Byte(n) == n % 256

-----------------------------------------------------------------------------
\* Mutant: the middle range ends one later than its byte can tell.
EncodeExtendedLate(value) ==
  IF value < 13 THEN [nibble |-> value, extra |-> <<>>]
  ELSE IF value <= 269 THEN [nibble |-> 13, extra |-> <<Byte(value - 13)>>]
  ELSE [nibble |-> 14, extra |-> <<(value - 269) \div 256, Byte(value - 269)>>]

\* encodeExtended: a nibble, and up to two bytes more.
EncodeExtended(value) ==
  IF value < 13 THEN [nibble |-> value, extra |-> <<>>]
  ELSE IF value < 269 THEN [nibble |-> 13, extra |-> <<Byte(value - 13)>>]
  ELSE [nibble |-> 14, extra |-> <<(value - 269) \div 256, Byte(value - 269)>>]

\* decodeExtended; 15 is refused before.
DecodeExtended(nibble, extra) ==
  IF nibble = 14 THEN Uint16(extra[1] * 256 + extra[2] + 269)
  ELSE IF nibble = 13 THEN extra[1] + 13
  ELSE nibble

\* sort.Slice on at most 12 options is an insertion sort: equal numbers stay in order.
Sorted(options) ==
  LET before(i, j) == \/ options[i].number < options[j].number
                      \/ options[i].number = options[j].number /\ i <= j
      place(j) == {i \in DOMAIN options : before(i, j)}
      at(k) == CHOOSE j \in DOMAIN options : Cardinality(place(j)) = k
  IN [k \in DOMAIN options |-> options[at(k)]]

\* writeOption: the value's length is cut to 16 bits, the value is not.
WriteOption(option, previous) ==
  LET delta == EncodeExtended(Uint16(option.number + Width - previous))
      length == EncodeExtended(Uint16(option.length))
  IN [header |-> Byte(delta.nibble * 16 + length.nibble),
      delta |-> delta.extra, lengthExtra |-> length.extra, value |-> option.length]

\* Marshal.
Marshal(packet) ==
  LET options == Sorted(packet.options)
      previous(k) == IF k = 1 THEN 0 ELSE options[k - 1].number
  IN [id |-> packet.id, token |-> packet.token, payload |-> packet.payload,
      options |-> [k \in DOMAIN options |-> WriteOption(options[k], previous(k))]]

\* Parse: options until the marker or the end, each relative to the one before.  A
\* length that is not the value's leaves the reader in the middle of something else.
NotParsed == [id |-> "none", token |-> 0, payload |-> 0, options |-> <<>>]

Parse(plain) ==
  LET options == plain.options
      delta(k) == DecodeExtended(options[k].header \div 16, options[k].delta)
      length(k) == DecodeExtended(options[k].header % 16, options[k].lengthExtra)
      number[k \in 0 .. Len(options)] ==
        IF k = 0 THEN 0 ELSE Uint16(number[k - 1] + delta(k))
      readable == \A k \in DOMAIN options :
        /\ options[k].header # payloadMarker
        /\ options[k].header \div 16 # 15 /\ options[k].header % 16 # 15
        /\ length(k) = options[k].value
  IN IF ~readable THEN NotParsed
     ELSE [id |-> plain.id, token |-> plain.token, payload |-> plain.payload,
           options |-> [k \in DOMAIN options |->
                          [number |-> number[k], length |-> length(k)]]]

\* The length of an encoded packet: header, token, options, marker and payload.
PlainSize(plain) ==
  LET sum[k \in 0 .. Len(plain.options)] ==
        IF k = 0 THEN 0
        ELSE LET o == plain.options[k] IN
             sum[k - 1] + 1 + Len(o.delta) + Len(o.lengthExtra) + o.value
  IN 4 + plain.token + sum[Len(plain.options)]
       + (IF plain.payload > 0 THEN 1 + plain.payload ELSE 0)

-----------------------------------------------------------------------------
\* pkcs7Pad: one to sixteen bytes, each holding their number.
Padding(size) == BlockSize - (size % BlockSize)

\* Encrypt: IV, padded data, MAC.
SealedSize(size) == BlockSize + size + Padding(size) + HMACSHA1Size

\* Decrypt and pkcs7Unpad: the size of the data, if the frame is of Encrypt's making.
Unsealable(frame) ==
  LET cipher == frame.size - (HMACSHA1Size + BlockSize) IN
  /\ frame.size >= BlockSize + HMACSHA1Size + BlockSize
  /\ (cipher % BlockSize) = 0
  /\ frame.padding \in 1 .. BlockSize
  /\ cipher - frame.padding = PlainSize(frame.plain)

Frame(plain) == [size |-> SealedSize(PlainSize(plain)), plain |-> plain,
                 padding |-> Padding(PlainSize(plain))]

-----------------------------------------------------------------------------
NoSend == [pc |-> "idle", packet |-> NotParsed]

\* sendPacket, or an answer of the session loop: Marshal and Encrypt.
SendPacket(w, packet) ==
  /\ sender[w].pc = "idle"
  /\ sends < MaxSends
  /\ packet.token <= MaxTokenSize
  /\ sends' = sends + 1
  /\ sender' = [sender EXCEPT ![w] = [pc |-> "sealed", packet |-> packet]]
  /\ UNCHANGED <<writing, stream, reading, cut, written, received>>

\* Mutant: frames are written without the mutex.
WriteUnlocked(w) ==
  LET frame == Frame(Marshal(sender[w].packet)) IN
  /\ sender[w].pc = "sealed"
  /\ IF frame.size > MaxFrame
     THEN /\ sender' = [sender EXCEPT ![w] = NoSend]
          /\ UNCHANGED writing
     ELSE /\ sender' = [sender EXCEPT ![w].pc = "header"]
          /\ UNCHANGED writing
  /\ UNCHANGED <<stream, reading, cut, sends, written, received>>

\* writeFrame takes the mutex; WriteFrame refuses what two bytes cannot tell.
LockWrite(w) ==
  LET frame == Frame(Marshal(sender[w].packet)) IN
  /\ sender[w].pc = "sealed"
  /\ writing = "nobody"
  /\ IF frame.size > MaxFrame
     THEN /\ sender' = [sender EXCEPT ![w] = NoSend]
          /\ UNCHANGED writing
     ELSE /\ sender' = [sender EXCEPT ![w].pc = "header"]
          /\ writing' = w
  /\ UNCHANGED <<stream, reading, cut, sends, written, received>>

\* The first write: the size.
WriteHeader(w) ==
  LET frame == Frame(Marshal(sender[w].packet)) IN
  /\ sender[w].pc = "header"
  /\ ~cut
  /\ stream' = Append(stream, [kind |-> "header", size |-> Uint16(frame.size),
                               frame |-> frame])
  /\ written' = Append(written, sender[w].packet)
  /\ sender' = [sender EXCEPT ![w].pc = "body"]
  /\ UNCHANGED <<writing, reading, cut, sends, received>>

\* The second write: the frame.
WriteBody(w) ==
  LET frame == Frame(Marshal(sender[w].packet)) IN
  /\ sender[w].pc = "body"
  /\ ~cut
  /\ stream' = Append(stream, [kind |-> "body", size |-> frame.size, frame |-> frame])
  /\ sender' = [sender EXCEPT ![w] = NoSend]
  /\ writing' = "nobody"
  /\ UNCHANGED <<reading, cut, sends, written, received>>

\* A write on a closed connection fails, and the mutex is released.
WriteFails(w) ==
  /\ sender[w].pc \in {"header", "body"}
  /\ cut
  /\ sender' = [sender EXCEPT ![w] = NoSend]
  /\ writing' = "nobody"
  /\ UNCHANGED <<stream, reading, cut, sends, written, received>>

CloseConnection ==
  /\ ~cut
  /\ cut' = TRUE
  /\ UNCHANGED <<sender, writing, stream, reading, sends, written, received>>

\* ReadFrame: the size ...
ReadHeader ==
  /\ reading.pc = "header"
  /\ stream # <<>>
  /\ reading' = IF Head(stream).kind = "header" /\ Head(stream).size <= DefaultMaxFrameSize
                THEN [pc |-> "body", size |-> Head(stream).size]
                ELSE [pc |-> "failed", size |-> 0]
  /\ stream' = Tail(stream)
  /\ UNCHANGED <<sender, writing, cut, sends, written, received>>

\* ... and that many bytes; Decrypt; Parse.  Any error ends the session.
ReadBody ==
  LET piece == Head(stream)
      packet == Parse(piece.frame.plain)
      readable == /\ piece.kind = "body" /\ piece.size = reading.size
                  /\ Unsealable(piece.frame) /\ packet # NotParsed
  IN
  /\ reading.pc = "body"
  /\ stream # <<>>
  /\ stream' = Tail(stream)
  /\ reading' = [pc |-> IF readable THEN "header" ELSE "failed", size |-> 0]
  /\ received' = IF readable THEN Append(received, packet) ELSE received
  /\ UNCHANGED <<sender, writing, cut, sends, written>>

\* What has been written is read before the end of the stream is.
ReadEnd ==
  /\ cut /\ stream = <<>>
  /\ \A w \in FrameWriters : sender[w].pc \notin {"header", "body"}
  /\ reading.pc \in {"header", "body"}
  /\ reading' = [pc |-> "ended", size |-> 0]
  /\ UNCHANGED <<sender, writing, stream, cut, sends, written, received>>

WireInit ==
  /\ sender = [w \in FrameWriters |-> NoSend]
  /\ writing = "nobody"
  /\ stream = <<>>
  /\ reading = [pc |-> "header", size |-> 0]
  /\ cut = FALSE /\ sends = 0
  /\ written = <<>> /\ received = <<>>

WireNext ==
  \/ \E w \in FrameWriters :
       \/ \E packet \in Packets : SendPacket(w, packet)
       \/ LockWrite(w) \/ WriteHeader(w) \/ WriteBody(w) \/ WriteFails(w)
  \/ CloseConnection
  \/ ReadHeader \/ ReadBody \/ ReadEnd

WireSpec == WireInit /\ [][WireNext]_wireVars

-----------------------------------------------------------------------------
\* Types; writeMutex is held exactly by the goroutine between its two writes.
WireTypeOK ==
  /\ sends \in 0 .. MaxSends
  /\ reading.pc \in {"header", "body", "failed", "ended"}
  /\ \A w \in FrameWriters : writing = w <=> sender[w].pc \in {"header", "body"}
  /\ Len(received) <= Len(written)

\* Marshal, Encrypt, WriteFrame and back: types; and the other side gets the packets whose frames
\* were written, in that order, with their options sorted and otherwise as they were,
\* whatever their lengths and whoever wrote between; and the session never ends over a
\* frame that could not be read.  It takes the whole stack: an option value of more
\* than 65535 bytes would lose its length, had WriteFrame not refused the frame.
WireRoundTrip ==
  /\ WireTypeOK
  /\ reading.pc # "failed"
  /\ \A k \in DOMAIN received :
       received[k] = [written[k] EXCEPT !.options = Sorted(@)]
=============================================================================
