------------------------------- MODULE Packet -------------------------------
(***************************************************************************)
(* Packets (src/io/packet.hpp, src/io/packet.cpp): a buffer of fixed size  *)
(* with three cursors.  A game server writes values into one packet and    *)
(* sends it; a peer with the same code receives header and body into       *)
(* another packet that it uses over and over, reads values from it and may *)
(* relay it.  Both sides are in the model so that what is read can be      *)
(* compared with what was written.                                         *)
(*                                                                         *)
(* Writing is not bounded by the code: a value that does not fit is put    *)
(* past the end of the buffer, which the model records in overrun.         *)
(***************************************************************************)
EXTENDS Integers, Sequences, SequencesExt

CONSTANTS Capacity,  \* bytes of Packet::_buffer, 1024 in the code
          Opcode,    \* the opcode of the packets sent
          Values,    \* the values written: records [type, bytes]
          MaxValues, \* bound: values of one packet
          MaxWire    \* bound: packets on the wire

Word == 65536  \* lengths and cursors are 16 bits wide

Size(type) == CASE type = "u8" -> 1 [] type = "u16" -> 2 [] type = "float" -> 4

ASSUME PacketAssumption ==
    /\ Capacity \in Nat /\ 4 <= Capacity /\ Capacity < Word
    /\ Opcode \in Nat /\ Opcode < Word
    /\ \A v \in Values : /\ v \in [type : {"u8", "u16", "float", "string"}, bytes : Seq(Nat)]
                         /\ IF v.type = "string" THEN Len(v.bytes) < Word
                                                ELSE Len(v.bytes) = Size(v.type)

VARIABLES out,      \* the packet being written
          written,  \* history: the values in it
          wire,     \* the bytes sent and not yet received
          sent,     \* history: the values of the packets on the wire
          in,       \* Client::_packet of the receiver
          received, \* history: bytes of the current packet in it
          stage,    \* the receiver awaits the "header" or "body" or is "reading"
          got,      \* history: the values read from the current packet
          misread,  \* a read of the current packet was of another type, or threw
          overrun   \* a write went past the end of the buffer

vars == <<out, written, wire, sent, in, received, stage, got, misread, overrun>>

U16(n) == <<n % 256, n \div 256>>
FromU16(bytes) == bytes[1] + 256 * bytes[2]

-----------------------------------------------------------------------------
(* Operations of one packet.                                                *)

Empty == [buffer |-> [i \in 0..(Capacity - 1) |-> 0], read |-> 0, size |-> 0, write |-> 0]

Reset(p) == [p EXCEPT !.read = 0, !.size = 0, !.write = 0]

WriteLen(p) == p.write  \* mutant: received bytes do not count
WholeBuffer(p) == Capacity  \* mutant: the bound is that of the buffer
BufferLen(p) == IF p.size > p.write THEN p.size ELSE p.write

(* Bytes placed in the buffer at a cursor; those past its end are lost here *)
(* and elsewhere in memory in the code.                                     *)
Place(buffer, at, bytes) ==
    [i \in DOMAIN buffer |->
        IF i >= at /\ i < at + Len(bytes) THEN bytes[i - at + 1] ELSE buffer[i]]

PutBytes(p, bytes) ==
    [p EXCEPT !.buffer = Place(@, p.write, bytes), !.write = (@ + Len(bytes)) % Word]

(* What operator<< writes for a value.                                      *)
Encode(v) == IF v.type = "string" THEN U16(Len(v.bytes)) \o v.bytes ELSE v.bytes

Put(p, v) == PutBytes(p, Encode(v))

Create(opcode) == PutBytes(PutBytes(Empty, U16(opcode)), U16(0))

Bytes(p, from, to) == [i \in 1..(to - from) |-> p.buffer[from + i - 1]]

(* recvBuffer and addSize.                                                  *)
Receive(p, bytes) == [p EXCEPT !.buffer = Place(@, p.size, bytes),
                               !.size = (@ + Len(bytes)) % Word]

(* Packet::copy: bytes that were received, ready to be read again.          *)
CopyOf(p, size) == Receive(Empty, Bytes(p, 0, size))

(* operator<< of a packet: its payload, however it got there.               *)
MaxOf(a, b) == IF a > b THEN a ELSE b
Payload(p) == Bytes(p, 4, MaxOf(4, MaxOf(p.read, MaxOf(p.size, p.write))))

(* sendBuffer fills in the length of the payload and hands out the bytes.   *)
LengthOfAll(p) == [p EXCEPT !.buffer = Place(@, 2, U16(p.write))]  \* mutant: with the header
FillLength(p) == [p EXCEPT !.buffer = Place(@, 2, U16((p.write - 4) % Word))]
SendBytes(p) == Bytes(FillLength(p), 0, p.write)

InBounds(p, from, n) == from + n <= BufferLen(p)

Peek(p, from, n) == Bytes(p, from, from + n)

(* The result of read: the packet afterwards, the value, and whether it     *)
(* threw ReadOutOfBounds.  A string is read in two steps, so that the       *)
(* cursor has passed its length when its bytes are found missing.           *)
Thrown(p) == [packet |-> p, value |-> [type |-> "none", bytes |-> << >>], threw |-> TRUE]

ReadInPlace(p, type, n) ==  \* mutant: the cursor does not advance
    IF ~InBounds(p, p.read, n) THEN Thrown(p)
    ELSE [packet |-> p, value |-> [type |-> type, bytes |-> Peek(p, p.read, n)],
          threw |-> FALSE]
ReadBytes(p, type, n) ==
    IF ~InBounds(p, p.read, n) THEN Thrown(p)
    ELSE [packet |-> [p EXCEPT !.read = (@ + n) % Word],
          value |-> [type |-> type, bytes |-> Peek(p, p.read, n)],
          threw |-> FALSE]

Read(p, type) ==
    IF type # "string" THEN ReadBytes(p, type, Size(type))
    ELSE LET length == ReadBytes(p, "u16", 2)
         IN  IF length.threw THEN length
             ELSE ReadBytes(length.packet, "string", FromU16(length.value.bytes))

-----------------------------------------------------------------------------
Init ==
    /\ out = Create(Opcode) /\ written = << >>
    /\ wire = << >> /\ sent = << >>
    /\ in = Empty /\ received = 0 /\ stage = "header" /\ got = << >>
    /\ misread = FALSE /\ overrun = FALSE

sender == <<out, written>>
receiver == <<in, received, stage, got, misread>>

Write(v) ==
    /\ ~overrun /\ Len(written) < MaxValues
    /\ IF out.write + Len(Encode(v)) > Capacity
       THEN overrun' = TRUE /\ UNCHANGED <<sender, wire, sent, receiver>>
       ELSE /\ out' = Put(out, v)
            /\ written' = Append(written, v)
            /\ UNCHANGED <<wire, sent, receiver, overrun>>

(* The packet received, or a copy of it, is put into a new one, whatever    *)
(* was read of it.                                                          *)
Relay ==
    /\ ~overrun /\ stage = "reading" /\ written = << >>
    /\ \E p \in {in, CopyOf(in, in.size)} :
          out' = PutBytes(Create(Opcode), Payload(p))
    /\ written' = Head(sent)
    /\ UNCHANGED <<wire, sent, receiver, overrun>>

(* Client::send; the next packet is created.                                *)
Send ==
    /\ ~overrun /\ Len(sent) < MaxWire
    /\ wire' = wire \o SendBytes(out)
    /\ sent' = Append(sent, written)
    /\ out' = Create(Opcode) /\ written' = << >>
    /\ UNCHANGED <<receiver, overrun>>

(* Client::scheduleRead with reset, of the header.                          *)
ReceiveHeader ==
    /\ ~overrun /\ stage = "header" /\ Len(wire) >= 4
    /\ in' = Receive(Reset(in), SubSeq(wire, 1, 4))
    /\ wire' = SubSeq(wire, 5, Len(wire))
    /\ received' = 4
    /\ stage' = "body" /\ got' = << >> /\ misread' = FALSE
    /\ UNCHANGED <<sender, sent, overrun>>

(* Client::scheduleRead of the length found in the header.                  *)
ReceiveBody ==
    /\ ~overrun /\ stage = "body"
    /\ LET length == FromU16(Peek(in, 2, 2))
       IN  /\ Len(wire) >= length
           /\ in' = [Receive(in, SubSeq(wire, 1, length)) EXCEPT !.read = 4]
           /\ wire' = SubSeq(wire, length + 1, Len(wire))
           /\ received' = received + length
    /\ stage' = "reading"
    /\ UNCHANGED <<sender, sent, got, misread, overrun>>

(* Server::handleRead takes a value from the packet.                        *)
ReadValue(type) ==
    /\ ~overrun /\ stage = "reading" /\ Len(got) < MaxValues
    /\ LET result == Read(in, type)
           expected == Len(got) < Len(Head(sent)) /\ Head(sent)[Len(got) + 1].type = type
       IN  /\ in' = result.packet
           /\ got' = IF result.threw THEN got ELSE Append(got, result.value)
           /\ misread' = (misread \/ result.threw \/ ~expected)
    /\ UNCHANGED <<sender, wire, sent, received, stage, overrun>>

(* The next packet is read into the same buffer.                            *)
NextPacket ==
    /\ ~overrun /\ stage = "reading"
    /\ stage' = "header"
    /\ sent' = Tail(sent)
    /\ UNCHANGED <<sender, wire, in, received, got, misread, overrun>>

Next ==
    \/ \E v \in Values : Write(v)
    \/ Relay \/ Send \/ ReceiveHeader \/ ReceiveBody \/ NextPacket
    \/ \E type \in {v.type : v \in Values} : ReadValue(type)
    \/ overrun /\ UNCHANGED vars

Spec == Init /\ [][Next]_vars
-----------------------------------------------------------------------------
(* What was written is read back, through any number of relays, as long as  *)
(* the receiver asks for the types that were written.                       *)
ReadsWhatWasWritten == stage = "reading" /\ ~misread => IsPrefix(got, Head(sent))

(* The bytes of the values, of a packet of them, and of several packets.    *)
Body(values) == FlattenSeq([i \in DOMAIN values |-> Encode(values[i])])
Packed(values) == U16(Opcode) \o U16(Len(Body(values))) \o Body(values)
Stream(packets) == FlattenSeq([i \in DOMAIN packets |-> Packed(packets[i])])

(* The receiver never loses step with the stream: between two packets, the  *)
(* bytes on the wire are whole packets, whatever was read of the last one.  *)
StreamInStep ==
    stage = "header" => wire = Stream(sent)

(* A read that does not throw returns bytes of this packet, never those a   *)
(* longer packet has left in the buffer.                                    *)
NoStaleBytes == stage = "reading" => in.read <= received /\ in.size = received

(* A value that was sent can always be read: ReadOutOfBounds is thrown only *)
(* after the receiver has asked for something that was not written.         *)
ThrowsOnlyOnMisread ==
    stage = "reading" /\ ~misread /\ Len(got) < Len(Head(sent)) =>
        ~Read(in, Head(sent)[Len(got) + 1].type).threw
=============================================================================
