------------------------------- MODULE Wire -------------------------------
(***************************************************************************)
(* The libvirt wire format: the XDR writer and reader of                   *)
(* crates/hypervisor/src/xdr.rs, the packets of rpc.rs, and the arguments  *)
(* and results of each procedure.  A state is one input: a call, the reply *)
(* the daemon gives, and what is done to the bytes on the way.             *)
(*                                                                         *)
(* A word is four bytes and a hyper eight, as in the code; a byte has Base *)
(* values in place of 256, so numbers are smaller, and the greatest byte   *)
(* stands for bytes that are no UTF-8.                                     *)
(***************************************************************************)
EXTENDS Integers, Sequences, SequencesExt

CONSTANTS Base,             \* values of a byte (256)
          MAX_VALUE_LENGTH, \* longest string (16 MiB)
          MAX_PACKET_LENGTH \* longest packet (16 MiB)

VARIABLE wire

wirevars == <<wire>>

ALIGNMENT == 4
HEADER_LENGTH == 28
PROGRAM == 134
PROTOCOL_VERSION == 1
PACKET_CALL == 0
PACKET_REPLY == 1
PACKET_MESSAGE == 2
STATUS_OK == 0
STATUS_ERROR == 1

Digits(v, n) == [i \in 1..n |-> (v \div Base^(n - i)) % Base]
Number(bytes) == FoldLeft(LAMBDA acc, b : acc * Base + b, 0, bytes)
Zeros(n) == [i \in 1..n |-> 0]

\* Mutant of Padding: an aligned value is padded by a whole word.
PaddingAlways(n) == ALIGNMENT - (n % ALIGNMENT)

Padding(n) == (ALIGNMENT - (n % ALIGNMENT)) % ALIGNMENT

-----------------------------------------------------------------------------
(* Writer.                                                                 *)

w_u32(v) == Digits(v, 4)
w_i32(v) == Digits(v % Base^4, 4)
w_fixed_opaque(bytes) == bytes \o Zeros(Padding(Len(bytes)))
w_string(bytes) == w_u32(Len(bytes)) \o w_fixed_opaque(bytes)
w_optional_string(some) == IF some = <<>> THEN w_u32(0) ELSE w_u32(1) \o w_string(some[1])

\* A field by its kind.  An optional string is a sequence of at most one.
Write(kind, v) ==
  CASE kind = "u32" -> w_u32(v)
    [] kind = "i32" -> w_i32(v)
    [] kind = "uuid" -> w_fixed_opaque(v)
    [] kind = "string" -> w_string(v)
    [] kind = "optional" -> w_optional_string(v)

WriteAll(kinds, vs) == FoldLeft(LAMBDA acc, i : acc \o Write(kinds[i], vs[i]), <<>>, [i \in 1..Len(kinds) |-> i])

-----------------------------------------------------------------------------
(* Reader: the bytes, how far it has read, the value of the last read, and *)
(* the fields so far.  A read yields the reader behind it, or none.        *)

Reader(bytes) == [bytes |-> bytes, offset |-> 0, value |-> <<>>, got |-> <<>>]

take(r, n) ==
  IF r.offset + n > Len(r.bytes) THEN {}
  ELSE {[r EXCEPT !.value = SubSeq(r.bytes, r.offset + 1, r.offset + n), !.offset = @ + n]}

\* What a successful read makes of its bytes.
As(rs, Convert(_)) == {[r EXCEPT !.value = Convert(@)] : r \in rs}
Signed(v) == IF 2 * v >= Base^4 THEN v - Base^4 ELSE v

r_u32(r) == As(take(r, 4), Number)
r_i32(r) == As(r_u32(r), Signed)
r_u64(r) == As(take(r, 8), Number)

\* The padding is read and dropped; the value stays.
SkipPadding(r, n) == {[p EXCEPT !.value = r.value] : p \in take(r, Padding(n))}
r_fixed_opaque(r, n) == UNION {SkipPadding(v, n) : v \in take(r, n)}

r_opaque(r) == UNION {r_fixed_opaque(len, len.value) : len \in {l \in r_u32(r) : l.value <= MAX_VALUE_LENGTH}}

r_string(r) == {text \in r_opaque(r) : Base - 1 \notin ToSet(text.value)}

r_optional_string(r) ==
  UNION {CASE some.value = 0 -> {[some EXCEPT !.value = <<>>]}
           [] some.value = 1 -> {[text EXCEPT !.value = <<@>>] : text \in r_string(some)}
           [] OTHER -> {} : some \in r_u32(r)}

array_len(r) == {len \in r_u32(r) : len.value <= MAX_VALUE_LENGTH \div ALIGNMENT}

finish(rs) == {r \in rs : r.offset = Len(r.bytes)}

Push(rs) == {[r EXCEPT !.got = Append(@, r.value)] : r \in rs}

Read(r, kind) ==
  Push(CASE kind = "u32" -> r_u32(r)
         [] kind = "i32" -> r_i32(r)
         [] kind = "u64" -> r_u64(r)
         [] kind = "uuid" -> r_fixed_opaque(r, 16)
         [] kind = "string" -> r_string(r)
         [] kind = "optional" -> r_optional_string(r))

ReadAll(rs, kinds) == FoldLeft(LAMBDA acc, kind : UNION {Read(r, kind) : r \in acc}, rs, kinds)

Times(kinds, n) == FlattenSeq([i \in 1..n |-> kinds])

\* A counted array of records, then fields.  No array when its kinds are <<>>.
ReadResult(r, array, fields) ==
  ReadAll(IF array = <<>> THEN {r}
          ELSE UNION {ReadAll({len}, Times(array, len.value)) : len \in Push(array_len(r))}, fields)

-----------------------------------------------------------------------------
(* Packets.                                                                *)

encode_packet(h, payload) ==
  w_u32(HEADER_LENGTH + Len(payload)) \o w_u32(h.program) \o w_u32(h.version) \o w_u32(h.procedure)
    \o w_u32(h.packet_type) \o w_i32(h.serial) \o w_u32(h.status) \o payload

Word(bytes, start) == Number(SubSeq(bytes, start + 1, start + 4))

\* No packet, or one: a packet whose declared length is its length.
decode_packet(bytes) ==
  IF Len(bytes) < HEADER_LENGTH \/ Word(bytes, 0) # Len(bytes) \/ Len(bytes) > MAX_PACKET_LENGTH THEN {}
  ELSE {[header |-> [program |-> Word(bytes, 4), version |-> Word(bytes, 8), procedure |-> Word(bytes, 12),
                     packet_type |-> Word(bytes, 16), serial |-> Signed(Word(bytes, 20)),
                     status |-> Word(bytes, 24)],
         payload |-> SubSeq(bytes, HEADER_LENGTH + 1, Len(bytes))]}

\* From a stream, the next packet and what is left behind it.
read_packet(stream) ==
  LET length == Word(stream, 0) IN
  IF Len(stream) < 4 THEN [packet |-> {}, rest |-> <<>>]
  ELSE IF length \notin HEADER_LENGTH..MAX_PACKET_LENGTH \/ Len(stream) < length
  THEN [packet |-> {}, rest |-> <<>>]
  ELSE [packet |-> decode_packet(SubSeq(stream, 1, length)), rest |-> SubSeq(stream, length + 1, Len(stream))]

\* An error's code and message; later diagnostics are not read.
decode_error(payload) == ReadAll({Reader(payload)}, <<"i32", "i32", "optional", "i32">>)

\* payload, error or protocol: what the caller of a request gets.
process_reply(p, serial, procedure) ==
  LET h == p.header IN
  CASE \/ h.program # PROGRAM \/ h.version # PROTOCOL_VERSION \/ h.packet_type # PACKET_REPLY
       \/ h.serial # serial \/ h.procedure # procedure -> "protocol"
    [] OTHER -> IF h.status = STATUS_OK THEN "payload"
                ELSE IF h.status = STATUS_ERROR /\ decode_error(p.payload) # {} THEN "error" ELSE "protocol"

-----------------------------------------------------------------------------
(* Procedures: what each writes, and what it reads and finishes reading.   *)
(* A procedure without results leaves the payload unread.                  *)

Domain == <<"string", "uuid", "i32">>
Network == <<"string", "uuid">>
domain_stats == <<"u32", "u64", "u64", "u32", "u64">>
memory_stats == <<"i32", "u64">>

Call(number, args, array, fields) ==
  [number |-> number, args |-> args, array |-> array, fields |-> fields, reads |-> array \o fields # <<>>]

DomainCalls ==
  [domain_define_xml |-> Call(11, <<"string">>, <<>>, Domain),
   domain_create |-> Call(9, Domain, <<>>, <<>>),
   domain_shutdown |-> Call(33, Domain, <<>>, <<>>),
   domain_reboot |-> Call(27, Domain \o <<"u32">>, <<>>, <<>>),
   domain_destroy |-> Call(12, Domain, <<>>, <<>>),
   domain_undefine_flags |-> Call(231, Domain \o <<"u32">>, <<>>, <<>>),
   domain_set_autostart |-> Call(29, Domain \o <<"i32">>, <<>>, <<>>),
   domain_lookup_by_name |-> Call(23, <<"string">>, <<>>, Domain),
   domain_get_state |-> Call(212, Domain \o <<"u32">>, <<>>, <<"i32", "i32">>),
   domain_get_info |-> Call(16, Domain, <<>>, domain_stats),
   domain_memory_stats |-> Call(159, Domain \o <<"u32", "u32">>, memory_stats, <<>>),
   connect_list_all_domains |-> Call(273, <<"i32", "u32">>, Domain, <<"u32">>)]

NetworkCalls ==
  [network_lookup_by_name |-> Call(46, <<"string">>, <<>>, Network),
   network_define_xml |-> Call(41, <<"string">>, <<>>, Network),
   network_create |-> Call(39, Network, <<>>, <<>>),
   network_is_active |-> Call(152, Network, <<>>, <<"i32">>),
   network_set_autostart |-> Call(48, Network \o <<"i32">>, <<>>, <<>>)]

ConnectCalls ==
  [connect_open |-> Call(1, <<"optional", "u32">>, <<>>, <<>>),
   connect_close |-> Call(2, <<>>, <<>>, <<>>),
   capabilities |-> Call(7, <<>>, <<>>, <<"string">>),
   auth_list |-> Call(66, <<>>, <<"i32">>, <<>>),
   auth_polkit |-> Call(70, <<>>, <<>>, <<"i32">>)]

Procedures == {DomainCalls[c] : c \in DOMAIN DomainCalls} \cup {NetworkCalls[c] : c \in DOMAIN NetworkCalls}
                \cup {ConnectCalls[c] : c \in DOMAIN ConnectCalls}

-----------------------------------------------------------------------------
(* The inputs: a procedure, the length of its strings, the number its      *)
(* integers are made from, and how many records its array holds.           *)

Input == [call : Procedures, length : 0..5, number : 0..2, count : 0..2]

Init == wire \in {i \in Input : i.call.array = <<>> => i.count = 0}
Next == UNCHANGED wire

Text(n, k) == [i \in 1..n |-> (i * k) % (Base - 1)]

ValueOf(kind) ==
  CASE kind = "u32" -> wire.number
    [] kind = "i32" -> wire.number - 1
    [] kind = "u64" -> wire.number * Base^5 + 1
    [] kind = "uuid" -> Text(16, wire.number + 1)
    [] kind = "string" -> Text(wire.length, wire.number)
    [] kind = "optional" -> IF wire.number = 0 THEN <<>> ELSE <<Text(wire.length, wire.number)>>
ValuesOf(kinds) == [i \in 1..Len(kinds) |-> ValueOf(kinds[i])]

-----------------------------------------------------------------------------
(* The format as the daemon has it (RFC 4506), apart from the code's way.  *)

Aligned(bytes) == bytes \o Zeros(4 * ((Len(bytes) + 3) \div 4) - Len(bytes))
XdrString(bytes) == Digits(Len(bytes), 4) \o Aligned(bytes)
Xdr(kind, v) ==
  CASE kind \in {"u32", "i32"} -> Digits(v % Base^4, 4)
    [] kind = "u64" -> Digits(v, 8)
    [] kind = "uuid" -> Aligned(v)
    [] kind = "string" -> XdrString(v)
    [] kind = "optional" -> IF v = <<>> THEN Digits(0, 4) ELSE Digits(1, 4) \o XdrString(v[1])
XdrAll(kinds) == FlattenSeq([i \in 1..Len(kinds) |-> Xdr(kinds[i], ValueOf(kinds[i]))])

\* The reply's fields in order, and its bytes.
ReplyKinds == Times(wire.call.array, wire.count) \o wire.call.fields
Counted == IF wire.call.array = <<>> THEN <<>> ELSE <<wire.count>>
ReplyBytes == (IF wire.call.array = <<>> THEN <<>> ELSE Digits(wire.count, 4)) \o XdrAll(ReplyKinds)

WireTypeOK == wire \in Input

StrictPrefixes(bytes) == Prefixes(bytes) \ {bytes}
Decoded(payload) == finish(ReadResult(Reader(payload), wire.call.array, wire.call.fields))

\* Both sides mean the same bytes (xdr.rs Writer and Reader, rpc.rs).  The
\* arguments of every procedure are written as the format has them; its
\* results are read back in full, and a reply cut short anywhere, or longer
\* than its results, is refused and never taken for another value.  Packets
\* sent one behind the other are read back one by one, and a packet cut short
\* is none; a reply answers only the call with its serial and procedure.
WireSound ==
  LET call == wire.call
      reply == ReplyBytes
      header == [program |-> PROGRAM, version |-> PROTOCOL_VERSION, procedure |-> call.number,
                 packet_type |-> PACKET_REPLY, serial |-> wire.number - 1, status |-> STATUS_OK]
      event == encode_packet([header EXCEPT !.packet_type = PACKET_MESSAGE], <<>>)
      packet == encode_packet(header, reply)
      first == read_packet(event \o packet)
      second == read_packet(first.rest) IN
  /\ WriteAll(call.args, ValuesOf(call.args)) = XdrAll(call.args)
  /\ call.reads => /\ {r.got : r \in Decoded(reply)} = {Counted \o ValuesOf(ReplyKinds)}
                   /\ \A cut \in StrictPrefixes(reply) : Decoded(cut) = {}
                   /\ Decoded(reply \o Zeros(ALIGNMENT)) = {}
  /\ first.packet = {[header |-> [header EXCEPT !.packet_type = PACKET_MESSAGE], payload |-> <<>>]}
  /\ second.packet = {[header |-> header, payload |-> reply]} /\ second.rest = <<>>
  /\ \A cut \in StrictPrefixes(packet) : read_packet(cut).packet = {}
  /\ \A p \in second.packet, serial \in -1..1, other \in Procedures :
       process_reply(p, serial, other.number) = "payload" <=> serial = header.serial /\ other.number = call.number
  /\ LET code == wire.number - 1
         message == Text(wire.length, wire.number)
         error == XdrString(message)
         failed == Digits(code % Base^4, 4) \o Digits(0, 4) \o Digits(1, 4) \o error \o Digits(2, 4) \o error
     IN /\ process_reply([header |-> [header EXCEPT !.status = STATUS_ERROR], payload |-> failed],
                         header.serial, call.number) = "error"
        /\ {SubSeq(r.got, 1, 3) : r \in decode_error(failed)} = {<<code, 0, <<message>>>>}
=============================================================================
