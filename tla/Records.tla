------------------------------ MODULE Records ------------------------------
(***************************************************************************)
(* The binary records between the eBPF probes and the agent, and the       *)
(* enriched events between the agent and the server: the C structs of      *)
(* ebpf/headers, the offsets of agent/event.go and extended_event.go, the  *)
(* dispatch and length checks of ProcessRawEvent, and Enrich.  A record is *)
(* the value of each field and the bytes [from, to) the writer put it in;  *)
(* reading other bytes than exactly one field's gives Garbled.             *)
(***************************************************************************)
EXTENDS Integers, Sequences, SequencesExt, FiniteSetsExt, TLC

CONSTANT Boot      \* wall-clock time at which the node booted, in ns

ASSUME RecordsAssumption == Boot \in Nat

VARIABLES rec,     \* the record handed to ProcessRawEvent
          out      \* what became of it

vars == <<rec, out>>

Garbled == -1
Span(from, to) == <<from, to>>

-----------------------------------------------------------------------------
(* The probes: C lays the fields of a struct out in order, each aligned to *)
(* its element size, and pads the whole to the largest alignment.          *)

Up(n, a) == ((n + a - 1) \div a) * a

Struct(fields) ==   \* fields: <<name, size, alignment>>
  FoldLeft(LAMBDA s, f : LET at == Up(s.end, f[3]) IN
             [spans |-> (f[1] :> Span(at, at + f[2])) @@ s.spans,
              end |-> at + f[2], align |-> Max({s.align, f[3]})],
           [spans |-> <<>>, end |-> 0, align |-> 1], fields)
SizeOf(s) == Up(s.end, s.align)

kernel_event == Struct(<<
  <<"timestamp", 8, 8>>, <<"pid", 4, 4>>, <<"ppid", 4, 4>>, <<"tgid", 4, 4>>,
  <<"cgroup_id", 8, 8>>, <<"comm", 16, 1>>, <<"event_type", 1, 1>>,
  <<"syscall_nr", 4, 4>>, <<"ret_val", 8, 8>>, <<"entry_ts", 8, 8>>, <<"exit_ts", 8, 8>>,
  <<"slow_syscall", 1, 1>>, <<"child_pid", 4, 4>>, <<"exit_code", 4, 4>>,
  <<"critical_exit", 1, 1>>, <<"saddr", 4, 4>>, <<"daddr", 4, 4>>, <<"sport", 2, 2>>,
  <<"dport", 2, 2>>, <<"net_event_type", 1, 1>>, <<"rtt_us", 4, 4>> >>)

fill_extended_header ==
  [timestamp |-> Span(0, 8), pid |-> Span(8, 12), ppid |-> Span(12, 16),
   tgid |-> Span(16, 20), cgroup_id |-> Span(24, 32), comm |-> Span(32, 48),
   event_type |-> Span(48, 49), payload_len |-> Span(50, 52)]

payload_struct == [t \in 3..7 |-> Struct(
  CASE t = 3 -> << <<"file_path", 256, 1>>, <<"latency_ns", 8, 8>>, <<"bytes_xfer", 8, 8>>,
                   <<"slow_io", 1, 1>>, <<"op_type", 1, 1>> >>
    [] t = 4 -> << <<"sub_type", 1, 1>>, <<"killed_pid", 4, 4>>, <<"killed_comm", 16, 1>>,
                   <<"oom_score_adj", 4, 4>>, <<"page_order", 4, 4>>, <<"gfp_flags", 4, 4>> >>
    [] t = 5 -> << <<"domain", 253, 1>>, <<"latency_ns", 8, 8>>, <<"response_code", 2, 2>>,
                   <<"timed_out", 1, 1>> >>
    [] t = 6 -> << <<"cpu_usage_ns", 8, 8>>, <<"memory_usage_bytes", 8, 8>>,
                   <<"memory_limit_bytes", 8, 8>>, <<"memory_pressure", 1, 1>> >>
    [] t = 7 -> << <<"dst_addr", 4, 4>>, <<"dst_port", 2, 2>>, <<"protocol", 1, 1>> >>)]

-----------------------------------------------------------------------------
(* The agent's codecs: MarshalBinary and UnmarshalBinary of each type.     *)

KernelEventSize == 120
ExtendedEventHeaderSize == 52
PayloadSize == [t \in 3..7 |-> CASE t = 3 -> 280 [] t = 4 -> 36 [] t = 5 -> 268
                                 [] t = 6 -> 32  [] t = 7 -> 8]

Header == [timestamp |-> Span(0, 8), pid |-> Span(8, 12), ppid |-> Span(12, 16),
           tgid |-> Span(16, 20), cgroup_id |-> Span(24, 32), comm |-> Span(32, 48),
           event_type |-> Span(48, 49)]

KernelFields ==
  [syscall_nr |-> Span(52, 56), ret_val |-> Span(56, 64), entry_ts |-> Span(64, 72),
   exit_ts |-> Span(72, 80), slow_syscall |-> Span(80, 81), child_pid |-> Span(84, 88),
   exit_code |-> Span(88, 92), critical_exit |-> Span(92, 93), saddr |-> Span(96, 100),
   daddr |-> Span(100, 104), sport |-> Span(104, 106), dport |-> Span(106, 108),
   net_event_type |-> Span(108, 109), rtt_us |-> Span(112, 116)]

KernelMarshal == Header @@ KernelFields
\* The offsets as they would be without the padding after event_type.
FaultKernelUnmarshal == [syscall_nr |-> Span(49, 53)] @@ Header @@ KernelFields
KernelUnmarshal == Header @@ KernelFields

ExtendedCodec == Header @@ [payload_len |-> Span(50, 52)]

VFSPayload ==
  [file_path |-> Span(0, 256), latency_ns |-> Span(256, 264), bytes_xfer |-> Span(264, 272),
   slow_io |-> Span(272, 273), op_type |-> Span(273, 274)]
OOMPayload ==
  [sub_type |-> Span(0, 1), killed_pid |-> Span(4, 8), killed_comm |-> Span(8, 24),
   oom_score_adj |-> Span(24, 28), page_order |-> Span(28, 32), gfp_flags |-> Span(32, 36)]
DNSPayload ==
  [domain |-> Span(0, 253), latency_ns |-> Span(256, 264), response_code |-> Span(264, 266),
   timed_out |-> Span(266, 267)]
CgroupResourcePayload ==
  [cpu_usage_ns |-> Span(0, 8), memory_usage_bytes |-> Span(8, 16),
   memory_limit_bytes |-> Span(16, 24), memory_pressure |-> Span(24, 25)]
NetworkAuditPayload ==
  [dst_addr |-> Span(0, 4), dst_port |-> Span(4, 6), protocol |-> Span(6, 7)]

PayloadCodec == [t \in 3..7 |->
  CASE t = 3 -> VFSPayload [] t = 4 -> OOMPayload [] t = 5 -> DNSPayload
    [] t = 6 -> CgroupResourcePayload [] t = 7 -> NetworkAuditPayload]

\* Payload fields follow the extended header.
Shift(spans) == [f \in DOMAIN spans |->
  Span(spans[f][1] + ExtendedEventHeaderSize, spans[f][2] + ExtendedEventHeaderSize)]

-----------------------------------------------------------------------------
(* What is written into records.                                           *)

SLOW_SYSCALL_NS == 1000000000
RTT_HIGH_US == 500000
SLOW_IO_NS == 100000000
DNS_TIMEOUT_NS == 5000000     \* in microseconds: 5e9 is beyond TLC's integers
Kubelet == 1                  \* the comm "kubelet"; every other one is 2
Flag(b) == IF b THEN 1 ELSE 0

\* BPF_MAP_TYPE_ARRAY maps of one element: key 0 is there, and 0, from the start,
\* and neither the probes nor the agent write another value.
slow_io_threshold == [key \in {0} |-> 0]
dns_timeout_threshold == [key \in {0} |-> 0]
Threshold(map, default) == IF 0 \in DOMAIN map THEN map[0] ELSE default

FaultSlow(d) == d >= SLOW_SYSCALL_NS
Slow(d) == d > SLOW_SYSCALL_NS

\* What the probes measure and the flags they set from it, per event type; a
\* field that is not named here holds a value of its own.
ProbeMeasures(t) ==
  CASE t = 0 -> {[entry_ts |-> 5, exit_ts |-> 5 + d, slow_syscall |-> Flag(Slow(d))] :
                  d \in {0, SLOW_SYSCALL_NS, SLOW_SYSCALL_NS + 1}}
    [] t = 1 -> {[comm |-> c, exit_code |-> e, critical_exit |-> Flag(e # 0 /\ c = Kubelet)] :
                  c \in 1..2, e \in 0..1}
    [] t = 2 -> {[net_event_type |-> k, rtt_us |-> RTT_HIGH_US + d] :
                  <<k, d>> \in {<<0, 0>>, <<0, 1>>, <<1, 0>>, <<1, 1>>, <<2, 1>>}}
    [] t = 3 -> {[latency_ns |-> l, op_type |-> o,
                  slow_io |-> Flag(l > Threshold(slow_io_threshold, SLOW_IO_NS))] :
                  l \in {0, 1, SLOW_IO_NS, SLOW_IO_NS + 1}, o \in 0..1}
    [] t = 4 -> {[sub_type |-> 0]}
    [] t = 5 -> {[latency_ns |-> l,
                  timed_out |-> Flag(l > Threshold(dns_timeout_threshold, DNS_TIMEOUT_NS))] :
                  l \in {0, 1, DNS_TIMEOUT_NS, DNS_TIMEOUT_NS + 1}}
    [] t = 6 -> {[memory_pressure |-> 0]}
    [] t = 7 -> {[protocol |-> p] : p \in {1, 6, 17}}

\* Values only the agent's own encoder puts into a record.
CodecMeasures(t) ==
  CASE t = 4 -> {[sub_type |-> 1]} [] t = 6 -> {[memory_pressure |-> 1]}
    [] t = 8 -> {<<>>} [] OTHER -> ProbeMeasures(t)

\* The whole record of a writer: its fields' places, its length and the payload
\* length it states.
Layout(writer, t) ==
  CASE writer = "probe" /\ t <= 2 -> kernel_event.spans
    [] writer = "probe" /\ t > 2  -> fill_extended_header @@ Shift(payload_struct[t].spans)
    [] writer = "codec" /\ t <= 2 -> KernelMarshal
    [] writer = "codec" /\ t > 2  ->
         ExtendedCodec @@ (IF t = 8 THEN <<>> ELSE Shift(PayloadCodec[t]))
PayloadLen(writer, t) ==
  IF t = 8 THEN 0 ELSE IF writer = "probe" THEN SizeOf(payload_struct[t]) ELSE PayloadSize[t]
Whole(writer, t) ==
  IF t > 2 THEN ExtendedEventHeaderSize + PayloadLen(writer, t)
  ELSE IF writer = "probe" THEN SizeOf(kernel_event) ELSE KernelEventSize

\* A record of len bytes; payload lengths may be off by one in either direction.
Record(writer, t, m, len, off) ==
  LET spans == Layout(writer, t) IN
  [writer |-> writer, len |-> len, spans |-> spans, off |-> off,
   val |-> [f \in DOMAIN spans |->
              CASE f \in DOMAIN m -> m[f]
                [] f = "event_type" -> t
                [] f = "payload_len" -> PayloadLen(writer, t) + off
                [] OTHER -> 1000 + spans[f][1]]]

-----------------------------------------------------------------------------
(* ProcessRawEvent.                                                        *)

\* The value a reader of these bytes gets.
Read(span) ==
  LET fs == {f \in DOMAIN rec.spans : rec.spans[f] = span} IN
  IF fs = {} THEN Garbled ELSE rec.val[CHOOSE f \in fs : TRUE]
Decode(spans) == [f \in DOMAIN spans |-> Read(spans[f])]

EventType == Read(Header.event_type)
Plen == Read(ExtendedCodec.payload_len)

FaultMinLen == 48
MinLen == 49

\* Rejected with an error, or decoded: slicing beyond the data panics.
Checked(ok, spans, limit, then) ==
  CASE ~ok -> "rejected"
    [] ok /\ (\E f \in DOMAIN spans : spans[f][2] > limit) -> "panics"
    [] OTHER -> then

Fate ==
  LET payload == IF EventType \in 3..7 THEN Shift(PayloadCodec[EventType]) ELSE <<>> IN
  Checked(rec.len >= MinLen, [event_type |-> Header.event_type], rec.len,
    IF EventType <= 2
    THEN Checked(rec.len >= KernelEventSize, KernelUnmarshal, rec.len, "forwarded")
    ELSE Checked(rec.len >= ExtendedEventHeaderSize, ExtendedCodec, rec.len,
           Checked(rec.len >= ExtendedEventHeaderSize + Plen,
                   [payload |-> Span(52, 52 + Plen)], rec.len,
             Checked(EventType \in 3..7 => Plen >= PayloadSize[EventType], payload,
                     ExtendedEventHeaderSize + Plen, "forwarded"))))

KernelTypeString(t) ==
  CASE t = 0 -> "syscall" [] t = 1 -> "process" [] t = 2 -> "network"
ExtendedTypeString(t) ==
  CASE t = 3 -> "filesystem_io" [] t = 4 -> "memory_pressure" [] t = 5 -> "dns_resolution"
    [] t = 6 -> "cgroup_resource" [] t = 7 -> "network_audit" [] OTHER -> "unknown"

NetEventTypeString(n) ==
  CASE n = 0 -> "retransmit" [] n = 1 -> "reset" [] n = 2 -> "rtt_high" [] OTHER -> "unknown"

Enriched(d, type) ==
  [timestamp |-> d.timestamp, pid |-> d.pid, ppid |-> d.ppid, tgid |-> d.tgid,
   comm |-> d.comm, cgroupId |-> d.cgroup_id, eventType |-> type]

Enrich(d) == Enriched(d, KernelTypeString(d.event_type)) @@
  CASE d.event_type = 0 ->
         [syscallNr |-> d.syscall_nr, returnValue |-> d.ret_val,
          latencyNs |-> Max({0, d.exit_ts - d.entry_ts}), slowSyscall |-> d.slow_syscall = 1]
    [] d.event_type = 1 ->
         [childPid |-> d.child_pid, exitCode |-> d.exit_code, criticalExit |-> d.critical_exit = 1]
    [] d.event_type = 2 ->
         [srcAddr |-> d.saddr, dstAddr |-> d.daddr, srcPort |-> d.sport, dstPort |-> d.dport,
          netEventType |-> NetEventTypeString(d.net_event_type), rttUs |-> d.rtt_us]

EnrichExtended(d, p) == Enriched(d, ExtendedTypeString(d.event_type)) @@
  CASE d.event_type = 3 ->
         [filePath |-> p.file_path, ioLatencyNs |-> p.latency_ns, bytesXfer |-> p.bytes_xfer,
          slowIO |-> p.slow_io = 1, ioOpType |-> IF p.op_type = 0 THEN "read" ELSE "write"]
    [] d.event_type = 4 ->
         [oomSubType |-> IF p.sub_type = 0 THEN "oom_kill" ELSE "alloc_failure",
          killedPid |-> p.killed_pid, killedComm |-> p.killed_comm,
          oomScoreAdj |-> p.oom_score_adj, pageOrder |-> p.page_order, gfpFlags |-> p.gfp_flags]
    [] d.event_type = 5 ->
         [domain |-> p.domain, dnsLatencyNs |-> p.latency_ns,
          responseCode |-> p.response_code, timedOut |-> p.timed_out = 1]
    [] d.event_type = 6 ->
         [cpuUsageNs |-> p.cpu_usage_ns, memoryUsageBytes |-> p.memory_usage_bytes,
          memoryLimitBytes |-> p.memory_limit_bytes, memoryPressure |-> p.memory_pressure = 1]
    [] d.event_type = 7 ->
         [auditDstAddr |-> p.dst_addr, auditDstPort |-> p.dst_port,
          auditProtocol |-> CASE p.protocol = 6 -> "tcp" [] p.protocol = 17 -> "udp"
                              [] OTHER -> "proto"]
    [] OTHER -> <<>>

Forwarded ==
  IF EventType <= 2 THEN Enrich(Decode(KernelUnmarshal))
  ELSE EnrichExtended(Decode(ExtendedCodec),
         IF EventType \in 3..7 THEN Decode(Shift(PayloadCodec[EventType])) ELSE <<>>)

Idle == [fate |-> "none", event |-> <<>>]

Init == rec = Record("codec", 8, <<>>, 0, 0) /\ out = Idle

\* A probe submits a record; the codec also writes truncated ones, and ones
\* whose stated payload length is wrong.
Submit(t, m) ==
  /\ rec' = Record("probe", t, m, Whole("probe", t), 0)
  /\ out' = Idle
Marshal(t, m, len, off) ==
  /\ rec' = Record("codec", t, m, len, off)
  /\ out' = Idle

ProcessRawEvent ==
  /\ out = Idle
  /\ out' = [fate |-> Fate, event |-> IF Fate = "forwarded" THEN Forwarded ELSE <<>>]
  /\ UNCHANGED rec

Next ==
  \/ out # Idle /\ \E t \in 0..7 : \E m \in ProbeMeasures(t) : Submit(t, m)
  \/ out # Idle /\ \E t \in 0..8 : \E m \in CodecMeasures(t), off \in -1..1 :
       /\ off # 0 => t > 2
       /\ \E len \in {0, 48, 49, 51, 52, Whole("codec", t) - 1, Whole("codec", t)} :
            Marshal(t, m, len, off)
  \/ ProcessRawEvent

Spec == Init /\ [][Next]_vars

-----------------------------------------------------------------------------
(* Properties.                                                             *)

\* ValidateFlags, which no code but the tests calls.
ValidateFlags(d) ==
  CASE d.event_type = 0 -> (Max({0, d.exit_ts - d.entry_ts}) > SLOW_SYSCALL_NS) <=> (d.slow_syscall = 1)
    [] d.event_type = 1 -> (d.comm = Kubelet /\ d.exit_code # 0) <=> (d.critical_exit = 1)
    [] d.event_type = 2 -> (d.rtt_us > RTT_HIGH_US) <=> (d.net_event_type = 2)
    [] OTHER -> TRUE

\* Where the server reads what a probe wrote: <<field of the event, field of the record>>.
Carried(t) ==
  {<<"timestamp", "timestamp">>, <<"pid", "pid">>, <<"ppid", "ppid">>, <<"tgid", "tgid">>,
   <<"comm", "comm">>, <<"cgroupId", "cgroup_id">>} \cup
  CASE t = 0 -> {<<"syscallNr", "syscall_nr">>, <<"returnValue", "ret_val">>}
    [] t = 1 -> {<<"childPid", "child_pid">>, <<"exitCode", "exit_code">>}
    [] t = 2 -> {<<"srcAddr", "saddr">>, <<"dstAddr", "daddr">>, <<"srcPort", "sport">>,
                 <<"dstPort", "dport">>, <<"rttUs", "rtt_us">>}
    [] t = 3 -> {<<"filePath", "file_path">>, <<"ioLatencyNs", "latency_ns">>,
                 <<"bytesXfer", "bytes_xfer">>}
    [] t = 4 -> {<<"killedPid", "killed_pid">>, <<"killedComm", "killed_comm">>,
                 <<"oomScoreAdj", "oom_score_adj">>, <<"pageOrder", "page_order">>,
                 <<"gfpFlags", "gfp_flags">>}
    [] t = 5 -> {<<"domain", "domain">>, <<"dnsLatencyNs", "latency_ns">>,
                 <<"responseCode", "response_code">>}
    [] t = 6 -> {<<"cpuUsageNs", "cpu_usage_ns">>, <<"memoryUsageBytes", "memory_usage_bytes">>,
                 <<"memoryLimitBytes", "memory_limit_bytes">>}
    [] t = 7 -> {<<"auditDstAddr", "dst_addr">>, <<"auditDstPort", "dst_port">>}
    [] t = 8 -> {}

\* What the server's detectors ask of an event (server/prediction.go and
\* main.go), and the measurement it stands for.  An I/O operation is slow, and a
\* DNS answer timed out, when it took any time at all: the thresholds are 0.
Detected(t, e, v) ==
  CASE t = 0 -> /\ e.eventType = "syscall" /\ e.latencyNs = v.exit_ts - v.entry_ts
                /\ e.slowSyscall <=> v.exit_ts - v.entry_ts > SLOW_SYSCALL_NS
    [] t = 1 -> e.criticalExit <=> v.comm = Kubelet /\ v.exit_code # 0
    [] t = 2 -> /\ e.eventType = "network"
                /\ (e.netEventType = "retransmit") <=> (v.net_event_type = 0)
                /\ (e.netEventType = "rtt_high") <=> (v.net_event_type = 2)
    [] t = 3 -> /\ e.eventType = "filesystem_io" /\ e.ioOpType = <<"read", "write">>[v.op_type + 1]
                /\ e.slowIO <=> v.latency_ns > 0
    [] t = 4 -> e.eventType = "memory_pressure" /\ ((e.oomSubType = "oom_kill") <=> (v.sub_type = 0))
    [] t = 5 -> e.eventType = "dns_resolution" /\ (e.timedOut <=> v.latency_ns > 0)
    [] t = 6 -> e.eventType = "cgroup_resource" /\ (e.memoryPressure <=> v.memory_pressure = 1)
    [] t = 7 -> e.eventType = "network_audit" /\ ((e.auditProtocol = "udp") <=> (v.protocol = 17))
    [] t = 8 -> e.eventType = "unknown"

\* Every whole record, in the layout the C compiler gives the probes or in the
\* encoder's, is forwarded with each field in its place and under the names the
\* server's detectors look for.
WholeRecordsArrive ==
  LET t == rec.val.event_type IN
  out # Idle /\ rec.off = 0 /\ rec.len = Whole(rec.writer, t) =>
    /\ out.fate = "forwarded"
    /\ \A c \in Carried(t) : out.event[c[1]] = rec.val[c[2]]
    /\ Detected(t, out.event, rec.val)

\* However short a record is and whatever payload length it states,
\* ProcessRawEvent neither reads beyond it nor forwards it without all its fields.
TruncatedIsRejected ==
  /\ out.fate # "panics"
  /\ out.fate = "forwarded" => rec.len >= Whole(rec.writer, rec.val.event_type)

\* What leaves ProcessRawEvent is what a probe wrote, no less and nothing else.
DecodingIsExact == WholeRecordsArrive /\ TruncatedIsRejected

\* ValidateFlags holds of what the probes submit, except that a retransmission
\* or reset on a slow connection is not marked rtt_high (a retransmission is
\* followed by a second event that is).
FlagsAreConsistent ==
  out.fate = "forwarded" /\ rec.writer = "probe" /\ rec.val.event_type <= 2 =>
    LET d == Decode(KernelUnmarshal) IN
    \/ ValidateFlags(d)
    \/ d.event_type = 2 /\ d.net_event_type # 2 /\ d.rtt_us > RTT_HIGH_US

\* The timestamp of an enriched event is the time at which the probe fired.  It
\* is not: the probes stamp with bpf_ktime_get_ns, the time since boot, and
\* Enrich reads it as time since the epoch.
StampIsWallTime ==
  out.fate = "forwarded" /\ rec.writer = "probe" =>
    out.event.timestamp = Boot + rec.val.timestamp
=============================================================================
