------------------------------ MODULE Capture -------------------------------
(***************************************************************************)
(* Packets that were captured on the wire: the rebuilding of a TCP flow    *)
(* (net_sniff_live.py) and the reading of capture files (_pcap.py).        *)
(*                                                                         *)
(* The bytes of a flow are 0, 1, 2, ... in the order they were sent.  A    *)
(* segment carries some consecutive ones and the sequence number of the    *)
(* first; a capture is the sequence of segments as they came by: some      *)
(* missing, some twice, cut differently when sent again, in any order.     *)
(***************************************************************************)
EXTENDS Integers, Sequences, SequencesExt

CONSTANTS
  SeqModulus,     \* sequence numbers are modulo this, 2^32 in TCP
  StreamLength,   \* the bytes of a flow
  MaxSegment,     \* the most that are sent at a time
  MaxStreamBytes  \* the most that are rebuilt of a flow

ASSUME CaptureAssumption ==
  /\ {SeqModulus, StreamLength, MaxSegment, MaxStreamBytes} \subseteq Nat \ {0}
  /\ StreamLength <= SeqModulus /\ SeqModulus > 1

Segment(isn, first, len) ==
  [seq |-> (isn + first) % SeqModulus, payload |-> [i \in 1..len |-> first + i - 1]]

Segments(isn) ==
  {Segment(isn, f[1], f[2]) : f \in {x \in (0..(StreamLength - 1)) \X (1..MaxSegment) :
                                       x[1] + x[2] <= StreamLength}}

\* Bound: at most three segments are captured, two where the numbers wrap.
Captures ==
  [isn : {0}, segs : UNION {[1..k -> Segments(0)] : k \in 1..3}]
    \union [isn : {SeqModulus - 2}, segs : UNION {[1..k -> Segments(SeqModulus - 2)] : k \in 1..2}]

Offset(seq, base) == (seq - base) % SeqModulus

\* Mutated: a segment that overlaps is appended whole.
ExtendWhole(buf, off, payload) ==
  IF off > Len(buf) \/ off + Len(payload) <= Len(buf) THEN buf ELSE buf \o payload

\* One round of the loop in _reassemble_stream; the length of the buffer is
\* the offset expected next.  What lies behind a gap stays out, as all that
\* follows lies behind it, too.
Extend(buf, off, payload) ==
  IF off > Len(buf) \/ off + Len(payload) <= Len(buf) THEN buf
  ELSE buf \o SubSeq(payload, Len(buf) - off + 1, Len(payload))

\* The smallest sequence number, and how far from it a segment begins.
Base(segs) == CHOOSE n \in {s.seq : s \in ToSet(segs)} : \A s \in ToSet(segs) : n <= s.seq
Off(segs, i) == Offset(segs[i].seq, Base(segs))

\* sorted() by that distance; it leaves segments of one distance as they came.
Foremost(segs, left) ==
  CHOOSE i \in left : \A j \in left : Off(segs, i) < Off(segs, j) \/ (Off(segs, i) = Off(segs, j) /\ i <= j)

\* The loop of _reassemble_stream: the buffer and the segments left, round by
\* round.
Begun(segs) == [buf |-> << >>, left |-> DOMAIN segs]
Round(segs, r) ==
  LET i == Foremost(segs, r.left)
  IN [buf |-> Extend(r.buf, Off(segs, i), segs[i].payload), left |-> r.left \ {i}]
Loop(segs) ==
  LET loop[k \in 0..Len(segs)] == IF k = 0 THEN Begun(segs) ELSE Round(segs, loop[k - 1])
  IN loop

\* _reassemble_stream: what the loop has gathered, up to the limit.
ReassembleStream(segs) ==
  LET stream == Loop(segs)[Len(segs)].buf
  IN SubSeq(stream, 1, IF Len(stream) < MaxStreamBytes THEN Len(stream) ELSE MaxStreamBytes)

\* _iter_handshake_messages, for a flow that begins with a hello of two bytes
\* and goes on with a certificate of one: the messages that are complete.
HandshakeMessages(stream) ==
  {m \in {<<0, 1>>, <<2>>} : \A b \in ToSet(m) : Len(stream) > b /\ stream[b + 1] = b}

-----------------------------------------------------------------------------
(***************************************************************************)
(* What was on the wire, for comparison: the run of captured bytes that    *)
(* starts with the first one captured.                                     *)
(***************************************************************************)
Captured(segs) == UNION {ToSet(s.payload) : s \in ToSet(segs)}

FirstRun(segs) ==
  LET bytes == Captured(segs)
      first == CHOOSE b \in bytes : \A c \in bytes : b <= c
  IN {b \in bytes : \A c \in first..b : c \in bytes /\ b < first + MaxStreamBytes}

\* The flow's sequence numbers pass zero among the captured bytes.
Wraps(isn, segs) ==
  \E b \in Captured(segs) : (isn + b) % SeqModulus < (isn + (CHOOSE c \in Captured(segs) :
                               \A d \in Captured(segs) : c <= d)) % SeqModulus

-----------------------------------------------------------------------------
(* Capture files *)

\* The packets of a file: a length that is zero or points behind the end
\* ends the reading.
IterPackets(file) ==
  IF file.form = "other" THEN {}
  ELSE {file.packets[i] : i \in {j \in DOMAIN file.packets :
                                   \A k \in 1..j : file.packets[k] # "bad_length"}}

\* parse_tls_handshake of a ClientHello in one packet: a message that goes on
\* in the next packet is cut off.  If the cut is before the extensions, the
\* cipher suites count; in the list of versions, struct.unpack fails and
\* nothing does.
ClientHello(p) ==
  CASE p = "hello"                 -> {"suites", "groups"}
    [] p = "hello_cut"             -> {"suites"}
    [] OTHER                       -> {}
=============================================================================
