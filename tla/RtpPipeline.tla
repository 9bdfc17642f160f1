---------------------------- MODULE RtpPipeline -----------------------------
(***************************************************************************)
(* RtpPipeline::process on one RTP packet: the wait_keyframe gate, removal *)
(* of RTP padding, and the in-place removal of null packets from an        *)
(* MPEG-TS payload.                                                        *)
(*                                                                         *)
(* A payload is a sequence of units; TsSize of them (188 bytes) make a TS  *)
(* packet.  The first unit of a TS packet says what the code reads from    *)
(* its header and adaptation field or finds by scanning it:                *)
(*   "key"      a random access indicator, a parameter set or an IDR       *)
(*   "pat"      PID 0                                                      *)
(*   "pes"      a start code that is no video NAL unit but reads as one,   *)
(*              as 00 00 01 C0, the header of an audio PES, does for a VPS *)
(*   "null"     PID 0x1FFF                                                 *)
(*   "nullkey"  PID 0x1FFF, with any of the signs of a keyframe            *)
(*   "av"       any other packet                                           *)
(* Every other unit is a byte that is no sync byte.                        *)
(***************************************************************************)
EXTENDS Integers, Sequences, FiniteSets

CONSTANT TsSize   \* units of a TS packet

ASSUME TsSizeAssumption == TsSize \in Nat \ {0}

Sync == {"key", "pat", "pes", "null", "nullkey", "av"}

\* What check_keyframe takes for a point to start from, and what stripping removes.
Accepted == {"key", "pat", "pes", "nullkey"}
Nulls    == {"null", "nullkey"}

\* A datagram d:
\*   d.rtp     at least 12 bytes, version 2
\*   d.header  get_payload_offset succeeds
\*   d.pad     the padding bit; d.last, the value of the last byte
\*   d.body    what follows the header, padding included

Datagram == [rtp : BOOLEAN, header : BOOLEAN, pad : BOOLEAN, last : Nat, body : Seq(STRING)]

Packets(u)     == Len(u) \div TsSize
Offset(i)      == (i - 1) * TsSize       \* units before the i-th TS packet
First(u, i)    == u[Offset(i) + 1]
IsTs(u)        == Len(u) >= TsSize /\ u[1] \in Sync

\* check_keyframe.
CheckKeyframe(d) ==
  /\ d.header /\ IsTs(d.body)
  /\ \E i \in 1..Packets(d.body) : First(d.body, i) \in Accepted

\* The padding is believed when its length fits into the payload.
Unpadded(d) ==
  IF d.pad /\ d.last \in 1..Len(d.body) THEN SubSeq(d.body, 1, Len(d.body) - d.last)
  ELSE d.body

\* What check_keyframe takes for granted: in a packet that opens the gate, what it accepts
\* stands before the padding, which it does not look for, and is no null packet, which it
\* does not exclude; and every TS packet begins with the sync byte, of which it tests only
\* the first.
WellFormed(d) ==
  CheckKeyframe(d) =>
    LET n == Packets(Unpadded(d)) IN
    /\ \E i \in 1..n : First(Unpadded(d), i) \in Accepted \ Nulls
    /\ \A i \in 1..n : First(Unpadded(d), i) \in Sync

\* memmove of one TS packet, from i units into u to w units into it.
Moved(u, w, i) ==
  [k \in DOMAIN u |-> IF k - w \in 1..TsSize THEN u[k - w + i] ELSE u[k]]

\* Mutant: the loop runs while i + 188 < payload_len.
WithoutNull_Short(u) ==
  LET n == (Len(u) - 1) \div TsSize
      loop[i \in 0..n] ==
        IF i = 0 THEN [buf |-> u, len |-> 0]
        ELSE LET s == loop[i - 1] IN
             IF First(s.buf, i) \in Nulls THEN s
             ELSE [buf |-> Moved(s.buf, s.len, Offset(i)), len |-> s.len + TsSize]
  IN SubSeq(loop[n].buf, 1, loop[n].len)

\* The loop over the TS packets of a payload: the ones to keep are moved to the front,
\* in the buffer that is being read.
WithoutNull(u) ==
  LET n == Packets(u)
      loop[i \in 0..n] ==
        IF i = 0 THEN [buf |-> u, len |-> 0]
        ELSE LET s == loop[i - 1] IN
             IF First(s.buf, i) \in Nulls THEN s
             ELSE [buf |-> Moved(s.buf, s.len, Offset(i)), len |-> s.len + TsSize]
  IN SubSeq(loop[n].buf, 1, loop[n].len)

\* strip_rtp_padding_and_ts_null, with isStripPadding() = on.
Stripped(d, on) ==
  IF ~on \/ ~d.header THEN d.body
  ELSE IF IsTs(Unpadded(d)) THEN WithoutNull(Unpadded(d)) ELSE Unpadded(d)

\* The gate: a packet that is not RTP, or comes before the first one that check_keyframe accepts, stops
\* here.
Opens(d, waiting) == d.rtp /\ (waiting => CheckKeyframe(d))

\* process returns false when stripping leaves nothing of the packet; without TS
\* content the header at least is left.
Empties(d, on) ==
  on /\ d.header /\ IsTs(Unpadded(d)) /\ WithoutNull(Unpadded(d)) = <<>>

Passes(d, waiting, on) == Opens(d, waiting) /\ ~Empties(d, on)

\* What stripping is meant to leave, as a definition without a loop: the TS packets
\* that are not null packets, whole and in order.
NotNull(u, i) == {j \in 1..i : First(u, j) \notin Nulls}

Kept(u) ==
  LET kept == NotNull(u, Packets(u))
      Nth(n) == CHOOSE i \in kept : Cardinality(NotNull(u, i)) = n
  IN [k \in 1..(Cardinality(kept) * TsSize) |->
        u[Offset(Nth((k - 1) \div TsSize + 1)) + ((k - 1) % TsSize) + 1]]
=============================================================================
