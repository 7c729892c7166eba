---------------------------- MODULE TcpAnalyzer ----------------------------
(***************************************************************************)
(* The streaming TCP accumulator of the network analyzer                   *)
(* (network_analyzer/analysis/tcp_analyzer.py): handshake times, resets,   *)
(* zero windows, and the classification of every data segment as new,      *)
(* out of order, retransmitted or spuriously retransmitted.                *)
(*                                                                         *)
(* State is kept per direction of a connection.  Connections do not share  *)
(* any, so the model has one connection and its two directions.  `segments'*)
(* is history: what was observed, in order.  The properties at the end     *)
(* restate each metric over that history, with sets of bytes where the     *)
(* code merges intervals.                                                  *)
(***************************************************************************)
EXTENDS Integers, Sequences, FiniteSets, SequencesExt, FiniteSetsExt, SortedSets

CONSTANT SeqSpace   \* sequence numbers wrap here (2^32 in the code)

ASSUME SeqSpaceAssumption == SeqSpace \in Nat \ {0}

Direction == {"out", "in"}
Reply(d) == IF d = "out" THEN "in" ELSE "out"

None == -1          \* a key that is not in the dictionary yet

\* A segment as packet_reader decodes it; `at' is the time of its record.
TcpSegment == [dir : Direction, seq : 0..(SeqSpace - 1), ack : 0..(SeqSpace - 1),
               payload : Nat, syn : BOOLEAN, ackFlag : BOOLEAN, fin : BOOLEAN,
               rst : BOOLEAN, window : Nat, at : Int]

VARIABLES
  segments,         \* history: the segments observed so far
  pendingSyns,      \* SYNs not answered yet: [dir, seq, at]
  rttSamples,       \* handshake times
  baseSeq,          \* first sequence number of a direction
  covered,          \* merged intervals <<start, end>> of relative bytes seen
  nextExpected,     \* contiguous frontier of a direction
  peerAck,          \* absolute acknowledgement kept for a direction's data
  seenControl,      \* SYN and FIN markers
  count             \* the five counters

tcpVars == <<segments, pendingSyns, rttSamples, baseSeq, covered, nextExpected,
             peerAck, seenControl, count>>

-----------------------------------------------------------------------------
(* Interval lists *)

Relative(seq, base) == (seq - base) % SeqSpace

Further(cursor, iv) == IF iv[1] <= cursor /\ iv[2] > cursor THEN iv[2] ELSE cursor

\* The end of what `intervals' cover without a gap from `cursor' on.
Reach(intervals, cursor) ==
  LET reached[n \in 0..Len(intervals)] ==
        IF n = 0 THEN cursor ELSE Further(reached[n - 1], intervals[n])
  IN  reached[Len(intervals)]

FullyCovered(intervals, start, end) == Reach(intervals, start) >= end

Overlaps(intervals, start, end) ==
  \E i \in DOMAIN intervals : intervals[i][2] > start /\ intervals[i][1] < end

Place(acc) == Append(acc.merged, <<acc.start, acc.end>>)

\* A mutant: intervals that touch stay apart.
AbsorbOverlapping(acc, iv) ==
  CASE iv[2] <= acc.start -> [acc EXCEPT !.merged = Append(@, iv)]
    [] iv[2] > acc.start /\ iv[1] > acc.end ->
         [acc EXCEPT !.merged = Append(IF acc.placed THEN @ ELSE Place(acc), iv),
                     !.placed = TRUE]
    [] OTHER -> [acc EXCEPT !.start = Min({@, iv[1]}), !.end = Max({@, iv[2]})]

\* One interval of the list: before the one being merged, after it, or part of it.
Absorb(acc, iv) ==
  CASE iv[2] < acc.start -> [acc EXCEPT !.merged = Append(@, iv)]
    [] iv[2] >= acc.start /\ iv[1] > acc.end ->
         [acc EXCEPT !.merged = Append(IF acc.placed THEN @ ELSE Place(acc), iv),
                     !.placed = TRUE]
    [] OTHER -> [acc EXCEPT !.start = Min({@, iv[1]}), !.end = Max({@, iv[2]})]

MergeInterval(intervals, start, end) ==
  LET acc[n \in 0..Len(intervals)] ==
        IF n = 0
        THEN [start |-> start, end |-> end, placed |-> FALSE, merged |-> <<>>]
        ELSE Absorb(acc[n - 1], intervals[n])
      done == acc[Len(intervals)]
  IN  IF done.placed THEN done.merged ELSE Place(done)

-----------------------------------------------------------------------------
(* Observing one segment: each operator gives the new value of one part    *)

TcpInit ==
  /\ segments = <<>>
  /\ pendingSyns = {}
  /\ rttSamples = <<>>
  /\ baseSeq = [d \in Direction |-> None]
  /\ covered = [d \in Direction |-> <<>>]
  /\ nextExpected = [d \in Direction |-> None]
  /\ peerAck = [d \in Direction |-> None]
  /\ seenControl = {}
  /\ count = [retransmission |-> 0, outOfOrder |-> 0, spurious |-> 0,
              zeroWindow |-> 0, reset |-> 0]

\* A mutant: it does.
RememberLatest(s) ==
  /\ pendingSyns' = {p \in pendingSyns : p.dir # s.dir \/ p.seq # s.seq}
                      \cup {[dir |-> s.dir, seq |-> s.seq, at |-> s.at]}
  /\ UNCHANGED rttSamples

\* A repeated SYN does not replace the remembered time.
Remember(s) ==
  /\ pendingSyns' = IF \E p \in pendingSyns : p.dir = s.dir /\ p.seq = s.seq
                    THEN pendingSyns
                    ELSE pendingSyns \cup {[dir |-> s.dir, seq |-> s.seq, at |-> s.at]}
  /\ UNCHANGED rttSamples

\* A SYN-ACK takes the SYN it answers; a negative time is discarded.
Answer(s) ==
  LET asked == {p \in pendingSyns : p.dir = Reply(s.dir)
                                     /\ p.seq = (s.ack - 1) % SeqSpace}
  IN  \/ asked = {} /\ UNCHANGED <<pendingSyns, rttSamples>>
      \/ \E p \in asked :
           /\ pendingSyns' = pendingSyns \ {p}
           /\ rttSamples' = IF s.at >= p.at THEN Append(rttSamples, s.at - p.at)
                                            ELSE rttSamples

ObserveHandshake(s) ==
  \/ s.syn /\ ~s.ackFlag /\ Remember(s)
  \/ s.syn /\ s.ackFlag /\ Answer(s)
  \/ ~s.syn /\ UNCHANGED <<pendingSyns, rttSamples>>

\* Does this acknowledgement replace the one kept for the data of d?
Advances(ack, d) ==
  IF peerAck[d] = None THEN TRUE
  ELSE IF baseSeq[d] = None THEN ack > peerAck[d]
  ELSE Relative(ack, baseSeq[d]) > Relative(peerAck[d], baseSeq[d])

NotePeerAck(s) ==
  peerAck' = IF s.ackFlag /\ Advances(s.ack, Reply(s.dir))
             THEN [peerAck EXCEPT ![Reply(s.dir)] = s.ack]
             ELSE peerAck

\* A mutant: sequence numbers compared as integers.
PeerHasAckedAbsolute(d, base, relativeEnd) ==
  peerAck[d] # None /\ peerAck[d] >= base + relativeEnd

\* Read after the base of d is known, so only the acknowledgement may be absent.
PeerHasAckedThrough(d, base, relativeEnd) ==
  peerAck[d] # None /\ Relative(peerAck[d], base) >= relativeEnd

\* Resets and zero windows, counted whatever else the segment is.
Flagged(s) ==
  [count EXCEPT !.reset = @ + (IF s.rst THEN 1 ELSE 0),
                !.zeroWindow = @ + (IF s.window = 0 /\ ~s.syn /\ ~s.rst THEN 1 ELSE 0)]

BumpFlagsOnly(s) == count' = Flagged(s)
Bump(field, s) == count' = [Flagged(s) EXCEPT ![field] = @ + 1]

\* Every byte was seen before.
ResendCovered(s, base, start, end) ==
  /\ FullyCovered(covered[s.dir], start, end)
  /\ Bump(IF PeerHasAckedThrough(s.dir, base, end) THEN "spurious" ELSE "retransmission", s)
  /\ UNCHANGED <<covered, nextExpected>>

\* Some byte is new.
CoverNew(s, start, end) ==
  LET expected == IF nextExpected[s.dir] = None THEN start ELSE nextExpected[s.dir]
      merged == MergeInterval(covered[s.dir], start, end)
  IN  /\ ~FullyCovered(covered[s.dir], start, end)
      /\ IF Overlaps(covered[s.dir], start, end) THEN Bump("retransmission", s)
         ELSE IF start > expected THEN Bump("outOfOrder", s)
         ELSE BumpFlagsOnly(s)
      /\ covered' = [covered EXCEPT ![s.dir] = merged]
      /\ nextExpected' = [nextExpected EXCEPT ![s.dir] = Reach(merged, expected)]

ObserveControl(s, relativeSeq) ==
  LET marker == <<s.dir, relativeSeq, IF s.syn THEN "SYN" ELSE "FIN">>
  IN  /\ IF marker \in seenControl
         THEN Bump("retransmission", s) /\ UNCHANGED seenControl
         ELSE BumpFlagsOnly(s) /\ seenControl' = seenControl \cup {marker}
      /\ UNCHANGED <<covered, nextExpected>>

ObserveRetransmission(s) ==
  LET base == IF baseSeq[s.dir] = None THEN s.seq ELSE baseSeq[s.dir]
      start == Relative(s.seq, base)
      end == start + s.payload
  IN  /\ baseSeq' = [baseSeq EXCEPT ![s.dir] = base]
      /\ \/ /\ s.payload > 0
            /\ ResendCovered(s, base, start, end) \/ CoverNew(s, start, end)
            /\ UNCHANGED seenControl
         \/ s.payload = 0 /\ (s.syn \/ s.fin) /\ ObserveControl(s, start)
         \/ /\ s.payload = 0 /\ ~s.syn /\ ~s.fin
            /\ BumpFlagsOnly(s)
            /\ UNCHANGED <<covered, nextExpected, seenControl>>

\* TcpAnalyzer.observe for a packet that carries a segment.
Observe(s) ==
  /\ segments' = Append(segments, s)
  /\ ObserveHandshake(s)
  /\ NotePeerAck(s)
  /\ ObserveRetransmission(s)

-----------------------------------------------------------------------------
(* The metrics, restated over the history *)

FirstSeq(d) == segments[Min({i \in DOMAIN segments : segments[i].dir = d})].seq
Start(i) == Relative(segments[i].seq, FirstSeq(segments[i].dir))
End(i) == Start(i) + segments[i].payload

\* The data segments of the same direction before i, and their bytes.
EarlierData(i) == {j \in 1..(i - 1) : segments[j].dir = segments[i].dir
                                        /\ segments[j].payload > 0}
BytesBefore(i) == UNION {Start(j)..(End(j) - 1) : j \in EarlierData(i)}

\* The first byte missing from `first' on: one of the ends, if any is.
FirstMissing(first, ends, bytes) ==
  CHOOSE n \in {first} \cup ends : n >= first /\ n \notin bytes /\ first..(n - 1) \subseteq bytes

\* The same after the start of the direction's first data.
FrontierBefore(i) ==
  LET first == IF EarlierData(i) = {} THEN Start(i) ELSE Start(Min(EarlierData(i)))
  IN  FirstMissing(first, {End(j) : j \in EarlierData(i)}, BytesBefore(i))

\* The peer has acknowledged every byte below `end': compared as sequence
\* numbers are, within half of their space.
AcknowledgedBefore(i, end) ==
  \E j \in 1..(i - 1) :
    /\ segments[j].dir = Reply(segments[i].dir)
    /\ segments[j].ackFlag
    /\ (segments[j].ack - (FirstSeq(segments[i].dir) + end)) % SeqSpace < SeqSpace \div 2

Class(i) ==
  LET own == Start(i)..(End(i) - 1)
      seen == BytesBefore(i)
  IN  CASE own = {} -> "none"
        [] own # {} /\ own \subseteq seen ->
             IF AcknowledgedBefore(i, End(i)) THEN "spurious" ELSE "retransmission"
        [] own # {} /\ ~(own \subseteq seen) ->
             IF own \cap seen # {} THEN "retransmission"
             ELSE IF Start(i) > FrontierBefore(i) THEN "outOfOrder" ELSE "new"

\* A SYN or FIN without payload that repeats one.
IsControl(i) == segments[i].payload = 0 /\ (segments[i].syn \/ segments[i].fin)
RepeatsControl(i) ==
  IsControl(i) /\ \E j \in 1..(i - 1) :
                    /\ IsControl(j) /\ segments[j].dir = segments[i].dir
                    /\ Start(j) = Start(i) /\ segments[j].syn = segments[i].syn

Number(P(_)) == Cardinality({i \in DOMAIN segments : P(i)})

\* The merged intervals are in order, do not touch, and hold exactly the bytes
\* seen: what _fully_covered and _overlaps rely on when they stop early.
CoverageIsBytesSeen ==
  \A d \in Direction :
    LET ivs == covered[d]
        data == {i \in DOMAIN segments : segments[i].dir = d /\ segments[i].payload > 0}
    IN  /\ \A k \in DOMAIN ivs : ivs[k][1] < ivs[k][2]
        /\ \A k \in 2..Len(ivs) : ivs[k - 1][2] < ivs[k][1]
        /\ UNION {iv[1]..(iv[2] - 1) : iv \in Range(ivs)}
             = UNION {Start(i)..(End(i) - 1) : i \in data}

\* In a capture that holds the start of the connection, merging intervals counts
\* what the sets of bytes say, in whichever order segments come and across a wrap of
\* the sequence numbers: bytes all seen before are a retransmission, or a spurious
\* one if the peer has acknowledged them; some new bytes beside old ones are a
\* retransmission, acknowledged or not; new bytes ahead of the frontier are out of
\* order.  The other counters count what they name.
CountersAgree ==
  /\ count.retransmission = Number(LAMBDA i : Class(i) = "retransmission")
                              + Number(RepeatsControl)
  /\ count.outOfOrder = Number(LAMBDA i : Class(i) = "outOfOrder")
  /\ count.spurious = Number(LAMBDA i : Class(i) = "spurious")
  /\ count.reset = Number(LAMBDA i : segments[i].rst)
  /\ count.zeroWindow = Number(LAMBDA i : segments[i].window = 0
                                           /\ ~segments[i].syn /\ ~segments[i].rst)

\* "Any overlap with already-covered bytes, without a peer ACK past the segment end"
\* (tcp_analyzer.py:185-186): what the peer has acknowledged is no retransmission.  It
\* does not hold (OverlapClaim.cfg): a partial overlap is one whatever was acknowledged.
AckedNotRetransmitted ==
  count.retransmission
    <= Number(LAMBDA i : Class(i) = "retransmission" /\ ~AcknowledgedBefore(i, End(i)))
         + Number(RepeatsControl)

\* "Fully covered bytes the peer has already acknowledged" (tcp_analyzer.py:187), in a
\* capture that begins in mid-connection as well.  It does not hold (MidCaptureClaim.cfg): an
\* acknowledgement below the first number seen of a direction is huge relative to it,
\* and every resend counts as spurious.
SpuriousWereAcknowledged == count.spurious = Number(LAMBDA i : Class(i) = "spurious")

\* k is a SYN-ACK for the SYN j.
Answers(k, j) ==
  /\ segments[k].syn /\ segments[k].ackFlag
  /\ segments[k].dir = Reply(segments[j].dir)
  /\ (segments[k].ack - 1) % SeqSpace = segments[j].seq

\* What the SYN-ACK i answers: the SYNs with its number since the last answer to them.
Asked(i) ==
  {j \in 1..(i - 1) : /\ segments[j].syn /\ ~segments[j].ackFlag
                      /\ Answers(i, j)
                      /\ ~\E k \in (j + 1)..(i - 1) : Answers(k, j)}

Elapsed(i) == IF Asked(i) = {} THEN -1
                               ELSE segments[i].at - segments[Min(Asked(i))].at

\* A run of SYNs with one number, sent again and again, gives one sample when it is
\* answered: the time since the first of the run, unless that is negative.  Further
\* answers give none.  A SYN repeated after an answer opens a run of its own, though
\* it may be of the handshake that is measured already.
HandshakesAgree ==
  LET measured == Ascending({i \in DOMAIN segments : Elapsed(i) >= 0})
  IN  rttSamples = [n \in DOMAIN measured |-> Elapsed(measured[n])]

\* "The first one wins" (tcp_analyzer.py:110-111), "the mean [...] over every handshake"
\* (network_analyzer/README.md:117-118): however often its SYN is repeated, a handshake
\* is measured once.  It does not hold (RepeatedSynClaim.cfg): the first answer forgets
\* the SYN (line 130), and one repeated after it is measured as another handshake.
OneSamplePerHandshake ==
  Len(rttSamples) <= Cardinality({<<s.dir, s.seq>> :
                       s \in {x \in Range(segments) : x.syn /\ ~x.ackFlag}})
=============================================================================
