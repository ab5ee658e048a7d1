---------------------------- MODULE PortCoverage ----------------------------
(***************************************************************************)
(* TCP port coverage as the scanner declares it and the parser reads it    *)
(* back: coverage.py and _coverage_ranges of xml_parser.py merge the terms *)
(* of a declaration into sorted ranges that neither overlap nor touch.     *)
(***************************************************************************)
EXTENDS Naturals, SequencesExt

PortRange(start, end) == [start |-> start, end |-> end]
PortRanges(lo, hi) == {r \in [start : lo..hi, end : lo..hi] : r.start <= r.end}

InRange(p, r) == r.start <= p /\ p <= r.end

Before(r, s) == r.start < s.start \/ (r.start = s.start /\ r.end < s.end)

(* Mutant: the later of two ranges that meet says where they end.           *)
MergeLatest(normalized, current) ==
    IF normalized # <<>> /\ current.start <= Last(normalized).end + 1
    THEN Append(Front(normalized), PortRange(Last(normalized).start, current.end))
    ELSE Append(normalized, current)

(* One turn of the merging loop.                                            *)
Merge(normalized, current) ==
    IF normalized # <<>> /\ current.start <= Last(normalized).end + 1
    THEN Append(Front(normalized),
                PortRange(Last(normalized).start, Max({Last(normalized).end, current.end})))
    ELSE Append(normalized, current)

(* parsed.sort(): a permutation of the terms that has them in order.        *)
Sort(terms) ==
    LET order == CHOOSE p \in [DOMAIN terms -> DOMAIN terms] :
                    /\ \A i \in DOMAIN terms : \E j \in DOMAIN terms : p[j] = i
                    /\ \A i, j \in DOMAIN terms : i < j => ~Before(terms[p[j]], terms[p[i]])
    IN  [i \in DOMAIN terms |-> terms[order[i]]]

Normalize(terms) ==
    LET parsed == Sort(terms)
        normalized[i \in 0..Len(parsed)] ==
            IF i = 0 THEN <<>> ELSE Merge(normalized[i - 1], parsed[i])
    IN  normalized[Len(parsed)]

(* PortCoverage.from_ports: one term for each port.                         *)
FromPorts(ports) == Normalize(SetToSeq({PortRange(p, p) : p \in ports}))

(* PortCoverage.contains and PortCoverage.count.                            *)
Covers(ranges, p) == \E r \in ToSet(ranges) : InRange(p, r)

Count(ranges) ==
    LET sum[i \in 0..Len(ranges)] ==
            IF i = 0 THEN 0 ELSE sum[i - 1] + (ranges[i].end - ranges[i].start + 1)
    IN  sum[Len(ranges)]

(* PortRange.render and PortCoverage.nmap_spec, by the length of the text:  *)
(* a port or two with a dash between them, and commas between the ranges.   *)
Digits(p) == Cardinality({k \in 0..4 : 10^k <= p})

SpecLength(ranges) ==
    LET render(r) == IF r.start = r.end THEN Digits(r.start)
                     ELSE Digits(r.start) + 1 + Digits(r.end)
        length[i \in 0..Len(ranges)] ==
            IF i = 0 THEN 0
            ELSE length[i - 1] + (IF i > 1 THEN 1 ELSE 0) + render(ranges[i])
    IN  length[Len(ranges)]
=============================================================================
