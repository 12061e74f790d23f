--------------------------- MODULE LineAlgorithms ---------------------------
(***************************************************************************)
(* The line arithmetic of the piwpi harness: sets of lines kept as lists   *)
(* of closed 1-based ranges (ranges.ts, adapters/source.ts), and the two   *)
(* measures of how much a file changed (memory/diff.ts, fingerprint.ts).   *)
(* Lines, Missing and Shared at the end are the reference definitions the  *)
(* harness's properties compare the list algorithms with.                  *)
(***************************************************************************)
EXTENDS Integers, Sequences, FiniteSets, SequencesExt

NoNum == -1   \* an argument of read() that the model left out

Least(a, b) == IF a <= b THEN a ELSE b
Greatest(a, b) == IF a >= b THEN a ELSE b

----------------------------------------------------------------------------
(* Ranges.                                                                 *)

Before(r, s) == r.start < s.start \/ (r.start = s.start /\ r.end < s.end)

(* One round of the merge loop: r extends the last range of out when they  *)
(* overlap or touch, and starts a new one otherwise.                       *)
(* Mutant: touching ranges are kept apart.                                 *)
CoalesceOverlapping(out, r) ==
    IF out # <<>> /\ r.start <= Last(out).end
    THEN Front(out) \o <<[start |-> Last(out).start, end |-> Greatest(Last(out).end, r.end)]>>
    ELSE Append(out, r)

Coalesce(out, r) ==
    IF out # <<>> /\ r.start <= Last(out).end + 1
    THEN Front(out) \o <<[start |-> Last(out).start, end |-> Greatest(Last(out).end, r.end)]>>
    ELSE Append(out, r)

(* sort(): each range goes in front of the first one that comes after it.  *)
Inserted(out, r) ==
    InsertAt(out, Min({i \in DOMAIN out : Before(r, out[i])} \cup {Len(out) + 1}), r)

sorted(ranges) ==
    LET upTo[i \in 0..Len(ranges)] ==
            IF i = 0 THEN <<>> ELSE Inserted(upTo[i - 1], ranges[i])
    IN  upTo[Len(ranges)]

merged(ranges) ==
    LET upTo[i \in 0..Len(ranges)] ==
            IF i = 0 THEN <<>> ELSE Coalesce(upTo[i - 1], ranges[i])
    IN  upTo[Len(ranges)]

normalize(ranges) == merged(sorted(ranges))

mergeSegments(segments) == merged(sorted(segments))

(* Mutant: the cursor stays on the last covered line.                      *)
OntoEnd(cursor, r) == Greatest(cursor, r.end)

Beyond(cursor, r) == Greatest(cursor, r.end + 1)

(* The loop of subtract(), of its cursor and what is missing, for the next *)
(* range.  The ranges it skips or never reaches change nothing: they lie   *)
(* outside want, or the cursor has passed it.                              *)
Skip(acc, r, want) ==
    IF r.end < want.start \/ r.start > want.end \/ acc.cursor > want.end THEN acc
    ELSE [cursor  |-> Beyond(acc.cursor, r),
          missing |-> IF r.start > acc.cursor
                      THEN Append(acc.missing, [start |-> acc.cursor,
                                                end |-> Least(r.start - 1, want.end)])
                      ELSE acc.missing]

skipped(ranges, want) ==
    LET upTo[i \in 0..Len(ranges)] ==
            IF i = 0 THEN [cursor |-> want.start, missing |-> <<>>]
            ELSE Skip(upTo[i - 1], ranges[i], want)
    IN  upTo[Len(ranges)]

(* The parts of want that have leaves uncovered, in ascending order.       *)
subtract(have, want) ==
    LET done == skipped(normalize(have), want)
    IN  IF done.cursor <= want.end
        THEN Append(done.missing, [start |-> done.cursor, end |-> want.end])
        ELSE done.missing

(* clamp() of every range of a list; a range beyond the end is dropped.    *)
Kept(r, maxEnd) == maxEnd >= 1 /\ r.start <= maxEnd

clamp(r, maxEnd) == [start |-> r.start, end |-> Least(r.end, maxEnd)]

Clamped(out, r, maxEnd) == IF Kept(r, maxEnd) THEN Append(out, clamp(r, maxEnd)) ELSE out

clampAll(segments, maxEnd) ==
    LET upTo[i \in 0..Len(segments)] ==
            IF i = 0 THEN <<>> ELSE Clamped(upTo[i - 1], segments[i], maxEnd)
    IN  upTo[Len(segments)]

(* The range a read() asks for.                                            *)
rangeFromInput(input, totalLines) ==
    LET from == IF input.offset = NoNum THEN 1 ELSE Greatest(1, input.offset)
        to   == IF input.limit = NoNum THEN totalLines
                ELSE from + Greatest(0, input.limit) - 1
    IN  [start |-> from, end |-> Least(to, totalLines)]

----------------------------------------------------------------------------
(* How much a text changed.                                                *)

sliceText(lines, r) == SubSeq(lines, r.start, Least(r.end, Len(lines)))

(* n + m - 2 LCS.  The table of memory/diff.ts, as a function of how much  *)
(* of either side is read.  Its guard against more than MAX_LINES lines    *)
(* cannot be met: the cache keeps no text of such files to compare with.   *)
countChangedLines(oldLines, newLines) ==
    LET lcs[at \in (0..Len(oldLines)) \X (0..Len(newLines))] ==
            LET i == at[1]
                j == at[2]
            IN  IF i = 0 \/ j = 0 THEN 0
                ELSE IF oldLines[i] = newLines[j] THEN lcs[<<i - 1, j - 1>>] + 1
                     ELSE Greatest(lcs[<<i - 1, j>>], lcs[<<i, j - 1>>])
    IN  Len(oldLines) + Len(newLines) - 2 * lcs[<<Len(oldLines), Len(newLines)>>]

(* countDelta() of the fingerprints of two texts: a line of the new text   *)
(* is matched while one like it is left of the old one (hash collisions    *)
(* are left out).                                                          *)
countDelta(oldLines, newLines) ==
    LET left[i \in 0..Len(newLines)] ==
            IF i = 0 THEN oldLines ELSE RemoveFirst(left[i - 1], newLines[i])
        matched == Len(oldLines) - Len(left[Len(newLines)])
    IN  Len(oldLines) + Len(newLines) - 2 * matched

----------------------------------------------------------------------------
(* Reference definitions.                                                  *)

Lines(ranges) == UNION {r.start..r.end : r \in Range(ranges)}

Normal(ranges) ==
    /\ \A i \in DOMAIN ranges : 1 <= ranges[i].start /\ ranges[i].start <= ranges[i].end
    /\ \A i \in 1..(Len(ranges) - 1) : ranges[i].end + 1 < ranges[i + 1].start
=============================================================================
