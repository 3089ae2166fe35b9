---------------------------- MODULE ResultLimits ----------------------------
(***************************************************************************)
(* src/src/core/result-limits.js: what happens to an adapter's answer      *)
(* between the driver and the client.  clampResult() caps it by rows and   *)
(* by bytes, buildEnvelope() says what was cut, and formatRows() renders   *)
(* it, re-truncating when it is given a budget of its own.  A row is the   *)
(* size of its JSON form.                                                  *)
(***************************************************************************)
EXTENDS Naturals, Sequences

CONSTANTS
    Payloads,       \* the payloads: [array, sizes, marked, why, left], see below
    RowLimits,      \* policy.maxRows
    ByteLimits,     \* policy.maxBytes
    Inflation,      \* what a row costs in a table beyond its JSON form
    HeadSize,       \* the header of a table
    NoteSize        \* the line that says how many rows were left out

ASSUME LimitsAssumption ==
    /\ RowLimits \subseteq Nat \ {0} /\ ByteLimits \subseteq Nat \ {0}
    /\ {Inflation, HeadSize, NoteSize} \subseteq Nat

\* A single value is one row.  An adapter may mark its answer as cut: marked is the flag, why
\* the reason given beside it or "none", left the rows it says it dropped.  Each is read by
\* itself: pageReport() of schema.js sets the flag and no reason.
ASSUME PayloadsAssumption ==
    \A p \in Payloads :
        /\ p.sizes \in Seq(Nat) /\ p.left \in Nat /\ {p.array, p.marked} \subseteq BOOLEAN
        /\ ~p.array => Len(p.sizes) = 1

VARIABLES
    payload,    \* the payload, with the marks of its adapter
    limits,     \* the limits and the format of the call
    step,       \* "clamp", "bytes", "enveloped", "rendering" or "rendered"
    kept,       \* how many rows are left
    dropped,    \* droppedRows
    reason,     \* why rows were cut here
    shown       \* the rows in the text

limitVars == <<payload, limits, step, kept, dropped, reason, shown>>

Formats == {"json", "jsonl", "csv"}

LimitsInit ==
    /\ payload \in Payloads
    /\ limits \in [maxRows : RowLimits, maxBytes : ByteLimits, format : Formats,
                   budget : {0} \cup ByteLimits]
    /\ step = "clamp" /\ kept = Len(payload.sizes)
    /\ dropped = payload.left
    /\ reason = "none" /\ shown = 0

Count == Len(payload.sizes)

\* The first n rows as JSON: two brackets, and a comma between rows.
RowsSize(n) ==
    LET sum[i \in 0 .. Count] == IF i = 0 THEN 0 ELSE sum[i - 1] + payload.sizes[i] IN sum[n]
JsonSize(n) == IF n = 0 THEN 2 ELSE 2 + RowsSize(n) + n - 1

\* A single value is kept whole or dropped.
ClampValue ==
    /\ step = "clamp" /\ ~payload.array
    /\ step' = "enveloped"
    /\ IF RowsSize(1) > limits.maxBytes
       THEN kept' = 0 /\ dropped' = dropped + 1 /\ reason' = "maxBytes"
       ELSE UNCHANGED <<kept, dropped, reason>>
    /\ UNCHANGED <<payload, limits, shown>>

\* ClampRows, whether or not there are so many rows.
ClampRows_Always ==
    /\ step = "clamp" /\ payload.array
    /\ step' = "bytes"
    /\ kept' = limits.maxRows
    /\ dropped' = IF kept > limits.maxRows THEN dropped + (kept - limits.maxRows) ELSE dropped
    /\ reason' = "maxRows"
    /\ UNCHANGED <<payload, limits, shown>>

\* Rows past maxRows go at once.
ClampRows ==
    /\ step = "clamp" /\ payload.array
    /\ step' = "bytes"
    /\ IF kept > limits.maxRows
       THEN /\ kept' = limits.maxRows
            /\ dropped' = dropped + (kept - limits.maxRows)
            /\ reason' = "maxRows"
       ELSE UNCHANGED <<kept, dropped, reason>>
    /\ UNCHANGED <<payload, limits, shown>>

\* DropLast, of a byte too many.
DropLast_AtTheLimit ==
    /\ step = "bytes" /\ kept > 0 /\ JsonSize(kept) >= limits.maxBytes
    /\ kept' = kept - 1 /\ dropped' = dropped + 1 /\ reason' = "maxBytes"
    /\ UNCHANGED <<payload, limits, step, shown>>

\* The last row goes while the array is over maxBytes.
DropLast ==
    /\ step = "bytes" /\ kept > 0 /\ JsonSize(kept) > limits.maxBytes
    /\ kept' = kept - 1 /\ dropped' = dropped + 1 /\ reason' = "maxBytes"
    /\ UNCHANGED <<payload, limits, step, shown>>

\* The clamp is through with an array.
Envelope ==
    /\ step = "bytes" /\ (kept = 0 \/ JsonSize(kept) <= limits.maxBytes)
    /\ step' = "enveloped"
    /\ UNCHANGED <<payload, limits, kept, dropped, reason, shown>>

\* What is returned of it: a value that is kept is truncated only if it is marked.
Truncated == payload.marked \/ (IF payload.array THEN dropped > 0 ELSE reason # "none")

\* LimitReason, were the adapter's word the last.
LimitReason_MarkFirst == IF payload.marked THEN payload.why ELSE reason

\* The reason of the cut made here, or the one given with the mark: there may be none.
LimitReason ==
    IF reason # "none" THEN reason ELSE IF payload.marked THEN payload.why ELSE "none"

\* buildEnvelope() keeps the reason of what is truncated.
EnvelopeReason == IF Truncated THEN LimitReason ELSE "none"

\* renderRows(): the text of the first n rows, with a note about the rest in a table.
TextSize(n) ==
    CASE limits.format = "json" -> JsonSize(n)
      [] limits.format = "jsonl" -> IF n = 0 THEN 0 ELSE RowsSize(n) + n - 1
      [] OTHER -> HeadSize + RowsSize(n) + n * Inflation + (IF n < kept THEN NoteSize ELSE 0)

Fits(n) == limits.budget = 0 \/ TextSize(n) <= limits.budget

\* formatRows(); a value has one rendering.
StartRendering ==
    /\ step = "enveloped"
    /\ step' = IF payload.array THEN "rendering" ELSE "rendered"
    /\ shown' = kept
    /\ UNCHANGED <<payload, limits, kept, dropped, reason>>

\* A quarter of what is left goes on each pass, and one row at least.
ShowFewer ==
    /\ step = "rendering" /\ ~Fits(shown) /\ shown > 0
    /\ shown' = shown - (shown + 3) \div 4
    /\ UNCHANGED <<payload, limits, step, kept, dropped, reason>>

Rendered ==
    /\ step = "rendering" /\ (Fits(shown) \/ shown = 0)
    /\ step' = "rendered"
    /\ UNCHANGED <<payload, limits, kept, dropped, reason, shown>>

LimitsNext ==
    \/ ClampValue \/ ClampRows \/ DropLast \/ Envelope
    \/ StartRendering \/ ShowFewer \/ Rendered

LimitsSpec == LimitsInit /\ [][LimitsNext]_limitVars

----------------------------------------------------------------------------
\* Properties.

LimitsTypeOK ==
    /\ step \in {"clamp", "bytes", "enveloped", "rendering", "rendered"}
    /\ kept \in 0 .. Count /\ shown \in 0 .. kept
    /\ dropped \in Nat /\ reason \in {"none", "maxRows", "maxBytes"}

\* The rows of an envelope are the longest prefix of the answer within both limits, and what was
\* cut is counted to the row (clampResult 368-443, and the README's "truncated means a prefix").
\* A cut made here is truncated and has the reason of the limit that made it, maxBytes when the
\* rows within maxRows are still too long, over any reason of the adapter's.  The adapter's own
\* cut is truncated too, with the reason it gave; it may have given none.
EnvelopeIsLongestPrefix ==
    step \in {"enveloped", "rendering", "rendered"} =>
        LET Size(n) == IF payload.array THEN JsonSize(n) ELSE RowsSize(n)
            InRows(n) == payload.array => n <= limits.maxRows
            Allowed(n) == n = 0 \/ (InRows(n) /\ Size(n) <= limits.maxBytes)
        IN  /\ Allowed(kept)
            /\ \A n \in kept + 1 .. Count : ~Allowed(n)
            /\ kept + dropped = Count + payload.left
            /\ Truncated <=> \/ kept < Count \/ payload.marked
                             \/ payload.array /\ payload.left > 0
            /\ EnvelopeReason =
                  IF kept < Count
                  THEN IF \E n \in kept + 1 .. Count : InRows(n) THEN "maxBytes" ELSE "maxRows"
                  ELSE IF payload.marked THEN payload.why ELSE "none"

\* json and jsonl cannot carry a note about rows left out of the text, so nothing is left out
\* of it: what fits maxBytes in the envelope fits it in the text.  A table within a budget is
\* within it, unless not even its header is.
TextHidesNothing ==
    step = "rendered" =>
        /\ (limits.format \in {"json", "jsonl"} /\ kept > 0 /\ limits.budget \in {0, limits.maxBytes})
              => shown = kept
        /\ (payload.array /\ shown > 0) => Fits(shown)

\* What the client is told of a result, in the envelope and in the text, is what it got.
ResultsAreHonest == EnvelopeIsLongestPrefix /\ TextHidesNothing
=============================================================================
