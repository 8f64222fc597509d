----------------------------- MODULE LogRedactor -----------------------------
(***************************************************************************)
(* The redactor of build logs (buildworker/redactor.go). BuildKit delivers *)
(* a stream in chunks cut anywhere; the redactor assembles lines, omits    *)
(* oversized ones and replaces every pattern of a secret, longest first.   *)
(* Every stream has a buffer of its own, so one stream is modelled, from   *)
(* its first chunk to the flush when the solve ends.                       *)
(***************************************************************************)
EXTENDS Integers, Sequences, SequencesExt, FiniteSets

CONSTANTS
  Secrets,          \* values of the build's secrets
  LogChunks,        \* chunks BuildKit may deliver
  MaxLogLineBytes,
  MaxLogBytes       \* bound: length of the stream

Newline == "NL"
Mask == <<"*">>
Omitted == <<"omitted">>

\* Texts are sequences of letters. The mask and the notice are letters of
\* their own: what is part of their wording cannot be kept out of the log.
Letters == STRING \ {"*", "omitted"}

ASSUME RedactorAssumption ==
  /\ IsFiniteSet(Secrets) /\ \A s \in Secrets : s \in Seq(Letters) /\ s # <<>>
  /\ \A chunk \in LogChunks : chunk \in Seq(STRING)
  /\ MaxLogLineBytes \in Nat \ {0} /\ MaxLogBytes \in Nat

\* The lines of a text: the ones ended by a newline, and the rest.
LinesUpTo(text) ==
  LET upTo[n \in 0 .. Len(text)] ==
        IF n = 0 THEN [ended |-> <<>>, rest |-> <<>>]
        ELSE LET before == upTo[n - 1] IN
             IF text[n] = Newline
             THEN [ended |-> Append(before.ended, before.rest), rest |-> <<>>]
             ELSE [ended |-> before.ended, rest |-> Append(before.rest, text[n])]
  IN upTo
LinesOf(text) == LinesUpTo(text)[Len(text)]

\* NewRedactor: a secret as it is and each of its lines (the encodings of a
\* value are further patterns of the same kind).
Variants ==
  {p \in UNION {{s, LinesOf(s).rest} \cup Range(LinesOf(s).ended) : s \in Secrets} : p # <<>>}

\* Mutant: in the order in which the map yields them.
UnsortedRedactor == {s \in [1 .. Cardinality(Variants) -> Variants] : Range(s) = Variants}

\* Longest first, so that a secret that begins like a shorter one is masked
\* whole; patterns of one length in any order, as the map yields them.
NewRedactor ==
  {s \in [1 .. Cardinality(Variants) -> Variants] :
     Range(s) = Variants /\ \A i, j \in DOMAIN s : i < j => Len(s[i]) >= Len(s[j])}

OccursAt(p, text, i) == i + Len(p) - 1 <= Len(text) /\ \A k \in 1 .. Len(p) : text[i + k - 1] = p[k]

\* bytes.ReplaceAll: from the left, without overlap.
MaskedFrom(text, pattern) ==
  LET from[i \in 1 .. Len(text) + 1] ==
        IF i = Len(text) + 1 THEN <<>>
        ELSE IF OccursAt(pattern, text, i) THEN Mask \o from[i + Len(pattern)]
        ELSE <<text[i]>> \o from[i + 1]
  IN from
MaskAll(text, pattern) == MaskedFrom(text, pattern)[1]

VARIABLES
  lpatterns,  \* the patterns in the order in which they are replaced
  lraw,       \* everything delivered so far
  lbuffer,    \* the unfinished line
  ldropping,  \* an oversized line is being dropped
  lout,       \* lines emitted
  lended      \* the stream was flushed

logVars == <<lpatterns, lraw, lbuffer, ldropping, lout, lended>>

MaskedBy(line, patterns) ==
  LET masked[k \in 0 .. Len(patterns)] == IF k = 0 THEN line ELSE MaskAll(masked[k - 1], patterns[k])
  IN masked
redact(line) == MaskedBy(line, lpatterns)[Len(lpatterns)]

LogInit ==
  /\ lpatterns \in NewRedactor
  /\ lraw = <<>> /\ lbuffer = <<>> /\ ldropping = FALSE /\ lout = <<>> /\ lended = FALSE

\* Mutant: what follows the cut of an oversized line counts as a new line.
PushPartCut(st, part, ended) ==
  LET line == st.buffer \o part
      fits == Len(line) <= MaxLogLineBytes
  IN
  CASE ~ fits -> [buffer |-> <<>>, dropping |-> FALSE, out |-> Append(st.out, Omitted)]
    [] fits /\ ended -> [st EXCEPT !.buffer = <<>>, !.out = Append(@, redact(line))]
    [] OTHER -> [st EXCEPT !.buffer = line]

\* One turn of Push's loop over a chunk: up to a newline, or to its end.
PushPart(st, part, ended) ==
  LET line == st.buffer \o part
      fits == Len(line) <= MaxLogLineBytes
  IN
  CASE st.dropping -> [st EXCEPT !.dropping = ~ ended, !.buffer = <<>>]
    [] ~ st.dropping /\ ~ fits -> [buffer |-> <<>>, dropping |-> ~ ended, out |-> Append(st.out, Omitted)]
    [] ~ st.dropping /\ fits /\ ended -> [st EXCEPT !.buffer = <<>>, !.out = Append(@, redact(line))]
    [] OTHER -> [st EXCEPT !.buffer = line]

\* The turns for the parts of a chunk that a newline ends.
PushedParts(parts) ==
  LET pushed[k \in 0 .. Len(parts)] ==
        IF k = 0 THEN [buffer |-> lbuffer, dropping |-> ldropping, out |-> lout]
        ELSE PushPart(pushed[k - 1], parts[k], TRUE)
  IN pushed

\* Push: the parts of the chunk between newlines, and what follows the last.
Push(chunk) ==
  LET parts == LinesOf(chunk)
      ended == PushedParts(parts.ended)[Len(parts.ended)]
      after == IF parts.rest = <<>> THEN ended ELSE PushPart(ended, parts.rest, FALSE)
  IN
  /\ ~ lended /\ Len(lraw) + Len(chunk) <= MaxLogBytes
  /\ lraw' = lraw \o chunk
  /\ lbuffer' = after.buffer /\ ldropping' = after.dropping /\ lout' = after.out
  /\ UNCHANGED <<lpatterns, lended>>

\* Flush: what is left of the stream, and new buffers.
Flush ==
  /\ ~ lended
  /\ lended' = TRUE /\ lbuffer' = <<>> /\ ldropping' = FALSE
  /\ lout' = IF ~ ldropping /\ lbuffer # <<>> THEN Append(lout, redact(lbuffer)) ELSE lout
  /\ UNCHANGED <<lpatterns, lraw>>

LogNext == Flush \/ \E chunk \in LogChunks : Push(chunk)

LogSpec == LogInit /\ [][LogNext]_logVars

-----------------------------------------------------------------------------
\* The lines of the stream that are due: the ended ones, and the unfinished
\* one once it is too long or the stream is over.
Due ==
  LET lines == LinesOf(lraw) IN
  lines.ended \o (IF Len(lines.rest) > MaxLogLineBytes \/ (lended /\ lines.rest # <<>>) THEN <<lines.rest>> ELSE <<>>)

Shown(line) == IF Len(line) > MaxLogLineBytes THEN Omitted ELSE redact(line)

\* However the stream is cut into chunks, its lines come out one by one as
\* if they had been delivered whole, the oversized ones omitted once, the
\* unfinished one when it is flushed; no secret nor any line of one is in a
\* line that was emitted; and a line that is a secret comes out as the mask
\* alone, whatever shorter secrets it contains.
LogsAreRedacted ==
  /\ lout = [k \in 1 .. Len(Due) |-> Shown(Due[k])]
  /\ \A k \in 1 .. Len(lout) :
       /\ \A p \in Variants, i \in 1 .. Len(lout[k]) : ~ OccursAt(p, lout[k], i)
       /\ Due[k] \in Variants => lout[k] \in {Mask, Omitted}
=============================================================================
