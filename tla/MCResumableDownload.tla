------------------------ MODULE MCResumableDownload ------------------------
EXTENDS ResumableDownload
CONSTANTS a, b, c

\* The payloads have different lengths, so that a part file of one can be too
\* long, too short or of the right length for another; the last is over the
\* limit of one body.
MCSize == [s \in {a, b, c} |-> CASE s = a -> 2 [] s = b -> 3 [] s = c -> 4]
=============================================================================
