------------------------------ MODULE Selections ------------------------------
(***************************************************************************)
(* Array.filter, and push of several elements for one, as the code uses    *)
(* them all over: by recursive functions, so that more can be proved about *)
(* them than of SelectSeq and FlattenSeq.  What a filter keeps is given as *)
(* the set of the places that stay.                                        *)
(***************************************************************************)
EXTENDS Naturals, Sequences

\* For every n, what is left of the first n elements.
FilteredTo(seq, places) ==
  LET kept[n \in 0 .. Len(seq)] ==
        IF n = 0 THEN <<>>
        ELSE IF n \in places THEN Append(kept[n - 1], seq[n]) ELSE kept[n - 1]
  IN kept

Filtered(seq, places) == FilteredTo(seq, places)[Len(seq)]

\* The sequences of a sequence one after the other.
JoinedTo(parts) ==
  LET strung[n \in 0 .. Len(parts)] == IF n = 0 THEN <<>> ELSE strung[n - 1] \o parts[n]
  IN strung
Joined(parts) == JoinedTo(parts)[Len(parts)]
=============================================================================
