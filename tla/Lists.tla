------------------------------- MODULE Lists -------------------------------
(* The filter of arrays, as a function from each place on.                 *)
EXTENDS Naturals, Sequences

Members(s) == {s[i] : i \in DOMAIN s}

\* The elements of a sequence that are in a set, up to each place and in all.
OnlyUpTo(s, S) ==
    LET kept[n \in 0..Len(s)] ==
            IF n = 0 THEN <<>>
            ELSE IF s[n] \in S THEN Append(kept[n - 1], s[n]) ELSE kept[n - 1]
    IN  kept
Only(s, S) == OnlyUpTo(s, S)[Len(s)]
=============================================================================
