------------------------------ MODULE Filters ------------------------------
EXTENDS Naturals, Sequences
\* Array.prototype.filter, by the positions it keeps; SelectSeq, which has no definition to reason with.
Picked(s, kept) ==
  LET upTo[i \in 0 .. Len(s)] ==
        IF i = 0 THEN <<>> ELSE IF i \in kept THEN Append(upTo[i - 1], s[i]) ELSE upTo[i - 1]
  IN upTo[Len(s)]
=============================================================================
