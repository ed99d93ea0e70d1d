--------------------------------- MODULE Globs ---------------------------------
(***************************************************************************)
(* The patterns of the [[exceptions]] rules: globMatch, a loop over two    *)
(* cursors that backtracks to the last star (internal/checks/except.go).   *)
(* Patterns and subjects are sequences of characters.                      *)
(***************************************************************************)
EXTENDS Integers, Sequences

OnlyStars(pattern, pi) == \A i \in pi..Len(pattern) : pattern[i] = "*"

\* The cursors into both, the last star seen (0 for none) and where the subject
\* stood when that star last gave up a character.
At(pi, si, star, starMatch) ==
    [pi |-> pi, si |-> si, star |-> star, starMatch |-> starMatch]

\* A star has been passed by its pattern's cursor, and what it gave up by its
\* subject's.
Cursors(pattern, s) ==
    {c \in [pi : 1..(Len(pattern) + 1), si : 1..(Len(s) + 1),
            star : 0..Len(pattern), starMatch : 1..(Len(s) + 1)] :
        c.star < c.pi /\ c.starMatch <= c.si}

\* GlobMatch gone wrong: a mismatch after a star tries the rest of the pattern
\* at the next character only, where the star has already begun to match.
GlobMatchOnce(pattern, s) ==
    LET loop[c \in Cursors(pattern, s)] ==
            IF c.si > Len(s) THEN OnlyStars(pattern, c.pi)
            ELSE IF c.pi <= Len(pattern) /\ pattern[c.pi] \in {"?", s[c.si]}
              THEN loop[At(c.pi + 1, c.si + 1, c.star, c.starMatch)]
            ELSE IF c.pi <= Len(pattern) /\ pattern[c.pi] = "*"
              THEN loop[At(c.pi + 1, c.si, c.pi, c.si)]
            ELSE IF c.star # 0
              THEN loop[At(c.star + 1, c.si + 1, c.star, c.si)]
              ELSE FALSE
    IN  loop[At(1, 1, 0, 1)]

\* A character of the subject equal to that of the pattern is tried before the
\* star is.
GlobMatch(pattern, s) ==
    LET loop[c \in Cursors(pattern, s)] ==
            IF c.si > Len(s) THEN OnlyStars(pattern, c.pi)
            ELSE IF c.pi <= Len(pattern) /\ pattern[c.pi] \in {"?", s[c.si]}
              THEN loop[At(c.pi + 1, c.si + 1, c.star, c.starMatch)]
            ELSE IF c.pi <= Len(pattern) /\ pattern[c.pi] = "*"
              THEN loop[At(c.pi + 1, c.si, c.pi, c.si)]
            ELSE IF c.star # 0
              THEN loop[At(c.star + 1, c.starMatch + 1, c.star, c.starMatch + 1)]
              ELSE FALSE
    IN  loop[At(1, 1, 0, 1)]

\* What a shell means by the pattern: the star stands for any run of characters.
ShellMatch(pattern, s) ==
    LET from[p \in (1..(Len(pattern) + 1)) \X (1..(Len(s) + 1))] ==
            LET pi == p[1]
                si == p[2]
            IN  IF pi > Len(pattern) THEN si > Len(s)
                ELSE IF pattern[pi] = "*"
                  THEN \E k \in si..(Len(s) + 1) : from[<<pi + 1, k>>]
                  ELSE /\ si <= Len(s) /\ pattern[pi] \in {"?", s[si]}
                       /\ from[<<pi + 1, si + 1>>]
    IN  from[<<1, 1>>]
=============================================================================
