-------------------------------- MODULE Lines -------------------------------
(* Waiting lines: sequences that somebody may leave from any place.        *)
EXTENDS Naturals, Sequences

Stands(x, line) == \E i \in 1..Len(line) : line[i] = x

Place(x, line) == CHOOSE i \in 1..Len(line) : line[i] = x

\* line without x, the others in their order
Without(line, x) ==
  IF Stands(x, line)
  THEN [i \in 1..(Len(line) - 1) |->
          IF i < Place(x, line) THEN line[i] ELSE line[i + 1]]
  ELSE line

\* nobody stands twice
Distinct(line) == \A i, j \in 1..Len(line) : line[i] = line[j] => i = j
=============================================================================
