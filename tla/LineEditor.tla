----------------------------- MODULE LineEditor -----------------------------
(***************************************************************************)
(* What an input line promises its user: the text left and right of the    *)
(* cursor, the lines of before, and what Enter hands to the program.        *)
(***************************************************************************)
EXTENDS Integers, Sequences, SequencesExt

CONSTANTS Limit,      \* bytes a line may have
          Remembered, \* lines remembered
          Chars, Blank, Stop, \* bytes; a blank; the byte that ends a line for the program
          Words,      \* words the program can complete
          Places,     \* where lines are remembered: for all windows, or for each
          Common      \* the place that is never forgotten

VARIABLES left, right, \* of the cursor
          past,        \* of each place the lines remembered, the newest last
          place, back, \* the place in use, how many lines back the user went there
          handed       \* the line the program was given last

lineVars == <<left, right, past, place, back, handed>>

Whole == left \o right

\* What the program sees of a line.
Upto(line) ==
    LET n == SelectInSeq(line, LAMBDA b : b = Stop) IN IF n = 0 THEN line ELSE SubSeq(line, 1, n - 1)

\* A line without the last word and the blanks behind it; without the last word.
LastWordGone(line) ==
    LET n == SelectLastInSubSeq(line, 1, Len(line), LAMBDA b : b # Blank)
        m == SelectLastInSubSeq(line, 1, n, LAMBDA b : b = Blank)
    IN SubSeq(line, 1, m)
WordGone(line) == SubSeq(line, 1, SelectLastInSubSeq(line, 1, Len(line), LAMBDA b : b = Blank))

Kept(lines) == SubSeq(lines, IF Len(lines) > Remembered THEN Len(lines) - Remembered + 1 ELSE 1, Len(lines))

\* Places other than the common one may be forgotten as windows go.
Forgets(lines) ==
    \A p \in Places : past'[p] = lines[p] \/ (p # Common /\ past'[p] = <<>>)

Type ==
    /\ left' # <<>> /\ Front(left') = left /\ Last(left') \in Chars
    /\ Len(left') + Len(right) <= Limit
    /\ UNCHANGED <<right, past, place, back, handed>>

Go == left' \o right' = Whole /\ UNCHANGED <<past, place, back, handed>>

Erase ==
    /\ \/ left # <<>> /\ left' \in {Front(left), LastWordGone(left)} /\ UNCHANGED right
       \/ right # <<>> /\ right' \in {Tail(right), <<>>} /\ UNCHANGED left
       \/ left' = <<>> /\ right' = <<>>
    /\ UNCHANGED <<past, place, back, handed>>

\* The word before the cursor becomes one of the program's words, as far as that is
\* known, and what follows stays.
Complete ==
    /\ left # <<>>
    /\ \E w \in Words, n \in 1 .. Limit :
          LET done == WordGone(left) \o SubSeq(w, 1, IF n > Len(w) THEN Len(w) ELSE n)
          IN left' \in {done, Append(done, Blank)}
    /\ Len(left' \o right) <= Limit
    /\ UNCHANGED <<right, past, place, back, handed>>

\* One line further back, up to the oldest; one line forth, to an empty line at last.
Recall(n) ==
    LET lines == past[place] IN
    /\ back' = n
    /\ left' = IF n = 0 THEN <<>> ELSE lines[Len(lines) - n + 1]
    /\ right' = <<>>
    /\ UNCHANGED <<past, place, handed>>
Older == past[place] # <<>> /\ Recall(IF back < Len(past[place]) THEN back + 1 ELSE back)
Newer == past[place] # <<>> /\ Recall(IF back > 0 THEN back - 1 ELSE 0)

\* Enter: the line is remembered and handed over, or kept back by the program; the
\* program may open and close windows meanwhile.
Enter ==
    LET line == Upto(Whole) IN
    /\ left' = <<>> /\ right' = <<>>
    /\ \/ UNCHANGED <<past, place, back, handed>>
       \/ /\ Whole # <<>>
          /\ handed' = line
          /\ Forgets(IF line = <<>> THEN past ELSE [past EXCEPT ![place] = Kept(Append(@, line))])
          /\ place' \in Places
          /\ place' = place /\ past'[place] # <<>> /\ line # <<>> => back' = 0

\* Another window, or another way to remember lines: the text stays.
Elsewhere ==
    /\ Forgets(past)
    /\ UNCHANGED <<left, right, handed>>

LineNext ==
    \/ Go \/ Type \/ Erase \/ Complete \/ Older \/ Newer \/ Enter \/ Elsewhere

LineInit ==
    /\ left = <<>> /\ right = <<>>
    /\ past = [p \in Places |-> <<>>]
    /\ place \in Places /\ back = 0 /\ handed = <<>>

LineSpec == LineInit /\ [][LineNext]_lineVars
=============================================================================
