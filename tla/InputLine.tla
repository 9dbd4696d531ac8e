----------------------------- MODULE InputLine -----------------------------
(***************************************************************************)
(* The input line of tui.keys.c and tui.completion.c: a byte array with a   *)
(* length and a cursor, edited by moving memory, and the history of lines,  *)
(* one for all windows or one for each.                                     *)
(*                                                                         *)
(* A step is a key stdin_ev_cb() takes from the terminal, with the program's *)
(* callbacks it makes; Alt-Right takes two.  Keys of structured views,      *)
(* hotkeys and mouse events go to the program and leave the line alone; the *)
(* list of words Tab prints when it can complete nothing is a TuiPrint.     *)
(***************************************************************************)
EXTENDS Windows

CONSTANTS InputLen,     \* TUI_INPUTLEN
          HistoryLines, \* HISTORY_LINES
          Typed,        \* code points of the keys
          Formats,      \* the bytes Ctrl-B, C, I, O, R and _ insert
          Offers,       \* what completion providers answer: sequences of words
          MaxKeys

\* The bytes of a C string.
CharBytes == 1 .. 255

ASSUME InputAssumption ==
    /\ InputLen \in Nat /\ InputLen > 2 /\ HistoryLines \in Nat \ {0} /\ MaxKeys \in Nat
    /\ Typed \subseteq Nat \ (0 .. 31) /\ Formats \subseteq 1 .. 31
    /\ \A words \in Offers : words # <<>> /\ words \in Seq(Seq(CharBytes))

VARIABLES buf, len, cur,  \* input_buf, tui_input_len, tui_cursor_pos
          shared,         \* shared_input_history
          history, index, \* "shared" and each window: the lines, the place in them
          handed,         \* history: the line the program was given last
          spilled,        \* memory behind input_buf was overwritten
          entering,       \* stdin_ev_cb() is on its way to its second Enter
          keysTaken

inputVars == <<buf, len, cur, shared, history, index, handed, spilled, entering, keysTaken>>

Nul   == 0
Space == 32
Places == {"shared"} \cup Titles

-----------------------------------------------------------------------------
(* Memory.                                                                  *)

\* memmove() inside the buffer.
MemMove(b, to, from, n) ==
    [i \in DOMAIN b |-> IF i >= to /\ i < to + n THEN b[i - to + from] ELSE b[i]]

\* strlcpy() of a line into the buffer; the bytes behind its end stay.
Copied(line) ==
    [i \in DOMAIN buf |-> IF i < Len(line) THEN line[i + 1] ELSE IF i = Len(line) THEN Nul ELSE buf[i]]

\* The C string the buffer holds.
StringIn(b) ==
    LET n == CHOOSE i \in DOMAIN b : b[i] = Nul /\ \A j \in 0 .. i - 1 : b[j] # Nul
    IN [i \in 1 .. n |-> b[i - 1]]

\* Mutant: the end of the line is not moved along with its text.
GapOpenedShort(b) == MemMove(b, cur + 1, cur, len - cur - 1)

\* A gap at the cursor, everything behind it and the end moved up.
GapOpened(b) == MemMove(b, cur + 1, cur, len - cur + 1)

Unedited == UNCHANGED <<shared, history, index, handed, spilled>>

\* The printable key and the formatting keys; a code point is stored by its low byte.
Insert(c) ==
    /\ len < InputLen - 1
    /\ buf' = [GapOpened(buf) EXCEPT ![cur] = c % 256]
    /\ len' = len + 1
    /\ cur' = cur + 1
    /\ Unedited

\* What is between start and the cursor goes: Backspace, Ctrl-H and Ctrl-W.
RemoveBack(start) ==
    /\ cur > 0
    /\ buf' = MemMove(buf, start, cur, len - cur + 1)
    /\ len' = len - (cur - start)
    /\ cur' = start
    /\ Unedited

\* Back from a place past blanks, or past what is none.
SkipBack(from, blank) ==
    LET past[i \in 0 .. InputLen] ==
            IF i > 0 /\ (buf[i - 1] = Space) = blank THEN past[i - 1] ELSE i
    IN past[from]

\* Forth likewise, as far as the end.
SkipForth(from, blank) ==
    LET past[i \in 0 .. InputLen] ==
            IF i < len /\ (buf[i] = Space) = blank THEN past[i + 1] ELSE i
    IN past[from]

\* Where Ctrl-W and Ctrl-Left go; where Ctrl-Right goes.
WordStart == SkipBack(SkipBack(cur, TRUE), FALSE)
WordEnd   == SkipForth(SkipForth(cur, FALSE), TRUE)

\* Delete and Ctrl-D.
Delete ==
    /\ cur < len
    /\ buf' = MemMove(buf, cur, cur + 1, len - cur)
    /\ len' = len - 1
    /\ UNCHANGED cur
    /\ Unedited

\* Ctrl-K and Ctrl-U.
KillEnd ==
    /\ buf' = [buf EXCEPT ![cur] = Nul]
    /\ len' = cur
    /\ UNCHANGED cur
    /\ Unedited
KillLine ==
    /\ buf' = [buf EXCEPT ![0] = Nul]
    /\ len' = 0
    /\ cur' = 0
    /\ Unedited

MoveTo(n) ==
    /\ cur' = n
    /\ UNCHANGED <<buf, len>>
    /\ Unedited

EditKey ==
    \/ \E c \in Typed \cup Formats : Insert(c)
    \/ \E start \in {cur - 1, WordStart} : RemoveBack(start)
    \/ Delete \/ KillEnd \/ KillLine
    \/ \E n \in {0, len, AtLeastZero(cur - 1), Clamp(cur + 1, 0, len), WordStart, WordEnd} : MoveTo(n)

-----------------------------------------------------------------------------
(* History.                                                                 *)

\* active_history().
Scope(now, t) == IF now THEN "shared" ELSE t
InUse == Scope(shared, ActiveTitle)

\* Up and Down put a line of the history into the buffer.
Recalled(line) ==
    /\ buf' = Copied(line)
    /\ len' = Len(line)
    /\ cur' = Len(line)
    /\ UNCHANGED <<shared, history, handed, spilled>>

\* history_prev().
Up ==
    LET i  == index[InUse]
        to == IF i < 0 THEN Len(history[InUse]) - 1 ELSE IF i > 0 THEN i - 1 ELSE i
    IN
    /\ history[InUse] # <<>>
    /\ index' = [index EXCEPT ![InUse] = to]
    /\ Recalled(history[InUse][to + 1])

\* history_next(): past the newest line there is an empty one.
Down ==
    LET to == index[InUse] + 1 IN
    /\ history[InUse] # <<>> /\ index[InUse] >= 0
    /\ IF to >= Len(history[InUse])
       THEN index' = [index EXCEPT ![InUse] = -1] /\ Recalled(<<>>)
       ELSE index' = [index EXCEPT ![InUse] = to] /\ Recalled(history[InUse][to + 1])

\* tui_set_shared_input_history().
SetShared(now) ==
    /\ shared' = now
    /\ index' = [index EXCEPT !["shared"] = IF now THEN Len(history["shared"]) ELSE -1]
    /\ UNCHANGED <<buf, len, cur, history, handed, spilled>>

\* A full history drops its oldest line.
Room(lines) == IF Len(lines) >= HistoryLines THEN Tail(lines) ELSE lines

\* history_add(), with what closed and new windows do to theirs.
HistoryAfter(line) ==
    LET lines == IF line = <<>> THEN history[InUse] ELSE Append(Room(history[InUse]), line)
        added == [history EXCEPT ![InUse] = lines]
    IN [p \in Places |-> IF p = "shared" \/ p \in Range(windows) \cap Range(windows') THEN added[p] ELSE <<>>]
IndexAfter(line) ==
    LET added == IF line = <<>> THEN index
                 ELSE [index EXCEPT ![InUse] = Len(Room(history[InUse])) + 1]
    IN [p \in Places |-> IF p = "shared" \/ p \in Range(windows) \cap Range(windows') THEN added[p]
                         ELSE IF p \in Range(windows') THEN 0 ELSE -1]

-----------------------------------------------------------------------------
(* Enter.                                                                   *)

\* handle_enter_key() and what stdin_ev_cb() does after it.  The program may keep the
\* line back (tui_input_blocked_cb), and its tui_readline_cb may open, close and
\* choose windows.  The line is cleared in any case.
Program ==
    \/ UNCHANGED screenVars
    \/ /\ \E t \in Titles : Create(t) \/ Destroy(t)
       /\ UNCHANGED screenOps
Return ==
    LET line == StringIn([buf EXCEPT ![len] = Nul]) IN
    /\ buf' \in {[i \in DOMAIN buf |-> Nul], [buf EXCEPT ![len] = Nul, ![0] = Nul]}
    /\ len' = 0
    /\ cur' = 0
    /\ \/ /\ UNCHANGED <<screenVars, history, index, handed>>
       \/ /\ len > 0
          /\ Program
          /\ handed' = line
          /\ history' = HistoryAfter(line)
          /\ index' = IndexAfter(line)
    /\ UNCHANGED <<shared, spilled>>

-----------------------------------------------------------------------------
(* tui_do_completion().                                                     *)

\* The longest common prefix of the words offered.
CommonPrefix(words) ==
    LET n == CHOOSE n \in 0 .. Len(words[1]) :
                /\ \A i \in DOMAIN words : IsPrefix(SubSeq(words[1], 1, n), words[i])
                /\ n < Len(words[1]) =>
                     \E i \in DOMAIN words : ~IsPrefix(SubSeq(words[1], 1, n + 1), words[i])
    IN SubSeq(words[1], 1, n)

\* A single word is completed and a blank put behind it, several are completed as
\* far as they agree; there has to be room for the word, nobody asks about the text
\* behind the cursor.  A completion that would move it past the end of the buffer
\* overwrites what lies behind: undefined behaviour, at which the model stops (spilled)
\* with the line as it was before the key.
Completion(words) ==
    LET start  == SkipBack(cur, FALSE)
        single == Len(words) = 1
        common == CommonPrefix(words)
        pl     == IF single /\ Len(common) < InputLen - 1 THEN Len(common) + 1 ELSE Len(common)
        word   == IF single THEN Append(SubSeq(common, 1, pl - 1), Space) ELSE common
        tail   == len - cur + 1
        moved  == MemMove(buf, start + pl, cur, tail)
    IN
    /\ cur > 0
    /\ single \/ Len(common) > cur - start
    /\ start + pl < InputLen
    /\ IF start + pl + tail > InputLen
       THEN spilled' = TRUE /\ UNCHANGED <<buf, len, cur>>
       ELSE /\ buf' = [i \in DOMAIN buf |-> IF i >= start /\ i < start + pl
                                            THEN word[i - start + 1] ELSE moved[i]]
            /\ len' = len + pl - (cur - start)
            /\ cur' = start + pl
            /\ UNCHANGED spilled
    /\ UNCHANGED <<shared, history, index, handed>>

-----------------------------------------------------------------------------
InputStart ==
    /\ buf = [i \in 0 .. InputLen - 1 |-> Nul]
    /\ len = 0 /\ cur = 0
    /\ shared = TRUE
    /\ history = [p \in Places |-> <<>>]
    /\ index = [p \in Places |-> IF p = "status" THEN 0 ELSE -1]
    /\ handed = <<>>
    /\ spilled = FALSE
    /\ entering = FALSE
    /\ keysTaken = 0

\* Alt-Right: handle_alt_right() answers 0, so the key is not taken as handled, and
\* TERMKEY_SYM_RIGHT is 10, the number of '\n': Enter follows in the next window.
NextWindow ==
    /\ AltRight
    /\ UNCHANGED <<screenOps, buf, len, cur, shared, history, index, handed, spilled>>

Key ==
    \/ /\ EditKey \/ Up \/ Down
          \/ \E now \in BOOLEAN : SetShared(now)
          \/ \E words \in Offers : Completion(words)
       /\ UNCHANGED <<screenVars, entering>>
    \/ Return /\ UNCHANGED entering
    \/ NextWindow /\ entering' = TRUE

\* After memory was overwritten nothing is known.
InputNext ==
    /\ ~spilled
    /\ \/ /\ ~entering /\ Key
          /\ keysTaken < MaxKeys /\ keysTaken' = keysTaken + 1
       \/ /\ entering /\ Return
          /\ entering' = FALSE
          /\ UNCHANGED keysTaken

InputSpec == WindowsStart /\ InputStart /\ [][InputNext]_<<screenVars, inputVars>>

-----------------------------------------------------------------------------
Editor == INSTANCE LineEditor WITH
    Limit <- InputLen - 1, Remembered <- HistoryLines,
    Chars <- 0 .. 255, Blank <- Space, Stop <- Nul,
    Words <- UNION {Range(words) : words \in Offers}, Common <- "shared",
    left  <- [i \in 1 .. cur |-> buf[i - 1]],
    right <- [i \in 1 .. len - cur |-> buf[cur + i - 1]],
    past  <- history, place <- InUse,
    back  <- IF index[InUse] < 0 THEN 0 ELSE Len(history[InUse]) - index[InUse]

\* The array, its length and its cursor edit a line of text as LineEditor says:
\* no key that inserts, deletes or moves loses, doubles or misplaces a byte at either
\* end of the buffer, Enter hands over the line as it was (up to a NUL byte in it), and
\* Up and Down walk through the newest lines of the history in use.  A Tab is covered
\* while its completion fits; one that overruns the buffer ends the behaviour (spilled).
LineIsEdited == Editor!LineSpec
=============================================================================
