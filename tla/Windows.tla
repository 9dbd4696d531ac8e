------------------------------ MODULE Windows ------------------------------
(***************************************************************************)
(* The windows of tui.window.c and what the screen shows of them (tui.c,    *)
(* tui.theme.c): each window keeps a ring of the messages printed to it and *)
(* how many screen rows it is scrolled back; the active one is painted.     *)
(*                                                                         *)
(* All of it happens in the program's main loop, under the render lock.     *)
(* Titles are compared as they are (the code ignores case to find a window).*)
(***************************************************************************)
EXTENDS Integers, Sequences, SequencesExt

CONSTANTS Titles,       \* titles programs create windows with
          MaxWindows,   \* TUI_MAX_WINDOWS
          LogLines,     \* LOG_LINES
          TermRows, TermCols,
          Messages,     \* what is printed: the columns of each of its lines
          MaxScreenOps

ASSUME WindowsAssumption ==
    /\ "status" \in Titles
    /\ MaxWindows \in Nat \ {0} /\ LogLines \in Nat \ {0} /\ MaxScreenOps \in Nat
    /\ TermRows \in Nat /\ TermRows > 3 /\ TermCols \in Nat \ {0}
    /\ Messages \subseteq Seq(Nat)

VARIABLES windows,    \* tui_windows, a sequence of titles
          active,     \* tui_active_win, from 0
          log,        \* of each window the ring, its head and count, and scroll_offset
          deferring,  \* tui_redraw_defer_count
          pending,    \* tui_redraw_pending
          reader,     \* history: the window the user went to, and per window the row
                      \* that was on top when he last moved
          serial,     \* history: the number of the next message
          screenOps

screenVars == <<windows, active, log, deferring, pending, reader, serial, screenOps>>

None == [id |-> 0, columns |-> <<>>]
NoRow == <<0, 0>>

\* A window as tui_window_create() makes it.
Fresh == [ring |-> [i \in 0 .. LogLines - 1 |-> None], head |-> 0, count |-> 0, offset |-> 0]

ActiveOf(ws, a) == ws[a + 1]
ActiveTitle == ActiveOf(windows, active)

-----------------------------------------------------------------------------
(* What tui_redraw_screen() paints.                                         *)

\* tui_line_rows(): the rows a message takes when wrapped.
LineRows(columns) ==
    FoldLeft(LAMBDA sum, n : sum + (IF n = 0 THEN 1 ELSE (n + TermCols - 1) \div TermCols),
             0, columns)

\* The messages of a window, the oldest first.
Oldest(w)   == (w.head + LogLines - w.count) % LogLines
Recorded(w) == [i \in 1 .. w.count |-> w.ring[(Oldest(w) + i - 1) % LogLines]]

\* The rows of a sequence of messages, each named by its message and its place in it.
RowsOf(messages) ==
    FlattenSeq([i \in DOMAIN messages |->
                  [r \in 1 .. LineRows(messages[i].columns) |-> <<messages[i].id, r>>]])

LogArea == TermRows - 3

Clamp(n, low, high) == IF n < low THEN low ELSE IF n > high THEN high ELSE n
AtLeastZero(n)      == IF n < 0 THEN 0 ELSE n

\* The offset a window has once it was painted.
Clamped(w) ==
    [w EXCEPT !.offset = Clamp(w.offset, 0, AtLeastZero(Len(RowsOf(Recorded(w))) - LogArea))]

\* The row at the top of the log area.
TopRow(w) ==
    LET rows == RowsOf(Recorded(w)) IN
    IF rows = <<>> THEN NoRow ELSE rows[AtLeastZero(Len(rows) - LogArea - w.offset) + 1]

\* tui_redraw_screen() once the rest of the step left windows ws, the active one
\* at place a, with logs l.
Redraw(ws, a, l) ==
    LET t == ActiveOf(ws, a) IN
    /\ log' = [l EXCEPT ![t] = Clamped(l[t])]
    /\ pending' = FALSE

\* The user scrolls: what is painted now is what he reads.
Moves == reader' = [reader EXCEPT !.top[ActiveTitle] = TopRow(log'[ActiveTitle])]

\* A user who comes to a window goes on where he left off.
Visits(a) == reader' = [reader EXCEPT !.window = ActiveOf(windows, a)]

-----------------------------------------------------------------------------
(* tui_print().                                                             *)

\* Mutant: the view is left where it is when a line is added below it.
ScrolledNot(w, columns) == w.offset

\* tui_scrollback_appended().
Scrolled(w, columns) == IF w.offset > 0 THEN w.offset + LineRows(columns) ELSE w.offset

\* The window with one more message, in place of the oldest when the ring is full.
Recording(w, message) ==
    [ring   |-> [w.ring EXCEPT ![w.head] = message],
     head   |-> (w.head + 1) % LogLines,
     count  |-> IF w.count < LogLines THEN w.count + 1 ELSE w.count,
     offset |-> Scrolled(w, message.columns)]

\* tui_vprint(): only output to the active window is painted, at once unless deferred.
TuiPrint(t, columns) ==
    LET l == [log EXCEPT ![t] = Recording(log[t], [id |-> serial, columns |-> columns])] IN
    /\ t \in Range(windows)
    /\ serial' = serial + 1
    /\ IF t = ActiveTitle /\ deferring = 0
       THEN Redraw(windows, active, l)
       ELSE /\ log' = l /\ pending' = (pending \/ t = ActiveTitle)
    /\ UNCHANGED <<windows, active, deferring, reader>>

\* tui_redraw_defer() and tui_redraw_flush().
Defer ==
    /\ deferring' = deferring + 1
    /\ UNCHANGED <<windows, active, log, pending, reader, serial>>
Flush ==
    /\ deferring' = 0
    /\ IF pending THEN Redraw(windows, active, log) ELSE UNCHANGED <<log, pending>>
    /\ UNCHANGED <<windows, active, reader, serial>>

\* tui_clear_scrollback().
ClearScrollback(t) ==
    /\ t \in Range(windows)
    /\ Redraw(windows, active, [log EXCEPT ![t] = Fresh])
    /\ UNCHANGED <<windows, active, deferring, serial>>
    /\ reader' = [reader EXCEPT !.top[t] = NoRow]

-----------------------------------------------------------------------------
(* Scrolling.  PgUp counts messages where the painter counts rows.          *)

Page == IF TermRows - 3 < 1 THEN 1 ELSE TermRows - 3

\* handle_pgup().
PgUp ==
    LET w   == log[ActiveTitle]
        max == IF w.count > Page THEN w.count - Page ELSE 0
        to  == IF w.offset + Page > max THEN max ELSE w.offset + Page
    IN
    /\ Redraw(windows, active, [log EXCEPT ![ActiveTitle].offset = to])
    /\ UNCHANGED <<windows, active, deferring, serial>>
    /\ Moves

\* handle_pgdn().
PgDn ==
    LET w == log[ActiveTitle] IN
    /\ Redraw(windows, active, [log EXCEPT ![ActiveTitle].offset = AtLeastZero(w.offset - Page)])
    /\ UNCHANGED <<windows, active, deferring, serial>>
    /\ Moves

-----------------------------------------------------------------------------
(* Creating, destroying and choosing windows.                               *)

\* What is refused is said in the active window: one window too many, closing the
\* status window, a window number there is no window for.
Refuse == TuiPrint(ActiveTitle, <<1>>)

\* tui_window_create() of a title that is new; an existing one is just returned.
Create(t) ==
    /\ t \notin Range(windows)
    /\ Len(windows) < MaxWindows
    /\ windows' = Append(windows, t)
    /\ log' = [log EXCEPT ![t] = Fresh]
    /\ reader' = [reader EXCEPT !.top[t] = NoRow]
    /\ UNCHANGED <<active, deferring, pending, serial>>

\* The active window after the one at place i is removed and n are left.
ActiveAfter(i, n) ==
    IF active >= n \/ active = i THEN IF i > 0 THEN i - 1 ELSE 0
    ELSE IF active > i THEN active - 1
    ELSE active

\* tui_window_destroy(); the status window stays.  The news of it is printed to the
\* status window while the other windows are still there.
Destroy(t) ==
    LET i      == SelectInSeq(windows, LAMBDA x : x = t) - 1
        ws     == RemoveAt(windows, i + 1)
        after  == ActiveAfter(i, Len(ws))
        news   == [log EXCEPT !["status"] = Recording(log["status"], [id |-> serial, columns |-> <<1>>])]
        status == ActiveTitle = "status" /\ deferring = 0
    IN
    /\ t \in Range(windows) \ {"status"}
    /\ windows' = ws
    /\ active' = after
    /\ serial' = serial + 1
    /\ IF status THEN Redraw(windows, active, news)
       ELSE /\ log' = news /\ pending' = (pending \/ ActiveTitle = "status")
    /\ reader' = [reader EXCEPT !.window =
                     IF @ = t \/ active >= Len(ws) THEN ActiveOf(ws, after) ELSE @]
    /\ UNCHANGED deferring

\* tui_window_swap(), handle_alt_left(), handle_alt_right(): a window by its place.
Swap(a) ==
    /\ a \in 0 .. Len(windows) - 1
    /\ active' = a
    /\ Redraw(windows, a, log)
    /\ UNCHANGED <<windows, deferring, serial>>
    /\ Visits(a)

AltLeft  == Swap((active - 1 + Len(windows)) % Len(windows))
AltRight == Swap((active + 1) % Len(windows))

\* tui_window_focus() and tui_window_focus_id(): the input line is painted again, the
\* log area is not.
Focus(a) ==
    /\ a \in 0 .. Len(windows) - 1
    /\ active' = a
    /\ UNCHANGED <<windows, log, deferring, pending, serial>>
    /\ Visits(a)

\* tui_window_init().
WindowsStart ==
    /\ windows = <<"status">>
    /\ active = 0
    /\ log = [t \in Titles |-> Fresh]
    /\ deferring = 0
    /\ pending = FALSE
    /\ reader = [window |-> "status", top |-> [t \in Titles |-> NoRow]]
    /\ serial = 1
    /\ screenOps = 0

WindowStep ==
    \/ \E t \in Titles : \/ \E m \in Messages : TuiPrint(t, m)
                         \/ Create(t) \/ Destroy(t) \/ ClearScrollback(t)
    \/ Refuse \/ Defer \/ Flush \/ PgUp \/ PgDn \/ AltLeft \/ AltRight
    \/ \E a \in 0 .. MaxWindows - 1 : Swap(a) \/ Focus(a)

WindowsNext == screenOps < MaxScreenOps /\ WindowStep /\ screenOps' = screenOps + 1

WindowsSpec == WindowsStart /\ [][WindowsNext]_screenVars

-----------------------------------------------------------------------------
\* The user keeps looking at what he went to.  Whatever is created, closed and
\* printed, in this window or another, painted at once or later: the window he
\* chose stays the active one while it exists (unless it is the last one and an
\* earlier one is closed), and one that is scrolled back has the same row on top
\* for as long as the ring holds that row ("Preserve the visible rows while
\* reading older scrollback", tui.c:185).
ViewIsKept ==
    LET w == log[ActiveTitle]  top == reader.top[ActiveTitle] IN
    /\ reader.window = ActiveTitle
    /\ w.offset > 0 /\ top \in Range(RowsOf(Recorded(w))) => TopRow(Clamped(w)) = top
=============================================================================
