------------------------------- MODULE Serial -------------------------------
(***************************************************************************)
(* io.serial.c: a serial device whose line settings are borrowed while it  *)
(* is open, and pseudo-terminals published under a symbolic link.          *)
(***************************************************************************)
EXTENDS Integers, FiniteSets

CONSTANTS Requests,     \* settings callers ask for: [baud, bits, parity, stops]
          Ptys,         \* pseudo-terminals the program may hold
          Links,        \* paths they are published under
          MaxSerial     \* bound: calls

NoPath == "none"

ASSUME SerialAssumption ==
    /\ MaxSerial \in Nat /\ IsFiniteSet(Ptys) /\ NoPath \notin Links
    /\ Requests \subseteq [baud : Int, bits : Int, parity : STRING, stops : Int]

VARIABLES line,         \* the device's termios: rate and control flags
          original,     \* what rr_serial_device_open() saved
          device,       \* the device descriptor is open
          applied,      \* the last settings that were accepted
          pty,          \* each pseudo-terminal: closed, or its slave and link
          link,         \* what each path points at
          unlinking,      \* the path a close has found to be its own and will unlink, or NoPath
          calls

serialVars == <<line, original, device, applied, pty, link, unlinking, calls>>

Rates == {0, 1200, 9600, 115200}
Flags == {"CS5", "CS6", "CS7", "CS8", "PARENB", "PARODD", "CSTOPB", "ECHO", "ICANON"}
Nothing == [baud |-> -1, bits |-> 0, parity |-> "", stops |-> 0]
Console == [rate |-> 9600, flags |-> {"CS8", "ECHO", "ICANON"}]    \* as found
Closed  == [slave |-> 0, path |-> NoPath, lost |-> FALSE]   \* lost: its link was removed by others
Slaves  == 1 .. Cardinality(Ptys) + 1

SerialStart ==
    /\ line = Console /\ original = Console /\ device = FALSE /\ applied = Nothing
    /\ pty = [p \in Ptys |-> Closed] /\ link = [l \in Links |-> 0]
    /\ unlinking = NoPath /\ calls = 0

\* baud_speed() and the checks of rr_serial_settings_apply().
Valid(s) ==
    /\ s.baud \in Rates /\ s.bits \in 5 .. 8 /\ s.stops \in {1, 2}
    /\ s.parity \in {"n", "e", "o"}

\* rr_serial_settings_apply(): raw mode, then size, parity and stop bits.
FlagsOf(s) ==
    {CASE s.bits = 5 -> "CS5" [] s.bits = 6 -> "CS6" [] s.bits = 7 -> "CS7" [] OTHER -> "CS8"}
    \cup (IF s.parity = "n" THEN {} ELSE {"PARENB"})
    \cup (IF s.parity = "o" THEN {"PARODD"} ELSE {})
    \cup (IF s.stops = 2 THEN {"CSTOPB"} ELSE {})

\* rr_serial_settings_read()
ReadBack(l) ==
    [baud   |-> l.rate,
     bits   |-> CASE "CS5" \in l.flags -> 5 [] "CS6" \in l.flags -> 6 [] "CS7" \in l.flags -> 7 [] OTHER -> 8,
     parity |-> IF "PARENB" \notin l.flags THEN "n" ELSE IF "PARODD" \in l.flags THEN "o" ELSE "e",
     stops  |-> IF "CSTOPB" \in l.flags THEN 2 ELSE 1]

\* rr_serial_device_open(): the settings in force are saved, the new ones applied;
\* refused ones put the saved settings back and close the device.
DeviceOpen(s) ==
    /\ ~device /\ calls < MaxSerial
    /\ calls' = calls + 1
    /\ original' = line
    /\ device' = Valid(s)
    /\ line' = IF Valid(s) THEN [rate |-> s.baud, flags |-> FlagsOf(s)] ELSE line
    /\ applied' = IF Valid(s) THEN s ELSE Nothing
    /\ UNCHANGED <<pty, link, unlinking>>

\* rr_serial_settings_apply() on the open device.
SettingsApply(s) ==
    /\ device /\ calls < MaxSerial /\ Valid(s)
    /\ calls' = calls + 1
    /\ line' = [rate |-> s.baud, flags |-> FlagsOf(s)]
    /\ applied' = s
    /\ UNCHANGED <<original, device, pty, link, unlinking>>

\* Mutant: the settings are left as they are.
RestoredNot == line

\* rr_serial_device_close() puts back what it was given.
Restored == original

DeviceClose ==
    /\ device
    /\ device' = FALSE
    /\ line' = Restored
    /\ applied' = Nothing
    /\ UNCHANGED <<original, pty, link, unlinking, calls>>

-----------------------------------------------------------------------------
\* The kernel's choice: a slave that is not in use.
FreeSlave == CHOOSE s \in Slaves : \A p \in Ptys : pty[p].slave # s

\* rr_serial_pty_open(): symlink() refuses a path that exists, and then both
\* descriptors are closed again.
PtyOpen(p, path) ==
    /\ pty[p] = Closed /\ calls < MaxSerial
    /\ calls' = calls + 1
    /\ IF link[path] = 0
       THEN /\ pty' = [pty EXCEPT ![p] = [slave |-> FreeSlave, path |-> path, lost |-> FALSE]]
            /\ link' = [link EXCEPT ![path] = FreeSlave]
       ELSE UNCHANGED <<pty, link>>
    /\ UNCHANGED <<line, original, device, applied, unlinking>>

\* The link is removed only while it names this pseudo-terminal.
RemovesLink(p) == link[pty[p].path] = pty[p].slave

\* rr_serial_pty_close() closes both descriptors and reads what the path names.
PtyClose(p) ==
    /\ pty[p] # Closed
    /\ pty' = [pty EXCEPT ![p] = Closed]
    /\ unlinking' = IF RemovesLink(p) THEN pty[p].path ELSE NoPath
    /\ UNCHANGED <<line, original, device, applied, link, calls>>

\* Then it unlinks the path, whatever became of it.
PtyUnlink ==
    /\ unlinking # NoPath
    /\ link' = [link EXCEPT ![unlinking] = 0]
    /\ unlinking' = NoPath
    /\ UNCHANGED <<line, original, device, applied, pty, calls>>

\* Somebody else removes a link.
LinkTaken(path) ==
    /\ link[path] # 0 /\ calls < MaxSerial
    /\ calls' = calls + 1
    /\ link' = [link EXCEPT ![path] = 0]
    /\ pty' = [p \in Ptys |-> IF pty[p].path = path /\ pty[p].slave = link[path]
                              THEN [pty[p] EXCEPT !.lost = TRUE] ELSE pty[p]]
    /\ UNCHANGED <<line, original, device, applied, unlinking>>

\* One caller, whose close is finished before the next call.
SerialNext ==
    \/ /\ unlinking = NoPath
       /\ \/ \E s \in Requests : DeviceOpen(s) \/ SettingsApply(s)
          \/ DeviceClose
          \/ \E p \in Ptys : PtyClose(p) \/ \E path \in Links : PtyOpen(p, path)
    \/ PtyUnlink
    \/ \E path \in Links : LinkTaken(path)

SerialSpec == SerialStart /\ [][SerialNext]_serialVars

-----------------------------------------------------------------------------
Settings  == [rate : Rates, flags : SUBSET Flags]
PtyRecord == [slave : Slaves \cup {0}, path : Links \cup {NoPath}, lost : BOOLEAN]

\* Types of the serial state.
SerialTypeOK ==
    /\ device \in BOOLEAN /\ calls \in 0 .. MaxSerial
    /\ line \in Settings /\ original \in Settings
    /\ pty \in [Ptys -> PtyRecord]
    /\ link \in [Links -> Slaves \cup {0}] /\ unlinking \in Links \cup {NoPath}

\* A closed device has the settings it was found with, an open one reads back as
\* exactly what was asked for, and an open pseudo-terminal keeps its link until
\* somebody else removes it: closing another one under the same path leaves it.
BorrowedIsReturned ==
    /\ ~device => line = Console
    /\ device => ReadBack(line) = applied
    /\ \A p \in Ptys : pty[p] # Closed /\ ~pty[p].lost => link[pty[p].path] = pty[p].slave
=============================================================================
