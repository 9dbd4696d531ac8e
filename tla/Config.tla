------------------------------- MODULE Config -------------------------------
(***************************************************************************)
(* The configuration of config.c, with the [modules] and [serial] sections *)
(* of cfg.modules.c and cfg.serial.c: the global dictionaries cfg and      *)
(* default_cfg, the loader and its nested includes, cfg_set_value(), the   *)
(* reload that replaces the live contents and tells the listeners, and the *)
(* save that moves the old file aside and writes a new one.                *)
(*                                                                         *)
(* A key is a pair: what stands before the colon ("" if nothing does) and  *)
(* the sequence of its dotted parts.  A value is a sequence of characters. *)
(* A file is a sequence of logical lines; a setting keeps the fragments    *)
(* its value is split into by continuations.  The process may die at any   *)
(* step and be started again.                                              *)
(***************************************************************************)
EXTENDS Integers, Sequences, FiniteSets, SequencesExt

CONSTANTS MainPath,     \* the one path cfg_detect_and_load() is given
          FirstDisk,    \* the files at first, by path
          Edits,        \* what MainPath may be replaced with by hand
          Unreadable,   \* paths fopen() fails for
          BackupPaths,  \* names of the backups of a day, 99 in the code
          Defaults,     \* defcfg
          Kinds,        \* the types of the keys of defcfg
          Requests,     \* pairs of a key and a value for cfg_set_value()
          ListenKeys,   \* keys reload events are added for
          IncludeLimit, \* 4 in cfg_load_depth()
          Columns,      \* what is left of the 80 columns after the key
          MaxConfigOps  \* bound on the calls made

VARIABLES disk,
          heap,         \* the dictionaries allocated, by address
          cfg, default_cfg, config_file,
          frames,       \* activations of cfg_load_depth()
          loaded,       \* newcfg in the caller of cfg_load()
          staged,       \* the old contents, in cfg_apply_new()
          job,          \* the call under way
          registered,   \* section callbacks
          events,       \* reload_events: keys, and Complete for a NULL key
          due, told,    \* keys still to be announced; announcements heard
          unwritten,    \* lines cfg_save_values() has yet to write
          saving,       \* what it is saving
          written,      \* history: what MainPath was saved from
          kept,         \* history: every whole file MainPath has held
          configOps

memory     == <<heap, cfg, default_cfg, config_file>>
loading    == <<frames, loaded>>
listening  == <<events, due, told, staged>>
writing    == <<unwritten, saving, written, kept>>
configVars == <<disk, memory, loading, job, registered, listening, writing, configOps>>

NoDict   == 0
Complete == <<"complete", <<>>>>
Address  == CHOOSE i \in 1 .. Cardinality(DOMAIN heap) + 1 : i \notin DOMAIN heap
Without(h, ids) == [i \in DOMAIN h \ ids |-> h[i]]
With(h, i, x)   == [j \in DOMAIN h \cup {i} |-> IF j = i THEN x ELSE h[j]]

ASSUME ConfigAssumption ==
    /\ MainPath \in DOMAIN FirstDisk
    /\ IncludeLimit \in Nat /\ MaxConfigOps \in Nat
    /\ Complete \notin DOMAIN Defaults \cup DOMAIN Kinds

-----------------------------------------------------------------------------
(* Text.                                                                   *)

TrimLeft(s)  == LET n == {i \in 1 .. Len(s) : s[i] # " "}
                IN IF n = {} THEN <<>> ELSE SubSeq(s, CHOOSE i \in n : \A j \in n : i <= j, Len(s))
TrimRight(s) == Reverse(TrimLeft(Reverse(s)))

\* cfg_write_wrapped(): every fragment but the last gives a column to the backslash.
Wrapped(v) ==
    LET more == Len(v) - Columns
        n    == IF more <= 0 THEN 1 ELSE 1 + (more + Columns - 2) \div (Columns - 1)
    IN [i \in 1 .. n |->
            SubSeq(v, (i - 1) * (Columns - 1) + 1, IF i = n THEN Len(v) ELSE i * (Columns - 1))]

\* Mutant: the blank that a fragment ends with is dropped.
JoinTight(line, more) == TrimRight(line) \o TrimRight(TrimLeft(more))

\* One continuation: blanks around the break become one blank if one stood
\* before the backslash, none otherwise.
Join(line, more) ==
    TrimRight(line) \o (IF Last(line) = " " THEN <<" ">> ELSE <<>>) \o TrimLeft(more)

Joined(fragments) == TrimRight(FoldLeft(Join, TrimLeft(Head(fragments)), Tail(fragments)))

\* cfg_expand_format_escapes(), of two escapes: a control code and the backslash.
Expanded(v) ==
    LET at[i \in Nat] ==
            IF i > Len(v) THEN <<>>
            ELSE IF v[i] = "\\" /\ i < Len(v) /\ v[i + 1] \in {"\\", "B"}
                 THEN <<IF v[i + 1] = "B" THEN "^B" ELSE "\\">> \o at[i + 2]
                 ELSE <<v[i]>> \o at[i + 1]
    IN at[1]

FormattingKey(key) == key[1] = "" /\ key[2][1] = "theme"

\* A module's name is stored without its .so.
ModuleName(name) == IF name = "m.so" THEN "m" ELSE name

\* The key a setting of a section is stored under.
KeyFor(section, name) ==
    CASE section[1] = "general" -> <<"", name>>
      [] section[1] \in {"server", "theme"} -> <<section[1], <<section[2]>> \o name>>
      [] section[1] \in {"site", "callsign-lookup"} -> <<section[1], name>>
      [] section[1] = "modules" -> <<"module", <<ModuleName(name[1]), "options">>>>
      [] section[1] = "serial" /\ Len(section) = 2 -> <<"serial", <<section[2]>> \o name>>
      [] section[1] = "serial" /\ Len(section) # 2 /\ Len(name) = 2 -> <<"serial", name>>
      [] OTHER -> <<"", section \o name>>

\* Sections the loader knows, and those a registered callback takes.
Taken(section) ==
    section[1] \in {"general", "server", "theme", "site", "callsign-lookup"} \cup registered

-----------------------------------------------------------------------------
ConfigStart ==
    /\ disk = FirstDisk
    /\ heap = <<>> /\ cfg = NoDict /\ default_cfg = NoDict /\ config_file = FALSE
    /\ frames = <<>> /\ loaded = NoDict /\ staged = NoDict
    /\ job = "idle"
    /\ registered = {} /\ events = {} /\ due = {} /\ told = <<>>
    /\ unwritten = <<>> /\ saving = <<>> /\ written = <<>>
    /\ kept = {FirstDisk[MainPath]}
    /\ configOps = 0

Call(next) == job = "idle" /\ configOps < MaxConfigOps /\ configOps' = configOps + 1 /\ job' = next

\* cfg_modules_init() and rr_serial_config_register(), before anything is loaded.
CfgAddCallback(section) ==
    /\ job = "idle" /\ cfg = NoDict
    /\ section \notin registered
    /\ registered' = registered \cup {section}
    /\ UNCHANGED <<disk, memory, loading, job, listening, writing, configOps>>

\* The program fills default_cfg with cfg_set_defaults() before it loads.
CfgSetDefaults ==
    /\ job = "idle" /\ cfg = NoDict /\ default_cfg = NoDict
    /\ default_cfg' = Address
    /\ heap' = With(heap, Address, Defaults)
    /\ UNCHANGED <<disk, cfg, config_file, loading, job, registered, listening, writing, configOps>>

\* reload_event_add() and reload_event_remove().
ReloadEventAdd(key) ==
    /\ job = "idle" /\ cfg # NoDict /\ configOps < MaxConfigOps
    /\ key \notin events
    /\ events' = events \cup {key}
    /\ UNCHANGED <<disk, memory, loading, job, registered, due, told, staged, writing, configOps>>

ReloadEventRemove(key) ==
    /\ Call("idle")
    /\ key \in events
    /\ events' = events \ {key}
    /\ UNCHANGED <<disk, memory, loading, registered, due, told, staged, writing>>

-----------------------------------------------------------------------------
(* cfg_load_depth(), a step for each line of the innermost file.           *)

Readable(name) == name \in DOMAIN disk /\ name \notin Unreadable

\* A new activation: the global cfg points to the dictionary it fills.
Activation(name) ==
    [file |-> name, at |-> 1, section |-> <<>>, comment |-> FALSE, dict |-> Address, saved |-> cfg]

Opened(stack, name) ==
    /\ frames' = Append(stack, Activation(name))
    /\ heap' = With(heap, Address, <<>>)
    /\ cfg' = Address

Top        == Last(frames)
Here       == disk[Top.file][Top.at]
Moved      == [Top EXCEPT !.at = @ + 1]
Under(f)   == Append(Front(frames), f)
InFile     == frames # <<>> /\ Top.at <= Len(disk[Top.file])
Stored(dict, key, val) == [heap EXCEPT ![dict] = With(@, key, val)]
LoadKeeps  == <<disk, default_cfg, config_file, loaded, job, registered, listening, writing, configOps>>

\* Comments, settings outside a section and in a section nobody takes.
SkipLine ==
    /\ InFile
    /\ \/ Here.t = "note"
       \/ Top.comment /\ Here.t # "close"
       \/ Here.t = "set" /\ (IF Top.section = <<>> THEN TRUE ELSE ~Taken(Top.section))
    /\ frames' = Under(Moved)
    /\ UNCHANGED <<heap, cfg, LoadKeeps>>

\* The delimiters of a block comment.
CommentLine ==
    /\ InFile
    /\ Here.t \in {"open", "close"}
    /\ ~(Top.comment /\ Here.t = "open")
    /\ frames' = Under([Moved EXCEPT !.comment = (Here.t = "open")])
    /\ UNCHANGED <<heap, cfg, LoadKeeps>>

SectionLine ==
    /\ InFile /\ ~Top.comment
    /\ Here.t = "section"
    /\ frames' = Under([Moved EXCEPT !.section = Here.section])
    /\ UNCHANGED <<heap, cfg, LoadKeeps>>

\* The loader stores in newcfg, a section callback in what cfg points to.
SettingLine ==
    LET key  == KeyFor(Top.section, Here.name)
        text == Joined(Here.text)
        dict == IF Top.section[1] \in registered THEN cfg ELSE Top.dict
    IN
    /\ InFile /\ ~Top.comment
    /\ Here.t = "set"
    /\ Top.section # <<>>
    /\ Taken(Top.section)
    /\ frames' = Under(Moved)
    /\ heap' = Stored(dict, key, IF FormattingKey(key) THEN Expanded(text) ELSE text)
    /\ UNCHANGED <<cfg, LoadKeeps>>

MayInclude == Len(frames) - 1 < IncludeLimit /\ Readable(Here.file)

IncludeLine ==
    /\ InFile /\ ~Top.comment
    /\ Here.t = "include"
    /\ MayInclude
    /\ Opened(Under(Moved), Here.file)
    /\ UNCHANGED LoadKeeps

\* An optional include that is missing, unreadable or too deep is passed over.
PassInclude ==
    /\ InFile /\ ~Top.comment
    /\ Here.t = "include" /\ Here.optional
    /\ ~MayInclude
    /\ frames' = Under(Moved)
    /\ UNCHANGED <<heap, cfg, LoadKeeps>>

\* The global cfg after an activation.
Restored(f) == f.saved

\* Mutant: what the including file said first stays.
MergedUnder(dst, src) ==
    [k \in DOMAIN dst \cup DOMAIN src |-> IF k \in DOMAIN dst THEN dst[k] ELSE src[k]]

\* cfg_merge_dict(): the included file's values replace.
Merged(dst, src) ==
    [k \in DOMAIN dst \cup DOMAIN src |-> IF k \in DOMAIN src THEN src[k] ELSE dst[k]]

\* The end of a file: an included one is merged where it was included, the
\* outermost goes to the caller of cfg_load().
EndOfFile ==
    /\ frames # <<>>
    /\ ~InFile
    /\ cfg' = Restored(Top)
    /\ frames' = Front(frames)
    /\ IF Len(frames) = 1
       THEN loaded' = Top.dict /\ UNCHANGED heap
       ELSE LET parent == frames[Len(frames) - 1].dict IN
            /\ heap' = Without([heap EXCEPT ![parent] = Merged(@, heap[Top.dict])], {Top.dict})
            /\ UNCHANGED loaded
    /\ UNCHANGED <<disk, default_cfg, config_file, job, registered, listening, writing, configOps>>

-----------------------------------------------------------------------------
(* cfg_detect_and_load(), cfg_reload() and cfg_apply_new().                *)

CfgDetectAndLoad ==
    /\ Call("detect")
    /\ cfg = NoDict
    /\ config_file' = (MainPath \in DOMAIN disk)
    /\ IF default_cfg = NoDict
       THEN default_cfg' = Address /\ heap' = With(heap, Address, <<>>)
       ELSE UNCHANGED <<default_cfg, heap>>
    /\ UNCHANGED <<disk, cfg, loading, registered, listening, writing>>

CfgReload ==
    /\ Call("reload")
    /\ config_file
    /\ UNCHANGED <<disk, memory, loading, registered, listening, writing>>

CfgLoad ==
    /\ job \in {"detect", "reload"}
    /\ frames = <<>> /\ loaded = NoDict
    /\ Readable(MainPath)
    /\ Opened(<<>>, MainPath)
    /\ UNCHANGED LoadKeeps

\* No file: the defaults serve as the configuration, a reload does nothing.
CfgLoadFails ==
    /\ job \in {"detect", "reload"}
    /\ frames = <<>> /\ loaded = NoDict
    /\ ~Readable(MainPath)
    /\ cfg' = IF job = "detect" THEN default_cfg ELSE cfg
    /\ job' = "idle"
    /\ UNCHANGED <<disk, heap, default_cfg, config_file, loading, registered, listening, writing, configOps>>

Detected ==
    /\ job = "detect" /\ loaded # NoDict
    /\ cfg' = loaded
    /\ loaded' = NoDict
    /\ job' = "idle"
    /\ UNCHANGED <<disk, heap, default_cfg, config_file, frames, registered, listening, writing, configOps>>

\* Mutant: keys that are no longer set are forgotten.
DiffOneWay(a, b) == {k \in DOMAIN b : k \in DOMAIN a => a[k] # b[k]}

\* dict_diff(): keys of one dictionary only, and keys with two values.
Diff(a, b) ==
    {k \in DOMAIN a \cup DOMAIN b :
        k \in DOMAIN a /\ k \in DOMAIN b => a[k] # b[k]}

\* cfg keeps its address and takes the new contents; staged has the old ones.
CfgApplyNew ==
    /\ job = "reload" /\ loaded # NoDict
    /\ staged' = Address
    /\ heap' = With([heap EXCEPT ![cfg] = heap[loaded]], Address, heap[cfg])
    /\ due' = Diff(heap[cfg], heap[loaded])
    /\ told' = <<>>
    /\ job' = "announce"
    /\ UNCHANGED <<disk, cfg, default_cfg, config_file, loading, registered, events, writing, configOps>>

\* reload_event_run() for a key: the listener for it, if any, is told.
Announce(key) ==
    /\ job = "announce"
    /\ key \in due
    /\ due' = due \ {key}
    /\ told' = IF key \in events THEN Append(told, key) ELSE told
    /\ UNCHANGED <<disk, memory, loading, job, registered, events, staged, writing, configOps>>

\* reload_event_run(NULL), once every key has been announced.
AnnounceComplete ==
    /\ job = "announce"
    /\ due = {}
    /\ told' = IF Complete \in events THEN Append(told, Complete) ELSE told
    /\ job' = "announced"
    /\ UNCHANGED <<disk, memory, loading, registered, events, due, staged, writing, configOps>>

\* The end of cfg_apply_new() frees the old contents and newcfg; cfg_set_value()
\* has neither.
Announced ==
    /\ job = "announced"
    /\ heap' = Without(heap, {staged, loaded})
    /\ staged' = NoDict /\ loaded' = NoDict
    /\ told' = <<>>
    /\ job' = "idle"
    /\ UNCHANGED <<disk, cfg, default_cfg, config_file, frames, registered, events, due, writing, configOps>>

-----------------------------------------------------------------------------
(* cfg_set_value().                                                        *)

Digits  == {"0", "1", "2", "3", "4", "5", "6", "7", "8", "9"}
Refused == <<"refused">>

\* The form a value is stored in, by the type of the key.
Canonical(kind, v) ==
    CASE kind = "bool" -> IF v \in {<<"true">>, <<"yes">>, <<"on">>, <<"1">>} THEN <<"true">>
                          ELSE IF v \in {<<"false">>, <<"no">>, <<"off">>, <<"0">>} THEN <<"false">>
                          ELSE Refused
      [] kind = "uint" -> IF v = <<>> \/ ~(ToSet(v) \subseteq Digits) THEN Refused
                          ELSE LET n == {i \in 1 .. Len(v) : v[i] # "0" \/ i = Len(v)}
                               IN SubSeq(v, CHOOSE i \in n : \A j \in n : i <= j, Len(v))
      [] OTHER -> v

\* Keys outside defcfg are refused; so is a value its type cannot hold.
CfgSetValue(key, v) ==
    /\ Call("announce")
    /\ cfg # NoDict
    /\ key \in DOMAIN Kinds
    /\ Canonical(Kinds[key], v) # Refused
    /\ heap' = Stored(cfg, key, Canonical(Kinds[key], v))
    /\ due' = {key}
    /\ UNCHANGED <<disk, cfg, default_cfg, config_file, loading, registered, events, told, staged, writing>>

-----------------------------------------------------------------------------
(* cfg_save_values().                                                      *)

\* cfg_save_entry_is_skipped(), and theme: keys without a dot.
Skipped(key) ==
    \/ key[1] = "server"
    \/ key[1] = "" /\ key[2][1] = "network"
    \/ key = <<"", <<"ui", "gtk", "css">>>>
    \/ key[1] = "theme" /\ Len(key[2]) = 1

\* The section a key is written in, and its name there.
SectionOf(key) ==
    CASE key[1] = "" -> <<"general">>
      [] key[1] \in {"theme", "server"} -> <<key[1], key[2][1]>>
      [] key[1] = "pipeline" -> <<"pipelines">>
      [] OTHER -> <<key[1]>>

NameIn(key) == IF key[1] \in {"theme", "server"} THEN Tail(key[2]) ELSE key[2]

\* The sections of a set of keys, one after the other.
SectionLines(d, keys) ==
    LET lines(s) == <<[t |-> "section", section |-> s]>> \o
                    SetToSeq({[t |-> "set", name |-> NameIn(k), text |-> Wrapped(d[k])] :
                                k \in {k \in keys : SectionOf(k) = s}})
    IN FlattenSeq([i \in 1 .. Cardinality({SectionOf(k) : k \in keys}) |->
                        lines(SetToSeq({SectionOf(k) : k \in keys})[i])])

\* The servers, of the dictionary in use alone.
ServerLines(d) == SectionLines(d, {k \in DOMAIN d : k[1] = "server"})

\* The whole file: [general], the other sections, then the servers.
FileLines(d, all) ==
    SectionLines(all, {k \in DOMAIN all : ~Skipped(k) /\ k[1] = ""}) \o
    SectionLines(all, {k \in DOMAIN all : ~Skipped(k) /\ k[1] # ""}) \o
    ServerLines(d)

\* Mutant: the first name of the day is always used.
FreeBackupsAny == {1}

\* Sequence numbers no backup has yet.
FreeBackups == {i \in 1 .. Len(BackupPaths) : BackupPaths[i] \notin DOMAIN disk}

\* cfg_save() and cfg_save_overrides(): the file is renamed to the first free
\* backup name; with none left nothing is saved.
CfgSave(complete) ==
    LET all == IF complete THEN heap[cfg] @@ heap[default_cfg] ELSE heap[cfg]
        old == BackupPaths[CHOOSE i \in FreeBackups : \A j \in FreeBackups : i <= j]
    IN
    /\ Call("save")
    /\ cfg # NoDict
    /\ MainPath \in DOMAIN disk => FreeBackups # {}
    /\ disk' = IF MainPath \notin DOMAIN disk THEN disk
               ELSE With(Without(disk, {MainPath}), old, disk[MainPath])
    /\ unwritten' = FileLines(heap[cfg], all)
    /\ saving' = all
    /\ UNCHANGED <<memory, loading, registered, listening, written, kept>>

\* fopen(path, "w").
SaveOpen ==
    /\ job = "save"
    /\ MainPath \notin DOMAIN disk
    /\ disk' = With(disk, MainPath, <<>>)
    /\ written' = <<>>
    /\ UNCHANGED <<memory, loading, job, registered, listening, unwritten, saving, kept, configOps>>

SaveLine ==
    /\ job = "save"
    /\ MainPath \in DOMAIN disk
    /\ unwritten # <<>>
    /\ disk' = [disk EXCEPT ![MainPath] = Append(@, Head(unwritten))]
    /\ unwritten' = Tail(unwritten)
    /\ UNCHANGED <<memory, loading, job, registered, listening, saving, written, kept, configOps>>

SaveClose ==
    /\ job = "save"
    /\ MainPath \in DOMAIN disk
    /\ unwritten = <<>>
    /\ written' = saving
    /\ saving' = <<>>
    /\ kept' = kept \cup {disk[MainPath]}
    /\ job' = "idle"
    /\ UNCHANGED <<disk, memory, loading, registered, listening, unwritten, configOps>>

-----------------------------------------------------------------------------
(* The file edited by hand, the end of the program, and its next start.    *)

EditFile(lines) ==
    /\ Call("idle")
    /\ MainPath \in DOMAIN disk
    /\ disk' = [disk EXCEPT ![MainPath] = lines]
    /\ kept' = (kept \ {disk[MainPath]}) \cup {lines}
    /\ written' = <<>>
    /\ UNCHANGED <<memory, loading, registered, listening, unwritten, saving>>

\* What cfg_fini() frees: cfg, and default_cfg if it is another.
FiniFrees == {cfg, default_cfg}

CfgFini ==
    /\ Call("idle")
    /\ heap' = Without(heap, FiniFrees)
    /\ cfg' = NoDict /\ default_cfg' = NoDict /\ config_file' = FALSE
    /\ registered' = {} /\ events' = {}
    /\ UNCHANGED <<disk, loading, due, told, staged, writing>>

\* The process dies: killed, or exit() at a mandatory include that cannot be had.
Die ==
    /\ \/ job # "idle" /\ configOps < MaxConfigOps
       \/ InFile /\ ~Top.comment /\ Here.t = "include" /\ ~Here.optional /\ ~MayInclude
    /\ heap' = <<>> /\ cfg' = NoDict /\ default_cfg' = NoDict /\ config_file' = FALSE
    /\ frames' = <<>> /\ loaded' = NoDict /\ staged' = NoDict
    /\ job' = "idle"
    /\ registered' = {} /\ events' = {} /\ due' = {} /\ told' = <<>>
    /\ unwritten' = <<>> /\ saving' = <<>>
    /\ UNCHANGED <<disk, written, kept, configOps>>

ConfigNext ==
    \/ \E s \in {"modules", "serial"} : CfgAddCallback(s)
    \/ CfgSetDefaults
    \/ \E k \in ListenKeys \cup {Complete} : ReloadEventAdd(k) \/ ReloadEventRemove(k)
    \/ SkipLine \/ CommentLine \/ SectionLine \/ SettingLine
    \/ IncludeLine \/ PassInclude \/ EndOfFile
    \/ CfgDetectAndLoad \/ CfgReload \/ CfgLoad \/ CfgLoadFails \/ Detected
    \/ CfgApplyNew \/ (\E k \in due : Announce(k)) \/ AnnounceComplete \/ Announced
    \/ \E r \in Requests : CfgSetValue(r[1], r[2])
    \/ \E complete \in BOOLEAN : CfgSave(complete)
    \/ SaveOpen \/ SaveLine \/ SaveClose
    \/ \E lines \in Edits : EditFile(lines)
    \/ CfgFini \/ Die

ConfigSpec == ConfigStart /\ [][ConfigNext]_configVars

-----------------------------------------------------------------------------
\* Types: dictionaries by address, a stack of activations no deeper than the limit.
ConfigTypeOK ==
    /\ {cfg, default_cfg, loaded, staged} \subseteq DOMAIN heap \cup {NoDict}
    /\ Len(frames) <= IncludeLimit + 1
    /\ \A i \in 1 .. Len(frames) : frames[i].dict \in DOMAIN heap
    /\ job \in {"idle", "detect", "reload", "announce", "announced", "save"}
    /\ events \subseteq ListenKeys \cup {Complete}
    /\ configOps \in 0 .. MaxConfigOps

CommentAt(lines, i) ==
    \E j \in 1 .. i - 1 : lines[j].t = "open" /\ \A m \in j + 1 .. i - 1 : lines[m].t # "close"

SectionAt(lines, i) ==
    LET s == {j \in 1 .. i - 1 : lines[j].t = "section" /\ ~CommentAt(lines, j)}
    IN IF s = {} THEN <<>> ELSE lines[CHOOSE j \in s : \A m \in s : m <= j].section

\* The settings of a file in order, those of its includes in their place.
Settings(name) ==
    LET value(key, text) == IF FormattingKey(key) THEN Expanded(Joined(text)) ELSE Joined(text)
        flat[depth \in Nat, p \in DOMAIN disk] ==
            LET lines == disk[p]
                of(i) == CASE lines[i].t = "include" /\ ~CommentAt(lines, i) ->
                                IF depth < IncludeLimit /\ Readable(lines[i].file)
                                THEN flat[depth + 1, lines[i].file] ELSE <<>>
                           [] lines[i].t = "set" /\ ~CommentAt(lines, i) ->
                                LET s == SectionAt(lines, i) IN
                                IF s = <<>> THEN <<>> ELSE IF ~Taken(s) THEN <<>>
                                ELSE LET k == KeyFor(s, lines[i].name)
                                     IN <<[key |-> k, val |-> value(k, lines[i].text)]>>
                           [] OTHER -> <<>>
            IN FlattenSeq([i \in 1 .. Len(lines) |-> of(i)])
    IN flat[0, name]

\* "Includes are processed inline ... normal last-value-wins behavior" (config.c):
\* a loaded dictionary holds, for each key, the last value given to it in the text
\* with every include in its place, whatever the nesting, the comments, the
\* section an include interrupts and the callbacks that store through cfg.
LoadedAsWritten ==
    loaded # NoDict =>
        LET s == Settings(MainPath) IN
        /\ DOMAIN heap[loaded] = {s[i].key : i \in 1 .. Len(s)}
        /\ \A i \in 1 .. Len(s) :
              (\A j \in i + 1 .. Len(s) : s[j].key # s[i].key) => heap[loaded][s[i].key] = s[i].val

\* What survives a file: keys of sections the library itself both writes and
\* takes, values without a blank after a break, a trailing backslash or an escape.
Survives(key, v) ==
    /\ \/ key[1] \in {"", "server", "site", "callsign-lookup"} /\ (key[1] = "server" \/ ~Skipped(key))
       \/ key[1] = "theme" /\ Len(key[2]) > 1
       \/ key[1] = "serial" /\ "serial" \in registered /\ Len(key[2]) = 2
    /\ "\\" \notin ToSet(v)
    /\ v = TrimRight(v)
    /\ \A i \in 1 .. Len(Wrapped(v)) : Wrapped(v)[i] = <<>> \/ Head(Wrapped(v)[i]) # " "

\* A configuration saved whole comes back when it is loaded: no key lands in
\* another section or in none, and a value that was wrapped is joined again.
SavedComesBack ==
    loaded # NoDict =>
        \A k \in DOMAIN written :
            Survives(k, written[k]) => k \in DOMAIN heap[loaded] /\ heap[loaded][k] = written[k]

\* A save that is cut off, refused or repeated loses nothing: every whole file that
\* was at the path and that no hand replaced is there still or in a backup.
NothingLost == \A lines \in kept : \E p \in DOMAIN disk : disk[p] = lines

\* A reload tells the listener of every key whose value changed, came or went, once
\* and with the new contents in place, then the listener for completion, and leaves
\* no dictionary behind; cfg is the same, allocated dictionary throughout.
ReloadIsClean ==
    /\ job = "announced" /\ staged # NoDict =>
         LET at(d, k) == IF k \in DOMAIN heap[d] THEN <<heap[d][k]>> ELSE <<>>
             changed  == {k \in events \ {Complete} : at(staged, k) # at(cfg, k)}
         IN
         /\ Complete \in events => Last(told) = Complete
         /\ \A k \in events : Cardinality({i \in 1 .. Len(told) : told[i] = k}) =
                                 IF k \in changed \cup {Complete} THEN 1 ELSE 0
    /\ job = "idle" => DOMAIN heap = {cfg, default_cfg} \ {NoDict}
=============================================================================
