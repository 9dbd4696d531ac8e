---------------------------- MODULE StoresProofs ----------------------------
(***************************************************************************)
(* Proofs about the configuration, the access lists and the terminal:      *)
(* whatever files, includes, listeners and requests there are, however     *)
(* often the configuration is loaded, reloaded, set, saved, edited by hand *)
(* and cut off; for any rules, addresses and users; for any windows,       *)
(* messages, keys and words to complete.                                   *)
(***************************************************************************)
EXTENDS Config, Acl, InputLine, FoldProofs, SequenceTheorems

-----------------------------------------------------------------------------
(* The files.                                                              *)

\* Every whole file is somewhere; while a save is under way, outside the path that
\* is being written.
FilesInv ==
    /\ NothingLost
    /\ job = "save" => \A lines \in kept : \E p \in DOMAIN disk \ {MainPath} : disk[p] = lines

LEMMA FilesKept ==
    ASSUME FilesInv, [ConfigNext]_configVars
    PROVE  FilesInv'
<1>1. ASSUME UNCHANGED <<disk, kept>>, job' = job \/ job' # "save" PROVE FilesInv'
  BY <1>1 DEF FilesInv, NothingLost
<1>2. ASSUME NEW complete \in BOOLEAN, CfgSave(complete) PROVE FilesInv'
  <2>1. kept' = kept /\ job' = "save"
    BY <1>2 DEF CfgSave, Call
  <2>2. CASE MainPath \notin DOMAIN disk
    <3>1. disk' = disk
      BY <1>2, <2>2 DEF CfgSave
    <3> QED  BY <2>1, <2>2, <3>1 DEF FilesInv, NothingLost
  <2>3. CASE MainPath \in DOMAIN disk
    <3>1. PICK old : /\ old \notin DOMAIN disk
                     /\ disk' = With(Without(disk, {MainPath}), old, disk[MainPath])
      <4>1. FreeBackups # {}
        BY <1>2, <2>3 DEF CfgSave
      <4>2. \A i \in FreeBackups : i \in Nat /\ BackupPaths[i] \notin DOMAIN disk
        BY DEF FreeBackups
      <4>3. PICK i : /\ i = CHOOSE n \in FreeBackups : \A j \in FreeBackups : n <= j
                     /\ disk' = With(Without(disk, {MainPath}), BackupPaths[i], disk[MainPath])
        BY <1>2, <2>3 DEF CfgSave
      <4>4. \E k \in FreeBackups : \A j \in FreeBackups : k <= j
        BY <4>1, <4>2, Least
      <4>5. i \in FreeBackups
        BY <4>3, <4>4
      <4> QED  BY <4>2, <4>3, <4>5
    <3>2. /\ old # MainPath /\ old \in DOMAIN disk' /\ disk'[old] = disk[MainPath]
          /\ \A p \in DOMAIN disk \ {MainPath} : p \in DOMAIN disk' /\ disk'[p] = disk[p]
      BY <2>3, <3>1 DEF With, Without
    <3>3. \A lines \in kept : \E p \in DOMAIN disk' \ {MainPath} : disk'[p] = lines
      <4> SUFFICES ASSUME NEW lines \in kept PROVE \E p \in DOMAIN disk' \ {MainPath} : disk'[p] = lines
        OBVIOUS
      <4>1. PICK p \in DOMAIN disk : disk[p] = lines
        BY DEF FilesInv, NothingLost
      <4>2. CASE p = MainPath
        BY <3>2, <4>1, <4>2
      <4>3. CASE p # MainPath
        BY <3>2, <4>1, <4>3
      <4> QED  BY <4>2, <4>3
    <3> QED  BY <2>1, <3>3 DEF FilesInv, NothingLost
  <2> QED  BY <2>2, <2>3
<1>3. ASSUME SaveOpen PROVE FilesInv'
  <2>1. /\ \A p \in DOMAIN disk \ {MainPath} : p \in DOMAIN disk' /\ disk'[p] = disk[p]
        /\ job' = job /\ kept' = kept /\ job = "save"
    BY <1>3 DEF SaveOpen, With
  <2>2. \A lines \in kept : \E p \in DOMAIN disk' \ {MainPath} : disk'[p] = lines
    BY <2>1 DEF FilesInv
  <2> QED  BY <2>1, <2>2 DEF FilesInv, NothingLost
<1>4. ASSUME SaveLine PROVE FilesInv'
  <2>1. /\ \A p \in DOMAIN disk \ {MainPath} : p \in DOMAIN disk' /\ disk'[p] = disk[p]
        /\ job' = job /\ kept' = kept /\ job = "save"
    BY <1>4 DEF SaveLine
  <2>2. \A lines \in kept : \E p \in DOMAIN disk' \ {MainPath} : disk'[p] = lines
    BY <2>1 DEF FilesInv
  <2> QED  BY <2>1, <2>2 DEF FilesInv, NothingLost
<1>5. ASSUME SaveClose PROVE FilesInv'
  BY <1>5 DEF SaveClose, FilesInv, NothingLost
<1>6. ASSUME NEW lines \in Edits, EditFile(lines) PROVE FilesInv'
  <2>1. /\ MainPath \in DOMAIN disk /\ DOMAIN disk' = DOMAIN disk /\ disk'[MainPath] = lines
        /\ \A p \in DOMAIN disk \ {MainPath} : disk'[p] = disk[p]
        /\ kept' = (kept \ {disk[MainPath]}) \cup {lines} /\ job' = "idle"
    BY <1>6 DEF EditFile, Call
  <2>2. ASSUME NEW l \in kept' PROVE \E p \in DOMAIN disk' : disk'[p] = l
    <3>1. CASE l = lines
      BY <2>1, <3>1
    <3>2. CASE l # lines
      <4>1. l \in kept /\ l # disk[MainPath]
        BY <2>1, <2>2, <3>2
      <4>2. PICK p \in DOMAIN disk : disk[p] = l
        BY <4>1 DEF FilesInv, NothingLost
      <4> QED  BY <2>1, <4>1, <4>2
    <3> QED  BY <3>1, <3>2
  <2> QED  BY <2>1, <2>2 DEF FilesInv, NothingLost
<1>7. CASE UNCHANGED configVars
  BY <1>1, <1>7 DEF configVars, writing
<1>8. CASE ConfigNext
  <2>1. ASSUME NEW s \in {"modules", "serial"}, CfgAddCallback(s) PROVE FilesInv'
    BY <1>1, <2>1 DEF CfgAddCallback, writing
  <2>2. ASSUME NEW k, ReloadEventAdd(k) \/ ReloadEventRemove(k) PROVE FilesInv'
    BY <1>1, <2>2 DEF ReloadEventAdd, ReloadEventRemove, Call, writing
  <2>3. ASSUME CfgSetDefaults \/ CfgDetectAndLoad \/ CfgReload \/ CfgLoadFails \/ Detected PROVE FilesInv'
    BY <1>1, <2>3 DEF CfgSetDefaults, CfgDetectAndLoad, CfgReload, CfgLoadFails, Detected, Call, writing
  <2>4. ASSUME SkipLine \/ CommentLine \/ SectionLine \/ SettingLine \/ IncludeLine \/ PassInclude
               \/ CfgLoad
        PROVE  FilesInv'
    <3>1. UNCHANGED LoadKeeps
      BY <2>4 DEF SkipLine, CommentLine, SectionLine, SettingLine, IncludeLine, PassInclude, CfgLoad
    <3> QED  BY <1>1, <3>1 DEF LoadKeeps, writing
  <2>5. ASSUME EndOfFile PROVE FilesInv'
    BY <1>1, <2>5 DEF EndOfFile, writing
  <2>6. ASSUME CfgApplyNew \/ (\E k \in due : Announce(k)) \/ AnnounceComplete \/ Announced PROVE FilesInv'
    BY <1>1, <2>6 DEF CfgApplyNew, Announce, AnnounceComplete, Announced, writing
  <2>7. ASSUME NEW r \in Requests, CfgSetValue(r[1], r[2]) PROVE FilesInv'
    BY <1>1, <2>7 DEF CfgSetValue, Call, writing
  <2>8. ASSUME CfgFini \/ Die PROVE FilesInv'
    BY <1>1, <2>8 DEF CfgFini, Die, Call, writing
  <2> QED  BY <1>2, <1>3, <1>4, <1>5, <1>6, <1>8, <2>1, <2>2, <2>3, <2>4, <2>5, <2>6, <2>7, <2>8
           DEF ConfigNext
<1> QED  BY <1>7, <1>8

\* Every whole file that was at the path and that no hand replaced is there still or
\* in a backup, whenever the program is killed and however many saves there are: the
\* path cfg_save_values() writes holds nothing that is not elsewhere.
THEOREM NothingEverLost == ConfigSpec => []NothingLost
<1>1. ConfigStart => FilesInv
  BY ConfigAssumption DEF ConfigStart, FilesInv, NothingLost
<1>2. FilesInv /\ [ConfigNext]_configVars => FilesInv'
  BY FilesKept
<1>3. FilesInv => NothingLost
  BY DEF FilesInv
<1> QED  BY <1>1, <1>2, <1>3, PTL DEF ConfigSpec

-----------------------------------------------------------------------------
(* The dictionaries: who holds each one that is allocated.                 *)

\* What cfg points to outside the activations, and what the activations fill.
BaseOf(fs, c) == IF fs = <<>> THEN c ELSE fs[1].saved
Filled(fs)    == {fs[i].dict : i \in 1 .. Len(fs)}

\* Every activation fills a dictionary of its own and remembers the one below.
WellStacked(fs, c, dc) ==
    /\ \E S : fs \in Seq(S)
    /\ \A i \in 1 .. Len(fs) : {"dict", "saved"} \subseteq DOMAIN fs[i]
    /\ \A i \in 1 .. Len(fs) : fs[i].dict \notin {NoDict, BaseOf(fs, c), dc}
    /\ \A i, j \in 1 .. Len(fs) : fs[i].dict = fs[j].dict => i = j
    /\ \A i \in 2 .. Len(fs) : fs[i].saved = fs[i - 1].dict
    /\ fs # <<>> => c = fs[Len(fs)].dict

\* What is allocated is what is held, by one holder each; cfg and default_cfg may
\* be one dictionary.
Held(H, fs, c, dc, ld, st) ==
    /\ IsFiniteSet(H) /\ H \subseteq Nat
    /\ H = ({BaseOf(fs, c), dc, ld, st} \cup Filled(fs)) \ {NoDict}
    /\ WellStacked(fs, c, dc)
    /\ fs # <<>> => ld = NoDict /\ st = NoDict
    /\ ld # NoDict => ld \notin {BaseOf(fs, c), dc, st}
    /\ st # NoDict => st \notin {BaseOf(fs, c), dc}

LEMMA AddressIsFree ==
    ASSUME IsFiniteSet(DOMAIN heap)
    PROVE  Address \in Nat /\ Address # NoDict /\ Address \notin DOMAIN heap
<1>1. PICK n : n = Cardinality(DOMAIN heap)
  OBVIOUS
<1>2. n \in Nat
  BY <1>1, FS_CardinalityType
<1>3. ~(1 .. n + 1 \subseteq DOMAIN heap)
  <2> SUFFICES ASSUME 1 .. n + 1 \subseteq DOMAIN heap PROVE FALSE
    OBVIOUS
  <2>1. Cardinality(1 .. n + 1) = n + 1
    BY <1>2, FS_Interval
  <2>2. Cardinality(1 .. n + 1) <= n
    BY <1>1, FS_Subset
  <2> QED  BY <1>2, <2>1, <2>2
<1>4. Address \in 1 .. n + 1 /\ Address \notin DOMAIN heap
  BY <1>1, <1>3 DEF Address
<1> QED  BY <1>2, <1>4 DEF NoDict

LEMMA EmptyStack ==
    ASSUME NEW c, NEW dc
    PROVE  BaseOf(<<>>, c) = c /\ Filled(<<>>) = {} /\ WellStacked(<<>>, c, dc)
<1>1. <<>> \in Seq({}) /\ Len(<<>>) = 0
  OBVIOUS
<1> QED  BY <1>1 DEF BaseOf, Filled, WellStacked

\* Outside the loader.
LEMMA HeldFlat ==
    ASSUME NEW H, NEW c, NEW dc, NEW ld, NEW st
    PROVE  Held(H, <<>>, c, dc, ld, st) <=>
             /\ IsFiniteSet(H) /\ H \subseteq Nat
             /\ H = {c, dc, ld, st} \ {NoDict}
             /\ ld # NoDict => ld \notin {c, dc, st}
             /\ st # NoDict => st \notin {c, dc}
<1>1. BaseOf(<<>>, c) = c /\ Filled(<<>>) = {} /\ WellStacked(<<>>, c, dc)
  BY EmptyStack
<1> QED  BY <1>1 DEF Held

LEMMA HeldMoved ==
    ASSUME NEW H, NEW fs, NEW gs, NEW c, NEW dc, NEW ld, NEW st, NEW S,
           Held(H, fs, c, dc, ld, st), fs # <<>>, gs # <<>>,
           gs \in Seq(S), Len(gs) = Len(fs),
           \A i \in 1 .. Len(fs) : /\ DOMAIN gs[i] = DOMAIN fs[i]
                                   /\ gs[i].dict = fs[i].dict /\ gs[i].saved = fs[i].saved
    PROVE  Held(H, gs, c, dc, ld, st)
<1>1. PICK T : fs \in Seq(T)
  BY DEF Held, WellStacked
<1>2. Len(fs) \in Nat /\ Len(fs) # 0
  BY <1>1
<1>3. BaseOf(gs, c) = BaseOf(fs, c) /\ Filled(gs) = Filled(fs)
  BY <1>2 DEF BaseOf, Filled
<1>4. WellStacked(gs, c, dc)
  <2>1. /\ \A i \in 1 .. Len(gs) : {"dict", "saved"} \subseteq DOMAIN gs[i]
        /\ \A i \in 1 .. Len(gs) : gs[i].dict \notin {NoDict, BaseOf(gs, c), dc}
    BY <1>3 DEF Held, WellStacked
  <2>2. \A i, j \in 1 .. Len(gs) : gs[i].dict = gs[j].dict => i = j
    BY DEF Held, WellStacked
  <2>3. \A i \in 2 .. Len(gs) : gs[i].saved = gs[i - 1].dict
    <3> SUFFICES ASSUME NEW i \in 2 .. Len(gs) PROVE gs[i].saved = gs[i - 1].dict
      OBVIOUS
    <3>1. i \in 1 .. Len(fs) /\ i - 1 \in 1 .. Len(fs)
      BY <1>2
    <3>2. fs[i].saved = fs[i - 1].dict
      BY DEF Held, WellStacked
    <3> QED  BY <3>1, <3>2
  <2>4. c = gs[Len(gs)].dict
    BY <1>2 DEF Held, WellStacked
  <2> QED  BY <2>1, <2>2, <2>3, <2>4 DEF WellStacked
<1> QED  BY <1>3, <1>4 DEF Held

HeldAlike(H, fs, gs, c, dc, ld, st) ==
    /\ Held(H, gs, c, dc, ld, st)
    /\ Len(gs) = Len(fs) /\ gs # <<>> /\ BaseOf(gs, c) = BaseOf(fs, c)

\* The innermost activation replaced by one that fills the same dictionary.
LEMMA HeldTop ==
    ASSUME NEW H, NEW fs, NEW gs, NEW c, NEW dc, NEW ld, NEW st, NEW f, NEW n,
           Held(H, fs, c, dc, ld, st), fs # <<>>, n = Len(fs),
           NEW top, top = Last(fs), DOMAIN f = DOMAIN top, f.dict = top.dict, f.saved = top.saved,
           gs = Append(Front(fs), f)
    PROVE  HeldAlike(H, fs, gs, c, dc, ld, st)
<1>1. PICK S : fs \in Seq(S)
  BY DEF Held, WellStacked
<1>2. n \in Nat /\ n # 0
  BY <1>1
<1>3. PICK b : b = Front(fs)
  OBVIOUS
<1>4. PICK m \in Int : m = n - 1
  BY <1>2
<1>5. b = SubSeq(fs, 1, m)
  BY <1>3, <1>4 DEF Front
<1>6. /\ SubSeq(fs, 1, m) \in Seq(S)
      /\ Len(SubSeq(fs, 1, m)) = IF 1 <= m THEN m - 1 + 1 ELSE 0
      /\ \A i \in 1 .. m - 1 + 1 : SubSeq(fs, 1, m)[i] = fs[1 + i - 1]
  <2>1. \A i \in 1 .. m : fs[i] \in S
    BY <1>1, <1>2, <1>4
  <2> QED  BY <1>4, <2>1, SubSeqProperties
<1>7. b \in Seq(S) /\ Len(b) = n - 1 /\ \A i \in 1 .. n - 1 : b[i] = fs[i]
  BY <1>2, <1>4, <1>5, <1>6
<1>8. b \in Seq(S \cup {f}) /\ gs = Append(b, f)
  BY <1>3, <1>7
<1>9. gs \in Seq(S \cup {f}) /\ Len(gs) = n /\ gs[n] = f
  BY <1>2, <1>7, <1>8
<1>10. \A i \in 1 .. n - 1 : gs[i] = fs[i]
  BY <1>2, <1>7, <1>8
<1>11. gs # <<>>
  BY <1>2, <1>9
<1>12. ASSUME NEW i \in 1 .. Len(fs)
       PROVE  DOMAIN gs[i] = DOMAIN fs[i] /\ gs[i].dict = fs[i].dict /\ gs[i].saved = fs[i].saved
  <2>1. CASE i = n
    BY <1>9, <2>1 DEF Last
  <2>2. CASE i # n
    <3>1. i \in 1 .. n - 1
      BY <1>2, <2>2
    <3> QED  BY <1>10, <3>1
  <2> QED  BY <2>1, <2>2
<1>13. Held(H, gs, c, dc, ld, st)
  BY <1>9, <1>11, <1>12, HeldMoved
<1>14. BaseOf(gs, c) = BaseOf(fs, c)
  BY <1>2, <1>11, <1>12 DEF BaseOf
<1> QED  BY <1>9, <1>11, <1>13, <1>14 DEF HeldAlike

LEMMA HeldPush ==
    ASSUME NEW H, NEW fs, NEW c, NEW dc, NEW f, NEW a, NEW gs,
           Held(H, fs, c, dc, NoDict, NoDict),
           a \in Nat, a # NoDict, a \notin H,
           {"dict", "saved"} \subseteq DOMAIN f, f.dict = a, f.saved = c,
           gs = Append(fs, f)
    PROVE  Held(H \cup {a}, gs, a, dc, NoDict, NoDict)
<1>1. PICK S : fs \in Seq(S)
  BY DEF Held, WellStacked
<1>2. PICK n : n = Len(fs)
  OBVIOUS
<1>3. n \in Nat
  BY <1>1, <1>2
<1>4. fs \in Seq(S \cup {f})
  BY <1>1
<1>5. gs \in Seq(S \cup {f}) /\ Len(gs) = n + 1 /\ gs[n + 1] = f
  BY <1>2, <1>3, <1>4
<1>6. \A i \in 1 .. n : gs[i] = fs[i]
  BY <1>2, <1>3, <1>4
<1>7. gs # <<>>
  BY <1>3, <1>5
<1>8. fs = <<>> <=> n = 0
  BY <1>1, <1>2
<1>9. BaseOf(gs, a) = BaseOf(fs, c)
  <2>1. CASE fs = <<>>
    BY <1>3, <1>5, <1>7, <1>8, <2>1 DEF BaseOf
  <2>2. CASE fs # <<>>
    BY <1>3, <1>6, <1>7, <1>8, <2>2 DEF BaseOf
  <2> QED  BY <2>1, <2>2
<1>10. Filled(gs) = Filled(fs) \cup {a}
  <2>1. \A i \in 1 .. n + 1 : i = n + 1 \/ i \in 1 .. n
    BY <1>3
  <2>2. \A i \in 1 .. n : i \in 1 .. n + 1
    BY <1>3
  <2>3. n + 1 \in 1 .. n + 1
    BY <1>3
  <2>4. Filled(gs) = {gs[i].dict : i \in 1 .. n + 1} /\ Filled(fs) = {fs[i].dict : i \in 1 .. n}
    BY <1>2, <1>5 DEF Filled
  <2>5. ASSUME NEW x \in Filled(gs) PROVE x \in Filled(fs) \cup {a}
    BY <1>5, <1>6, <2>1, <2>4
  <2>6. ASSUME NEW x \in Filled(fs) \cup {a} PROVE x \in Filled(gs)
    BY <1>5, <1>6, <2>2, <2>3, <2>4
  <2> QED  BY <2>5, <2>6
<1>11. a \notin {NoDict, BaseOf(fs, c), dc} \cup Filled(fs)
  BY DEF Held
<1>12. WellStacked(gs, a, dc)
  <2>1. ASSUME NEW i \in 1 .. Len(gs)
        PROVE  {"dict", "saved"} \subseteq DOMAIN gs[i] /\ gs[i].dict \notin {NoDict, BaseOf(gs, a), dc}
    <3>1. CASE i = n + 1
      BY <1>5, <1>9, <1>11, <3>1
    <3>2. CASE i \in 1 .. n
      BY <1>2, <1>6, <1>9, <3>2 DEF Held, WellStacked
    <3> QED  BY <1>3, <1>5, <3>1, <3>2
  <2>2. ASSUME NEW i \in 1 .. Len(gs), NEW j \in 1 .. Len(gs), gs[i].dict = gs[j].dict PROVE i = j
    <3>1. \A k \in 1 .. n : gs[k].dict # a
      BY <1>2, <1>6, <1>11 DEF Filled
    <3>2. CASE i \in 1 .. n /\ j \in 1 .. n
      BY <1>2, <1>6, <2>2, <3>2 DEF Held, WellStacked
    <3>3. CASE i = n + 1 \/ j = n + 1
      BY <1>3, <1>5, <2>2, <3>1, <3>3
    <3> QED  BY <1>3, <1>5, <3>2, <3>3
  <2>3. ASSUME NEW i \in 2 .. Len(gs) PROVE gs[i].saved = gs[i - 1].dict
    <3>1. CASE i = n + 1
      <4>1. n # 0 /\ i - 1 = n /\ n \in 1 .. n
        BY <1>3, <1>5, <3>1
      <4>2. c = fs[n].dict
        BY <1>2, <1>8, <4>1 DEF Held, WellStacked
      <4>3. gs[i].saved = c /\ gs[i - 1] = fs[n]
        BY <1>5, <1>6, <3>1, <4>1
      <4> QED  BY <4>2, <4>3
    <3>2. CASE i \in 2 .. n
      <4>1. i \in 1 .. n /\ i - 1 \in 1 .. n
        BY <1>3, <3>2
      <4>2. fs[i].saved = fs[i - 1].dict
        BY <1>2, <3>2 DEF Held, WellStacked
      <4> QED  BY <1>6, <4>1, <4>2
    <3> QED  BY <1>3, <1>5, <3>1, <3>2
  <2> QED  BY <1>5, <2>1, <2>2, <2>3 DEF WellStacked
<1>13. IsFiniteSet(H \cup {a})
  BY FS_AddElement DEF Held
<1> QED  BY <1>9, <1>10, <1>11, <1>12, <1>13 DEF Held

\* The end of the outermost file: what it filled is the caller's.
LEMMA HeldLast ==
    ASSUME NEW H, NEW fs, NEW c, NEW dc,
           Held(H, fs, c, dc, NoDict, NoDict), Len(fs) = 1
    PROVE  Front(fs) = <<>> /\ Held(H, <<>>, fs[1].saved, dc, fs[1].dict, NoDict)
<1>1. PICK S : fs \in Seq(S)
  BY DEF Held, WellStacked
<1>2. fs # <<>>
  BY <1>1
<1>3. Front(fs) = <<>>
  <2>1. Front(fs) = SubSeq(fs, 1, 0)
    BY DEF Front
  <2> QED  BY <2>1, SubSeqEmpty
<1>4. BaseOf(fs, c) = fs[1].saved /\ Filled(fs) = {fs[1].dict}
  BY <1>2 DEF BaseOf, Filled
<1>5. fs[1].dict \notin {NoDict, fs[1].saved, dc}
  BY <1>4 DEF Held, WellStacked
<1>6. IsFiniteSet(H) /\ H \subseteq Nat /\ H = ({fs[1].saved, dc, NoDict, NoDict} \cup {fs[1].dict}) \ {NoDict}
  BY <1>4 DEF Held
<1>7. H = {fs[1].saved, dc, fs[1].dict, NoDict} \ {NoDict}
  BY <1>6
<1>8. Held(H, <<>>, fs[1].saved, dc, fs[1].dict, NoDict)
  BY <1>5, <1>6, <1>7, HeldFlat
<1> QED  BY <1>3, <1>8

\* The end of an included file: what it filled is freed.
LEMMA HeldPop ==
    ASSUME NEW H, NEW fs, NEW c, NEW dc, NEW n \in Nat,
           Held(H, fs, c, dc, NoDict, NoDict), Len(fs) = n, n > 1
    PROVE  /\ fs[n - 1].dict \in H \ {fs[n].dict}
           /\ Held(H \ {fs[n].dict}, Front(fs), fs[n].saved, dc, NoDict, NoDict)
<1>1. PICK S : fs \in Seq(S)
  BY DEF Held, WellStacked
<1>2. PICK gs : gs = Front(fs)
  OBVIOUS
<1>3. gs \in Seq(S) /\ Len(gs) = n - 1 /\ \A i \in 1 .. n - 1 : gs[i] = fs[i]
  <2>1. gs = SubSeq(fs, 1, n - 1)
    BY <1>2 DEF Front
  <2>2. \A i \in 1 .. n - 1 : fs[i] \in S
    BY <1>1
  <2>3. /\ SubSeq(fs, 1, n - 1) \in Seq(S)
        /\ Len(SubSeq(fs, 1, n - 1)) = IF 1 <= n - 1 THEN n - 1 - 1 + 1 ELSE 0
        /\ \A i \in 1 .. n - 1 - 1 + 1 : SubSeq(fs, 1, n - 1)[i] = fs[1 + i - 1]
    <3>1. PICK m \in Int : m = n - 1
      OBVIOUS
    <3>2. /\ SubSeq(fs, 1, m) \in Seq(S)
          /\ Len(SubSeq(fs, 1, m)) = IF 1 <= m THEN m - 1 + 1 ELSE 0
          /\ \A i \in 1 .. m - 1 + 1 : SubSeq(fs, 1, m)[i] = fs[1 + i - 1]
      BY <2>2, <3>1, SubSeqProperties
    <3> QED  BY <3>1, <3>2
  <2> QED  BY <2>1, <2>3
<1>4. gs # <<>> /\ fs # <<>>
  BY <1>1, <1>3
<1>5. PICK top, below : top = fs[n].dict /\ below = fs[n - 1].dict
  OBVIOUS
<1>6. n \in 1 .. n /\ n - 1 \in 1 .. n /\ n \in 2 .. n /\ n - 1 \in 1 .. n - 1
  OBVIOUS
<1>7. fs[n].saved = below /\ top # below
  <2>1. fs[n].saved = below
    BY <1>5, <1>6 DEF Held, WellStacked
  <2>2. top # below
    BY <1>5, <1>6 DEF Held, WellStacked
  <2> QED  BY <2>1, <2>2
<1>8. BaseOf(gs, below) = BaseOf(fs, c)
  BY <1>3, <1>4 DEF BaseOf
<1>9. top \notin {NoDict, BaseOf(fs, c), dc}
  BY <1>5, <1>6 DEF Held, WellStacked
<1>10. Filled(gs) = Filled(fs) \ {top}
  <2>1. Filled(gs) = {gs[i].dict : i \in 1 .. n - 1} /\ Filled(fs) = {fs[i].dict : i \in 1 .. n}
    BY <1>3 DEF Filled
  <2>2. \A i \in 1 .. n : fs[i].dict = top => i = n
    BY <1>5, <1>6 DEF Held, WellStacked
  <2>3. ASSUME NEW x \in Filled(gs) PROVE x \in Filled(fs) \ {top}
    <3>1. PICK i \in 1 .. n - 1 : x = gs[i].dict
      BY <2>1
    <3>2. i \in 1 .. n /\ i # n /\ x = fs[i].dict
      BY <1>3, <3>1
    <3> QED  BY <2>1, <2>2, <3>2
  <2>4. ASSUME NEW x \in Filled(fs) \ {top} PROVE x \in Filled(gs)
    <3>1. PICK i \in 1 .. n : x = fs[i].dict
      BY <2>1
    <3>2. i \in 1 .. n - 1
      BY <1>5, <2>4, <3>1
    <3> QED  BY <1>3, <2>1, <3>1, <3>2
  <2> QED  BY <2>3, <2>4
<1>11. below \in Filled(fs) /\ below # NoDict
  <2>1. below \in Filled(fs)
    BY <1>5, <1>6 DEF Filled
  <2>2. below # NoDict
    BY <1>5, <1>6 DEF Held, WellStacked
  <2> QED  BY <2>1, <2>2
<1>12. H \ {top} = ({BaseOf(gs, below), dc, NoDict, NoDict} \cup Filled(gs)) \ {NoDict}
  BY <1>8, <1>9, <1>10 DEF Held
<1>13. WellStacked(gs, below, dc)
  <2>1. ASSUME NEW i \in 1 .. Len(gs)
        PROVE  {"dict", "saved"} \subseteq DOMAIN gs[i] /\ gs[i].dict \notin {NoDict, BaseOf(gs, below), dc}
    <3>1. i \in 1 .. n /\ gs[i] = fs[i]
      BY <1>3
    <3> QED  BY <1>8, <3>1 DEF Held, WellStacked
  <2>2. ASSUME NEW i \in 1 .. Len(gs), NEW j \in 1 .. Len(gs), gs[i].dict = gs[j].dict PROVE i = j
    <3>1. i \in 1 .. n /\ gs[i] = fs[i] /\ j \in 1 .. n /\ gs[j] = fs[j]
      BY <1>3
    <3> QED  BY <2>2, <3>1 DEF Held, WellStacked
  <2>3. ASSUME NEW i \in 2 .. Len(gs) PROVE gs[i].saved = gs[i - 1].dict
    <3>1. i \in 2 .. n /\ gs[i] = fs[i] /\ gs[i - 1] = fs[i - 1]
      BY <1>3
    <3> QED  BY <3>1 DEF Held, WellStacked
  <2>4. below = gs[Len(gs)].dict
    BY <1>3, <1>5, <1>6
  <2> QED  BY <1>3, <2>1, <2>2, <2>3, <2>4 DEF WellStacked
<1>14. IsFiniteSet(H \ {top}) /\ H \ {top} \subseteq Nat
  <2>1. IsFiniteSet(H) /\ H \subseteq Nat
    BY DEF Held
  <2>2. IsFiniteSet(H \ {top})
    BY <2>1, FS_RemoveElement
  <2> QED  BY <2>1, <2>2
<1>15. below \in H \ {top}
  BY <1>7, <1>11 DEF Held
<1>16. Held(H \ {top}, gs, below, dc, NoDict, NoDict)
  BY <1>12, <1>13, <1>14 DEF Held
<1> QED  BY <1>2, <1>5, <1>7, <1>15, <1>16

-----------------------------------------------------------------------------
(* The inductive invariant about them, and what each call does to it.      *)

HeapInv == Held(DOMAIN heap, frames, cfg, default_cfg, loaded, staged)

JobInv ==
    /\ Len(frames) <= IncludeLimit + 1
    /\ job \in {"idle", "detect", "reload", "announce", "announced", "save"}
    /\ configOps \in 0 .. MaxConfigOps
    /\ events \subseteq ListenKeys \cup {Complete}
    /\ frames # <<>> => job \in {"detect", "reload"}
    /\ loaded # NoDict => job \in {"detect", "reload", "announce", "announced"}
    /\ staged # NoDict => job \in {"announce", "announced"} /\ cfg # NoDict
    /\ job = "detect" => BaseOf(frames, cfg) = NoDict /\ default_cfg # NoDict
    /\ job = "reload" => config_file
    /\ config_file /\ job # "detect" => BaseOf(frames, cfg) # NoDict

LEMMA CallCounts ==
    ASSUME JobInv, NEW next, Call(next)
    PROVE  configOps' \in 0 .. MaxConfigOps
BY ConfigAssumption DEF JobInv, Call

\* Calls that neither allocate nor free.
LEMMA QuietKeeps ==
    ASSUME HeapInv, JobInv,
           \/ \E s \in {"modules", "serial"} : CfgAddCallback(s)
           \/ \E k \in ListenKeys \cup {Complete} : ReloadEventAdd(k) \/ ReloadEventRemove(k)
           \/ CfgReload \/ (\E k \in due : Announce(k)) \/ AnnounceComplete
           \/ (\E complete \in BOOLEAN : CfgSave(complete))
           \/ SaveOpen \/ SaveLine \/ SaveClose
           \/ (\E lines \in Edits : EditFile(lines))
    PROVE  HeapInv' /\ JobInv'
<1>1. UNCHANGED <<memory, loading, staged>>
  BY DEF CfgAddCallback, ReloadEventAdd, ReloadEventRemove, CfgReload, Announce, AnnounceComplete, CfgSave,
         SaveOpen, SaveLine, SaveClose, EditFile, listening
<1>2. /\ heap' = heap /\ cfg' = cfg /\ default_cfg' = default_cfg /\ config_file' = config_file
      /\ frames' = frames /\ loaded' = loaded /\ staged' = staged
  BY <1>1 DEF memory, loading
<1>3. HeapInv'
  BY <1>2 DEF HeapInv
<1>4. configOps' \in 0 .. MaxConfigOps
  <2>1. configOps' = configOps \/ \E next : Call(next)
    BY DEF CfgAddCallback, ReloadEventAdd, ReloadEventRemove, CfgReload, Announce, AnnounceComplete, CfgSave,
           SaveOpen, SaveLine, SaveClose, EditFile
  <2> QED  BY <2>1, CallCounts DEF JobInv
<1>5. events' \subseteq ListenKeys \cup {Complete}
  BY DEF CfgAddCallback, ReloadEventAdd, ReloadEventRemove, CfgReload, Announce, AnnounceComplete, CfgSave,
         SaveOpen, SaveLine, SaveClose, EditFile, listening, JobInv
<1>6. \/ job' = job
      \/ job = "idle" /\ job' \in {"idle", "save"}
      \/ job = "idle" /\ job' = "reload" /\ config_file
      \/ job = "announce" /\ job' = "announced"
      \/ job = "save" /\ job' = "idle"
  BY DEF CfgAddCallback, ReloadEventAdd, ReloadEventRemove, CfgReload, Announce, AnnounceComplete, CfgSave,
         SaveOpen, SaveLine, SaveClose, EditFile, Call
<1>7. JobInv'
  BY <1>2, <1>4, <1>5, <1>6 DEF JobInv
<1> QED  BY <1>3, <1>7

\* Between loads there are no activations.
LEMMA FlatState ==
    ASSUME HeapInv, frames = <<>>
    PROVE  /\ BaseOf(frames, cfg) = cfg
           /\ IsFiniteSet(DOMAIN heap) /\ DOMAIN heap \subseteq Nat
           /\ DOMAIN heap = {cfg, default_cfg, loaded, staged} \ {NoDict}
           /\ loaded # NoDict => loaded \notin {cfg, default_cfg, staged}
           /\ staged # NoDict => staged \notin {cfg, default_cfg}
<1>1. BaseOf(frames, cfg) = cfg
  BY DEF BaseOf
<1>2. PICK H : H = DOMAIN heap
  OBVIOUS
<1>3. Held(H, <<>>, cfg, default_cfg, loaded, staged)
  BY <1>2 DEF HeapInv
<1>4. /\ IsFiniteSet(H) /\ H \subseteq Nat
      /\ H = {cfg, default_cfg, loaded, staged} \ {NoDict}
      /\ loaded # NoDict => loaded \notin {cfg, default_cfg, staged}
      /\ staged # NoDict => staged \notin {cfg, default_cfg}
  BY <1>3, EmptyStack DEF Held
<1> QED  BY <1>1, <1>2, <1>4

\* What a step that leaves no activation has to show.
LEMMA FlatNext ==
    ASSUME frames' = <<>>,
           IsFiniteSet(DOMAIN heap'), DOMAIN heap' \subseteq Nat,
           DOMAIN heap' = {cfg', default_cfg', loaded', staged'} \ {NoDict},
           loaded' # NoDict => loaded' \notin {cfg', default_cfg', staged'},
           staged' # NoDict => staged' \notin {cfg', default_cfg'}
    PROVE  HeapInv' /\ BaseOf(frames', cfg') = cfg' /\ Len(frames') = 0
<1>1. Held(DOMAIN heap', <<>>, cfg', default_cfg', loaded', staged')
  BY HeldFlat
<1>2. HeapInv'
  BY <1>1 DEF HeapInv
<1>3. BaseOf(frames', cfg') = cfg'
  BY DEF BaseOf
<1>4. Len(frames') = 0
  OBVIOUS
<1> QED  BY <1>2, <1>3, <1>4

LEMMA SetDefaultsKeeps ==
    ASSUME HeapInv, JobInv, CfgSetDefaults
    PROVE  HeapInv' /\ JobInv'
<1>1. frames = <<>> /\ loaded = NoDict /\ staged = NoDict
  BY DEF JobInv, CfgSetDefaults
<1>2. /\ IsFiniteSet(DOMAIN heap) /\ DOMAIN heap \subseteq Nat
      /\ DOMAIN heap = {cfg, default_cfg, loaded, staged} \ {NoDict}
  BY <1>1, FlatState
<1>3. PICK a : a = Address
  OBVIOUS
<1>4. a \in Nat /\ a # NoDict /\ a \notin DOMAIN heap
  BY <1>2, <1>3, AddressIsFree
<1>5. /\ heap' = With(heap, a, Defaults) /\ default_cfg' = a /\ cfg' = cfg /\ config_file' = config_file
      /\ frames' = frames /\ loaded' = loaded /\ staged' = staged /\ job' = job /\ events' = events
      /\ configOps' = configOps /\ cfg = NoDict /\ default_cfg = NoDict /\ job = "idle"
  BY <1>3 DEF CfgSetDefaults, loading, listening
<1>6. DOMAIN heap' = DOMAIN heap \cup {a}
  BY <1>5 DEF With
<1>7. IsFiniteSet(DOMAIN heap')
  BY <1>2, <1>6, FS_AddElement
<1>8. HeapInv' /\ BaseOf(frames', cfg') = cfg' /\ Len(frames') = 0
  <2>1. DOMAIN heap' \subseteq Nat
    BY <1>2, <1>4, <1>6
  <2>2. DOMAIN heap' = {cfg', default_cfg', loaded', staged'} \ {NoDict}
    BY <1>1, <1>2, <1>4, <1>5, <1>6
  <2> QED  BY <1>1, <1>4, <1>5, <1>7, <2>1, <2>2, FlatNext
<1>9. JobInv'
  BY <1>1, <1>5, <1>8, ConfigAssumption DEF JobInv, BaseOf
<1> QED  BY <1>8, <1>9

\* A line read: the innermost activation fills the same dictionary as before.
LEMMA LineKeeps ==
    ASSUME HeapInv, JobInv, frames # <<>>, NEW f,
           frames' = Under(f), DOMAIN f = DOMAIN Top, f.dict = Top.dict, f.saved = Top.saved,
           DOMAIN heap' = DOMAIN heap, cfg' = cfg, UNCHANGED LoadKeeps
    PROVE  HeapInv' /\ JobInv'
<1>1. PICK H, fs, gs, n : H = DOMAIN heap /\ fs = frames /\ gs = Append(Front(fs), f) /\ n = Len(fs)
  OBVIOUS
<1>2. Held(H, fs, cfg, default_cfg, loaded, staged) /\ fs # <<>>
  BY <1>1 DEF HeapInv
<1>3. PICK top : top = Last(fs) /\ DOMAIN f = DOMAIN top /\ f.dict = top.dict /\ f.saved = top.saved
  BY <1>1 DEF Top
<1>4. /\ Held(H, gs, cfg, default_cfg, loaded, staged)
      /\ Len(gs) = n /\ gs # <<>> /\ BaseOf(gs, cfg) = BaseOf(fs, cfg)
  <2>1. HeldAlike(H, fs, gs, cfg, default_cfg, loaded, staged)
    BY <1>1, <1>2, <1>3, HeldTop
  <2> QED  BY <1>1, <2>1 DEF HeldAlike
<1>5. /\ frames' = gs /\ default_cfg' = default_cfg /\ loaded' = loaded /\ staged' = staged
      /\ config_file' = config_file /\ job' = job /\ events' = events /\ configOps' = configOps
  BY <1>1 DEF Under, LoadKeeps, listening
<1>6. HeapInv'
  BY <1>1, <1>4, <1>5 DEF HeapInv
<1>7. BaseOf(frames', cfg') = BaseOf(frames, cfg) /\ Len(frames') = Len(frames) /\ frames' # <<>>
  BY <1>1, <1>2, <1>4, <1>5
<1>8. JobInv'
  BY <1>5, <1>7 DEF JobInv
<1> QED  BY <1>6, <1>8

LEMMA TopIsRecord ==
    ASSUME HeapInv, frames # <<>>
    PROVE  {"dict", "saved"} \subseteq DOMAIN Top
<1>1. PICK S : frames \in Seq(S)
  BY DEF HeapInv, Held, WellStacked
<1>2. Len(frames) \in 1 .. Len(frames)
  BY <1>1
<1> QED  BY <1>2 DEF HeapInv, Held, WellStacked, Top, Last

LEMMA MovesKeep ==
    ASSUME HeapInv, JobInv, SkipLine \/ CommentLine \/ SectionLine \/ SettingLine \/ PassInclude
    PROVE  HeapInv' /\ JobInv'
<1>1. frames # <<>>
  BY DEF SkipLine, CommentLine, SectionLine, SettingLine, PassInclude, InFile
<1>2. /\ cfg' = cfg /\ UNCHANGED LoadKeeps
      /\ heap' = heap \/ \E d, k, v : heap' = Stored(d, k, v)
  BY DEF SkipLine, CommentLine, SectionLine, SettingLine, PassInclude
<1>3. DOMAIN heap' = DOMAIN heap
  BY <1>2 DEF Stored
<1>4. {"dict", "saved"} \subseteq DOMAIN Top
  BY <1>1, TopIsRecord
<1>5. DOMAIN Moved = DOMAIN Top /\ Moved.dict = Top.dict /\ Moved.saved = Top.saved
  BY <1>4 DEF Moved
<1>6. CASE frames' = Under(Moved)
  BY <1>1, <1>2, <1>3, <1>5, <1>6, LineKeeps
<1>7. ASSUME NEW b, frames' = Under([Moved EXCEPT !.comment = b]) PROVE HeapInv' /\ JobInv'
  <2>1. PICK f : f = [Moved EXCEPT !.comment = b]
    OBVIOUS
  <2>2. DOMAIN f = DOMAIN Top /\ f.dict = Top.dict /\ f.saved = Top.saved
    BY <1>4, <1>5, <2>1
  <2>3. frames' = Under(f)
    BY <1>7, <2>1
  <2> QED  BY <1>1, <1>2, <1>3, <2>2, <2>3, LineKeeps
<1>8. ASSUME NEW s, frames' = Under([Moved EXCEPT !.section = s]) PROVE HeapInv' /\ JobInv'
  <2>1. PICK f : f = [Moved EXCEPT !.section = s]
    OBVIOUS
  <2>2. DOMAIN f = DOMAIN Top /\ f.dict = Top.dict /\ f.saved = Top.saved
    BY <1>4, <1>5, <2>1
  <2>3. frames' = Under(f)
    BY <1>8, <2>1
  <2> QED  BY <1>1, <1>2, <1>3, <2>2, <2>3, LineKeeps
<1>9. \/ frames' = Under(Moved)
      \/ \E b : frames' = Under([Moved EXCEPT !.comment = b])
      \/ \E s : frames' = Under([Moved EXCEPT !.section = s])
  BY DEF SkipLine, CommentLine, SectionLine, SettingLine, PassInclude
<1> QED  BY <1>6, <1>7, <1>8, <1>9

\* A new activation on top of a well-formed stack.
LEMMA OpenedKeeps ==
    ASSUME HeapInv, JobInv, NEW stack, NEW name, Opened(stack, name), UNCHANGED LoadKeeps,
           Held(DOMAIN heap, stack, cfg, default_cfg, NoDict, NoDict),
           loaded = NoDict, staged = NoDict, job \in {"detect", "reload"},
           BaseOf(stack, cfg) = BaseOf(frames, cfg),
           Len(stack) <= IncludeLimit
    PROVE  HeapInv' /\ JobInv'
<1>1. PICK a, f, H, gs : a = Address /\ f = Activation(name) /\ H = DOMAIN heap /\ gs = Append(stack, f)
  OBVIOUS
<1>2. IsFiniteSet(DOMAIN heap)
  BY DEF Held
<1>3. a \in Nat /\ a # NoDict /\ a \notin H
  BY <1>1, <1>2, AddressIsFree
<1>4. {"dict", "saved"} \subseteq DOMAIN f /\ f.dict = a /\ f.saved = cfg
  BY <1>1 DEF Activation
<1>5. /\ frames' = gs /\ cfg' = a /\ heap' = With(heap, a, <<>>)
      /\ default_cfg' = default_cfg /\ loaded' = loaded /\ staged' = staged
      /\ config_file' = config_file /\ job' = job /\ events' = events /\ configOps' = configOps
  BY <1>1 DEF Opened, LoadKeeps, listening
<1>6. DOMAIN heap' = H \cup {a}
  BY <1>1, <1>5 DEF With
<1>7. Held(H, stack, cfg, default_cfg, NoDict, NoDict)
  BY <1>1
<1>8. Held(H \cup {a}, gs, a, default_cfg, NoDict, NoDict)
  BY <1>1, <1>3, <1>4, <1>7, HeldPush
<1>9. HeapInv'
  BY <1>5, <1>6, <1>8 DEF HeapInv
<1>10. PICK S : stack \in Seq(S)
  BY DEF Held, WellStacked
<1>11. stack \in Seq(S \cup {f})
  BY <1>10
<1>12. Len(gs) = Len(stack) + 1 /\ Len(stack) \in Nat /\ gs # <<>>
  BY <1>1, <1>11
<1>13. BaseOf(gs, a) = BaseOf(stack, cfg)
  <2>1. CASE stack = <<>>
    BY <1>1, <1>4, <1>12, <2>1 DEF BaseOf
  <2>2. CASE stack # <<>>
    <3>1. gs[1] = stack[1]
      BY <1>1, <1>11, <2>2
    <3> QED  BY <1>12, <2>2, <3>1 DEF BaseOf
  <2> QED  BY <2>1, <2>2
<1>14. Len(frames') <= IncludeLimit + 1
  BY <1>5, <1>12, ConfigAssumption
<1>15. JobInv'
  BY <1>5, <1>13, <1>14 DEF JobInv
<1> QED  BY <1>9, <1>15

LEMMA IncludeKeeps ==
    ASSUME HeapInv, JobInv, IncludeLine
    PROVE  HeapInv' /\ JobInv'
<1>1. frames # <<>> /\ Len(frames) - 1 < IncludeLimit /\ UNCHANGED LoadKeeps
  BY DEF IncludeLine, InFile, MayInclude
<1>2. PICK name : Opened(Under(Moved), name)
  BY DEF IncludeLine
<1>3. PICK H, fs, f, gs, n : H = DOMAIN heap /\ fs = frames /\ f = Moved /\ gs = Append(Front(fs), f) /\ n = Len(fs)
  OBVIOUS
<1>4. loaded = NoDict /\ staged = NoDict /\ job \in {"detect", "reload"}
  BY <1>1 DEF HeapInv, Held, JobInv
<1>5. Held(H, fs, cfg, default_cfg, NoDict, NoDict) /\ fs # <<>>
  BY <1>1, <1>3, <1>4 DEF HeapInv
<1>6. {"dict", "saved"} \subseteq DOMAIN Top
  BY <1>1, TopIsRecord
<1>7. PICK top : top = Last(fs) /\ DOMAIN f = DOMAIN top /\ f.dict = top.dict /\ f.saved = top.saved
  BY <1>3, <1>6 DEF Moved, Top
<1>8. HeldAlike(H, fs, gs, cfg, default_cfg, NoDict, NoDict)
  BY <1>3, <1>5, <1>7, HeldTop
<1>9. /\ Held(DOMAIN heap, gs, cfg, default_cfg, NoDict, NoDict)
      /\ BaseOf(gs, cfg) = BaseOf(frames, cfg) /\ Len(gs) = Len(frames)
  BY <1>3, <1>8 DEF HeldAlike
<1>10. Len(gs) <= IncludeLimit
  <2>1. Len(frames) \in Nat
    <3>1. PICK S : frames \in Seq(S)
      BY DEF HeapInv, Held, WellStacked
    <3> QED  BY <3>1
  <2> QED  BY <1>1, <1>9, <2>1, ConfigAssumption
<1>11. Opened(gs, name)
  BY <1>2, <1>3 DEF Under
<1> QED  BY <1>1, <1>4, <1>9, <1>10, <1>11, OpenedKeeps

LEMMA LoadKeepsHeap ==
    ASSUME HeapInv, JobInv, CfgLoad
    PROVE  HeapInv' /\ JobInv'
<1>1. /\ frames = <<>> /\ loaded = NoDict /\ job \in {"detect", "reload"} /\ UNCHANGED LoadKeeps
      /\ Opened(<<>>, MainPath)
  BY DEF CfgLoad
<1>2. staged = NoDict
  BY <1>1 DEF JobInv
<1>3. Held(DOMAIN heap, <<>>, cfg, default_cfg, NoDict, NoDict) /\ BaseOf(<<>>, cfg) = BaseOf(frames, cfg)
  BY <1>1, <1>2 DEF HeapInv
<1>4. Len(<<>>) <= IncludeLimit
  BY ConfigAssumption
<1> QED  BY <1>1, <1>2, <1>3, <1>4, OpenedKeeps

LEMMA EndOfFileKeeps ==
    ASSUME HeapInv, JobInv, EndOfFile
    PROVE  HeapInv' /\ JobInv'
<1>1. /\ frames # <<>> /\ cfg' = Top.saved /\ frames' = Front(frames)
      /\ default_cfg' = default_cfg /\ staged' = staged /\ config_file' = config_file
      /\ job' = job /\ events' = events /\ configOps' = configOps
  BY DEF EndOfFile, Restored, listening
<1>2. loaded = NoDict /\ staged = NoDict /\ job \in {"detect", "reload"}
  BY <1>1 DEF HeapInv, Held, JobInv
<1>3. PICK H, fs, c, dc, n : H = DOMAIN heap /\ fs = frames /\ c = cfg /\ dc = default_cfg /\ n = Len(fs)
  OBVIOUS
<1>4. Held(H, fs, c, dc, NoDict, NoDict)
  BY <1>2, <1>3 DEF HeapInv
<1>5. n \in Nat /\ n # 0
  <2>1. PICK S : frames \in Seq(S)
    BY DEF HeapInv, Held, WellStacked
  <2> QED  BY <1>1, <1>3, <2>1
<1>6. CASE n = 1
  <2>1. /\ frames' = Front(fs) /\ loaded' = fs[1].dict /\ heap' = heap
        /\ cfg' = fs[1].saved /\ default_cfg' = dc
    BY <1>1, <1>3, <1>6 DEF EndOfFile, Top, Last
  <2>2. Len(fs) = 1
    BY <1>3, <1>6
  <2>3. Front(fs) = <<>> /\ Held(H, <<>>, fs[1].saved, dc, fs[1].dict, NoDict)
    BY <1>4, <2>2, HeldLast
  <2>4. HeapInv'
    BY <1>1, <1>2, <1>3, <2>1, <2>3 DEF HeapInv
  <2>5. BaseOf(frames', cfg') = BaseOf(frames, cfg)
    BY <1>1, <1>3, <2>1, <2>3 DEF BaseOf
  <2>6. Len(frames') = 0 /\ frames' = <<>>
    BY <2>1, <2>3
  <2>7. Len(frames') <= IncludeLimit + 1
    BY <2>6, ConfigAssumption
  <2>8. JobInv'
    BY <1>1, <1>2, <2>5, <2>6, <2>7 DEF JobInv
  <2> QED  BY <2>4, <2>8
<1>7. CASE n > 1
  <2>1. PICK parent, top, gs, below :
            parent = fs[n - 1].dict /\ top = fs[n].dict /\ gs = Front(fs) /\ below = fs[n].saved
    OBVIOUS
  <2>2. /\ frames' = gs /\ loaded' = NoDict /\ cfg' = below
        /\ DOMAIN heap' = H \ {top}
    <3>1. /\ loaded' = loaded
          /\ heap' = Without([heap EXCEPT ![parent] = Merged(@, heap[top])], {top})
      BY <1>3, <1>5, <1>7, <2>1 DEF EndOfFile, Top, Last
    <3>2. DOMAIN heap' = H \ {top}
      BY <1>3, <3>1 DEF Without
    <3> QED  BY <1>1, <1>2, <1>3, <2>1, <3>1, <3>2 DEF Top, Last
  <2>3. Held(H \ {top}, gs, below, dc, NoDict, NoDict)
    <3>1. Held(H \ {fs[n].dict}, Front(fs), fs[n].saved, dc, NoDict, NoDict)
      BY <1>3, <1>4, <1>5, <1>7, HeldPop
    <3> QED  BY <2>1, <3>1
  <2>4. HeapInv'
    BY <1>1, <1>2, <1>3, <2>2, <2>3 DEF HeapInv
  <2>5. frames' # <<>> /\ frames'[1] = frames[1] /\ Len(frames') = n - 1
    <3>1. PICK S : fs \in Seq(S)
      BY <1>4 DEF Held, WellStacked
    <3>2. PICK m \in Int : m = n - 1
      BY <1>5
    <3>3. /\ SubSeq(fs, 1, m) \in Seq(S)
          /\ Len(SubSeq(fs, 1, m)) = IF 1 <= m THEN m - 1 + 1 ELSE 0
          /\ \A i \in 1 .. m - 1 + 1 : SubSeq(fs, 1, m)[i] = fs[1 + i - 1]
      <4>1. \A i \in 1 .. m : fs[i] \in S
        BY <1>3, <1>5, <3>1, <3>2
      <4> QED  BY <3>2, <4>1, SubSeqProperties
    <3>4. gs = SubSeq(fs, 1, m)
      BY <1>3, <2>1, <3>2 DEF Front
    <3>5. gs \in Seq(S) /\ Len(gs) = n - 1 /\ gs[1] = fs[1]
      BY <1>5, <1>7, <3>2, <3>3, <3>4
    <3>6. gs # <<>>
      BY <1>5, <1>7, <3>5
    <3> QED  BY <1>3, <2>2, <3>5, <3>6
  <2>6. BaseOf(frames', cfg') = BaseOf(frames, cfg)
    BY <1>1, <2>5 DEF BaseOf
  <2>7. Len(frames') <= IncludeLimit + 1
    BY <1>3, <1>5, <2>5, ConfigAssumption DEF JobInv
  <2>8. JobInv'
    BY <1>1, <1>2, <2>2, <2>5, <2>6, <2>7 DEF JobInv
  <2> QED  BY <2>4, <2>8
<1> QED  BY <1>5, <1>6, <1>7

LEMMA DetectKeeps ==
    ASSUME HeapInv, JobInv, CfgDetectAndLoad
    PROVE  HeapInv' /\ JobInv'
<1>1. /\ frames = <<>> /\ loaded = NoDict /\ staged = NoDict /\ cfg = NoDict
      /\ frames' = <<>> /\ loaded' = NoDict /\ staged' = NoDict /\ cfg' = NoDict
      /\ job' = "detect" /\ events' = events /\ configOps' \in 0 .. MaxConfigOps
  <2>1. job = "idle" /\ Call("detect")
    BY DEF CfgDetectAndLoad, Call
  <2>2. configOps' \in 0 .. MaxConfigOps
    BY <2>1, CallCounts
  <2> QED  BY <2>1, <2>2 DEF CfgDetectAndLoad, JobInv, Call, loading, listening
<1>2. /\ IsFiniteSet(DOMAIN heap) /\ DOMAIN heap \subseteq Nat
      /\ DOMAIN heap = {cfg, default_cfg, loaded, staged} \ {NoDict}
  BY <1>1, FlatState
<1>3. /\ IsFiniteSet(DOMAIN heap') /\ DOMAIN heap' \subseteq Nat
      /\ DOMAIN heap' = {default_cfg'} /\ default_cfg' # NoDict
  <2>1. CASE default_cfg # NoDict
    BY <1>1, <1>2, <2>1 DEF CfgDetectAndLoad
  <2>2. CASE default_cfg = NoDict
    <3>1. PICK a : a = Address
      OBVIOUS
    <3>2. a \in Nat /\ a # NoDict
      BY <1>2, <3>1, AddressIsFree
    <3>3. heap' = With(heap, a, <<>>) /\ default_cfg' = a
      BY <2>2, <3>1 DEF CfgDetectAndLoad
    <3>4. DOMAIN heap' = DOMAIN heap \cup {a}
      BY <3>3 DEF With
    <3>5. IsFiniteSet(DOMAIN heap')
      BY <1>2, <3>4, FS_AddElement
    <3> QED  BY <1>1, <1>2, <2>2, <3>2, <3>3, <3>4, <3>5
  <2> QED  BY <2>1, <2>2
<1>4. HeapInv' /\ BaseOf(frames', cfg') = cfg' /\ Len(frames') = 0
  BY <1>1, <1>3, FlatNext
<1>5. JobInv'
  BY <1>1, <1>3, <1>4, ConfigAssumption DEF JobInv
<1> QED  BY <1>4, <1>5

LEMMA LoadedKeeps ==
    ASSUME HeapInv, JobInv, CfgLoadFails \/ Detected
    PROVE  HeapInv' /\ JobInv'
<1>1. /\ frames = <<>> /\ staged = NoDict /\ heap' = heap /\ frames' = <<>> /\ staged' = NoDict
      /\ default_cfg' = default_cfg /\ config_file' = config_file /\ loaded' = NoDict
      /\ job' = "idle" /\ events' = events /\ configOps' = configOps /\ job \in {"detect", "reload"}
  BY DEF CfgLoadFails, Detected, loading, listening, JobInv, HeapInv, Held
<1>2. /\ BaseOf(frames, cfg) = cfg
      /\ IsFiniteSet(DOMAIN heap) /\ DOMAIN heap \subseteq Nat
      /\ DOMAIN heap = {cfg, default_cfg, loaded, staged} \ {NoDict}
      /\ loaded # NoDict => loaded \notin {cfg, default_cfg, staged}
  BY <1>1, FlatState
<1>3. DOMAIN heap = {cfg', default_cfg} \ {NoDict} /\ (config_file => cfg' # NoDict)
  <2>1. CASE CfgLoadFails /\ job = "detect"
    <3>1. cfg = NoDict /\ default_cfg # NoDict /\ cfg' = default_cfg /\ loaded = NoDict
      BY <1>2, <2>1 DEF CfgLoadFails, JobInv
    <3> QED  BY <1>1, <1>2, <3>1
  <2>2. CASE CfgLoadFails /\ job = "reload"
    <3>1. cfg' = cfg /\ cfg # NoDict /\ loaded = NoDict
      BY <1>2, <2>2 DEF CfgLoadFails, JobInv
    <3> QED  BY <1>1, <1>2, <3>1
  <2>3. CASE Detected
    <3>1. cfg = NoDict /\ cfg' = loaded /\ loaded # NoDict
      BY <1>2, <2>3 DEF Detected, JobInv
    <3> QED  BY <1>1, <1>2, <3>1
  <2> QED  BY <1>1, <2>1, <2>2, <2>3
<1>4. HeapInv' /\ BaseOf(frames', cfg') = cfg' /\ Len(frames') = 0
  <2>1. DOMAIN heap' = {cfg', default_cfg', loaded', staged'} \ {NoDict}
    BY <1>1, <1>3
  <2> QED  BY <1>1, <1>2, <2>1, FlatNext
<1>5. JobInv'
  BY <1>1, <1>3, <1>4, ConfigAssumption DEF JobInv
<1> QED  BY <1>4, <1>5

LEMMA ApplyKeeps ==
    ASSUME HeapInv, JobInv, CfgApplyNew
    PROVE  /\ HeapInv' /\ JobInv'
           /\ cfg \in DOMAIN heap /\ loaded \in DOMAIN heap /\ loaded # cfg
           /\ staged' \notin DOMAIN heap /\ staged' # NoDict
           /\ heap' = With([heap EXCEPT ![cfg] = heap[loaded]], staged', heap[cfg])
<1>1. /\ frames = <<>> /\ staged = NoDict /\ job = "reload" /\ loaded # NoDict
      /\ frames' = <<>> /\ loaded' = loaded /\ cfg' = cfg /\ default_cfg' = default_cfg
      /\ config_file' = config_file /\ job' = "announce" /\ events' = events /\ configOps' = configOps
  BY DEF CfgApplyNew, JobInv, HeapInv, Held, loading
<1>2. /\ BaseOf(frames, cfg) = cfg
      /\ IsFiniteSet(DOMAIN heap) /\ DOMAIN heap \subseteq Nat
      /\ DOMAIN heap = {cfg, default_cfg, loaded, staged} \ {NoDict}
      /\ loaded # NoDict => loaded \notin {cfg, default_cfg, staged}
  BY <1>1, FlatState
<1>3. cfg # NoDict /\ config_file
  BY <1>1, <1>2 DEF JobInv
<1>4. PICK a : a = Address
  OBVIOUS
<1>5. a \in Nat /\ a # NoDict /\ a \notin DOMAIN heap
  BY <1>2, <1>4, AddressIsFree
<1>6. staged' = a /\ heap' = With([heap EXCEPT ![cfg] = heap[loaded]], a, heap[cfg])
  BY <1>4 DEF CfgApplyNew
<1>7. DOMAIN heap' = DOMAIN heap \cup {a}
  BY <1>6 DEF With
<1>8. IsFiniteSet(DOMAIN heap')
  BY <1>2, <1>7, FS_AddElement
<1>9. HeapInv' /\ BaseOf(frames', cfg') = cfg' /\ Len(frames') = 0
  <2>1. DOMAIN heap' \subseteq Nat
    BY <1>2, <1>5, <1>7
  <2>2. DOMAIN heap' = {cfg', default_cfg', loaded', staged'} \ {NoDict}
    BY <1>1, <1>2, <1>5, <1>6, <1>7
  <2>3. loaded' \notin {cfg', default_cfg', staged'} /\ staged' \notin {cfg', default_cfg'}
    BY <1>1, <1>2, <1>3, <1>5, <1>6
  <2> QED  BY <1>1, <1>8, <2>1, <2>2, <2>3, FlatNext
<1>10. JobInv'
  BY <1>1, <1>3, <1>6, <1>9, ConfigAssumption DEF JobInv
<1> QED  BY <1>1, <1>2, <1>3, <1>5, <1>6, <1>9, <1>10

LEMMA AnnouncedKeeps ==
    ASSUME HeapInv, JobInv, Announced
    PROVE  HeapInv' /\ JobInv'
<1>1. /\ frames = <<>> /\ job = "announced" /\ frames' = <<>> /\ loaded' = NoDict /\ staged' = NoDict
      /\ cfg' = cfg /\ default_cfg' = default_cfg /\ heap' = Without(heap, {staged, loaded})
      /\ config_file' = config_file /\ job' = "idle" /\ events' = events /\ configOps' = configOps
  BY DEF Announced, JobInv
<1>2. /\ BaseOf(frames, cfg) = cfg
      /\ IsFiniteSet(DOMAIN heap) /\ DOMAIN heap \subseteq Nat
      /\ DOMAIN heap = {cfg, default_cfg, loaded, staged} \ {NoDict}
      /\ loaded # NoDict => loaded \notin {cfg, default_cfg, staged}
      /\ staged # NoDict => staged \notin {cfg, default_cfg}
  BY <1>1, FlatState
<1>3. DOMAIN heap' = DOMAIN heap \ {staged, loaded}
  BY <1>1 DEF Without
<1>4. IsFiniteSet(DOMAIN heap')
  BY <1>2, <1>3, FS_Subset
<1>5. HeapInv' /\ BaseOf(frames', cfg') = cfg' /\ Len(frames') = 0
  <2>1. DOMAIN heap' = {cfg', default_cfg', loaded', staged'} \ {NoDict}
    BY <1>1, <1>2, <1>3
  <2> QED  BY <1>1, <1>2, <1>3, <1>4, <2>1, FlatNext
<1>6. JobInv'
  BY <1>1, <1>2, <1>5, ConfigAssumption DEF JobInv
<1> QED  BY <1>5, <1>6

LEMMA SetValueKeeps ==
    ASSUME HeapInv, JobInv, NEW r, CfgSetValue(r[1], r[2])
    PROVE  HeapInv' /\ JobInv'
<1>1. /\ job = "idle" /\ job' = "announce" /\ Call("announce")
      /\ cfg' = cfg /\ default_cfg' = default_cfg /\ config_file' = config_file /\ frames' = frames
      /\ loaded' = loaded /\ staged' = staged /\ events' = events /\ DOMAIN heap' = DOMAIN heap
  BY DEF CfgSetValue, Call, loading, Stored
<1>2. HeapInv'
  BY <1>1 DEF HeapInv
<1>3. configOps' \in 0 .. MaxConfigOps
  BY <1>1, CallCounts
<1>4. JobInv'
  BY <1>1, <1>3 DEF JobInv
<1> QED  BY <1>2, <1>4

LEMMA EndKeeps ==
    ASSUME HeapInv, JobInv, CfgFini \/ Die
    PROVE  HeapInv' /\ JobInv'
<1>1. /\ cfg' = NoDict /\ default_cfg' = NoDict /\ config_file' = FALSE /\ frames' = <<>>
      /\ loaded' = NoDict /\ staged' = NoDict /\ job' = "idle" /\ events' = {}
  BY DEF CfgFini, Die, Call, JobInv, loading
<1>2. DOMAIN heap' = {}
  <2>1. CASE Die
    BY <2>1 DEF Die
  <2>2. CASE CfgFini
    <3>1. frames = <<>> /\ loaded = NoDict /\ staged = NoDict
      BY <2>2 DEF CfgFini, Call, JobInv
    <3>2. DOMAIN heap = {cfg, default_cfg, loaded, staged} \ {NoDict}
      BY <3>1, FlatState
    <3>3. DOMAIN heap' = DOMAIN heap \ {cfg, default_cfg}
      BY <2>2 DEF CfgFini, FiniFrees, Without
    <3> QED  BY <3>1, <3>2, <3>3
  <2> QED  BY <2>1, <2>2
<1>3. IsFiniteSet(DOMAIN heap')
  BY <1>2, FS_EmptySet
<1>4. HeapInv' /\ BaseOf(frames', cfg') = cfg' /\ Len(frames') = 0
  BY <1>1, <1>2, <1>3, FlatNext
<1>5. configOps' \in 0 .. MaxConfigOps
  <2>1. configOps' = configOps \/ Call("idle")
    BY DEF CfgFini, Die
  <2> QED  BY <2>1, CallCounts DEF JobInv
<1>6. JobInv'
  BY <1>1, <1>4, <1>5, ConfigAssumption DEF JobInv
<1> QED  BY <1>4, <1>6

LEMMA HeapKept ==
    ASSUME HeapInv, JobInv, [ConfigNext]_configVars
    PROVE  HeapInv' /\ JobInv'
<1>1. CASE UNCHANGED configVars
  BY <1>1 DEF configVars, memory, loading, listening, HeapInv, JobInv
<1>2. CASE ConfigNext
  <2>1. ASSUME NEW r \in Requests, CfgSetValue(r[1], r[2]) PROVE HeapInv' /\ JobInv'
    BY <2>1, SetValueKeeps
  <2> QED  BY <1>2, <2>1, QuietKeeps, SetDefaultsKeeps, MovesKeep, IncludeKeeps, LoadKeepsHeap, EndOfFileKeeps,
              DetectKeeps, LoadedKeeps, ApplyKeeps, AnnouncedKeeps, EndKeeps
           DEF ConfigNext
<1> QED  BY <1>1, <1>2

LEMMA HeapStart ==
    ASSUME ConfigStart
    PROVE  HeapInv /\ JobInv
<1>1. DOMAIN heap = {}
  BY DEF ConfigStart
<1>2. IsFiniteSet(DOMAIN heap)
  BY <1>1, FS_EmptySet
<1>3. Held({}, <<>>, NoDict, NoDict, NoDict, NoDict)
  BY <1>1, <1>2, HeldFlat
<1>4. HeapInv
  BY <1>1, <1>3 DEF HeapInv, ConfigStart
<1>5. JobInv
  BY ConfigAssumption DEF ConfigStart, JobInv, BaseOf
<1> QED  BY <1>4, <1>5

\* Types: cfg, default_cfg, newcfg and the staged contents point to allocated
\* dictionaries whatever is included, refused or cut off, cfg too while nested
\* activations of cfg_load_depth() point it to what they fill and back; activations
\* never nest deeper than the limit and one.
THEOREM ConfigTypes == ConfigSpec => []ConfigTypeOK
<1>1. ConfigStart => HeapInv /\ JobInv
  BY HeapStart
<1>2. HeapInv /\ JobInv /\ [ConfigNext]_configVars => HeapInv' /\ JobInv'
  BY HeapKept
<1>3. HeapInv /\ JobInv => ConfigTypeOK
  <2> SUFFICES ASSUME HeapInv, JobInv PROVE ConfigTypeOK
    OBVIOUS
  <2>1. \A i \in 1 .. Len(frames) : frames[i].dict \in DOMAIN heap
    BY DEF HeapInv, Held, WellStacked, Filled
  <2>2. cfg \in DOMAIN heap \cup {NoDict}
    <3>1. CASE frames = <<>>
      BY <3>1, FlatState
    <3>2. CASE frames # <<>>
      <4>1. PICK S : frames \in Seq(S)
        BY DEF HeapInv, Held, WellStacked
      <4>2. Len(frames) \in 1 .. Len(frames)
        BY <3>2, <4>1
      <4>3. cfg = frames[Len(frames)].dict
        BY <3>2 DEF HeapInv, Held, WellStacked
      <4> QED  BY <2>1, <4>2, <4>3
    <3> QED  BY <3>1, <3>2
  <2>3. {default_cfg, loaded, staged} \subseteq DOMAIN heap \cup {NoDict}
    BY DEF HeapInv, Held
  <2> QED  BY <2>1, <2>2, <2>3 DEF JobInv, ConfigTypeOK
<1> QED  BY <1>1, <1>2, <1>3, PTL DEF ConfigSpec

-----------------------------------------------------------------------------
(* The announcements of a reload.                                          *)

\* No dictionary has a key that could be taken for the end of a reload.
KeysInv == \A d \in DOMAIN heap : Complete \notin DOMAIN heap[d]

Heard(k) == \E i \in 1 .. Len(told) : told[i] = k

\* Between the replacement of the contents and the end of the reload: what is still
\* due has changed, what has changed and is not due was told to its listener, once.
ToldInv ==
    staged # NoDict =>
        LET changed == Diff(heap[staged], heap[cfg]) IN
        /\ told \in Seq(events)
        /\ \A i, j \in 1 .. Len(told) : told[i] = told[j] => i = j
        /\ due \subseteq changed
        /\ job = "announce" => \A k : Heard(k) <=> k \in events \cap (changed \ due)
        /\ job = "announced" =>
              /\ \A k : Heard(k) <=> k \in events \cap (changed \cup {Complete})
              /\ Complete \in events => Len(told) # 0 /\ told[Len(told)] = Complete

LEMMA KeyIsNotComplete ==
    ASSUME NEW section, NEW name
    PROVE  KeyFor(section, name) # Complete
<1>1. PICK key : key = KeyFor(section, name)
  OBVIOUS
<1>2. PICK s : s = section[1]
  OBVIOUS
<1>3. \E x, y : key = <<x, y>> /\ x \in {"", "server", "theme", "site", "callsign-lookup", "module", "serial"}
  <2>1. CASE s = "general"
    BY <1>1, <1>2, <2>1 DEF KeyFor
  <2>2. CASE s \in {"server", "theme"}
    BY <1>1, <1>2, <2>2 DEF KeyFor
  <2>3. CASE s \in {"site", "callsign-lookup"}
    BY <1>1, <1>2, <2>3 DEF KeyFor
  <2>4. CASE s = "modules"
    BY <1>1, <1>2, <2>4 DEF KeyFor
  <2>5. CASE s = "serial"
    <3>1. CASE Len(section) = 2
      <4>1. key = <<"serial", <<section[2]>> \o name>>
        BY <1>1, <1>2, <2>5, <3>1 DEF KeyFor
      <4> QED  BY <4>1
    <3>2. CASE Len(section) # 2 /\ Len(name) = 2
      <4>1. key = <<"serial", name>>
        BY <1>1, <1>2, <2>5, <3>2 DEF KeyFor
      <4> QED  BY <4>1
    <3>3. CASE Len(section) # 2 /\ Len(name) # 2
      <4>1. key = <<"", section \o name>>
        BY <1>1, <1>2, <2>5, <3>3 DEF KeyFor
      <4> QED  BY <4>1
    <3> QED  BY <3>1, <3>2, <3>3
  <2>6. CASE s \notin {"general", "server", "theme", "site", "callsign-lookup", "modules", "serial"}
    <3>1. key = <<"", section \o name>>
      BY <1>1, <1>2, <2>6 DEF KeyFor
    <3> QED  BY <3>1
  <2> QED  BY <2>1, <2>2, <2>3, <2>4, <2>5, <2>6
<1>4. PICK x, y : key = <<x, y>> /\ x \in {"", "server", "theme", "site", "callsign-lookup", "module", "serial"}
  BY <1>3
<1>5. x # "complete"
  BY <1>4
<1>6. PICK e : e = <<>>
  OBVIOUS
<1>7. Complete = <<"complete", e>>
  BY <1>6 DEF Complete
<1>8. key[1] = x /\ Complete[1] = "complete"
  BY <1>4, <1>7
<1> QED  BY <1>1, <1>5, <1>8

LEMMA StoredKeys ==
    ASSUME KeysInv, NEW d, NEW k, NEW v, k # Complete, heap' = Stored(d, k, v)
    PROVE  KeysInv'
<1>1. DOMAIN heap' = DOMAIN heap
  BY DEF Stored
<1>2. \A e \in DOMAIN heap : e # d => heap'[e] = heap[e]
  BY DEF Stored
<1>3. d \in DOMAIN heap => heap'[d] = With(heap[d], k, v)
  BY DEF Stored
<1>4. d \in DOMAIN heap => DOMAIN heap'[d] = DOMAIN heap[d] \cup {k}
  BY <1>3 DEF With
<1> QED  BY <1>1, <1>2, <1>4 DEF KeysInv

LEMMA WithKeys ==
    ASSUME KeysInv, NEW a, NEW x, Complete \notin DOMAIN x, heap' = With(heap, a, x)
    PROVE  KeysInv'
BY DEF KeysInv, With

LEMMA KeysKept ==
    ASSUME KeysInv, HeapInv, JobInv, [ConfigNext]_configVars
    PROVE  KeysInv'
<1>1. ASSUME heap' = heap PROVE KeysInv'
  BY <1>1 DEF KeysInv
<1>2. Complete \notin DOMAIN <<>>
  OBVIOUS
<1>3. CASE UNCHANGED configVars
  BY <1>1, <1>3 DEF configVars, memory
<1>4. CASE ConfigNext
  <2>1. ASSUME CfgSetDefaults PROVE KeysInv'
    BY <2>1, WithKeys, ConfigAssumption DEF CfgSetDefaults
  <2>2. ASSUME SettingLine PROVE KeysInv'
    <3>1. PICK d, section, name, v : heap' = Stored(d, KeyFor(section, name), v)
      BY <2>2 DEF SettingLine
    <3>2. KeyFor(section, name) # Complete
      BY KeyIsNotComplete
    <3> QED  BY <3>1, <3>2, StoredKeys
  <2>3. ASSUME IncludeLine \/ CfgLoad PROVE KeysInv'
    <3>1. heap' = With(heap, Address, <<>>)
      BY <2>3 DEF IncludeLine, CfgLoad, Opened
    <3> QED  BY <1>2, <3>1, WithKeys
  <2>4. ASSUME EndOfFile PROVE KeysInv'
    <3>1. CASE heap' = heap
      BY <1>1, <3>1
    <3>2. CASE heap' # heap
      <4>1. PICK parent, top : /\ top = Top.dict
                               /\ heap' = Without([heap EXCEPT ![parent] = Merged(@, heap[top])], {top})
        BY <2>4, <3>2 DEF EndOfFile
      <4>2. top \in DOMAIN heap
        <5>1. PICK S : frames \in Seq(S)
          BY DEF HeapInv, Held, WellStacked
        <5>2. Len(frames) \in 1 .. Len(frames)
          BY <2>4, <5>1 DEF EndOfFile
        <5> QED  BY <4>1, <5>2 DEF HeapInv, Held, WellStacked, Filled, Top, Last
      <4>3. PICK m : m = Merged(heap[parent], heap[top])
        OBVIOUS
      <4>4. DOMAIN m = DOMAIN heap[parent] \cup DOMAIN heap[top]
        BY <4>3 DEF Merged
      <4>5. /\ DOMAIN heap' = DOMAIN heap \ {top}
            /\ \A e \in DOMAIN heap' : heap'[e] = IF e = parent THEN m ELSE heap[e]
        BY <4>1, <4>3 DEF Without
      <4> QED  BY <4>2, <4>4, <4>5 DEF KeysInv
    <3> QED  BY <3>1, <3>2
  <2>5. ASSUME CfgDetectAndLoad PROVE KeysInv'
    <3>1. heap' = heap \/ heap' = With(heap, Address, <<>>)
      BY <2>5 DEF CfgDetectAndLoad
    <3> QED  BY <1>1, <1>2, <3>1, WithKeys
  <2>6. ASSUME CfgApplyNew PROVE KeysInv'
    <3>1. /\ cfg \in DOMAIN heap /\ loaded \in DOMAIN heap
          /\ heap' = With([heap EXCEPT ![cfg] = heap[loaded]], staged', heap[cfg])
      BY <2>6, ApplyKeeps
    <3>2. \A e \in DOMAIN heap' : heap'[e] \in {heap[cfg], heap[loaded]} \/ (e \in DOMAIN heap /\ heap'[e] = heap[e])
      BY <3>1 DEF With
    <3> QED  BY <3>1, <3>2 DEF KeysInv
  <2>7. ASSUME Announced \/ CfgFini \/ Die PROVE KeysInv'
    <3>1. CASE Die
      BY <3>1 DEF Die, KeysInv
    <3>2. CASE Announced \/ CfgFini
      <4>1. PICK ids : heap' = Without(heap, ids)
        BY <3>2 DEF Announced, CfgFini
      <4> QED  BY <4>1 DEF Without, KeysInv
    <3> QED  BY <2>7, <3>1, <3>2
  <2>8. ASSUME NEW r \in Requests, CfgSetValue(r[1], r[2]) PROVE KeysInv'
    <3>1. PICK v : heap' = Stored(cfg, r[1], v) /\ r[1] \in DOMAIN Kinds
      BY <2>8 DEF CfgSetValue
    <3>2. r[1] # Complete
      BY <3>1, ConfigAssumption
    <3> QED  BY <3>1, <3>2, StoredKeys
  <2>9. ASSUME \/ \E s \in {"modules", "serial"} : CfgAddCallback(s)
               \/ \E k \in ListenKeys \cup {Complete} : ReloadEventAdd(k) \/ ReloadEventRemove(k)
               \/ CfgReload \/ (\E k \in due : Announce(k)) \/ AnnounceComplete
               \/ (\E complete \in BOOLEAN : CfgSave(complete))
               \/ SaveOpen \/ SaveLine \/ SaveClose
               \/ (\E lines \in Edits : EditFile(lines))
               \/ SkipLine \/ CommentLine \/ SectionLine \/ PassInclude \/ CfgLoadFails \/ Detected
        PROVE  KeysInv'
    <3>1. heap' = heap
      BY <2>9 DEF CfgAddCallback, ReloadEventAdd, ReloadEventRemove, CfgReload, Announce, AnnounceComplete, CfgSave,
                  SaveOpen, SaveLine, SaveClose, EditFile, SkipLine, CommentLine, SectionLine, PassInclude,
                  CfgLoadFails, Detected, memory
    <3> QED  BY <1>1, <3>1
  <2> QED  BY <1>4, <2>1, <2>2, <2>3, <2>4, <2>5, <2>6, <2>7, <2>8, <2>9 DEF ConfigNext
<1> QED  BY <1>3, <1>4

\* While a reload is under way only its own steps, and the end of the process, can
\* follow.
LEMMA ReloadAlone ==
    ASSUME HeapInv, JobInv, ConfigNext, staged' # NoDict
    PROVE  CfgApplyNew \/ (\E k \in due : Announce(k)) \/ AnnounceComplete
<1>1. ASSUME staged' = staged
      PROVE  job \in {"announce", "announced"} /\ frames = <<>>
  BY <1>1 DEF JobInv
<1>2. ASSUME NEW s, CfgAddCallback(s) PROVE FALSE
  BY <1>1, <1>2 DEF CfgAddCallback, listening
<1>3. ASSUME NEW k, ReloadEventAdd(k) \/ ReloadEventRemove(k) PROVE FALSE
  BY <1>1, <1>3 DEF ReloadEventAdd, ReloadEventRemove, Call
<1>4. ASSUME SkipLine \/ CommentLine \/ SectionLine \/ SettingLine \/ IncludeLine \/ PassInclude PROVE FALSE
  BY <1>1, <1>4 DEF SkipLine, CommentLine, SectionLine, SettingLine, IncludeLine, PassInclude, InFile, LoadKeeps, listening
<1>5. ASSUME CfgSetDefaults \/ EndOfFile \/ CfgDetectAndLoad \/ CfgReload \/ CfgLoadFails \/ Detected PROVE FALSE
  BY <1>1, <1>5 DEF CfgSetDefaults, EndOfFile, CfgDetectAndLoad, CfgReload, CfgLoadFails, Detected, Call, listening
<1>6. ASSUME CfgLoad PROVE FALSE
  BY <1>1, <1>6 DEF CfgLoad, LoadKeeps, listening
<1>7. ASSUME NEW r, CfgSetValue(r[1], r[2]) PROVE FALSE
  BY <1>1, <1>7 DEF CfgSetValue, Call
<1>8. ASSUME NEW complete, CfgSave(complete) PROVE FALSE
  BY <1>1, <1>8 DEF CfgSave, Call, listening
<1>9. ASSUME SaveOpen \/ SaveLine \/ SaveClose PROVE FALSE
  BY <1>1, <1>9 DEF SaveOpen, SaveLine, SaveClose, listening
<1>10. ASSUME NEW lines, EditFile(lines) PROVE FALSE
  BY <1>1, <1>10 DEF EditFile, Call, listening
<1>11. ASSUME CfgFini \/ Die \/ Announced PROVE FALSE
  BY <1>1, <1>11 DEF CfgFini, Die, Announced, Call
<1> QED  BY <1>2, <1>3, <1>4, <1>5, <1>6, <1>7, <1>8, <1>9, <1>10, <1>11 DEF ConfigNext

LEMMA ToldKept ==
    ASSUME HeapInv, JobInv, KeysInv, ToldInv, [ConfigNext]_configVars
    PROVE  ToldInv'
<1>1. CASE UNCHANGED configVars
  BY <1>1 DEF configVars, memory, listening, ToldInv, Heard
<1>2. CASE staged' = NoDict
  BY <1>2 DEF ToldInv
<1>3. CASE CfgApplyNew
  <2>1. /\ cfg \in DOMAIN heap /\ loaded \in DOMAIN heap /\ loaded # cfg
        /\ staged' \notin DOMAIN heap
        /\ heap' = With([heap EXCEPT ![cfg] = heap[loaded]], staged', heap[cfg])
    BY <1>3, ApplyKeeps
  <2>2. cfg' = cfg /\ told' = <<>> /\ job' = "announce" /\ due' = Diff(heap[cfg], heap[loaded])
    BY <1>3 DEF CfgApplyNew
  <2>3. heap'[staged'] = heap[cfg] /\ heap'[cfg'] = heap[loaded]
    BY <2>1, <2>2 DEF With
  <2>4. due' = Diff(heap'[staged'], heap'[cfg'])
    BY <2>2, <2>3
  <2>5. told' \in Seq(events') /\ Len(told') = 0
    BY <2>2
  <2>6. \A k : ~Heard(k)'
    BY <2>5 DEF Heard
  <2> QED  BY <2>2, <2>4, <2>5, <2>6 DEF ToldInv
<1>4. ASSUME NEW key \in due, Announce(key), staged' # NoDict PROVE ToldInv'
  <2>1. /\ job = "announce" /\ job' = job /\ due' = due \ {key} /\ events' = events
        /\ heap' = heap /\ cfg' = cfg /\ staged' = staged
        /\ told' = IF key \in events THEN Append(told, key) ELSE told
    BY <1>4 DEF Announce, memory
  <2>2. PICK changed : changed = Diff(heap[staged], heap[cfg])
    OBVIOUS
  <2>3. /\ told \in Seq(events) /\ due \subseteq changed
        /\ \A i, j \in 1 .. Len(told) : told[i] = told[j] => i = j
        /\ \A k : Heard(k) <=> k \in events \cap (changed \ due)
    BY <1>4, <2>1, <2>2 DEF ToldInv
  <2>4. ~Heard(key)
    BY <2>3
  <2>5. CASE key \notin events
    <3>1. \A k : Heard(k)' <=> k \in events \cap (changed \ due')
      BY <2>1, <2>3, <2>5 DEF Heard
    <3> QED  BY <2>1, <2>2, <2>3, <2>5, <3>1 DEF ToldInv
  <2>6. CASE key \in events
    <3>1. PICK n \in Nat : n = Len(told)
      BY <2>3
    <3>2. told' \in Seq(events) /\ Len(told') = n + 1 /\ told'[n + 1] = key
      BY <2>1, <2>3, <2>6, <3>1
    <3>3. \A i \in 1 .. n : told'[i] = told[i]
      BY <2>1, <2>3, <2>6, <3>1
    <3>4. \A i \in 1 .. n : told[i] # key
      BY <2>4, <3>1 DEF Heard
    <3>5. ASSUME NEW i \in 1 .. Len(told'), NEW j \in 1 .. Len(told'), told'[i] = told'[j] PROVE i = j
      <4>1. CASE i \in 1 .. n /\ j \in 1 .. n
        BY <2>3, <3>1, <3>3, <3>5, <4>1
      <4>2. CASE i = n + 1 \/ j = n + 1
        BY <3>2, <3>3, <3>4, <3>5, <4>2
      <4> QED  BY <3>2, <4>1, <4>2
    <3>6. ASSUME NEW k PROVE Heard(k)' <=> k \in events \cap (changed \ due')
      <4>1. Heard(k)' <=> Heard(k) \/ k = key
        <5>1. ASSUME Heard(k)' PROVE Heard(k) \/ k = key
          BY <3>1, <3>2, <3>3, <5>1 DEF Heard
        <5>2. ASSUME Heard(k) PROVE Heard(k)'
          <6>1. PICK i \in 1 .. n : told[i] = k
            BY <3>1, <5>2 DEF Heard
          <6>2. i \in 1 .. n + 1 /\ told'[i] = k
            BY <3>3, <6>1
          <6> QED  BY <3>2, <6>2 DEF Heard
        <5>3. Heard(key)'
          <6>1. n + 1 \in 1 .. n + 1
            OBVIOUS
          <6> QED  BY <3>2, <6>1 DEF Heard
        <5> QED  BY <5>1, <5>2, <5>3
      <4> QED  BY <2>1, <2>3, <2>6, <4>1
    <3> QED  BY <2>1, <2>2, <2>3, <3>2, <3>5, <3>6 DEF ToldInv
  <2> QED  BY <2>5, <2>6
<1>5. ASSUME AnnounceComplete, staged' # NoDict PROVE ToldInv'
  <2>1. /\ job = "announce" /\ job' = "announced" /\ due = {} /\ due' = due /\ events' = events
        /\ heap' = heap /\ cfg' = cfg /\ staged' = staged
        /\ told' = IF Complete \in events THEN Append(told, Complete) ELSE told
    BY <1>5 DEF AnnounceComplete, memory
  <2>2. PICK changed : changed = Diff(heap[staged], heap[cfg])
    OBVIOUS
  <2>3. /\ told \in Seq(events)
        /\ \A i, j \in 1 .. Len(told) : told[i] = told[j] => i = j
        /\ \A k : Heard(k) <=> k \in events \cap changed
    BY <1>5, <2>1, <2>2 DEF ToldInv
  <2>4. Complete \notin changed
    <3>1. frames = <<>> /\ cfg # NoDict
      BY <1>5, <2>1 DEF JobInv
    <3>2. DOMAIN heap = {cfg, default_cfg, loaded, staged} \ {NoDict}
      BY <3>1, FlatState
    <3>3. cfg \in DOMAIN heap /\ staged \in DOMAIN heap
      BY <1>5, <2>1, <3>1, <3>2
    <3> QED  BY <2>2, <3>3 DEF KeysInv, Diff
  <2>5. CASE Complete \notin events
    <3>1. \A k : Heard(k)' <=> k \in events \cap (changed \cup {Complete})
      BY <2>1, <2>3, <2>5 DEF Heard
    <3> QED  BY <2>1, <2>2, <2>3, <2>5, <3>1 DEF ToldInv
  <2>6. CASE Complete \in events
    <3>1. PICK n \in Nat : n = Len(told)
      BY <2>3
    <3>2. told' \in Seq(events) /\ Len(told') = n + 1 /\ told'[n + 1] = Complete
      BY <2>1, <2>3, <2>6, <3>1
    <3>3. \A i \in 1 .. n : told'[i] = told[i]
      BY <2>1, <2>3, <2>6, <3>1
    <3>4. \A i \in 1 .. n : told[i] # Complete
      BY <2>3, <2>4, <3>1 DEF Heard
    <3>5. ASSUME NEW i \in 1 .. Len(told'), NEW j \in 1 .. Len(told'), told'[i] = told'[j] PROVE i = j
      <4>1. CASE i \in 1 .. n /\ j \in 1 .. n
        BY <2>3, <3>1, <3>3, <3>5, <4>1
      <4>2. CASE i = n + 1 \/ j = n + 1
        BY <3>2, <3>3, <3>4, <3>5, <4>2
      <4> QED  BY <3>2, <4>1, <4>2
    <3>6. ASSUME NEW k PROVE Heard(k)' <=> k \in events \cap (changed \cup {Complete})
      <4>1. ASSUME Heard(k)' PROVE Heard(k) \/ k = Complete
        BY <3>1, <3>2, <3>3, <4>1 DEF Heard
      <4>2. ASSUME Heard(k) PROVE Heard(k)'
        <5>1. PICK i \in 1 .. n : told[i] = k
          BY <3>1, <4>2 DEF Heard
        <5>2. i \in 1 .. n + 1 /\ told'[i] = k
          BY <3>3, <5>1
        <5> QED  BY <3>2, <5>2 DEF Heard
      <4>3. Heard(Complete)'
        <5>1. n + 1 \in 1 .. n + 1
          OBVIOUS
        <5> QED  BY <3>2, <5>1 DEF Heard
      <4> QED  BY <2>3, <2>6, <4>1, <4>2, <4>3
    <3>7. Len(told') # 0 /\ told'[Len(told')] = Complete
      BY <3>1, <3>2
    <3> QED  BY <2>1, <2>2, <3>2, <3>5, <3>6, <3>7 DEF ToldInv
  <2> QED  BY <2>5, <2>6
<1> QED  BY <1>1, <1>2, <1>3, <1>4, <1>5, ReloadAlone

\* A reload tells the listener of every key that changed, came or went, once, then
\* the listener for completion, and frees the old contents and newcfg: when no call
\* is under way the live configuration and the defaults are all that is allocated,
\* whatever was loaded, refused, set or cut off before.
THEOREM ReloadAlwaysClean == ConfigSpec => []ReloadIsClean
<1> DEFINE Inv == HeapInv /\ JobInv /\ KeysInv /\ ToldInv
<1>1. ConfigStart => Inv
  <2> SUFFICES ASSUME ConfigStart PROVE Inv
    OBVIOUS
  <2>1. HeapInv /\ JobInv
    BY HeapStart
  <2>2. KeysInv /\ ToldInv
    BY DEF ConfigStart, KeysInv, ToldInv
  <2> QED  BY <2>1, <2>2
<1>2. Inv /\ [ConfigNext]_configVars => Inv'
  BY HeapKept, KeysKept, ToldKept
<1>3. Inv => ReloadIsClean
  <2> SUFFICES ASSUME HeapInv, JobInv, KeysInv, ToldInv PROVE ReloadIsClean
    OBVIOUS
  <2>1. job = "idle" => DOMAIN heap = {cfg, default_cfg} \ {NoDict}
    <3> SUFFICES ASSUME job = "idle" PROVE DOMAIN heap = {cfg, default_cfg} \ {NoDict}
      OBVIOUS
    <3>1. frames = <<>> /\ loaded = NoDict /\ staged = NoDict
      BY DEF JobInv
    <3>2. DOMAIN heap = {cfg, default_cfg, loaded, staged} \ {NoDict}
      BY <3>1, FlatState
    <3> QED  BY <3>1, <3>2
  <2> DEFINE at(d, k) == IF k \in DOMAIN heap[d] THEN <<heap[d][k]>> ELSE <<>>
             differ   == {k \in events \ {Complete} : at(staged, k) # at(cfg, k)}
  <2>2. ASSUME job = "announced", staged # NoDict
        PROVE  /\ Complete \in events => Last(told) = Complete
               /\ \A k \in events : Cardinality({i \in 1 .. Len(told) : told[i] = k}) =
                                       IF k \in differ \cup {Complete} THEN 1 ELSE 0
    <3>1. PICK changed : changed = Diff(heap[staged], heap[cfg])
      OBVIOUS
    <3>2. /\ told \in Seq(events)
          /\ \A i, j \in 1 .. Len(told) : told[i] = told[j] => i = j
          /\ \A k : Heard(k) <=> k \in events \cap (changed \cup {Complete})
          /\ Complete \in events => told[Len(told)] = Complete
      BY <2>2, <3>1 DEF ToldInv
    <3>3. Complete \in events => Last(told) = Complete
      BY <3>2 DEF Last
    <3>4. ASSUME NEW k \in events, k # Complete PROVE k \in differ <=> k \in changed
      <4>1. at(staged, k) # at(cfg, k) <=> k \in changed
        <5>1. CASE k \in DOMAIN heap[staged] /\ k \in DOMAIN heap[cfg]
          BY <3>1, <5>1 DEF Diff
        <5>2. CASE k \in DOMAIN heap[staged] /\ k \notin DOMAIN heap[cfg]
          BY <3>1, <5>2 DEF Diff
        <5>3. CASE k \notin DOMAIN heap[staged] /\ k \in DOMAIN heap[cfg]
          BY <3>1, <5>3 DEF Diff
        <5>4. CASE k \notin DOMAIN heap[staged] /\ k \notin DOMAIN heap[cfg]
          BY <3>1, <5>4 DEF Diff
        <5> QED  BY <5>1, <5>2, <5>3, <5>4
      <4> QED  BY <3>4, <4>1
    <3>5. ASSUME NEW k \in events
          PROVE  Cardinality({i \in 1 .. Len(told) : told[i] = k}) =
                    IF k \in differ \cup {Complete} THEN 1 ELSE 0
      <4>1. Heard(k) <=> k \in differ \cup {Complete}
        <5>1. CASE k = Complete
          BY <3>2, <5>1
        <5>2. CASE k # Complete
          BY <3>2, <3>4, <5>2
        <5> QED  BY <5>1, <5>2
      <4>2. PICK W : W = {i \in 1 .. Len(told) : told[i] = k}
        OBVIOUS
      <4>3. CASE Heard(k)
        <5>1. PICK i \in 1 .. Len(told) : told[i] = k
          BY <4>3 DEF Heard
        <5>2. W = {i}
          BY <3>2, <4>2, <5>1
        <5>3. Cardinality(W) = 1
          BY <5>2, FS_Singleton
        <5> QED  BY <4>1, <4>2, <4>3, <5>3
      <4>4. CASE ~Heard(k)
        <5>1. W = {}
          BY <4>2, <4>4 DEF Heard
        <5>2. Cardinality(W) = 0
          BY <5>1, FS_EmptySet
        <5> QED  BY <4>1, <4>2, <4>4, <5>2
      <4> QED  BY <4>3, <4>4
    <3> QED  BY <3>3, <3>5
  <2> QED  BY <2>1, <2>2 DEF ReloadIsClean
<1> QED  BY <1>1, <1>2, <1>3, PTL DEF ConfigSpec

-----------------------------------------------------------------------------
(* Access lists.  Addresses are compared as bits inside IPv6.              *)

LEMMA SamePrefix ==
    ASSUME NEW B, NEW s \in Seq(B), NEW t \in Seq(B), NEW n \in Nat, n <= Len(s), n <= Len(t)
    PROVE  SubSeq(s, 1, n) = SubSeq(t, 1, n) <=> \A i \in 1 .. n : s[i] = t[i]
<1>1. /\ SubSeq(s, 1, n) \in Seq(B)
      /\ Len(SubSeq(s, 1, n)) = IF 1 <= n THEN n - 1 + 1 ELSE 0
      /\ \A i \in 1 .. n - 1 + 1 : SubSeq(s, 1, n)[i] = s[1 + i - 1]
  <2>1. \A i \in 1 .. n : s[i] \in B
    OBVIOUS
  <2> QED  BY <2>1, SubSeqProperties
<1>2. /\ SubSeq(t, 1, n) \in Seq(B)
      /\ Len(SubSeq(t, 1, n)) = IF 1 <= n THEN n - 1 + 1 ELSE 0
      /\ \A i \in 1 .. n - 1 + 1 : SubSeq(t, 1, n)[i] = t[1 + i - 1]
  <2>1. \A i \in 1 .. n : t[i] \in B
    OBVIOUS
  <2> QED  BY <2>1, SubSeqProperties
<1>3. PICK a, b : a = SubSeq(s, 1, n) /\ b = SubSeq(t, 1, n)
  OBVIOUS
<1>4. a \in Seq(B) /\ Len(a) = n /\ \A i \in 1 .. n : a[i] = s[i]
  BY <1>1, <1>3
<1>5. b \in Seq(B) /\ Len(b) = n /\ \A i \in 1 .. n : b[i] = t[i]
  BY <1>2, <1>3
<1>6. a = b => \A i \in 1 .. n : s[i] = t[i]
  BY <1>4, <1>5
<1>7. (\A i \in 1 .. n : s[i] = t[i]) => a = b
  <2> SUFFICES ASSUME \A i \in 1 .. n : s[i] = t[i] PROVE a = b
    OBVIOUS
  <2>1. \A i \in 1 .. Len(a) : a[i] = b[i]
    BY <1>4, <1>5
  <2> QED  BY <1>4, <1>5, <2>1, SeqEqual
<1> QED  BY <1>3, <1>6, <1>7

\* A network or an address and its place among the IPv6 addresses.
WideOf(f, b, v) ==
    /\ b \in Seq({0, 1}) /\ v \in Seq({0, 1}) /\ Len(v) = PrefixBits + HostBits
    /\ \/ /\ f = 4 /\ Len(b) = HostBits
          /\ \A i \in 1 .. PrefixBits : v[i] = MappedPrefix[i]
          /\ \A i \in 1 .. HostBits : v[PrefixBits + i] = b[i]
       \/ f = 6 /\ b = v

LEMMA BitsAssumption ==
    HostBits \in Nat /\ PrefixBits \in Nat /\ MappedPrefix \in Seq({0, 1}) /\ Len(MappedPrefix) = PrefixBits
BY AclAssumption DEF PrefixBits

LEMMA MappedBits ==
    ASSUME NEW v \in Seq({0, 1}), Len(v) = PrefixBits + HostBits
    PROVE  IsMapped(v) <=> \A i \in 1 .. PrefixBits : v[i] = MappedPrefix[i]
<1>1. SubSeq(MappedPrefix, 1, PrefixBits) = SubSeq(v, 1, PrefixBits)
         <=> \A i \in 1 .. PrefixBits : MappedPrefix[i] = v[i]
  BY BitsAssumption, SamePrefix
<1>2. IsMapped(v) <=> SubSeq(MappedPrefix, 1, PrefixBits) = SubSeq(v, 1, PrefixBits)
  BY BitsAssumption DEF IsMapped, IsPrefix, PrefixBits
<1> QED  BY <1>1, <1>2

LEMMA WideFour ==
    ASSUME NEW b \in Seq({0, 1}), Len(b) = HostBits
    PROVE  WideOf(4, b, MappedPrefix \o b)
<1>1. PICK v, P : v = MappedPrefix \o b /\ P = MappedPrefix
  OBVIOUS
<1>2. P \in Seq({0, 1}) /\ Len(P) = PrefixBits
  BY <1>1, BitsAssumption
<1>3. /\ P \o b \in Seq({0, 1}) /\ Len(P \o b) = Len(P) + Len(b)
      /\ \A i \in 1 .. Len(P) + Len(b) : (P \o b)[i] = IF i <= Len(P) THEN P[i] ELSE b[i - Len(P)]
  BY <1>2, ConcatProperties
<1>4. /\ v \in Seq({0, 1}) /\ Len(v) = PrefixBits + HostBits
      /\ \A i \in 1 .. PrefixBits + HostBits : v[i] = IF i <= PrefixBits THEN P[i] ELSE b[i - PrefixBits]
  BY <1>1, <1>2, <1>3
<1>5. \A i \in 1 .. PrefixBits : v[i] = P[i]
  BY <1>4, BitsAssumption
<1>6. \A i \in 1 .. HostBits : v[PrefixBits + i] = b[i]
  <2> SUFFICES ASSUME NEW i \in 1 .. HostBits PROVE v[PrefixBits + i] = b[i]
    OBVIOUS
  <2>1. PICK j \in Int : j = PrefixBits + i
    BY BitsAssumption
  <2>2. j \in 1 .. PrefixBits + HostBits /\ ~(j <= PrefixBits) /\ j - PrefixBits = i
    BY <2>1, BitsAssumption
  <2> QED  BY <1>4, <2>1, <2>2
<1> QED  BY <1>1, <1>4, <1>5, <1>6 DEF WideOf

LEMMA WideTail ==
    ASSUME NEW v \in Seq({0, 1}), Len(v) = PrefixBits + HostBits, IsMapped(v),
           NEW b, b = SubSeq(v, PrefixBits + 1, Len(v))
    PROVE  WideOf(4, b, v)
<1>1. PICK m \in Int, n \in Int : m = PrefixBits + 1 /\ n = PrefixBits + HostBits
  BY BitsAssumption
<1>2. /\ SubSeq(v, m, n) \in Seq({0, 1})
      /\ Len(SubSeq(v, m, n)) = IF m <= n THEN n - m + 1 ELSE 0
      /\ \A i \in 1 .. n - m + 1 : SubSeq(v, m, n)[i] = v[m + i - 1]
  <2>1. \A i \in m .. n : v[i] \in {0, 1}
    BY <1>1, BitsAssumption
  <2> QED  BY <1>1, <2>1, SubSeqProperties
<1>3. b = SubSeq(v, m, n)
  BY <1>1
<1>4. b \in Seq({0, 1}) /\ Len(b) = HostBits
  BY <1>1, <1>2, <1>3, BitsAssumption
<1>5. \A i \in 1 .. HostBits : v[PrefixBits + i] = b[i]
  <2> SUFFICES ASSUME NEW i \in 1 .. HostBits PROVE v[PrefixBits + i] = b[i]
    OBVIOUS
  <2>1. i \in 1 .. n - m + 1 /\ m + i - 1 = PrefixBits + i
    BY <1>1, BitsAssumption
  <2> QED  BY <1>2, <1>3, <2>1
<1>6. \A i \in 1 .. PrefixBits : v[i] = MappedPrefix[i]
  BY MappedBits
<1> QED  BY <1>4, <1>5, <1>6 DEF WideOf

\* A host and the address acl_subject_init() keeps of it.
LEMMA AddressWide ==
    ASSUME NEW h \in Hosts, NEW a, a = AddressOf(h), NEW who, who = Wide(h.family, h.bits)
    PROVE  WideOf(a.family, a.bits, who) /\ (a.family = 6 => ~IsMapped(who))
<1>1. h.family \in {4, 6} /\ h.bits \in Seq({0, 1}) /\ Len(h.bits) = Width(h.family)
  BY AclAssumption
<1>2. CASE h.family = 4
  <2>1. a = h /\ who = MappedPrefix \o h.bits /\ Len(h.bits) = HostBits
    BY <1>1, <1>2 DEF AddressOf, Wide, Width
  <2>2. PICK b : b = h.bits /\ b \in Seq({0, 1}) /\ Len(b) = HostBits
    BY <1>1, <2>1
  <2>3. WideOf(4, b, MappedPrefix \o b)
    BY <2>2, WideFour
  <2>4. a.family = 4 /\ a.bits = b /\ who = MappedPrefix \o b
    BY <1>2, <2>1, <2>2
  <2> QED  BY <2>3, <2>4
<1>3. CASE h.family = 6 /\ IsMapped(h.bits)
  <2>1. PICK b, v : b = SubSeq(h.bits, PrefixBits + 1, Len(h.bits)) /\ v = h.bits
    OBVIOUS
  <2>2. a = [family |-> 4, bits |-> b] /\ who = v /\ Len(v) = PrefixBits + HostBits
    <3>1. a = [family |-> 4, bits |-> b]
      BY <1>3, <2>1 DEF AddressOf
    <3>2. who = v /\ Len(v) = PrefixBits + HostBits
      BY <1>1, <1>3, <2>1 DEF Wide, Width
    <3> QED  BY <3>1, <3>2
  <2>3. v \in Seq({0, 1}) /\ IsMapped(v) /\ b = SubSeq(v, PrefixBits + 1, Len(v))
    BY <1>1, <1>3, <2>1
  <2>4. WideOf(4, b, v)
    BY <2>2, <2>3, WideTail
  <2> QED  BY <2>2, <2>4
<1>4. CASE h.family = 6 /\ ~IsMapped(h.bits)
  <2>1. a = h /\ who = h.bits /\ Len(h.bits) = PrefixBits + HostBits
    BY <1>1, <1>4 DEF AddressOf, Wide, Width
  <2> QED  BY <1>1, <1>4, <2>1 DEF WideOf
<1> QED  BY <1>1, <1>2, <1>3, <1>4

\* A network as written and as network_parse() keeps it.
LEMMA NetworkWide ==
    ASSUME NEW x, IsNet(x), NEW p \in Nat, p <= Width(x.family),
           NEW n, n = Normalised([family |-> x.family, bits |-> x.bits, prefix |-> p]),
           NEW net, net = Wide(x.family, x.bits),
           NEW w, w = IF x.family = 4 THEN p + PrefixBits ELSE p
    PROVE  /\ WideOf(n.family, n.bits, net) /\ n.prefix \in Nat /\ w \in Nat /\ w <= PrefixBits + HostBits
           /\ n.family = 4 => w = n.prefix + PrefixBits
           /\ n.family = 6 => w = n.prefix /\ (w >= PrefixBits => ~IsMapped(net))
<1>1. x.family \in {4, 6} /\ x.bits \in Seq({0, 1}) /\ Len(x.bits) = Width(x.family)
  BY DEF IsNet
<1>2. PICK m : m = [family |-> x.family, bits |-> x.bits, prefix |-> p]
  OBVIOUS
<1>3. m.family = x.family /\ m.bits = x.bits /\ m.prefix = p /\ n = Normalised(m)
  BY <1>2
<1>4. CASE x.family = 4
  <2>1. n = m /\ net = MappedPrefix \o x.bits /\ Len(x.bits) = HostBits /\ w = p + PrefixBits /\ p <= HostBits
    BY <1>1, <1>3, <1>4 DEF Normalised, Wide, Width
  <2>2. WideOf(4, x.bits, net)
    BY <1>1, <2>1, WideFour
  <2> QED  BY <1>3, <1>4, <2>1, <2>2, BitsAssumption
<1>5. CASE x.family = 6 /\ IsMapped(x.bits) /\ p >= PrefixBits
  <2>1. PICK b, v : b = SubSeq(x.bits, PrefixBits + 1, Len(x.bits)) /\ v = x.bits
    OBVIOUS
  <2>2. /\ n = [family |-> 4, bits |-> b, prefix |-> p - PrefixBits]
        /\ net = v /\ Len(v) = PrefixBits + HostBits /\ w = p /\ p <= PrefixBits + HostBits
    <3>1. n = [family |-> 4, bits |-> b, prefix |-> p - PrefixBits]
      BY <1>3, <1>5, <2>1 DEF Normalised
    <3>2. net = v /\ Len(v) = PrefixBits + HostBits /\ w = p /\ p <= PrefixBits + HostBits
      BY <1>1, <1>5, <2>1 DEF Wide, Width
    <3> QED  BY <3>1, <3>2
  <2>3. v \in Seq({0, 1}) /\ IsMapped(v) /\ b = SubSeq(v, PrefixBits + 1, Len(v))
    BY <1>1, <1>5, <2>1
  <2>4. WideOf(4, b, v)
    BY <2>2, <2>3, WideTail
  <2>5. n.family = 4 /\ n.bits = b /\ n.prefix = p - PrefixBits
    BY <2>2
  <2> QED  BY <1>5, <2>2, <2>4, <2>5, BitsAssumption
<1>6. CASE x.family = 6 /\ ~(IsMapped(x.bits) /\ p >= PrefixBits)
  <2>1. n = m /\ net = x.bits /\ Len(x.bits) = PrefixBits + HostBits /\ w = p /\ p <= PrefixBits + HostBits
    BY <1>1, <1>3, <1>6 DEF Normalised, Wide, Width
  <2>2. WideOf(6, x.bits, net)
    BY <1>1, <2>1 DEF WideOf
  <2> QED  BY <1>3, <1>6, <2>1, <2>2, BitsAssumption
<1> QED  BY <1>1, <1>4, <1>5, <1>6

Agrees(x, h, n, a) ==
    /\ n.family # 0 /\ a.family # 0
    /\ Covers(x, h) <=> /\ n.family = a.family
                        /\ SubSeq(n.bits, 1, n.prefix) = SubSeq(a.bits, 1, n.prefix)

\* A known address is inside a network exactly if it is so written in IPv6, where a
\* network wider than the mapped block has no IPv4 address.
LEMMA InsideIsCovered ==
    ASSUME NEW h \in Hosts, NEW x, IsNet(x), NEW p \in Nat, p <= Width(x.family),
           p = IF x.slash THEN x.prefix ELSE Width(x.family),
           NEW n, n = Normalised([family |-> x.family, bits |-> x.bits, prefix |-> p]),
           NEW a, a = AddressOf(h)
    PROVE  Agrees(x, h, n, a)
<1> SUFFICES /\ n.family # 0 /\ a.family # 0
             /\ Covers(x, h) <=> /\ n.family = a.family
                                 /\ SubSeq(n.bits, 1, n.prefix) = SubSeq(a.bits, 1, n.prefix)
  BY DEF Agrees
<1>1. PICK who, net, w : /\ who = Wide(h.family, h.bits) /\ net = Wide(x.family, x.bits)
                         /\ w = IF x.family = 4 THEN p + PrefixBits ELSE p
  OBVIOUS
<1>2. WideOf(a.family, a.bits, who) /\ (a.family = 6 => ~IsMapped(who))
  BY <1>1, AddressWide
<1>3. /\ WideOf(n.family, n.bits, net) /\ n.prefix \in Nat /\ w \in Nat /\ w <= PrefixBits + HostBits
      /\ n.family = 4 => w = n.prefix + PrefixBits
      /\ n.family = 6 => w = n.prefix /\ (w >= PrefixBits => ~IsMapped(net))
  BY <1>1, NetworkWide
<1>4. /\ who \in Seq({0, 1}) /\ net \in Seq({0, 1})
      /\ Len(who) = PrefixBits + HostBits /\ Len(net) = PrefixBits + HostBits
      /\ n.family \in {4, 6} /\ a.family \in {4, 6} /\ n.bits \in Seq({0, 1}) /\ a.bits \in Seq({0, 1})
  BY <1>2, <1>3 DEF WideOf
<1>5. Covers(x, h) <=> (\A i \in 1 .. w : net[i] = who[i]) /\ (w < PrefixBits => ~IsMapped(who))
  <2>1. Covers(x, h) <=> SubSeq(net, 1, w) = SubSeq(who, 1, w) /\ (w < PrefixBits => ~IsMapped(who))
    BY <1>1 DEF Covers
  <2>2. SubSeq(net, 1, w) = SubSeq(who, 1, w) <=> \A i \in 1 .. w : net[i] = who[i]
    BY <1>3, <1>4, SamePrefix
  <2> QED  BY <2>1, <2>2
<1>6. IsMapped(who) <=> \A i \in 1 .. PrefixBits : who[i] = MappedPrefix[i]
  BY <1>4, MappedBits
<1>7. IsMapped(net) <=> \A i \in 1 .. PrefixBits : net[i] = MappedPrefix[i]
  BY <1>4, MappedBits
<1>8. CASE n.family = 4 /\ a.family = 4
  <2>1. PICK q \in Nat : q = n.prefix /\ w = q + PrefixBits /\ q <= HostBits
    BY <1>3, <1>8, BitsAssumption
  <2>2. /\ Len(n.bits) = HostBits /\ Len(a.bits) = HostBits
        /\ \A i \in 1 .. PrefixBits : net[i] = MappedPrefix[i] /\ who[i] = MappedPrefix[i]
        /\ \A i \in 1 .. HostBits : net[PrefixBits + i] = n.bits[i] /\ who[PrefixBits + i] = a.bits[i]
    BY <1>2, <1>3, <1>8 DEF WideOf
  <2>3. (\A i \in 1 .. w : net[i] = who[i]) <=> \A i \in 1 .. q : n.bits[i] = a.bits[i]
    <3>1. ASSUME \A i \in 1 .. w : net[i] = who[i], NEW i \in 1 .. q PROVE n.bits[i] = a.bits[i]
      <4>1. PICK j \in Int : j = PrefixBits + i
        BY BitsAssumption
      <4>2. j \in 1 .. w /\ i \in 1 .. HostBits
        BY <2>1, <4>1, BitsAssumption
      <4> QED  BY <2>2, <3>1, <4>1, <4>2
    <3>2. ASSUME \A i \in 1 .. q : n.bits[i] = a.bits[i], NEW i \in 1 .. w PROVE net[i] = who[i]
      <4>1. CASE i <= PrefixBits
        BY <2>2, <4>1, BitsAssumption
      <4>2. CASE i > PrefixBits
        <5>1. PICK j \in Int : j = i - PrefixBits
          BY <2>1, BitsAssumption
        <5>2. j \in 1 .. q /\ j \in 1 .. HostBits /\ PrefixBits + j = i
          BY <2>1, <4>2, <5>1, BitsAssumption
        <5> QED  BY <2>2, <3>2, <5>2
      <4> QED  BY <2>1, <4>1, <4>2, BitsAssumption
    <3> QED  BY <3>1, <3>2
  <2>4. SubSeq(n.bits, 1, q) = SubSeq(a.bits, 1, q) <=> \A i \in 1 .. q : n.bits[i] = a.bits[i]
    <3>1. PICK nb, ab : nb = n.bits /\ ab = a.bits
      OBVIOUS
    <3>2. nb \in Seq({0, 1}) /\ ab \in Seq({0, 1}) /\ q <= Len(nb) /\ q <= Len(ab)
      BY <1>4, <2>1, <2>2, <3>1
    <3>3. SubSeq(nb, 1, q) = SubSeq(ab, 1, q) <=> \A i \in 1 .. q : nb[i] = ab[i]
      BY <3>2, SamePrefix
    <3> QED  BY <3>1, <3>3
  <2>5. ~(w < PrefixBits)
    BY <2>1, BitsAssumption
  <2>6. Covers(x, h) <=> SubSeq(n.bits, 1, q) = SubSeq(a.bits, 1, q)
    BY <1>5, <2>3, <2>4, <2>5
  <2>7. SubSeq(n.bits, 1, n.prefix) = SubSeq(n.bits, 1, q) /\ SubSeq(a.bits, 1, n.prefix) = SubSeq(a.bits, 1, q)
    BY <2>1
  <2>8. n.family = a.family /\ n.family # 0 /\ a.family # 0
    BY <1>8
  <2>9. Covers(x, h) <=> SubSeq(n.bits, 1, n.prefix) = SubSeq(a.bits, 1, n.prefix)
    BY <2>6, <2>7
  <2> QED  BY <2>8, <2>9
<1>9. CASE n.family = 4 /\ a.family = 6
  <2>1. w >= PrefixBits
    BY <1>3, <1>9, BitsAssumption
  <2>2. \A i \in 1 .. PrefixBits : net[i] = MappedPrefix[i]
    BY <1>3, <1>9 DEF WideOf
  <2>3. ASSUME Covers(x, h) PROVE FALSE
    <3>1. \A i \in 1 .. PrefixBits : net[i] = who[i]
      BY <1>3, <1>5, <2>1, <2>3, BitsAssumption
    <3> QED  BY <1>2, <1>6, <1>9, <2>2, <3>1
  <2> QED  BY <1>4, <1>9, <2>3
<1>10. CASE n.family = 6 /\ a.family = 4
  <2>1. IsMapped(who)
    BY <1>2, <1>6, <1>10 DEF WideOf
  <2>2. ASSUME Covers(x, h) PROVE FALSE
    <3>1. w >= PrefixBits
      BY <1>3, <1>5, <2>1, <2>2, BitsAssumption
    <3>2. \A i \in 1 .. PrefixBits : net[i] = who[i]
      BY <1>3, <1>5, <2>2, <3>1, BitsAssumption
    <3> QED  BY <1>3, <1>6, <1>7, <1>10, <2>1, <3>1, <3>2
  <2> QED  BY <1>4, <1>10, <2>2
<1>11. CASE n.family = 6 /\ a.family = 6
  <2>1. n.bits = net /\ a.bits = who /\ n.prefix = w
    BY <1>2, <1>3, <1>11 DEF WideOf
  <2>2. SubSeq(net, 1, w) = SubSeq(who, 1, w) <=> \A i \in 1 .. w : net[i] = who[i]
    BY <1>3, <1>4, SamePrefix
  <2>3. Covers(x, h) <=> SubSeq(net, 1, w) = SubSeq(who, 1, w)
    BY <1>2, <1>5, <1>11, <2>2
  <2>4. SubSeq(n.bits, 1, n.prefix) = SubSeq(net, 1, w) /\ SubSeq(a.bits, 1, n.prefix) = SubSeq(who, 1, w)
    BY <2>1
  <2>5. n.family = a.family /\ n.family # 0 /\ a.family # 0
    BY <1>11
  <2>6. Covers(x, h) <=> SubSeq(n.bits, 1, n.prefix) = SubSeq(a.bits, 1, n.prefix)
    BY <2>3, <2>4
  <2> QED  BY <2>5, <2>6
<1> QED  BY <1>4, <1>8, <1>9, <1>10, <1>11

-----------------------------------------------------------------------------
(* Selectors and the rules they are parsed into.                           *)

LEMMA OneAt ==
    ASSUME NEW S, NEW s \in Seq(S), NEW k \in 1 .. Len(s)
    PROVE  SubSeq(s, k, k) = <<s[k]>>
<1>1. PICK m \in Int : m = k
  OBVIOUS
<1>2. /\ SubSeq(s, m, m) \in Seq(S)
      /\ Len(SubSeq(s, m, m)) = IF m <= m THEN m - m + 1 ELSE 0
      /\ \A i \in 1 .. m - m + 1 : SubSeq(s, m, m)[i] = s[m + i - 1]
  <2>1. \A i \in m .. m : s[i] \in S
    BY <1>1
  <2> QED  BY <2>1, SubSeqProperties
<1>3. PICK t, x, z : t = SubSeq(s, m, m) /\ x = s[k] /\ z = <<x>>
  OBVIOUS
<1>4. t \in Seq(S) /\ Len(t) = 1 /\ t[1] = x
  BY <1>1, <1>2, <1>3
<1>5. z \in Seq(S) /\ Len(z) = 1 /\ z[1] = x
  BY <1>1, <1>3
<1>6. \A i \in 1 .. Len(t) : t[i] = z[i]
  BY <1>4, <1>5
<1>7. t = z
  BY <1>4, <1>5, <1>6, SeqEqual
<1> QED  BY <1>1, <1>3, <1>7

LEMMA OnlyOne ==
    ASSUME NEW S, NEW s \in Seq(S), Len(s) = 1
    PROVE  s = <<s[1]>>
<1>1. PICK z, x : z = <<x>> /\ x = s[1]
  OBVIOUS
<1>2. z \in Seq(S) /\ Len(z) = 1 /\ z[1] = x
  BY <1>1
<1>3. \A i \in 1 .. Len(s) : s[i] = z[i]
  BY <1>1, <1>2
<1>4. s = z
  BY <1>2, <1>3, SeqEqual
<1> QED  BY <1>1, <1>4

LEMMA TailOfTwo ==
    ASSUME NEW S, NEW s \in Seq(S), Len(s) = 2
    PROVE  Tail(s) = <<s[2]>>
<1>1. PICK t : t = Tail(s)
  OBVIOUS
<1>2. t \in Seq(S) /\ Len(t) = 1 /\ t[1] = s[2]
  BY <1>1
<1>3. t = <<t[1]>>
  BY <1>2, OnlyOne
<1> QED  BY <1>1, <1>2, <1>3

LEMMA LastAtIs ==
    ASSUME NEW s, NEW n \in Nat, Len(s) = n, NEW k \in 1 .. n, s[k] = At,
           \A j \in 1 .. n : j > k => s[j] # At
    PROVE  LastAt(s) = k
<1>1. PICK I : I = {i \in 1 .. Len(s) : s[i] = At}
  OBVIOUS
<1>2. k \in I /\ \A y \in I : y \in Int /\ k >= y
  BY <1>1
<1>3. LastAt(s) = IF I # {} THEN Max(I) ELSE 0
  BY <1>1 DEF LastAt, SelectLastInSubSeq
<1>4. Max(I) = k
  <2>1. \E x \in I : \A y \in I : x >= y
    BY <1>2
  <2>2. Max(I) \in I /\ \A y \in I : Max(I) >= y
    BY <2>1 DEF Max
  <2>3. PICK m : m = Max(I)
    OBVIOUS
  <2>4. m \in I /\ m >= k
    BY <1>2, <2>2, <2>3
  <2>5. m \in Int /\ k \in Int /\ k >= m
    BY <1>2, <2>4
  <2>6. m = k
    BY <2>4, <2>5
  <2> QED  BY <2>3, <2>6
<1> QED  BY <1>2, <1>3, <1>4

LEMMA NoAt ==
    ASSUME NEW s, NEW n \in Nat, Len(s) = n, \A j \in 1 .. n : s[j] # At
    PROVE  LastAt(s) = 0
<1>1. PICK I : I = {i \in 1 .. Len(s) : s[i] = At}
  OBVIOUS
<1>2. I = {}
  BY <1>1
<1>3. LastAt(s) = IF I # {} THEN Max(I) ELSE 0
  BY <1>1 DEF LastAt, SelectLastInSubSeq
<1> QED  BY <1>2, <1>3

LEMMA Tokens ==
    /\ At.t = "at" /\ All.t = "all"
    /\ \A x : IsWord(x) => x # At /\ x # All /\ x.t = "word" /\ x = Word(x.w)
    /\ \A x : IsPlace(x) => x # At /\ x.t \in {"all", "net"} /\ (x.t = "net" <=> x # All) /\ (x # All => IsNet(x))
<1>1. At.t = "at" /\ All.t = "all"
  BY DEF At, All
<1>2. \A x : IsWord(x) => x # At /\ x # All /\ x.t = "word" /\ x = Word(x.w)
  BY <1>1 DEF IsWord
<1>3. \A x : IsPlace(x) => x # At /\ x.t \in {"all", "net"} /\ (x.t = "net" <=> x # All) /\ (x # All => IsNet(x))
  BY <1>1 DEF IsPlace, IsNet
<1> QED  BY <1>1, <1>2, <1>3

\* The place a selector names, as the rule keeps it.
LEMMA PlaceMeant ==
    ASSUME NEW x, IsPlace(x), NEW place, place = NetworkParse(<<x>>), place.ok,
           NEW r, r.net = place.net,
           NEW h \in Hosts, NEW u, NEW f, f = Subject(h, u, TRUE, TRUE)
    PROVE  ~Elsewhere(r, f) <=> (x.t = "net" => Covers(x, h))
<1>1. CASE x = All
  <2>1. place.net = NoNetwork
    <3>1. PICK s : s = <<x>>
      OBVIOUS
    <3>2. s = <<All>> /\ ~(Len(s) = 1 /\ s[1].t = "net")
      BY <1>1, <3>1, Tokens
    <3>3. NetworkParse(s) = [ok |-> TRUE, net |-> NoNetwork]
      BY <3>2 DEF NetworkParse
    <3>4. place = [ok |-> TRUE, net |-> NoNetwork]
      BY <3>1, <3>3
    <3> QED  BY <3>4
  <2>2. r.net.family = 0
    BY <2>1 DEF NoNetwork
  <2> QED  BY <1>1, <2>2, Tokens DEF Elsewhere
<1>2. CASE x # All
  <2>1. IsNet(x) /\ x.t = "net"
    BY <1>2, Tokens
  <2>2. PICK s : s = <<x>>
    OBVIOUS
  <2>3. Len(s) = 1 /\ s[1] = x /\ s # <<All>>
    BY <1>2, <2>2
  <2>4. PICK p : p = IF x.slash THEN x.prefix ELSE Width(x.family)
    OBVIOUS
  <2>5. NetworkParse(s) = IF p > Width(x.family) THEN NoRule
                          ELSE [ok |-> TRUE, net |-> Normalised([family |-> x.family, bits |-> x.bits, prefix |-> p])]
    BY <2>1, <2>3, <2>4 DEF NetworkParse
  <2>6. PICK n : n = Normalised([family |-> x.family, bits |-> x.bits, prefix |-> p])
    OBVIOUS
  <2>7. ~(p > Width(x.family)) /\ r.net = n
    BY <2>2, <2>5, <2>6 DEF NoRule
  <2>8. p \in Nat /\ p <= Width(x.family)
    <3>1. Width(x.family) \in Nat /\ x.prefix \in Nat
      BY <2>1, BitsAssumption DEF Width, IsNet
    <3> QED  BY <2>4, <2>7, <3>1
  <2>9. PICK a : a = AddressOf(h) /\ f.address = a
    BY DEF Subject
  <2>10. Agrees(x, h, n, a)
    BY <2>1, <2>4, <2>6, <2>8, <2>9, InsideIsCovered
  <2>11. Elsewhere(r, f) <=> /\ n.family # 0 /\ a.family # 0
                             /\ \/ n.family # a.family
                                \/ SubSeq(n.bits, 1, n.prefix) # SubSeq(a.bits, 1, n.prefix)
    BY <2>7, <2>9 DEF Elsewhere
  <2> QED  BY <2>1, <2>10, <2>11 DEF Agrees
<1> QED  BY <1>1, <1>2

\* The name a selector holds, as the rule keeps it.
LEMMA NameMeant ==
    ASSUME NEW w, IsWord(w), NEW r, r.principal = <<w>>, r.kind \in {"user", "group"},
           NEW u, NEW f, f.user = u
    PROVE  /\ r.kind = "user" => (~SomeoneElse(r, f) <=> w.w = u)
           /\ r.kind = "group" => (~SomeoneElse(r, f) <=> w.w \in GroupsOf[u])
<1>2. \A v : <<w>> = <<Word(v)>> <=> w.w = v
  <2>1. \A v : Word(v).w = v
    BY DEF Word
  <2>2. w = Word(w.w)
    BY Tokens
  <2>3. \A v : <<w>> = <<Word(v)>> <=> w = Word(v)
    OBVIOUS
  <2> QED  BY <2>1, <2>2, <2>3
<1>3. CASE r.kind = "user"
  BY <1>2, <1>3 DEF SomeoneElse
<1>4. CASE r.kind = "group"
  BY <1>2, <1>4 DEF SomeoneElse
<1> QED  BY <1>3, <1>4

LEMMA Anywhere ==
    ASSUME NEW r, r.net = NoNetwork, NEW f
    PROVE  ~Elsewhere(r, f)
BY DEF Elsewhere, NoNetwork

KindIn(s) == IF IsAlone(s) THEN "any" ELSE IF IsGroup(s) THEN "group" ELSE "user"

Keeps(r, allow, s) ==
    r.allow = allow /\ r.net = PlaceIn(s).net /\ r.principal = NamedIn(s) /\ r.kind = KindIn(s)

LEMMA RuleFields ==
    ASSUME NEW allow, NEW s, RuleParse(allow, s).ok, NEW r, r = RuleParse(allow, s).rule
    PROVE  PlaceIn(s).ok /\ Keeps(r, allow, s) /\ RuleParse(TRUE, s).ok
<1>1. PICK bad : bad = \/ s = <<>> \/ Blanks \in Range(s)
                       \/ s = <<Numeric>>
                       \/ ~IsAlone(s) /\ (NamedIn(s) = <<>> \/ At \in Range(NamedIn(s)))
                       \/ ~PlaceIn(s).ok
  OBVIOUS
<1>2. PICK k : k = [allow |-> allow, net |-> PlaceIn(s).net, principal |-> NamedIn(s), kind |-> KindIn(s)]
  OBVIOUS
<1>3. PICK z : z = [allow |-> TRUE, net |-> PlaceIn(s).net, principal |-> NamedIn(s), kind |-> KindIn(s)]
  OBVIOUS
<1>4. RuleParse(allow, s) = IF bad THEN NoRule ELSE [ok |-> TRUE, rule |-> k]
  BY <1>1, <1>2 DEF RuleParse, KindIn
<1>5. RuleParse(TRUE, s) = IF bad THEN NoRule ELSE [ok |-> TRUE, rule |-> z]
  BY <1>1, <1>3 DEF RuleParse, KindIn
<1>6. ~NoRule.ok
  BY DEF NoRule
<1>7. ~bad
  BY <1>4, <1>6
<1>8. r = k
  BY <1>4, <1>7
<1>9. Keeps(r, allow, s)
  BY <1>2, <1>8 DEF Keeps
<1>10. RuleParse(TRUE, s).ok
  <2>1. RuleParse(TRUE, s) = [ok |-> TRUE, rule |-> z]
    BY <1>5, <1>7
  <2>2. [ok |-> TRUE, rule |-> z].ok
    OBVIOUS
  <2> QED  BY <2>1, <2>2
<1>11. PlaceIn(s).ok
  BY <1>1, <1>7
<1> QED  BY <1>9, <1>10, <1>11

\* A selector and the rule made of it say the same of a host and a user.
Meant(s, r, h, u) ==
    LET f == Subject(h, u, TRUE, TRUE)
    IN Says(s, h, u) <=> ~Elsewhere(r, f) /\ ~SomeoneElse(r, f)

\* "all", an address or a network.
LEMMA PlaceAlone ==
    ASSUME NEW S, NEW s \in Seq(S), Len(s) = 1, IsPlace(s[1]), PlaceIn(s).ok,
           NEW r, NEW allow, Keeps(r, allow, s), NEW h \in Hosts, NEW u
    PROVE  Meant(s, r, h, u)
<1>1. PICK x, f, place : x = s[1] /\ f = Subject(h, u, TRUE, TRUE) /\ place = PlaceIn(s)
  OBVIOUS
<1>2. IsPlace(x) /\ x # At /\ x.t \in {"all", "net"}
  BY <1>1, Tokens
<1>3. s = <<x>>
  BY <1>1, OnlyOne
<1>4. IsAlone(s)
  BY <1>1, <1>2 DEF IsAlone
<1>5. LastAt(s) = 0
  BY <1>1, <1>2, NoAt
<1>6. place = NetworkParse(<<x>>)
  BY <1>1, <1>3, <1>4, <1>5 DEF PlaceIn, IsSplit
<1>7. r.net = place.net /\ place.ok /\ r.kind = "any"
  BY <1>1, <1>4 DEF Keeps, KindIn
<1>8. ~Elsewhere(r, f) <=> (x.t = "net" => Covers(x, h))
  BY <1>1, <1>2, <1>6, <1>7, PlaceMeant
<1>9. ~SomeoneElse(r, f)
  BY <1>7 DEF SomeoneElse
<1>10. Says(s, h, u) <=> (x.t = "net" => Covers(x, h))
  BY <1>1, <1>2 DEF Says
<1> QED  BY <1>1, <1>8, <1>9, <1>10 DEF Meant

\* A name.
LEMMA NameAlone ==
    ASSUME NEW S, NEW s \in Seq(S), Len(s) = 1, IsWord(s[1]),
           NEW r, NEW allow, Keeps(r, allow, s), NEW h \in Hosts, NEW u
    PROVE  Meant(s, r, h, u)
<1>1. PICK w, f : w = s[1] /\ f = Subject(h, u, TRUE, TRUE)
  OBVIOUS
<1>2. IsWord(w) /\ w # At /\ w.t = "word"
  BY <1>1, Tokens
<1>3. s = <<w>>
  BY <1>1, OnlyOne
<1>4. ~IsAlone(s) /\ LastAt(s) = 0
  <2>1. ~IsAlone(s)
    BY <1>1, <1>2 DEF IsAlone
  <2>2. \A j \in 1 .. 1 : s[j] # At
    BY <1>1, <1>2
  <2> QED  BY <2>1, <2>2, NoAt
<1>5. PrincipalIn(s) = s
  BY <1>4 DEF PrincipalIn, IsSplit
<1>6. ~IsGroup(s)
  BY <1>1, <1>2, <1>5 DEF IsGroup
<1>7. NamedIn(s) = <<w>>
  BY <1>3, <1>5, <1>6 DEF NamedIn
<1>8. r.net = NoNetwork
  <2>1. PICK e : e = [ok |-> TRUE, net |-> NoNetwork]
    OBVIOUS
  <2>2. PlaceIn(s) = e
    BY <1>4, <2>1 DEF PlaceIn, IsSplit
  <2> QED  BY <2>1, <2>2 DEF Keeps
<1>9. r.principal = <<w>> /\ r.kind = "user"
  BY <1>4, <1>6, <1>7 DEF Keeps, KindIn
<1>10. ~SomeoneElse(r, f) <=> w.w = u
  <2>1. f.user = u
    BY <1>1 DEF Subject
  <2> QED  BY <1>2, <1>9, <2>1, NameMeant
<1>11. Says(s, h, u) <=> w.w = u
  BY <1>1, <1>2 DEF Says
<1> QED  BY <1>1, <1>8, <1>10, <1>11, Anywhere DEF Meant

\* '@' and the name of a group.
LEMMA GroupAlone ==
    ASSUME NEW S, NEW s \in Seq(S), Len(s) = 2, s[1] = At, IsWord(s[2]),
           NEW r, NEW allow, Keeps(r, allow, s), NEW h \in Hosts, NEW u
    PROVE  Meant(s, r, h, u)
<1>1. PICK w, f : w = s[2] /\ f = Subject(h, u, TRUE, TRUE)
  OBVIOUS
<1>2. IsWord(w) /\ w # At /\ w.t = "word" /\ At.t = "at"
  BY <1>1, Tokens
<1>3. Tail(s) = <<w>>
  BY <1>1, TailOfTwo
<1>4. ~IsAlone(s) /\ LastAt(s) = 1
  BY <1>1, <1>2, LastAtIs DEF IsAlone
<1>5. PrincipalIn(s) = s
  BY <1>4 DEF PrincipalIn, IsSplit
<1>6. IsGroup(s)
  <2>1. s # <<>>
    BY EmptySeq
  <2> QED  BY <1>5, <2>1 DEF IsGroup
<1>7. NamedIn(s) = <<w>>
  BY <1>3, <1>5, <1>6 DEF NamedIn
<1>8. r.net = NoNetwork
  <2>1. PICK e : e = [ok |-> TRUE, net |-> NoNetwork]
    OBVIOUS
  <2>2. PlaceIn(s) = e
    BY <1>4, <2>1 DEF PlaceIn, IsSplit
  <2> QED  BY <2>1, <2>2 DEF Keeps
<1>9. r.principal = <<w>> /\ r.kind = "group"
  BY <1>4, <1>6, <1>7 DEF Keeps, KindIn
<1>10. ~SomeoneElse(r, f) <=> w.w \in GroupsOf[u]
  <2>1. f.user = u
    BY <1>1 DEF Subject
  <2> QED  BY <1>2, <1>9, <2>1, NameMeant
<1>11. Says(s, h, u) <=> w.w \in GroupsOf[u]
  BY <1>1, <1>2 DEF Says
<1> QED  BY <1>1, <1>8, <1>10, <1>11, Anywhere DEF Meant

\* A name, '@' and a place.
LEMMA NameAtPlace ==
    ASSUME NEW S, NEW s \in Seq(S), Len(s) = 3, IsWord(s[1]), s[2] = At, IsPlace(s[3]), PlaceIn(s).ok,
           NEW r, NEW allow, Keeps(r, allow, s), NEW h \in Hosts, NEW u
    PROVE  Meant(s, r, h, u)
<1>1. PICK w, x, f, place : w = s[1] /\ x = s[3] /\ f = Subject(h, u, TRUE, TRUE) /\ place = PlaceIn(s)
  OBVIOUS
<1>2. IsWord(w) /\ w # At /\ w.t = "word" /\ At.t = "at" /\ IsPlace(x) /\ x # At /\ x.t \in {"all", "net"}
  BY <1>1, Tokens
<1>3. ~IsAlone(s) /\ LastAt(s) = 2
  BY <1>1, <1>2, LastAtIs DEF IsAlone
<1>4. IsSplit(s) /\ LastAt(s) - 1 = 1 /\ LastAt(s) + 1 = 3
  BY <1>3 DEF IsSplit
<1>5. SubSeq(s, 1, 1) = <<w>> /\ SubSeq(s, 3, 3) = <<x>>
  <2>1. SubSeq(s, 1, 1) = <<s[1]>>
    <3>1. PICK k \in 1 .. Len(s) : k = 1
      OBVIOUS
    <3>2. SubSeq(s, k, k) = <<s[k]>>
      BY OneAt
    <3> QED  BY <3>1, <3>2
  <2>2. SubSeq(s, 3, 3) = <<s[3]>>
    BY OneAt
  <2> QED  BY <1>1, <2>1, <2>2
<1>6. PrincipalIn(s) = <<w>>
  BY <1>4, <1>5 DEF PrincipalIn
<1>7. ~IsGroup(s)
  BY <1>2, <1>6 DEF IsGroup
<1>8. NamedIn(s) = <<w>>
  BY <1>6, <1>7 DEF NamedIn
<1>9. place = NetworkParse(<<x>>)
  BY <1>1, <1>4, <1>5 DEF PlaceIn
<1>10. r.net = place.net /\ place.ok /\ r.principal = <<w>> /\ r.kind = "user"
  BY <1>1, <1>3, <1>7, <1>8 DEF Keeps, KindIn
<1>11. ~SomeoneElse(r, f) <=> w.w = u
  <2>1. f.user = u
    BY <1>1 DEF Subject
  <2> QED  BY <1>2, <1>10, <2>1, NameMeant
<1>12. ~Elsewhere(r, f) <=> (x.t = "net" => Covers(x, h))
  BY <1>1, <1>2, <1>9, <1>10, PlaceMeant
<1>13. Says(s, h, u) <=> (x.t = "net" => Covers(x, h)) /\ w.w = u
  <2>1. DOMAIN s = {1, 2, 3}
    OBVIOUS
  <2>2. ~(1 > 1 /\ s[1 - 1] = At)
    OBVIOUS
  <2>3. Says(s, h, u) <=>
          /\ (s[1].t = "net" => Covers(s[1], h)) /\ (s[2].t = "net" => Covers(s[2], h))
          /\ (s[3].t = "net" => Covers(s[3], h))
          /\ \A i \in {1, 2, 3} : s[i].t = "word" =>
                s[i].w \in (IF i > 1 /\ s[i - 1] = At THEN GroupsOf[u] ELSE {u})
    BY <2>1 DEF Says
  <2> QED  BY <1>1, <1>2, <2>3
<1> QED  BY <1>1, <1>11, <1>12, <1>13 DEF Meant

\* '@', the name of a group, '@' and a place.
LEMMA GroupAtPlace ==
    ASSUME NEW S, NEW s \in Seq(S), Len(s) = 4, s[1] = At, IsWord(s[2]), s[3] = At, IsPlace(s[4]), PlaceIn(s).ok,
           NEW r, NEW allow, Keeps(r, allow, s), NEW h \in Hosts, NEW u
    PROVE  Meant(s, r, h, u)
<1>1. PICK w, x, f, place : w = s[2] /\ x = s[4] /\ f = Subject(h, u, TRUE, TRUE) /\ place = PlaceIn(s)
  OBVIOUS
<1>2. IsWord(w) /\ w # At /\ w.t = "word" /\ At.t = "at" /\ IsPlace(x) /\ x # At /\ x.t \in {"all", "net"}
  BY <1>1, Tokens
<1>3. ~IsAlone(s) /\ LastAt(s) = 3
  BY <1>1, <1>2, LastAtIs DEF IsAlone
<1>4. IsSplit(s) /\ LastAt(s) - 1 = 2 /\ LastAt(s) + 1 = 4
  BY <1>3 DEF IsSplit
<1>5. SubSeq(s, 4, 4) = <<x>>
  BY <1>1, OneAt
<1>6. PICK q : q = SubSeq(s, 1, 2)
  OBVIOUS
<1>7. q \in Seq(S) /\ Len(q) = 2 /\ q[1] = At /\ q[2] = w
  BY <1>1, <1>6
<1>8. Tail(q) = <<w>>
  BY <1>7, TailOfTwo
<1>9. PrincipalIn(s) = q
  BY <1>4, <1>6 DEF PrincipalIn
<1>10. IsGroup(s)
  BY <1>7, <1>9 DEF IsGroup
<1>11. NamedIn(s) = <<w>>
  BY <1>8, <1>9, <1>10 DEF NamedIn
<1>12. place = NetworkParse(<<x>>)
  BY <1>1, <1>4, <1>5 DEF PlaceIn
<1>13. r.net = place.net /\ place.ok /\ r.principal = <<w>> /\ r.kind = "group"
  BY <1>1, <1>3, <1>10, <1>11 DEF Keeps, KindIn
<1>14. ~SomeoneElse(r, f) <=> w.w \in GroupsOf[u]
  <2>1. f.user = u
    BY <1>1 DEF Subject
  <2> QED  BY <1>2, <1>13, <2>1, NameMeant
<1>15. ~Elsewhere(r, f) <=> (x.t = "net" => Covers(x, h))
  BY <1>1, <1>2, <1>12, <1>13, PlaceMeant
<1>16. Says(s, h, u) <=> (x.t = "net" => Covers(x, h)) /\ w.w \in GroupsOf[u]
  <2>1. DOMAIN s = {1, 2, 3, 4}
    OBVIOUS
  <2>2. Says(s, h, u) <=>
          /\ \A i \in {1, 2, 3, 4} : s[i].t = "net" => Covers(s[i], h)
          /\ \A i \in {1, 2, 3, 4} : s[i].t = "word" =>
                s[i].w \in (IF i > 1 /\ s[i - 1] = At THEN GroupsOf[u] ELSE {u})
    BY <2>1 DEF Says
  <2> QED  BY <1>1, <1>2, <2>2
<1> QED  BY <1>1, <1>14, <1>15, <1>16 DEF Meant

\* What a list holds of a selector is what the selector says.
LEMMA RuleMeant ==
    ASSUME NEW s \in Selectors, NEW allow, RuleParse(allow, s).ok, NEW r, r = RuleParse(allow, s).rule,
           NEW h \in Hosts, NEW u
    PROVE  r.allow = allow /\ Meant(s, r, h, u)
<1>1. PlaceIn(s).ok /\ Keeps(r, allow, s) /\ RuleParse(TRUE, s).ok
  BY RuleFields
<1>2. s \in Seq(Range(s)) /\ Formed(s)
  BY <1>1, AclAssumption
<1>3. r.allow = allow
  BY <1>1 DEF Keeps
<1>4. CASE Len(s) = 1 /\ IsPlace(s[1])
  BY <1>1, <1>2, <1>3, <1>4, PlaceAlone
<1>5. CASE Len(s) = 1 /\ IsWord(s[1])
  BY <1>1, <1>2, <1>3, <1>5, NameAlone
<1>6. CASE Len(s) = 2 /\ s[1] = At /\ IsWord(s[2])
  BY <1>1, <1>2, <1>3, <1>6, GroupAlone
<1>7. CASE Len(s) = 3 /\ IsWord(s[1]) /\ s[2] = At /\ IsPlace(s[3])
  BY <1>1, <1>2, <1>3, <1>7, NameAtPlace
<1>8. CASE Len(s) = 4 /\ s[1] = At /\ IsWord(s[2]) /\ s[3] = At /\ IsPlace(s[4])
  BY <1>1, <1>2, <1>3, <1>8, GroupAtPlace
<1> QED  BY <1>2, <1>4, <1>5, <1>6, <1>7, <1>8 DEF Formed

\* What a rule says when everything is known, and what it may say before.
LEMMA FullMatch ==
    ASSUME NEW r, NEW h \in Hosts, NEW u, NEW f, f = Subject(h, u, TRUE, TRUE)
    PROVE  /\ Elsewhere(r, f) \/ SomeoneElse(r, f) => RuleMatch(r, f) = "no match"
           /\ ~(Elsewhere(r, f) \/ SomeoneElse(r, f)) =>
                 RuleMatch(r, f) = IF r.allow THEN "allow" ELSE "deny"
<1>1. f.address = AddressOf(h) /\ f.known
  BY DEF Subject
<1>2. f.address.family # 0
  <2>1. PICK a, who : a = AddressOf(h) /\ who = Wide(h.family, h.bits)
    OBVIOUS
  <2>2. WideOf(a.family, a.bits, who)
    BY <2>1, AddressWide
  <2>3. a.family \in {4, 6}
    BY <2>2 DEF WideOf
  <2>4. a.family # 0
    BY <2>3
  <2>5. f.address = a
    BY <2>1 DEF Subject
  <2> QED  BY <2>4, <2>5
<1> QED  BY <1>1, <1>2 DEF RuleMatch

LEMMA EarlyMatch ==
    ASSUME NEW r, NEW h \in Hosts, NEW u, NEW kh \in BOOLEAN, NEW ku \in BOOLEAN,
           NEW p, p = Subject(h, u, kh, ku), NEW f, f = Subject(h, u, TRUE, TRUE)
    PROVE  /\ RuleMatch(r, p) = "no match" => Elsewhere(r, f) \/ SomeoneElse(r, f)
           /\ RuleMatch(r, p) \notin {"no match", "defer"} =>
                 /\ ~(Elsewhere(r, f) \/ SomeoneElse(r, f))
                 /\ RuleMatch(r, p) = IF r.allow THEN "allow" ELSE "deny"
<1>1. p.user = u /\ f.user = u
  BY DEF Subject
<1>2. SomeoneElse(r, p) <=> SomeoneElse(r, f)
  BY <1>1 DEF SomeoneElse
<1>3. Elsewhere(r, p) => Elsewhere(r, f)
  <2>1. CASE kh
    <3>1. p.address = f.address
      BY <2>1 DEF Subject
    <3> QED  BY <3>1 DEF Elsewhere
  <2>2. CASE ~kh
    <3>1. p.address = Unknown
      BY <2>2 DEF Subject
    <3> QED  BY <3>1 DEF Elsewhere, Unknown
  <2> QED  BY <2>1, <2>2
<1>4. ~Elsewhere(r, p) /\ (r.net.family = 0 \/ p.address.family # 0) => ~Elsewhere(r, f)
  <2>1. CASE kh
    <3>1. p.address = f.address
      BY <2>1 DEF Subject
    <3> QED  BY <3>1 DEF Elsewhere
  <2>2. CASE ~kh
    <3>1. p.address = Unknown
      BY <2>2 DEF Subject
    <3>2. p.address.family = 0
      BY <3>1 DEF Unknown
    <3> QED  BY <3>2 DEF Elsewhere
  <2> QED  BY <2>1, <2>2
<1>5. ASSUME RuleMatch(r, p) = "no match" PROVE Elsewhere(r, f) \/ SomeoneElse(r, f)
  <2>1. Elsewhere(r, p) \/ SomeoneElse(r, p)
    BY <1>5 DEF RuleMatch, Undecided
  <2> QED  BY <1>2, <1>3, <2>1
<1>6. ASSUME RuleMatch(r, p) \notin {"no match", "defer"}
      PROVE  /\ ~(Elsewhere(r, f) \/ SomeoneElse(r, f))
             /\ RuleMatch(r, p) = IF r.allow THEN "allow" ELSE "deny"
  <2>1. /\ ~Elsewhere(r, p) /\ ~SomeoneElse(r, p)
        /\ r.net.family = 0 \/ p.address.family # 0
        /\ RuleMatch(r, p) = IF r.allow THEN "allow" ELSE "deny"
    BY <1>6 DEF RuleMatch, Undecided
  <2> QED  BY <1>2, <1>4, <2>1
<1> QED  BY <1>5, <1>6

\* The first of the positions a search finds.
LEMMA FirstIs ==
    ASSUME NEW I, NEW n \in Nat, I \subseteq 1 .. n
    PROVE  /\ I # {} => Min(I) \in I /\ \A j \in I : Min(I) <= j
           /\ \A k \in I : (\A j \in I : k <= j) => Min(I) = k
<1>1. I # {} => Min(I) \in I /\ \A j \in I : Min(I) <= j
  <2> SUFFICES ASSUME I # {} PROVE Min(I) \in I /\ \A j \in I : Min(I) <= j
    OBVIOUS
  <2>1. I \in SUBSET Nat
    OBVIOUS
  <2>2. \E k \in I : \A j \in I : k <= j
    BY <2>1, Least
  <2> QED  BY <2>2 DEF Min
<1>2. ASSUME NEW k \in I, \A j \in I : k <= j PROVE Min(I) = k
  <2>1. PICK m : m = Min(I)
    OBVIOUS
  <2>2. m \in I /\ m <= k /\ k <= m
    BY <1>1, <1>2, <2>1
  <2>3. m \in Int /\ k \in Int
    BY <2>2
  <2>4. m = k
    BY <2>2, <2>3
  <2> QED  BY <2>1, <2>4
<1> QED  BY <1>1, <1>2

\* A list holds the rules its selectors were parsed into.
AclInv ==
    /\ host \in Hosts /\ user \in Users /\ hostKnown \in BOOLEAN /\ userKnown \in BOOLEAN
    /\ \E S : rules \in Seq(S)
    /\ \E S : texts \in Seq(S)
    /\ Len(texts) = Len(rules)
    /\ \A i \in 1 .. Len(rules) :
          /\ texts[i].selector \in Selectors
          /\ RuleParse(texts[i].allow, texts[i].selector).ok
          /\ rules[i] = RuleParse(texts[i].allow, texts[i].selector).rule

\* Of each position, what the rule says of the subject is what the selector says.
LEMMA EachMeant ==
    ASSUME AclInv, NEW i \in 1 .. Len(rules), NEW f, f = Subject(host, user, TRUE, TRUE)
    PROVE  /\ rules[i].allow = texts[i].allow
           /\ Says(texts[i].selector, host, user) <=> ~(Elsewhere(rules[i], f) \/ SomeoneElse(rules[i], f))
<1>1. PICK s, allow, r : s = texts[i].selector /\ allow = texts[i].allow /\ r = rules[i]
  OBVIOUS
<1>2. s \in Selectors /\ RuleParse(allow, s).ok /\ r = RuleParse(allow, s).rule /\ host \in Hosts
  BY <1>1 DEF AclInv
<1>3. r.allow = allow /\ Meant(s, r, host, user)
  BY <1>2, RuleMeant
<1> QED  BY <1>1, <1>3 DEF Meant

LEMMA AskedVerdict ==
    ASSUME AclInv, NEW v, v = Check(rules, Subject(host, user, hostKnown, userKnown)), v # "defer"
    PROVE  v = MeantVerdict
<1>1. PICK p, f : p = Subject(host, user, hostKnown, userKnown) /\ f = Subject(host, user, TRUE, TRUE)
  OBVIOUS
<1>2. PICK n : n \in Nat /\ n = Len(rules) /\ n = Len(texts)
  BY DEF AclInv
<1>3. PICK I, J : /\ I = {i \in 1 .. n : RuleMatch(rules[i], p) # "no match"}
                  /\ J = {i \in 1 .. n : Says(texts[i].selector, host, user)}
  OBVIOUS
<1>0. I \subseteq 1 .. n /\ J \subseteq 1 .. n
  BY <1>3
<1>4. v = IF I = {} THEN "deny" ELSE RuleMatch(rules[Min(I)], p)
  <2>1. PICK c : c = IF I # {} THEN Min(I) ELSE 0
    OBVIOUS
  <2>2. v = IF c = 0 THEN "deny" ELSE RuleMatch(rules[c], p)
    BY <1>1, <1>2, <1>3, <2>1 DEF Check, SelectInSeq, SelectInSubSeq
  <2>3. I # {} => c # 0
    <3>1. I # {} => Min(I) \in I
      BY <1>0, <1>2, FirstIs
    <3> QED  BY <1>0, <1>2, <2>1, <3>1
  <2> QED  BY <2>1, <2>2, <2>3
<1>5. /\ J = {} => MeantVerdict = "deny"
      /\ J # {} => MeantVerdict = IF texts[Min(J)].allow THEN "allow" ELSE "deny"
  <2>1. PICK c : c = SelectInSeq(texts, LAMBDA x : Says(x.selector, host, user))
    OBVIOUS
  <2>2. MeantVerdict = IF c = 0 \/ ~texts[c].allow THEN "deny" ELSE "allow"
    BY <2>1 DEF MeantVerdict
  <2>3. c = IF J # {} THEN Min(J) ELSE 0
    BY <1>2, <1>3, <2>1 DEF SelectInSeq, SelectInSubSeq
  <2>4. J # {} => c # 0
    <3>1. J # {} => Min(J) \in J
      BY <1>0, <1>2, FirstIs
    <3> QED  BY <1>0, <1>2, <2>3, <3>1
  <2>5. J = {} => MeantVerdict = "deny"
    BY <2>2, <2>3
  <2>6. ASSUME J # {} PROVE MeantVerdict = IF texts[Min(J)].allow THEN "allow" ELSE "deny"
    <3>1. c = Min(J) /\ c # 0
      BY <2>3, <2>4, <2>6
    <3> QED  BY <2>2, <3>1
  <2> QED  BY <2>5, <2>6
<1>6. ASSUME NEW i \in 1 .. n, i \notin I PROVE i \notin J
  <2>1. RuleMatch(rules[i], p) = "no match"
    BY <1>3, <1>6
  <2>2. Elsewhere(rules[i], f) \/ SomeoneElse(rules[i], f)
    BY <1>1, <2>1, EarlyMatch DEF AclInv
  <2> QED  BY <1>1, <1>2, <1>3, <2>2, EachMeant
<1>7. CASE I = {}
  <2>1. J = {}
    BY <1>3, <1>6, <1>7
  <2> QED  BY <1>4, <1>5, <1>7, <2>1
<1>8. CASE I # {}
  <2>1. PICK i : i = Min(I)
    OBVIOUS
  <2>2. i \in I /\ i \in 1 .. n /\ \A j \in I : i <= j
    BY <1>2, <1>3, <1>8, <2>1, FirstIs
  <2>3. RuleMatch(rules[i], p) \notin {"no match", "defer"} /\ v = RuleMatch(rules[i], p)
    BY <1>3, <1>4, <1>8, <2>1, <2>2
  <2>4. /\ ~(Elsewhere(rules[i], f) \/ SomeoneElse(rules[i], f))
        /\ v = IF rules[i].allow THEN "allow" ELSE "deny"
    <3>1. host \in Hosts /\ hostKnown \in BOOLEAN /\ userKnown \in BOOLEAN
      BY DEF AclInv
    <3>2. PICK r : r = rules[i]
      OBVIOUS
    <3>3. RuleMatch(r, p) \notin {"no match", "defer"} =>
             /\ ~(Elsewhere(r, f) \/ SomeoneElse(r, f))
             /\ RuleMatch(r, p) = IF r.allow THEN "allow" ELSE "deny"
      BY <1>1, <3>1, EarlyMatch
    <3> QED  BY <2>3, <3>2, <3>3
  <2>5. i \in J /\ rules[i].allow = texts[i].allow
    BY <1>1, <1>2, <1>3, <2>2, <2>4, EachMeant
  <2>6. \A j \in J : i <= j
    BY <1>3, <1>6, <2>2
  <2>7. Min(J) = i
    BY <1>2, <1>3, <2>5, <2>6, FirstIs
  <2> QED  BY <1>5, <2>4, <2>5, <2>7
<1> QED  BY <1>7, <1>8

LEMMA AclInvNext ==
    ASSUME AclInv /\ VerdictsStand, [AclNext]_aclVars
    PROVE  AclInv' /\ VerdictsStand'
<1>0. ASSUME rules' = rules, texts' = texts, host' = host, user' = user,
             hostKnown' \in BOOLEAN, userKnown' \in BOOLEAN
      PROVE  AclInv' /\ MeantVerdict' = MeantVerdict
  <2>1. AclInv'
    BY <1>0 DEF AclInv
  <2>2. MeantVerdict' = MeantVerdict
    BY <1>0 DEF MeantVerdict, SelectInSeq, SelectInSubSeq
  <2> QED  BY <2>1, <2>2
<1>00. hostKnown \in BOOLEAN /\ userKnown \in BOOLEAN
  BY DEF AclInv
<1>1. CASE UNCHANGED aclVars
  <2>1. /\ rules' = rules /\ texts' = texts /\ host' = host /\ user' = user /\ settled' = settled
        /\ hostKnown' = hostKnown /\ userKnown' = userKnown
    BY <1>1 DEF aclVars
  <2> QED  BY <1>0, <1>00, <2>1 DEF VerdictsStand
<1>2. ASSUME NEW allow \in BOOLEAN, NEW s \in Selectors, AddRule(allow, s) PROVE AclInv' /\ VerdictsStand'
  <2>1. PICK R, T : rules \in Seq(R) /\ texts \in Seq(T)
    BY DEF AclInv
  <2>2. PICK r, t : r = RuleParse(allow, s).rule /\ t = [allow |-> allow, selector |-> s]
    OBVIOUS
  <2>3. /\ rules' = Append(rules, r) /\ texts' = Append(texts, t) /\ RuleParse(allow, s).ok
        /\ settled = {} /\ settled' = {}
        /\ host' = host /\ user' = user /\ hostKnown' = hostKnown /\ userKnown' = userKnown
    BY <1>2, <2>2 DEF AddRule
  <2>4. t.allow = allow /\ t.selector = s
    BY <2>2
  <2>5. PICK RR, TT : RR = R \cup {r} /\ TT = T \cup {t}
    OBVIOUS
  <2>6. rules \in Seq(RR) /\ r \in RR /\ texts \in Seq(TT) /\ t \in TT
    BY <2>1, <2>5
  <2>7. /\ rules' \in Seq(RR) /\ Len(rules') = Len(rules) + 1 /\ rules'[Len(rules) + 1] = r
        /\ \A i \in 1 .. Len(rules) : rules'[i] = rules[i]
    BY <2>3, <2>6
  <2>8. /\ texts' \in Seq(TT) /\ Len(texts') = Len(texts) + 1 /\ texts'[Len(texts) + 1] = t
        /\ \A i \in 1 .. Len(texts) : texts'[i] = texts[i]
    BY <2>3, <2>6
  <2>9. PICK n \in Nat : n = Len(rules) /\ n = Len(texts)
    BY <2>1 DEF AclInv
  <2>10. ASSUME NEW i \in 1 .. Len(rules')
         PROVE  /\ texts'[i].selector \in Selectors
                /\ RuleParse(texts'[i].allow, texts'[i].selector).ok
                /\ rules'[i] = RuleParse(texts'[i].allow, texts'[i].selector).rule
    <3>1. CASE i = n + 1
      BY <2>2, <2>3, <2>4, <2>7, <2>8, <2>9, <3>1
    <3>2. CASE i \in 1 .. n
      BY <2>7, <2>8, <2>9, <3>2 DEF AclInv
    <3> QED  BY <2>7, <2>9, <3>1, <3>2
  <2>11. AclInv'
    BY <2>3, <2>7, <2>8, <2>9, <2>10 DEF AclInv
  <2> QED  BY <2>3, <2>11 DEF VerdictsStand
<1>3. CASE LearnHost
  BY <1>0, <1>00, <1>3 DEF LearnHost, VerdictsStand
<1>4. CASE LearnUser
  BY <1>0, <1>00, <1>4 DEF LearnUser, VerdictsStand
<1>5. CASE Ask
  <2>1. PICK v : v = Check(rules, Subject(host, user, hostKnown, userKnown))
    OBVIOUS
  <2>2. /\ v # "defer" /\ settled' = settled \cup {v}
        /\ UNCHANGED <<rules, texts, host, user, hostKnown, userKnown>>
    BY <1>5, <2>1 DEF Ask
  <2>3. v = MeantVerdict
    BY <2>1, <2>2, AskedVerdict
  <2>4. MeantVerdict' = MeantVerdict /\ AclInv'
    BY <1>0, <1>00, <2>2
  <2> QED  BY <2>2, <2>3, <2>4 DEF VerdictsStand
<1> QED  BY <1>1, <1>2, <1>3, <1>4, <1>5 DEF AclNext

\* A verdict acl_check() gives before everything is known of a subject, and every
\* later one, is the verdict of the first selector that speaks of this host and
\* this user, whatever the list, the width of an address and the mapped block.
THEOREM VerdictsAlwaysStand == AclSpec => []VerdictsStand
<1>1. AclStart => AclInv /\ VerdictsStand
  <2> SUFFICES ASSUME AclStart PROVE AclInv /\ VerdictsStand
    OBVIOUS
  <2>1. rules = <<>> /\ texts = <<>> /\ Len(rules) = 0 /\ Len(texts) = 0 /\ settled = {}
    BY DEF AclStart
  <2>2. \E S : <<>> \in Seq(S)
    OBVIOUS
  <2>3. host \in Hosts /\ user \in Users /\ hostKnown \in BOOLEAN /\ userKnown \in BOOLEAN
    BY DEF AclStart
  <2>4. (\E S : rules \in Seq(S)) /\ (\E S : texts \in Seq(S))
    BY <2>1, <2>2
  <2>5. AclInv
    BY <2>1, <2>3, <2>4 DEF AclInv
  <2> QED  BY <2>1, <2>5 DEF VerdictsStand
<1>2. (AclInv /\ VerdictsStand) /\ [AclNext]_aclVars => (AclInv /\ VerdictsStand)'
  BY AclInvNext
<1> QED  BY <1>1, <1>2, PTL DEF AclSpec

-----------------------------------------------------------------------------
(* The windows of the terminal: rows of the screen.                        *)

\* Rows: pairs of a message's number and the row in it.
Row == Nat \X Nat
RowSeq == Seq(Row)
Parts(s) == s \in Seq(RowSeq)

\* The concatenation of the first n parts.
Built(f, s) ==
    /\ f \in [0 .. Len(s) -> RowSeq] /\ f[0] = <<>>
    /\ \A n \in 0 .. Len(s) : n # 0 => f[n] = f[n - 1] \o s[n]

LEMMA PartsAre ==
    ASSUME NEW s, Parts(s)
    PROVE  Len(s) \in Nat /\ DOMAIN s = 1 .. Len(s) /\ \A i \in 1 .. Len(s) : s[i] \in RowSeq
<1>1. PICK T : T = RowSeq
  OBVIOUS
<1>2. s \in Seq(T)
  BY <1>1 DEF Parts
<1> QED  BY <1>1, <1>2

LEMMA Concats ==
    ASSUME NEW a \in RowSeq, NEW b \in RowSeq
    PROVE  /\ a \o b \in RowSeq /\ Len(a \o b) = Len(a) + Len(b)
           /\ \A i \in 1 .. Len(a) : (a \o b)[i] = a[i]
           /\ \A i \in 1 .. Len(b) : (a \o b)[Len(a) + i] = b[i]
<1>1. PICK T : T = Row
  OBVIOUS
<1>2. a \in Seq(T) /\ b \in Seq(T)
  BY <1>1 DEF RowSeq
<1>3. a \o b \in Seq(T) /\ Len(a \o b) = Len(a) + Len(b) /\ Len(a) \in Nat /\ Len(b) \in Nat
  BY <1>2
<1>4. \A i \in 1 .. Len(a) : (a \o b)[i] = a[i]
  BY <1>2
<1>5. ASSUME NEW i \in 1 .. Len(b) PROVE (a \o b)[Len(a) + i] = b[i]
  <2>1. Len(a) + i \in 1 .. Len(a) + Len(b) /\ Len(a) + i > Len(a) /\ (Len(a) + i) - Len(a) = i
    BY <1>3
  <2> QED  BY <1>2, <1>3, <2>1
<1> QED  BY <1>1, <1>3, <1>4, <1>5 DEF RowSeq

LEMMA SeqsEqual ==
    ASSUME NEW a \in RowSeq, NEW b \in RowSeq, Len(a) = Len(b), \A i \in 1 .. Len(a) : a[i] = b[i]
    PROVE  a = b
<1>1. PICK T : T = Row
  OBVIOUS
<1>2. a \in Seq(T) /\ b \in Seq(T)
  BY <1>1 DEF RowSeq
<1> QED  BY <1>2, SeqEqual

LEMMA RowSeqIs ==
    ASSUME NEW a \in RowSeq
    PROVE  /\ Len(a) \in Nat /\ DOMAIN a = 1 .. Len(a) /\ \A i \in 1 .. Len(a) : a[i] \in Row
           /\ Len(a) = 0 => a = <<>>
<1>1. PICK T : T = Row
  OBVIOUS
<1>2. a \in Seq(T)
  BY <1>1 DEF RowSeq
<1>3. Len(a) = 0 => a = <<>>
  BY <1>2
<1> QED  BY <1>1, <1>2, <1>3

LEMMA NoRows == <<>> \in RowSeq /\ Len(<<>>) = 0
BY DEF RowSeq

LEMMA ConcatMore ==
    ASSUME NEW a \in RowSeq, NEW b \in RowSeq, NEW c \in RowSeq
    PROVE  (a \o b) \o c = a \o (b \o c) /\ <<>> \o a = a /\ a \o <<>> = a
<1>1. PICK T : T = Row
  OBVIOUS
<1>2. a \in Seq(T) /\ b \in Seq(T) /\ c \in Seq(T)
  BY <1>1 DEF RowSeq
<1>3. (a \o b) \o c = a \o (b \o c)
  BY <1>2, ConcatAssociative
<1>4. <<>> \o a = a /\ a \o <<>> = a
  BY <1>2, ConcatEmptySeq
<1> QED  BY <1>3, <1>4

\* The recursion of FlattenSeq.
Flattening(f, s) == f = [i \in 1 .. Len(s) |-> IF i = 1 THEN s[i] ELSE f[i - 1] \o s[i]]

LEMMA Builds ==
    ASSUME NEW s, Parts(s)
    PROVE  \E f : Built(f, s)
<1>1. PICK T, h, b : T = RowSeq /\ h = Len(s) /\ b = <<>>
  OBVIOUS
<1>2. h \in Nat /\ b \in T /\ \A i \in 1 .. h : s[i] \in T
  BY <1>1, PartsAre, NoRows
<1>3. PICK step : step = [p \in Nat \X T |-> IF p[1] \in 1 .. h THEN p[2] \o s[p[1]] ELSE p[2]]
  OBVIOUS
<1>4. ASSUME NEW n \in Nat, NEW x \in T
      PROVE  step[<<n, x>>] = IF n \in 1 .. h THEN x \o s[n] ELSE x
  BY <1>3
<1>5. step \in [Nat \X T -> T]
  <2>1. ASSUME NEW p \in Nat \X T PROVE step[p] \in T
    <3>1. PICK n \in Nat, x \in T : p = <<n, x>>
      OBVIOUS
    <3>2. CASE n \in 1 .. h
      <4>1. x \o s[n] \in T
        BY <1>1, <1>2, <3>2, Concats
      <4> QED  BY <1>4, <3>1, <3>2, <4>1
    <3>3. CASE n \notin 1 .. h
      BY <1>4, <3>1, <3>3
    <3> QED  BY <3>2, <3>3
  <2>2. DOMAIN step = Nat \X T /\ step = [p \in DOMAIN step |-> step[p]]
    BY <1>3
  <2> QED  BY <2>1, <2>2
<1>6. PICK f \in [0 .. h -> T] : Iteration(f, h, b, step)
  BY <1>2, <1>5, Iterates
<1>7. ASSUME NEW n \in 0 .. h, n # 0 PROVE f[n] = f[n - 1] \o s[n]
  <2>1. n \in Nat /\ f[n - 1] \in T /\ n \in 1 .. h
    BY <1>2, <1>7
  <2>2. f[n] = step[<<n, f[n - 1]>>]
    BY <1>6, <1>7 DEF Iteration
  <2> QED  BY <1>4, <2>1, <2>2
<1>8. f[0] = <<>>
  BY <1>1, <1>6 DEF Iteration
<1> QED  BY <1>1, <1>6, <1>7, <1>8 DEF Built

\* Parts that agree as far as n build the same.
LEMMA BuiltSame ==
    ASSUME NEW s, Parts(s), NEW r, Parts(r), NEW h \in Nat, h <= Len(s), h <= Len(r), \A i \in 1 .. h : s[i] = r[i],
           NEW f, Built(f, s), NEW g, Built(g, r)
    PROVE  f[h] = g[h]
<1>1. PICK C : C = {n \in Nat : n <= h => f[n] = g[n]}
  OBVIOUS
<1>2. C \in SUBSET Nat /\ 0 \in C
  BY <1>1 DEF Built
<1>3. ASSUME NEW n \in C PROVE n + 1 \in C
  <2>1. n \in Nat
    BY <1>1
  <2>2. CASE n + 1 <= h
    <3>1. Len(s) \in Nat /\ Len(r) \in Nat
      BY PartsAre
    <3>2. n + 1 \in 0 .. Len(s) /\ n + 1 \in 0 .. Len(r) /\ n + 1 # 0 /\ (n + 1) - 1 = n /\ n + 1 \in 1 .. h /\ f[n] = g[n]
      BY <1>1, <2>1, <2>2, <3>1
    <3>3. f[n + 1] = f[n] \o s[n + 1] /\ g[n + 1] = g[n] \o r[n + 1]
      BY <3>2 DEF Built
    <3>4. s[n + 1] = r[n + 1]
      BY <3>2
    <3>5. f[n + 1] = g[n + 1]
      BY <3>2, <3>3, <3>4, Zenon
    <3> QED  BY <1>1, <2>1, <3>5
  <2>3. CASE ~(n + 1 <= h)
    BY <1>1, <2>1, <2>3
  <2> QED  BY <2>2, <2>3
<1>4. \A n \in Nat : n \in C
  BY <1>2, <1>3, CountsUp
<1> QED  BY <1>1, <1>4

\* FlattenSeq puts the parts one behind the other.
LEMMA FlattenIs ==
    ASSUME NEW s, Parts(s), NEW f, Built(f, s)
    PROVE  FlattenSeq(s) = f[Len(s)]
<1>1. PICK h : h = Len(s) /\ h \in Nat /\ \A i \in 1 .. h : s[i] \in RowSeq
  BY PartsAre
<1>2. CASE h = 0
  <2>1. s = <<>>
    <3>1. PICK T : T = RowSeq
      OBVIOUS
    <3>2. s \in Seq(T)
      BY <3>1 DEF Parts
    <3> QED  BY <1>1, <1>2, <3>2, EmptySeq
  <2>2. FlattenSeq(s) = s
    BY <1>1, <1>2 DEF FlattenSeq
  <2> QED  BY <1>1, <1>2, <2>1, <2>2 DEF Built
<1>3. CASE h # 0
  <2>1. PICK e : e = [i \in 1 .. h |-> f[i]]
    OBVIOUS
  <2>2. ASSUME NEW i \in 1 .. h PROVE e[i] = IF i = 1 THEN s[i] ELSE e[i - 1] \o s[i]
    <3>1. i \in 0 .. h /\ i # 0 /\ s[i] \in RowSeq
      BY <1>1
    <3>2. f[i] = f[i - 1] \o s[i]
      BY <1>1, <3>1 DEF Built
    <3>3. CASE i = 1
      <4>1. i - 1 = 0
        BY <3>3
      <4>2. f[i] = <<>> \o s[i]
        BY <3>2, <4>1 DEF Built
      <4>3. <<>> \o s[i] = s[i]
        BY <3>1, ConcatMore
      <4> QED  BY <2>1, <3>3, <4>2, <4>3
    <3>4. CASE i # 1
      <4>1. i - 1 \in 1 .. h
        BY <1>1, <3>4
      <4> QED  BY <2>1, <3>2, <3>4, <4>1
    <3> QED  BY <3>3, <3>4
  <2>3. e = [i \in 1 .. h |-> IF i = 1 THEN s[i] ELSE e[i - 1] \o s[i]]
    BY <2>1, <2>2
  <2>4. Flattening(e, s)
    BY <1>1, <2>3 DEF Flattening
  <2>5. PICK g : g = CHOOSE q : Flattening(q, s)
    OBVIOUS
  <2>6. Flattening(g, s)
    BY <2>4, <2>5
  <2>7. FlattenSeq(s) = g[h]
    <3>1. g = CHOOSE q : q = [i \in 1 .. Len(s) |-> IF i = 1 THEN s[i] ELSE q[i - 1] \o s[i]]
      BY <2>5 DEF Flattening
    <3> QED  BY <1>1, <1>3, <3>1 DEF FlattenSeq
  <2>8. ASSUME NEW i \in 1 .. h PROVE g[i] = IF i = 1 THEN s[i] ELSE g[i - 1] \o s[i]
    BY <1>1, <2>6, Zenon DEF Flattening
  <2>9. PICK C : C = {n \in Nat : n \in 1 .. h => g[n] = e[n]}
    OBVIOUS
  <2>10. C \in SUBSET Nat /\ 0 \in C
    BY <2>9
  <2>11. ASSUME NEW n \in C PROVE n + 1 \in C
    <3>1. n \in Nat
      BY <2>9
    <3>2. CASE n + 1 \in 1 .. h
      <4>1. (n + 1) - 1 = n
        BY <3>1
      <4>2. g[n + 1] = (IF n + 1 = 1 THEN s[n + 1] ELSE g[n] \o s[n + 1]) /\ e[n + 1] = (IF n + 1 = 1 THEN s[n + 1] ELSE e[n] \o s[n + 1])
        BY <2>2, <2>8, <3>2, <4>1
      <4>3. n + 1 # 1 => g[n] = e[n]
        BY <1>1, <2>9, <3>1, <3>2
      <4> QED  BY <2>9, <3>1, <4>2, <4>3
    <3>3. CASE n + 1 \notin 1 .. h
      BY <2>9, <3>1, <3>3
    <3> QED  BY <3>2, <3>3
  <2>12. \A n \in Nat : n \in C
    BY <2>10, <2>11, CountsUp
  <2>13. g[h] = e[h]
    BY <1>1, <1>3, <2>9, <2>12
  <2> QED  BY <1>1, <1>3, <2>1, <2>7, <2>13
<1> QED  BY <1>2, <1>3

LEMMA FlattenAppend ==
    ASSUME NEW s, Parts(s), NEW p \in RowSeq
    PROVE  /\ Parts(Append(s, p)) /\ FlattenSeq(s) \in RowSeq
           /\ FlattenSeq(Append(s, p)) = FlattenSeq(s) \o p
<1>1. PICK h, r : h = Len(s) /\ r = Append(s, p)
  OBVIOUS
<1>2. PICK T : T = RowSeq
  OBVIOUS
<1>3. s \in Seq(T) /\ p \in T
  BY <1>2 DEF Parts
<1>4. r \in Seq(T) /\ Len(r) = h + 1 /\ h \in Nat /\ r[h + 1] = p /\ \A i \in 1 .. h : s[i] = r[i]
  BY <1>1, <1>3
<1>5. Parts(r)
  BY <1>2, <1>4 DEF Parts
<1>6. PICK f : Built(f, s)
  BY Builds
<1>7. PICK g : Built(g, r)
  BY <1>5, Builds
<1>8. f[h] = g[h]
  <2>1. h \in Nat /\ h <= Len(s) /\ h <= Len(r) /\ \A i \in 1 .. h : s[i] = r[i]
    BY <1>1, <1>4
  <2> QED  BY <2>1, <1>5, <1>6, <1>7, BuiltSame
<1>9. FlattenSeq(s) = f[h] /\ FlattenSeq(r) = g[h + 1]
  BY <1>1, <1>4, <1>5, <1>6, <1>7, FlattenIs
<1>10. g[h + 1] = g[h] \o p
  <2>1. h + 1 \in 0 .. Len(r) /\ h + 1 # 0 /\ (h + 1) - 1 = h
    BY <1>4
  <2> QED  BY <1>4, <1>7, <2>1 DEF Built
<1>11. f[h] \in RowSeq
  BY <1>1, <1>4, <1>6 DEF Built
<1> QED  BY <1>1, <1>5, <1>8, <1>9, <1>10, <1>11

\* A number below twice the modulus wraps once.
LEMMA Wraps ==
    ASSUME NEW l \in Nat, l > 0, NEW a \in Nat, a < 2 * l
    PROVE  a % l = IF a < l THEN a ELSE a - l
<1>1. a \div l \in Int /\ a % l \in 0 .. l - 1 /\ a = l * (a \div l) + (a % l)
  OBVIOUS
<1>2. PICK r, q \in Int : r = a % l /\ q = a \div l
  BY <1>1
<1>3. r \in 0 .. l - 1 /\ a = l * q + r
  BY <1>1, <1>2
<1>4. q \in {0, 1}
  <2>1. q < 2
    <3> SUFFICES ASSUME q >= 2 PROVE FALSE
      OBVIOUS
    <3>1. l * q >= l * 2
      OBVIOUS
    <3> QED  BY <1>3, <3>1
  <2>2. q > -1
    <3> SUFFICES ASSUME q <= -1 PROVE FALSE
      OBVIOUS
    <3>1. l * q <= -l
      OBVIOUS
    <3> QED  BY <1>3, <3>1
  <2> QED  BY <2>1, <2>2
<1>5. CASE q = 0
  BY <1>2, <1>3, <1>5
<1>6. CASE q = 1
  BY <1>2, <1>3, <1>6
<1> QED  BY <1>4, <1>5, <1>6

\* The rows one line of n columns takes.
LineOf(n) == IF n = 0 THEN 1 ELSE (n + TermCols - 1) \div TermCols

Folding(g, columns) ==
    g = [s \in SUBSET DOMAIN columns |->
           IF s = {} THEN 0 ELSE LET x == Max(s) IN g[s \ {x}] + LineOf(columns[x])]

LEMMA LineRowsType ==
    ASSUME NEW columns \in Seq(Nat)
    PROVE  LineRows(columns) \in Nat
<1>1. PICK D : D = DOMAIN columns /\ D \in SUBSET Nat /\ IsFiniteSet(D)
  BY FS_Interval
<1>2. ASSUME NEW n \in Nat PROVE LineOf(n) \in Nat
  <2>1. TermCols \in Nat /\ TermCols > 0
    BY WindowsAssumption
  <2>2. PICK a \in Nat : a = n + TermCols - 1
    BY <2>1
  <2>3. a \div TermCols \in Nat
    BY <2>1
  <2> QED  BY <2>2, <2>3 DEF LineOf
<1>3. PICK ch, step : /\ ch = [s \in SUBSET D |-> Max(s)]
                      /\ step = [p \in D \X Nat |-> p[2] + LineOf(columns[p[1]])]
  OBVIOUS
<1>4. \A s \in SUBSET D : s # {} => ch[s] \in s /\ ch[s] = Max(s)
  <2> SUFFICES ASSUME NEW s \in SUBSET D, s # {} PROVE ch[s] \in s /\ ch[s] = Max(s)
    OBVIOUS
  <2>1. IsFiniteSet(s) /\ s \in SUBSET Nat
    BY <1>1, FS_Subset
  <2>2. \E k \in s : \A j \in s : k >= j
    BY <2>1, Greatest
  <2> QED  BY <1>3, <2>2 DEF Max
<1>5. ASSUME NEW x \in D, NEW n \in Nat PROVE step[<<x, n>>] = n + LineOf(columns[x]) /\ step[<<x, n>>] \in Nat
  <2>1. columns[x] \in Nat
    BY <1>1
  <2>2. LineOf(columns[x]) \in Nat
    BY <1>2, <2>1
  <2>3. step[<<x, n>>] = n + LineOf(columns[x])
    BY <1>3
  <2> QED  BY <2>2, <2>3
<1>6. step \in [D \X Nat -> Nat]
  <2>1. ASSUME NEW p \in D \X Nat PROVE step[p] \in Nat
    <3>1. PICK x \in D, n \in Nat : p = <<x, n>>
      OBVIOUS
    <3> QED  BY <1>5, <3>1
  <2>2. DOMAIN step = D \X Nat /\ step = [p \in DOMAIN step |-> step[p]]
    BY <1>3
  <2> QED  BY <2>1, <2>2
<1>7. PICK g \in [SUBSET D -> Nat] : Recursion(g, D, 0, ch, step)
  BY <1>1, <1>4, <1>6, Recurses
<1>8. ASSUME NEW s \in SUBSET D PROVE g[s] = IF s = {} THEN 0 ELSE LET x == Max(s) IN g[s \ {x}] + LineOf(columns[x])
  <2>1. g[s] = IF s = {} THEN 0 ELSE step[<<ch[s], g[s \ {ch[s]}]>>]
    BY <1>7 DEF Recursion
  <2>2. CASE s = {}
    BY <2>1, <2>2
  <2>3. CASE s # {}
    <3>1. PICK x \in D : x = ch[s] /\ x = Max(s)
      BY <1>4, <2>3
    <3>2. g[s \ {x}] \in Nat
      OBVIOUS
    <3> QED  BY <1>5, <2>1, <2>3, <3>1, <3>2
  <2> QED  BY <2>2, <2>3
<1>9. g = [s \in SUBSET D |-> IF s = {} THEN 0 ELSE LET x == Max(s) IN g[s \ {x}] + LineOf(columns[x])]
  BY <1>8
<1>10. Folding(g, columns)
  BY <1>1, <1>9 DEF Folding
<1>11. PICK f : f = CHOOSE q : Folding(q, columns)
  OBVIOUS
<1>12. Folding(f, columns)
  BY <1>10, <1>11
<1>13. LineRows(columns) = f[DOMAIN columns]
  <2>1. f = CHOOSE q : q = [s \in SUBSET DOMAIN columns |->
           IF s = {} THEN 0 ELSE LET x == Max(s) IN q[s \ {x}] + LineOf(columns[x])]
    BY <1>11 DEF Folding
  <2> QED  BY <2>1 DEF LineRows, FoldLeft, MapThenFoldSet, LineOf
<1>14. ASSUME NEW s \in SUBSET D PROVE f[s] = IF s = {} THEN 0 ELSE LET x == Max(s) IN f[s \ {x}] + LineOf(columns[x])
  BY <1>1, <1>12, Zenon DEF Folding
<1>15. PICK C : C = {s \in SUBSET D : f[s] \in Nat}
  OBVIOUS
<1>16. C \in SUBSET (SUBSET D) /\ {} \in C
  <2>1. PICK s \in SUBSET D : s = {}
    OBVIOUS
  <2>2. f[s] = 0
    BY <1>14, <2>1
  <2> QED  BY <1>15, <2>1, <2>2
<1>17. ASSUME NEW s \in SUBSET D, s # {}, \A x \in s : s \ {x} \in C PROVE s \in C
  <2>1. PICK x \in s : x = Max(s)
    BY <1>4, <1>17
  <2>2. f[s \ {x}] \in Nat
    BY <1>15, <1>17
  <2>3. columns[x] \in Nat
    BY <1>1
  <2>4. LineOf(columns[x]) \in Nat
    BY <1>2, <2>3
  <2>5. f[s] = f[s \ {x}] + LineOf(columns[x])
    BY <1>14, <1>17, <2>1
  <2> QED  BY <1>15, <2>2, <2>4, <2>5
<1>18. \A s \in SUBSET D : s \in C
  BY <1>1, <1>16, <1>17, BuildsUp
<1>19. f[D] \in Nat
  BY <1>15, <1>18
<1> QED  BY <1>1, <1>13, <1>19

Rec == [id : Nat, columns : Seq(Nat)]
Recs == Seq(Rec)

\* The rows of one message, and of each of several.
Rows(m) == [r \in 1 .. LineRows(m.columns) |-> <<m.id, r>>]
PartsOf(ms) == [i \in DOMAIN ms |-> Rows(ms[i])]

LEMMA RecIs ==
    ASSUME NEW m \in Rec
    PROVE  m.id \in Nat /\ m.columns \in Seq(Nat)
BY DEF Rec

LEMMA RecsAre ==
    ASSUME NEW ms \in Recs
    PROVE  Len(ms) \in Nat /\ DOMAIN ms = 1 .. Len(ms) /\ \A i \in 1 .. Len(ms) : ms[i] \in Rec
<1>1. PICK T : T = Rec
  OBVIOUS
<1>2. ms \in Seq(T)
  BY <1>1 DEF Recs
<1> QED  BY <1>1, <1>2

LEMMA RowsAre ==
    ASSUME NEW m \in Rec
    PROVE  Rows(m) \in RowSeq /\ Len(Rows(m)) \in Nat /\ \A i \in 1 .. Len(Rows(m)) : Rows(m)[i][1] = m.id
<1>1. PICK n \in Nat : n = LineRows(m.columns)
  BY RecIs, LineRowsType
<1>2. m.id \in Nat
  BY RecIs
<1>3. PICK R, T : R = Rows(m) /\ T = Row
  OBVIOUS
<1>4. R = [r \in 1 .. n |-> <<m.id, r>>]
  BY <1>1, <1>3 DEF Rows
<1>5. \A r \in 1 .. n : <<m.id, r>> \in T
  BY <1>1, <1>2, <1>3 DEF Row
<1>6. R \in [1 .. n -> T]
  BY <1>4, <1>5
<1>7. R \in Seq(T) /\ Len(R) = n
  BY <1>1, <1>6
<1> QED  BY <1>1, <1>3, <1>4, <1>7 DEF RowSeq

LEMMA PartsOfAre ==
    ASSUME NEW ms \in Recs
    PROVE  Parts(PartsOf(ms)) /\ RowsOf(ms) = FlattenSeq(PartsOf(ms)) /\ RowsOf(ms) \in RowSeq
<1>1. PICK h, T, s : h = Len(ms) /\ T = RowSeq /\ s = PartsOf(ms)
  OBVIOUS
<1>2. h \in Nat /\ DOMAIN ms = 1 .. h /\ \A i \in 1 .. h : ms[i] \in Rec
  BY <1>1, RecsAre
<1>3. s = [i \in 1 .. h |-> Rows(ms[i])]
  BY <1>1, <1>2 DEF PartsOf
<1>4. \A i \in 1 .. h : Rows(ms[i]) \in T
  BY <1>1, <1>2, RowsAre
<1>5. s \in [1 .. h -> T]
  BY <1>3, <1>4
<1>6. s \in Seq(T)
  BY <1>2, <1>5
<1>7. Parts(s)
  BY <1>1, <1>6 DEF Parts
<1>8. FlattenSeq(s) \in RowSeq
  BY <1>7, NoRows, FlattenAppend
<1>9. RowsOf(ms) = FlattenSeq(PartsOf(ms))
  BY DEF RowsOf, PartsOf, Rows
<1> QED  BY <1>1, <1>7, <1>8, <1>9

LEMMA RowsAppend ==
    ASSUME NEW ms \in Recs, NEW m \in Rec
    PROVE  Append(ms, m) \in Recs /\ RowsOf(Append(ms, m)) = RowsOf(ms) \o Rows(m)
<1>1. PICK h, T, n : h = Len(ms) /\ T = Rec /\ n = Append(ms, m)
  OBVIOUS
<1>2. ms \in Seq(T) /\ m \in T /\ h \in Nat /\ DOMAIN ms = 1 .. h
  BY <1>1, RecsAre DEF Recs
<1>3. n \in Seq(T) /\ Len(n) = h + 1 /\ DOMAIN n = 1 .. h + 1 /\ n[h + 1] = m /\ \A i \in 1 .. h : n[i] = ms[i]
  BY <1>1, <1>2
<1>4. n \in Recs
  BY <1>1, <1>3 DEF Recs
<1>5. PICK s, p, r : s = PartsOf(ms) /\ p = Rows(m) /\ r = PartsOf(n)
  OBVIOUS
<1>6. r = Append(s, p)
  <2>1. Parts(s) /\ p \in RowSeq
    BY <1>5, PartsOfAre, RowsAre
  <2>2. PICK U : U = RowSeq
    OBVIOUS
  <2>3. s \in Seq(U) /\ p \in U
    BY <2>1, <2>2 DEF Parts
  <2>4. s = [i \in 1 .. h |-> Rows(ms[i])] /\ r = [i \in 1 .. h + 1 |-> Rows(n[i])]
    BY <1>2, <1>3, <1>5 DEF PartsOf
  <2>5. DOMAIN s = 1 .. h
    BY <2>4
  <2>6. Len(s) = h
    BY <1>2, <2>3, <2>5
  <2>7. PICK a : a = Append(s, p)
    OBVIOUS
  <2>8. DOMAIN a = 1 .. h + 1 /\ a[h + 1] = p /\ (\A i \in 1 .. h : a[i] = s[i]) /\ a \in Seq(U)
    BY <1>2, <2>3, <2>6, <2>7
  <2>9. ASSUME NEW i \in 1 .. h + 1 PROVE a[i] = r[i]
    <3>1. CASE i = h + 1
      BY <1>2, <1>3, <1>5, <2>4, <2>8, <3>1
    <3>2. CASE i # h + 1
      <4>1. i \in 1 .. h
        BY <1>2, <3>2
      <4> QED  BY <1>3, <2>4, <2>8, <4>1
    <3> QED  BY <3>1, <3>2
  <2>10. a = [i \in 1 .. h + 1 |-> a[i]] /\ r = [i \in 1 .. h + 1 |-> r[i]]
    BY <2>4, <2>8
  <2> QED  BY <2>7, <2>9, <2>10
<1>7. FlattenSeq(r) = FlattenSeq(s) \o p
  BY <1>5, <1>6, PartsOfAre, RowsAre, FlattenAppend
<1>8. RowsOf(ms) = FlattenSeq(s) /\ RowsOf(n) = FlattenSeq(r)
  BY <1>4, <1>5, PartsOfAre
<1> QED  BY <1>1, <1>4, <1>5, <1>7, <1>8

LEMMA NoMessages == <<>> \in Recs /\ RowsOf(<<>>) = <<>>
<1>1. PICK T : T = Rec
  OBVIOUS
<1>2. <<>> \in Seq(T)
  OBVIOUS
<1>3. <<>> \in Recs
  BY <1>1, <1>2 DEF Recs
<1>4. PICK s : s = PartsOf(<<>>)
  OBVIOUS
<1>5. Parts(s) /\ RowsOf(<<>>) = FlattenSeq(s)
  BY <1>3, <1>4, PartsOfAre
<1>6. DOMAIN s = {}
  BY <1>4 DEF PartsOf
<1>7. Len(s) = 0
  <2>1. DOMAIN s = 1 .. Len(s) /\ Len(s) \in Nat
    BY <1>5, PartsAre
  <2> QED  BY <1>6, <2>1
<1>8. PICK f : Built(f, s)
  BY <1>5, Builds
<1>9. FlattenSeq(s) = f[0] /\ f[0] = <<>>
  BY <1>5, <1>7, <1>8, FlattenIs DEF Built
<1> QED  BY <1>3, <1>5, <1>9

\* A sequence of messages is one shorter with its last one behind it.
LEMMA Shorter ==
    ASSUME NEW ms \in Recs, NEW n \in Nat, Len(ms) = n + 1
    PROVE  \E fs \in Recs, m \in Rec : Len(fs) = n /\ ms = Append(fs, m) /\ \A i \in 1 .. n : fs[i] = ms[i]
<1>1. PICK T : T = Rec
  OBVIOUS
<1>2. ms \in Seq(T)
  BY <1>1 DEF Recs
<1>3. PICK fs : fs = [i \in 1 .. n |-> ms[i]]
  OBVIOUS
<1>4. fs \in Seq(T) /\ Len(fs) = n /\ ms[n + 1] \in T
  BY <1>2, <1>3
<1>5. PICK a : a = Append(fs, ms[n + 1])
  OBVIOUS
<1>6. a \in Seq(T) /\ Len(a) = n + 1 /\ \A i \in 1 .. n + 1 : a[i] = ms[i]
  BY <1>3, <1>4, <1>5
<1>7. a = ms
  BY <1>2, <1>6, SeqEqual
<1> QED  BY <1>1, <1>3, <1>4, <1>5, <1>7 DEF Recs

\* Rows are those of their messages.
Named(ms) ==
    \A i \in 1 .. Len(RowsOf(ms)) : \E j \in 1 .. Len(ms) : RowsOf(ms)[i][1] = ms[j].id

LEMMA RowsNamed ==
    ASSUME NEW ms \in Recs
    PROVE  Named(ms)
<1>1. PICK C : C = {n \in Nat : \A s \in Recs : Len(s) = n => Named(s)}
  OBVIOUS
<1>2. 0 \in C
  <2>1. ASSUME NEW s \in Recs, Len(s) = 0 PROVE Named(s)
    <3>1. PICK T : T = Rec
      OBVIOUS
    <3>2. s = <<>>
      BY <2>1, <3>1, EmptySeq DEF Recs
    <3>3. Len(RowsOf(s)) = 0
      BY <3>2, NoMessages
    <3> QED  BY <3>3 DEF Named
  <2> QED  BY <1>1, <2>1
<1>3. ASSUME NEW n \in C PROVE n + 1 \in C
  <2>1. n \in Nat /\ \A s \in Recs : Len(s) = n => Named(s)
    BY <1>1, <1>3
  <2>2. ASSUME NEW s \in Recs, Len(s) = n + 1 PROVE Named(s)
    <3>1. PICK fs \in Recs, m \in Rec : Len(fs) = n /\ s = Append(fs, m) /\ \A i \in 1 .. n : fs[i] = s[i]
      BY <2>1, <2>2, Shorter
    <3>2. PICK a, b : a = RowsOf(fs) /\ b = Rows(m)
      OBVIOUS
    <3>3. RowsOf(s) = a \o b /\ a \in RowSeq /\ b \in RowSeq
      BY <3>1, <3>2, RowsAppend, PartsOfAre, RowsAre
    <3>4. /\ Len(a) \in Nat /\ Len(b) \in Nat /\ Len(a \o b) = Len(a) + Len(b)
          /\ \A i \in 1 .. Len(a) : (a \o b)[i] = a[i]
          /\ \A i \in 1 .. Len(b) : (a \o b)[Len(a) + i] = b[i]
      BY <3>3, Concats, RowSeqIs
    <3>5. s[n + 1] = m
      <4>1. PICK T : T = Rec
        OBVIOUS
      <4>2. fs \in Seq(T) /\ m \in T
        BY <4>1 DEF Recs
      <4> QED  BY <2>1, <3>1, <4>2
    <3>6. ASSUME NEW i \in 1 .. Len(a) + Len(b) PROVE \E j \in 1 .. n + 1 : (a \o b)[i][1] = s[j].id
      <4>1. CASE i \in 1 .. Len(a)
        <5>1. PICK j \in 1 .. n : a[i][1] = fs[j].id
          BY <2>1, <3>1, <3>2, <4>1 DEF Named
        <5> QED  BY <2>1, <3>1, <3>4, <4>1, <5>1
      <4>2. CASE i \notin 1 .. Len(a)
        <5>1. PICK k \in 1 .. Len(b) : i = Len(a) + k
          <6>1. i - Len(a) \in 1 .. Len(b) /\ i = Len(a) + (i - Len(a))
            BY <3>4, <4>2
          <6> QED  BY <6>1
        <5>2. b[k][1] = m.id
          BY <3>2, RowsAre
        <5>3. n + 1 \in 1 .. n + 1
          BY <2>1
        <5> QED  BY <3>4, <3>5, <5>1, <5>2, <5>3
      <4> QED  BY <4>1, <4>2
    <3> QED  BY <2>2, <3>3, <3>4, <3>6 DEF Named
  <2> QED  BY <1>1, <2>1, <2>2
<1>4. \A n \in Nat : n \in C
  <2>1. C \in SUBSET Nat
    BY <1>1
  <2> QED  BY <1>2, <1>3, <2>1, CountsUp
<1>5. Len(ms) \in Nat
  BY RecsAre
<1> QED  BY <1>1, <1>4, <1>5

\* Without the oldest message the rows begin with those of the next one.
LEMMA RowsTail ==
    ASSUME NEW ms \in Recs, Len(ms) > 0
    PROVE  Tail(ms) \in Recs /\ RowsOf(ms) = Rows(ms[1]) \o RowsOf(Tail(ms))
<1>1. PICK C : C = {n \in Nat : \A s \in Recs : Len(s) = n + 1 => Tail(s) \in Recs /\ RowsOf(s) = Rows(s[1]) \o RowsOf(Tail(s))}
  OBVIOUS
<1>2. ASSUME NEW s \in Recs, Len(s) > 0 PROVE Tail(s) \in Recs
  <2>1. PICK T : T = Rec
    OBVIOUS
  <2>2. s \in Seq(T) /\ s # <<>>
    BY <1>2, <2>1 DEF Recs
  <2>3. Tail(s) \in Seq(T)
    BY <2>2
  <2> QED  BY <2>1, <2>3 DEF Recs
<1>3. ASSUME NEW n \in Nat, NEW s \in Recs, Len(s) = n + 1, NEW fs \in Recs, NEW m \in Rec, Len(fs) = n, s = Append(fs, m)
      PROVE  /\ n = 0 => fs = <<>> /\ Tail(s) = <<>> /\ s[1] = m
             /\ n > 0 => Tail(s) = Append(Tail(fs), m) /\ s[1] = fs[1]
  <2>1. PICK T : T = Rec
    OBVIOUS
  <2>2. s \in Seq(T) /\ fs \in Seq(T) /\ m \in T
    BY <2>1 DEF Recs
  <2>3. CASE n = 0
    <3>1. fs = <<>>
      BY <1>3, <2>2, <2>3, EmptySeq
    <3>2. s[1] = m
      BY <1>3, <2>2, <2>3
    <3>3. Tail(s) \in Seq(T) /\ Len(Tail(s)) = 0
      BY <1>3, <2>2, <2>3
    <3>4. Tail(s) = <<>>
      BY <3>3, EmptySeq
    <3> QED  BY <2>3, <3>1, <3>2, <3>4
  <2>4. CASE n > 0
    <3>1. PICK a, b : a = Tail(s) /\ b = Append(Tail(fs), m)
      OBVIOUS
    <3>2. a \in Seq(T) /\ Len(a) = n /\ \A i \in 1 .. n : a[i] = s[i + 1]
      BY <1>3, <2>2, <2>4, <3>1
    <3>3. PICK t : t = Tail(fs)
      OBVIOUS
    <3>4. t \in Seq(T) /\ Len(t) = n - 1 /\ \A i \in 1 .. n - 1 : t[i] = fs[i + 1]
      BY <1>3, <2>2, <2>4, <3>3
    <3>5. b \in Seq(T) /\ Len(b) = n /\ b[n] = m /\ \A i \in 1 .. n - 1 : b[i] = t[i]
      BY <1>3, <2>2, <3>1, <3>3, <3>4
    <3>6. s[n + 1] = m /\ \A i \in 1 .. n : s[i] = fs[i]
      BY <1>3, <2>2
    <3>7. ASSUME NEW i \in 1 .. n PROVE a[i] = b[i]
      <4>1. CASE i = n
        BY <3>2, <3>5, <3>6, <4>1
      <4>2. CASE i # n
        <5>1. i \in 1 .. n - 1 /\ i + 1 \in 1 .. n
          BY <4>2
        <5> QED  BY <3>2, <3>4, <3>5, <3>6, <5>1
      <4> QED  BY <4>1, <4>2
    <3>8. a = b
      BY <3>2, <3>5, <3>7, SeqEqual
    <3>9. s[1] = fs[1]
      BY <2>4, <3>6
    <3>10. Tail(s) = Append(Tail(fs), m)
      BY <3>1, <3>8, Zenon
    <3>11. n # 0
      BY <2>4
    <3> QED  BY <3>9, <3>10, <3>11, Zenon
  <2> QED  BY <2>3, <2>4
<1>4. 0 \in C
  <2>1. ASSUME NEW s \in Recs, Len(s) = 0 + 1 PROVE RowsOf(s) = Rows(s[1]) \o RowsOf(Tail(s))
    <3>1. PICK fs \in Recs, m \in Rec : Len(fs) = 0 /\ s = Append(fs, m)
      BY <2>1, Shorter
    <3>2. fs = <<>> /\ Tail(s) = <<>> /\ s[1] = m
      BY <1>3, <2>1, <3>1
    <3>3. RowsOf(s) = RowsOf(fs) \o Rows(m) /\ RowsOf(fs) = <<>> /\ Rows(m) \in RowSeq
      BY <3>1, <3>2, RowsAppend, NoMessages, RowsAre
    <3>4. <<>> \o Rows(m) = Rows(m) /\ Rows(m) \o <<>> = Rows(m)
      BY <3>3, ConcatMore
    <3> QED  BY <3>2, <3>3, <3>4, NoMessages
  <2> QED  BY <1>1, <1>2, <2>1
<1>5. ASSUME NEW n \in C PROVE n + 1 \in C
  <2>1. n \in Nat /\ \A s \in Recs : Len(s) = n + 1 => RowsOf(s) = Rows(s[1]) \o RowsOf(Tail(s))
    BY <1>1, <1>5
  <2>2. ASSUME NEW s \in Recs, Len(s) = (n + 1) + 1 PROVE RowsOf(s) = Rows(s[1]) \o RowsOf(Tail(s))
    <3>1. PICK k \in Nat : k = n + 1 /\ k > 0
      BY <2>1
    <3>2. PICK fs \in Recs, m \in Rec : Len(fs) = k /\ s = Append(fs, m)
      BY <2>2, <3>1, Shorter
    <3>3. Tail(s) = Append(Tail(fs), m) /\ s[1] = fs[1]
      BY <1>3, <2>2, <3>1, <3>2
    <3>4. Tail(fs) \in Recs /\ RowsOf(fs) = Rows(fs[1]) \o RowsOf(Tail(fs)) /\ fs[1] \in Rec
      <4>1. Len(fs) > 0 /\ Len(fs) = n + 1 /\ 1 \in 1 .. Len(fs)
        BY <3>1, <3>2
      <4>2. RowsOf(fs) = Rows(fs[1]) \o RowsOf(Tail(fs))
        BY <2>1, <4>1
      <4>3. fs[1] \in Rec
        BY <4>1, RecsAre
      <4> QED  BY <1>2, <4>1, <4>2, <4>3
    <3>5. PICK a, b, c : a = Rows(fs[1]) /\ b = RowsOf(Tail(fs)) /\ c = Rows(m)
      OBVIOUS
    <3>6. a \in RowSeq /\ b \in RowSeq /\ c \in RowSeq
      BY <3>4, <3>5, RowsAre, PartsOfAre
    <3>7. RowsOf(s) = (a \o b) \o c /\ RowsOf(Tail(s)) = b \o c
      BY <3>2, <3>3, <3>4, <3>5, RowsAppend
    <3>8. (a \o b) \o c = a \o (b \o c)
      BY <3>6, ConcatMore
    <3>9. Rows(s[1]) = a
      BY <3>3, <3>5
    <3> QED  BY <3>7, <3>8, <3>9, Zenon
  <2>3. \A s \in Recs : Len(s) = (n + 1) + 1 => Tail(s) \in Recs
    BY <1>2, <2>1
  <2> QED  BY <1>1, <2>1, <2>2, <2>3
<1>6. \A n \in Nat : n \in C
  <2>1. C \in SUBSET Nat
    BY <1>1
  <2> QED  BY <1>4, <1>5, <2>1, CountsUp
<1>7. PICK n \in Nat : Len(ms) = n + 1
  <2>1. Len(ms) \in Nat /\ Len(ms) - 1 \in Nat /\ Len(ms) = (Len(ms) - 1) + 1
    BY RecsAre
  <2> QED  BY <2>1
<1> QED  BY <1>1, <1>6, <1>7

-----------------------------------------------------------------------------
Log == [ring : [0 .. LogLines - 1 -> Rec], head : 0 .. LogLines - 1, count : 0 .. LogLines, offset : Nat]

\* The slot of the i-th oldest message.
Place(w, i) == IF w.head - w.count + i - 1 < 0 THEN w.head - w.count + i - 1 + LogLines ELSE w.head - w.count + i - 1

LEMMA LogIs ==
    ASSUME NEW w \in Log
    PROVE  /\ w.ring \in [0 .. LogLines - 1 -> Rec] /\ w.head \in 0 .. LogLines - 1
           /\ w.count \in 0 .. LogLines /\ w.offset \in Nat
           /\ w = [ring |-> w.ring, head |-> w.head, count |-> w.count, offset |-> w.offset]
BY DEF Log

LEMMA MakeLog ==
    ASSUME NEW r \in [0 .. LogLines - 1 -> Rec], NEW h \in 0 .. LogLines - 1, NEW c \in 0 .. LogLines, NEW o \in Nat
    PROVE  [ring |-> r, head |-> h, count |-> c, offset |-> o] \in Log
BY DEF Log

LEMMA RecordedIs ==
    ASSUME NEW w \in Log
    PROVE  /\ Recorded(w) \in Recs /\ Len(Recorded(w)) = w.count
           /\ \A i \in 1 .. w.count : Place(w, i) \in 0 .. LogLines - 1 /\ Recorded(w)[i] = w.ring[Place(w, i)]
<1>1. PICK l, h, c, g : l = LogLines /\ h = w.head /\ c = w.count /\ g = w.ring
  OBVIOUS
<1>2. l \in Nat /\ l > 0 /\ h \in 0 .. l - 1 /\ c \in 0 .. l /\ g \in [0 .. l - 1 -> Rec]
  BY <1>1, LogIs, WindowsAssumption
<1>3. PICK a \in Nat : a = h + l - c /\ a < 2 * l
  BY <1>2
<1>4. PICK o : o = Oldest(w)
  OBVIOUS
<1>5. o = IF a < l THEN a ELSE a - l
  <2>1. o = a % l
    BY <1>1, <1>3, <1>4 DEF Oldest
  <2> QED  BY <1>2, <1>3, <2>1, Wraps
<1>6. o \in 0 .. l - 1
  BY <1>2, <1>3, <1>5
<1>7. ASSUME NEW i \in 1 .. c PROVE (o + i - 1) % l = Place(w, i) /\ Place(w, i) \in 0 .. l - 1
  <2>1. PICK b \in Nat : b = o + i - 1 /\ b < 2 * l
    BY <1>2, <1>6
  <2>2. b % l = IF b < l THEN b ELSE b - l
    BY <1>2, <2>1, Wraps
  <2>3. Place(w, i) = IF h - c + i - 1 < 0 THEN h - c + i - 1 + l ELSE h - c + i - 1
    BY <1>1 DEF Place
  <2>4. Place(w, i) = IF b < l THEN b ELSE b - l
    <3>1. CASE a < l
      BY <1>2, <1>3, <1>5, <2>1, <2>3, <3>1
    <3>2. CASE ~(a < l)
      BY <1>2, <1>3, <1>5, <2>1, <2>3, <3>2
    <3> QED  BY <3>1, <3>2
  <2>5. b < l \/ b - l \in 0 .. l - 1
    BY <1>2, <2>1
  <2> QED  BY <1>2, <2>1, <2>2, <2>4, <2>5
<1>8. PICK T, s : T = Rec /\ s = Recorded(w)
  OBVIOUS
<1>9. s = [i \in 1 .. c |-> g[(o + i - 1) % l]]
  BY <1>1, <1>4, <1>8 DEF Recorded
<1>10. \A i \in 1 .. c : s[i] = g[Place(w, i)] /\ s[i] \in T
  BY <1>2, <1>7, <1>8, <1>9
<1>11. s \in [1 .. c -> T]
  BY <1>9, <1>10
<1>12. s \in Seq(T) /\ Len(s) = c
  BY <1>2, <1>11
<1> QED  BY <1>1, <1>7, <1>8, <1>10, <1>12 DEF Recs

\* One more message is the newest; a full ring loses its oldest.
LEMMA RecordedMore ==
    ASSUME NEW w \in Log, NEW m \in Rec
    PROVE  /\ Recording(w, m) \in Log
           /\ Recorded(Recording(w, m)) = Append(IF w.count < LogLines THEN Recorded(w) ELSE Tail(Recorded(w)), m)
<1>1. PICK l, h, c, g, v : l = LogLines /\ h = w.head /\ c = w.count /\ g = w.ring /\ v = Recording(w, m)
  OBVIOUS
<1>2. l \in Nat /\ l > 0 /\ h \in 0 .. l - 1 /\ c \in 0 .. l /\ g \in [0 .. l - 1 -> Rec] /\ w.offset \in Nat
  BY <1>1, LogIs, WindowsAssumption
<1>3. PICK g2, h2, c2, o2 : /\ g2 = [g EXCEPT ![h] = m] /\ h2 = (h + 1) % l
                            /\ c2 = (IF c < l THEN c + 1 ELSE c) /\ o2 = Scrolled(w, m.columns)
  OBVIOUS
<1>4. v = [ring |-> g2, head |-> h2, count |-> c2, offset |-> o2]
  BY <1>1, <1>3 DEF Recording
<1>5. h2 = IF h + 1 < l THEN h + 1 ELSE 0
  <2>1. PICK a \in Nat : a = h + 1 /\ a < 2 * l
    BY <1>2
  <2>2. a % l = IF a < l THEN a ELSE a - l
    BY <1>2, <2>1, Wraps
  <2> QED  BY <1>2, <1>3, <2>1, <2>2
<1>6. o2 \in Nat
  <2>1. LineRows(m.columns) \in Nat
    BY RecIs, LineRowsType
  <2> QED  BY <1>2, <1>3, <2>1 DEF Scrolled
<1>7. /\ g2 \in [0 .. l - 1 -> Rec] /\ h2 \in 0 .. l - 1 /\ c2 \in 0 .. l
      /\ g2[h] = m /\ \A i \in 0 .. l - 1 : i # h => g2[i] = g[i]
  BY <1>2, <1>3, <1>5
<1>8. v \in Log /\ v.ring = g2 /\ v.head = h2 /\ v.count = c2
  BY <1>1, <1>4, <1>6, <1>7, MakeLog
<1>9. PICK s, t : s = Recorded(w) /\ t = Recorded(v)
  OBVIOUS
<1>10. /\ s \in Recs /\ Len(s) = c
       /\ \A i \in 1 .. c : Place(w, i) \in 0 .. l - 1 /\ s[i] = g[Place(w, i)]
  BY <1>1, <1>9, RecordedIs
<1>11. /\ t \in Recs /\ Len(t) = c2
       /\ \A i \in 1 .. c2 : Place(v, i) \in 0 .. l - 1 /\ t[i] = g2[Place(v, i)]
  BY <1>1, <1>8, <1>9, RecordedIs
<1>12. /\ \A i \in 1 .. c : Place(w, i) = IF h - c + i - 1 < 0 THEN h - c + i - 1 + l ELSE h - c + i - 1
       /\ \A i \in 1 .. c2 : Place(v, i) = IF h2 - c2 + i - 1 < 0 THEN h2 - c2 + i - 1 + l ELSE h2 - c2 + i - 1
  BY <1>1, <1>8 DEF Place
<1>13. c2 > 0 /\ t[c2] = m
  <2>1. c2 \in 1 .. c2
    BY <1>2, <1>3
  <2>2. Place(v, c2) = h
    BY <1>2, <1>5, <1>7, <1>12, <2>1
  <2> QED  BY <1>7, <1>11, <2>1, <2>2
<1>14. PICK T : T = Rec
  OBVIOUS
<1>15. s \in Seq(T) /\ t \in Seq(T) /\ m \in T
  BY <1>10, <1>11, <1>14 DEF Recs
<1>16. CASE c < l
  <2>1. c2 = c + 1
    BY <1>3, <1>16
  <2>2. ASSUME NEW i \in 1 .. c PROVE t[i] = s[i]
    <3>1. i \in 1 .. c2
      BY <1>2, <2>1
    <3>2. Place(v, i) = Place(w, i) /\ Place(w, i) # h
      BY <1>2, <1>5, <1>12, <1>16, <2>1, <3>1
    <3>3. t[i] = g2[Place(w, i)] /\ s[i] = g[Place(w, i)] /\ Place(w, i) \in 0 .. l - 1
      BY <1>10, <1>11, <3>1, <3>2
    <3> QED  BY <1>7, <3>2, <3>3
  <2>3. PICK a : a = Append(s, m)
    OBVIOUS
  <2>4. a \in Seq(T) /\ Len(a) = c + 1 /\ a[c + 1] = m /\ \A i \in 1 .. c : a[i] = s[i]
    <3>1. s \in Seq(T) /\ m \in T /\ Len(s) = c /\ c \in Nat
      BY <1>2, <1>10, <1>15
    <3> QED  BY <2>3, <3>1
  <2>5. ASSUME NEW i \in 1 .. c + 1 PROVE t[i] = a[i]
    <3>1. i = c + 1 \/ i \in 1 .. c
      BY <1>2
    <3> QED  BY <1>13, <2>1, <2>2, <2>4, <3>1
  <2>6. t = a
    BY <1>11, <1>15, <2>1, <2>4, <2>5, SeqEqual
  <2> QED  BY <1>1, <1>8, <1>9, <1>16, <2>3, <2>6
<1>17. CASE ~(c < l)
  <2>1. c2 = l /\ c = l
    BY <1>2, <1>3, <1>17
  <2>2. PICK k : k = Tail(s)
    OBVIOUS
  <2>3. k \in Seq(T) /\ Len(k) = l - 1 /\ \A i \in 1 .. l - 1 : k[i] = s[i + 1]
    BY <1>2, <1>10, <1>15, <2>1, <2>2
  <2>4. ASSUME NEW i \in 1 .. l - 1 PROVE t[i] = k[i]
    <3>1. i \in 1 .. c2 /\ i + 1 \in 1 .. c
      BY <1>2, <2>1
    <3>2. Place(v, i) = Place(w, i + 1) /\ Place(w, i + 1) # h
      <4>1. Place(w, i + 1) = IF h - c + (i + 1) - 1 < 0 THEN h - c + (i + 1) - 1 + l ELSE h - c + (i + 1) - 1
        BY <1>12, <3>1
      <4>2. Place(v, i) = IF h2 - c2 + i - 1 < 0 THEN h2 - c2 + i - 1 + l ELSE h2 - c2 + i - 1
        BY <1>12, <3>1
      <4> QED  BY <1>2, <1>5, <2>1, <4>1, <4>2
    <3>3. t[i] = g2[Place(w, i + 1)] /\ s[i + 1] = g[Place(w, i + 1)] /\ Place(w, i + 1) \in 0 .. l - 1
      BY <1>10, <1>11, <3>1, <3>2
    <3> QED  BY <1>7, <2>3, <3>2, <3>3
  <2>5. PICK a : a = Append(k, m)
    OBVIOUS
  <2>6. a \in Seq(T) /\ Len(a) = l /\ a[l] = m /\ \A i \in 1 .. l - 1 : a[i] = k[i]
    BY <1>2, <1>15, <2>3, <2>5
  <2>7. ASSUME NEW i \in 1 .. l PROVE t[i] = a[i]
    <3>1. i = l \/ i \in 1 .. l - 1
      BY <1>2
    <3> QED  BY <1>13, <2>1, <2>4, <2>6, <3>1
  <2>8. t = a
    BY <1>11, <1>15, <2>1, <2>6, <2>7, SeqEqual
  <2> QED  BY <1>1, <1>8, <1>9, <1>17, <2>2, <2>5, <2>8
<1> QED  BY <1>16, <1>17

-----------------------------------------------------------------------------
\* The messages of a window have numbers of their own, all given out.
Numbered(ms, s) ==
    \A i \in 1 .. Len(ms) : ms[i].id < s /\ \A j \in 1 .. Len(ms) : ms[i].id = ms[j].id => i = j

ViewOf(w, top) == w.offset > 0 /\ top \in Range(RowsOf(Recorded(w))) => TopRow(Clamped(w)) = top

WindowInv(w, top, s) ==
    w \in Log /\ Numbered(Recorded(w), s) /\ top \in Row /\ top[1] < s /\ ViewOf(w, top)

\* The place of the row on top, from 0.
Above(n, o) == AtLeastZero(AtLeastZero(n - LogArea) - o)

LEMMA AreaIs == LogArea \in Nat /\ LogArea > 0
BY WindowsAssumption DEF LogArea

LEMMA ClampedIs ==
    ASSUME NEW w \in Log
    PROVE  /\ Clamped(w) \in Log /\ Recorded(Clamped(w)) = Recorded(w)
           /\ Clamped(w).offset <= w.offset /\ Clamped(Clamped(w)) = Clamped(w)
           /\ TopRow(Clamped(w)) = IF RowsOf(Recorded(w)) = <<>> THEN NoRow
                                   ELSE RowsOf(Recorded(w))[Above(Len(RowsOf(Recorded(w))), w.offset) + 1]
<1>1. PICK r, n, o, v : r = RowsOf(Recorded(w)) /\ n = Len(r) /\ o = w.offset /\ v = Clamped(w)
  OBVIOUS
<1>2. r \in RowSeq /\ n \in Nat /\ o \in Nat
  BY <1>1, LogIs, RecordedIs, PartsOfAre, RowSeqIs
<1>3. PICK m \in Nat : m = AtLeastZero(n - LogArea)
  BY <1>2, AreaIs DEF AtLeastZero
<1>4. PICK c \in Nat : c = Clamp(o, 0, m) /\ c = IF o > m THEN m ELSE o
  BY <1>2, <1>3 DEF Clamp
<1>5. v = [w EXCEPT !.offset = c]
  BY <1>1, <1>3, <1>4 DEF Clamped
<1>6. v = [ring |-> w.ring, head |-> w.head, count |-> w.count, offset |-> c]
  BY <1>5 DEF Log
<1>7. v \in Log
  BY <1>6, LogIs, MakeLog
<1>8. v.ring = w.ring /\ v.head = w.head /\ v.count = w.count /\ v.offset = c
  BY <1>6
<1>9. Recorded(v) = Recorded(w)
  BY <1>8 DEF Recorded, Oldest
<1>10. Clamp(c, 0, m) = c
  BY <1>3, <1>4 DEF Clamp
<1>11. Clamped(v) = v
  <2>1. Clamped(v) = [v EXCEPT !.offset = c]
    BY <1>1, <1>3, <1>8, <1>9, <1>10 DEF Clamped
  <2> QED  BY <1>6, <2>1
<1>12. TopRow(v) = IF r = <<>> THEN NoRow ELSE r[AtLeastZero(n - LogArea - c) + 1]
  BY <1>1, <1>8, <1>9 DEF TopRow
<1>13. AtLeastZero(n - LogArea - c) = Above(n, o)
  BY <1>2, <1>3, <1>4, AreaIs DEF AtLeastZero, Above
<1>14. c <= o
  BY <1>2, <1>3, <1>4
<1> QED  BY <1>1, <1>7, <1>8, <1>9, <1>11, <1>12, <1>13, <1>14

\* Painting keeps the view.
LEMMA ClampKeeps ==
    ASSUME NEW w, NEW top, NEW s, WindowInv(w, top, s)
    PROVE  WindowInv(Clamped(w), top, s)
<1>1. PICK v : v = Clamped(w)
  OBVIOUS
<1>2. w \in Log
  BY DEF WindowInv
<1>3. v \in Log /\ Recorded(v) = Recorded(w) /\ v.offset <= w.offset /\ Clamped(v) = v
  BY <1>1, <1>2, ClampedIs
<1>4. v.offset > 0 => w.offset > 0
  BY <1>2, <1>3, LogIs
<1>5. ViewOf(v, top)
  BY <1>1, <1>3, <1>4 DEF ViewOf, WindowInv
<1> QED  BY <1>1, <1>3, <1>5 DEF WindowInv

\* The row on top is a row of a message.
LEMMA TopIs ==
    ASSUME NEW w \in Log, NEW s \in Nat, s > 0, Numbered(Recorded(w), s)
    PROVE  TopRow(Clamped(w)) \in Row /\ TopRow(Clamped(w))[1] < s
<1>1. PICK ms, r, n, o, v : ms = Recorded(w) /\ r = RowsOf(ms) /\ n = Len(r) /\ o = w.offset /\ v = TopRow(Clamped(w))
  OBVIOUS
<1>2. ms \in Recs /\ o \in Nat
  BY <1>1, RecordedIs, LogIs
<1>3. r \in RowSeq /\ Named(ms)
  BY <1>1, <1>2, PartsOfAre, RowsNamed
<1>4. n \in Nat /\ (\A i \in 1 .. n : r[i] \in Row) /\ (n = 0 => r = <<>>)
  BY <1>1, <1>3, RowSeqIs
<1>5. v = IF r = <<>> THEN NoRow ELSE r[Above(n, o) + 1]
  BY <1>1, ClampedIs
<1>6. CASE r = <<>>
  BY <1>1, <1>5, <1>6 DEF NoRow, Row
<1>7. CASE r # <<>>
  <2>1. Above(n, o) + 1 \in 1 .. n
    BY <1>2, <1>4, <1>7, AreaIs DEF Above, AtLeastZero
  <2>2. PICK k \in 1 .. n : v = r[k]
    BY <1>5, <1>7, <2>1
  <2>3. PICK j \in 1 .. Len(ms) : v[1] = ms[j].id
    BY <1>1, <1>3, <2>2 DEF Named
  <2> QED  BY <1>1, <1>4, <2>2, <2>3 DEF Numbered
<1> QED  BY <1>6, <1>7

LEMMA RowsLen ==
    ASSUME NEW m \in Rec
    PROVE  Len(Rows(m)) = LineRows(m.columns) /\ LineRows(m.columns) \in Nat
<1>1. PICK n \in Nat : n = LineRows(m.columns)
  BY RecIs, LineRowsType
<1>2. Rows(m) = [r \in 1 .. n |-> <<m.id, r>>]
  BY <1>1 DEF Rows
<1> QED  BY <1>1, <1>2

\* What a full ring loses when it takes a message: the rows D, in front of the others, which
\* belong to none of the messages that stay.
Loses(ms, ks, D) ==
    /\ ks \in Recs /\ D \in RowSeq /\ RowsOf(ms) = D \o RowsOf(ks)
    /\ \A i \in 1 .. Len(D) : \A j \in 1 .. Len(ks) : D[i][1] # ks[j].id

LEMMA RingLoses ==
    ASSUME NEW w \in Log, NEW s \in Nat, Numbered(Recorded(w), s),
           NEW ks, ks = IF w.count < LogLines THEN Recorded(w) ELSE Tail(Recorded(w))
    PROVE  Numbered(ks, s) /\ \E D : Loses(Recorded(w), ks, D)
<1>1. PICK ms : ms = Recorded(w)
  OBVIOUS
<1>2. ms \in Recs /\ Len(ms) = w.count /\ Numbered(ms, s) /\ w.count \in Nat
  BY <1>1, RecordedIs, LogIs, WindowsAssumption
<1>3. CASE w.count < LogLines
  <2>1. ks = ms
    BY <1>1, <1>3
  <2>2. RowsOf(ms) \in RowSeq
    BY <1>2, PartsOfAre
  <2>3. PICK e, r : e = <<>> /\ r = RowsOf(ms)
    OBVIOUS
  <2>4. e \in RowSeq /\ Len(e) = 0
    BY <2>3, NoRows
  <2>5. e \o r = r
    <3>1. PICK T : T = Row
      OBVIOUS
    <3>2. r \in Seq(T)
      BY <2>2, <2>3, <3>1 DEF RowSeq
    <3> QED  BY <2>3, <3>2, ConcatEmptySeq
  <2>6. Loses(ms, ks, e)
    <3>1. \A i \in 1 .. Len(e) : FALSE
      BY <2>4
    <3>2. RowsOf(ms) = e \o RowsOf(ks)
      BY <2>1, <2>3, <2>5, Zenon
    <3> QED  BY <1>2, <2>1, <2>4, <3>1, <3>2 DEF Loses
  <2> QED  BY <1>1, <1>2, <2>1, <2>6
<1>4. CASE ~(w.count < LogLines)
  <2>1. ks = Tail(ms) /\ Len(ms) > 0
    BY <1>1, <1>2, <1>4, WindowsAssumption
  <2>2. ks \in Recs /\ RowsOf(ms) = Rows(ms[1]) \o RowsOf(ks)
    BY <1>2, <2>1, RowsTail
  <2>3. Len(ks) = Len(ms) - 1 /\ (\A i \in 1 .. Len(ks) : ks[i] = ms[i + 1]) /\ ms[1] \in Rec
    <3>1. PICK T : T = Rec
      OBVIOUS
    <3>2. ms \in Seq(T) /\ Len(ms) \in Nat
      BY <1>2, <3>1 DEF Recs
    <3>3. PICK k : k = Tail(ms)
      OBVIOUS
    <3>4. ms # <<>>
      BY <2>1, <3>2
    <3>5. Len(k) = Len(ms) - 1 /\ \A i \in 1 .. Len(ms) - 1 : k[i] = ms[i + 1]
      BY <3>2, <3>3, <3>4
    <3>6. ms[1] \in T
      BY <2>1, <3>2
    <3> QED  BY <2>1, <3>1, <3>3, <3>5, <3>6
  <2>4. ASSUME NEW i \in 1 .. Len(ks)
        PROVE  /\ ms[1].id # ks[i].id /\ ks[i].id < s
               /\ \A j \in 1 .. Len(ks) : ks[i].id = ks[j].id => i = j
    <3>1. /\ 1 \in 1 .. Len(ms) /\ i + 1 \in 1 .. Len(ms) /\ 1 # i + 1
          /\ \A j \in 1 .. Len(ks) : j + 1 \in 1 .. Len(ms) /\ (i + 1 = j + 1 => i = j)
      BY <1>2, <2>3
    <3>2. \A a, b \in 1 .. Len(ms) : ms[a].id < s /\ (ms[a].id = ms[b].id => a = b)
      BY <1>2 DEF Numbered
    <3>3. ks[i] = ms[i + 1] /\ \A j \in 1 .. Len(ks) : ks[j] = ms[j + 1]
      BY <2>3
    <3>4. ms[1].id # ms[i + 1].id
      BY <3>1, <3>2
    <3>5. ASSUME NEW j \in 1 .. Len(ks), ks[i].id = ks[j].id PROVE i = j
      <4>1. j + 1 \in 1 .. Len(ms) /\ ms[i + 1].id = ms[j + 1].id
        BY <3>1, <3>3, <3>5
      <4>2. i + 1 = j + 1
        BY <3>1, <3>2, <4>1
      <4> QED  BY <3>1, <4>2
    <3> QED  BY <3>1, <3>2, <3>3, <3>4, <3>5
  <2>5. PICK D : D = Rows(ms[1])
    OBVIOUS
  <2>6. D \in RowSeq /\ \A i \in 1 .. Len(D) : D[i][1] = ms[1].id
    BY <2>3, <2>5, RowsAre
  <2>7. Loses(ms, ks, D)
    BY <2>2, <2>4, <2>5, <2>6 DEF Loses
  <2>8. Numbered(ks, s)
    BY <2>4 DEF Numbered
  <2> QED  BY <1>1, <2>7, <2>8
<1> QED  BY <1>3, <1>4

LEMMA NumberedMore ==
    ASSUME NEW ks \in Recs, NEW m \in Rec, NEW s \in Nat, m.id = s, Numbered(ks, s)
    PROVE  Numbered(Append(ks, m), s + 1)
<1>1. PICK T, h, a : T = Rec /\ h = Len(ks) /\ a = Append(ks, m)
  OBVIOUS
<1>2. ks \in Seq(T) /\ m \in T /\ h \in Nat
  BY <1>1 DEF Recs
<1>3. Len(a) = h + 1 /\ a[h + 1] = m /\ \A i \in 1 .. h : a[i] = ks[i]
  BY <1>1, <1>2
<1>4. \A i \in 1 .. h : ks[i].id \in Nat
  BY <1>1, RecsAre, RecIs
<1>5. ASSUME NEW i \in 1 .. h + 1
      PROVE  a[i].id < s + 1 /\ \A j \in 1 .. h + 1 : a[i].id = a[j].id => i = j
  <2>1. ASSUME NEW k \in 1 .. h PROVE a[k].id = ks[k].id /\ ks[k].id < s /\ ks[k].id \in Nat
    BY <1>1, <1>3, <1>4 DEF Numbered
  <2>2. a[h + 1].id = s
    BY <1>3
  <2>3. \A k \in 1 .. h + 1 : k = h + 1 \/ k \in 1 .. h
    BY <1>2
  <2>4. a[i].id < s + 1
    BY <2>1, <2>2, <2>3
  <2>5. ASSUME NEW j \in 1 .. h + 1, a[i].id = a[j].id PROVE i = j
    <3>1. CASE i \in 1 .. h /\ j \in 1 .. h
      BY <1>1, <2>1, <2>5, <3>1 DEF Numbered
    <3>2. CASE i = h + 1 /\ j = h + 1
      BY <3>2
    <3>3. CASE i = h + 1 /\ j \in 1 .. h
      BY <2>1, <2>2, <2>5, <3>3
    <3>4. CASE i \in 1 .. h /\ j = h + 1
      BY <2>1, <2>2, <2>5, <3>4
    <3> QED  BY <2>3, <3>1, <3>2, <3>3, <3>4
  <2> QED  BY <2>4, <2>5
<1> QED  BY <1>1, <1>3, <1>5 DEF Numbered

\* A message of the next number printed to a window keeps its view.
LEMMA PrintKeeps ==
    ASSUME NEW w, NEW top, NEW s \in Nat, NEW m \in Rec, m.id = s, WindowInv(w, top, s)
    PROVE  WindowInv(Recording(w, m), top, s + 1)
<1>1. w \in Log /\ Numbered(Recorded(w), s) /\ top \in Row /\ top[1] < s /\ ViewOf(w, top)
  BY DEF WindowInv
<1>2. PICK ms, ks, v : /\ ms = Recorded(w) /\ v = Recording(w, m)
                       /\ ks = IF w.count < LogLines THEN Recorded(w) ELSE Tail(Recorded(w))
  OBVIOUS
<1>3. v \in Log /\ Recorded(v) = Append(ks, m)
  BY <1>1, <1>2, RecordedMore
<1>4. PICK D : Numbered(ks, s) /\ Loses(ms, ks, D)
  BY <1>1, <1>2, RingLoses
<1>5. ks \in Recs /\ D \in RowSeq /\ RowsOf(ms) = D \o RowsOf(ks)
  BY <1>4 DEF Loses
<1>6. Numbered(Recorded(v), s + 1)
  BY <1>3, <1>4, <1>5, NumberedMore
<1>7. top[1] < s + 1
  BY <1>1 DEF Row
<1>8. PICK K, N, R, P : K = RowsOf(ks) /\ N = Rows(m) /\ R = RowsOf(ms) /\ P = RowsOf(Recorded(v))
  OBVIOUS
<1>9. K \in RowSeq /\ N \in RowSeq /\ R = D \o K /\ P = K \o N /\ Named(ks) /\ ms \in Recs
  <2>1. P = K \o N
    BY <1>3, <1>5, <1>8, RowsAppend
  <2>2. R = D \o K
    BY <1>5, <1>8
  <2> QED  BY <1>1, <1>2, <1>5, <1>8, <2>1, <2>2, PartsOfAre, RowsAre, RowsNamed, RecordedIs
<1>10. PICK d \in Nat, k \in Nat, l \in Nat : d = Len(D) /\ k = Len(K) /\ l = Len(N)
  BY <1>5, <1>9, RowSeqIs
<1>11. /\ R \in RowSeq /\ Len(R) = d + k
       /\ (\A i \in 1 .. d : R[i] = D[i]) /\ (\A i \in 1 .. k : R[d + i] = K[i])
  BY <1>5, <1>9, <1>10, Concats
<1>12. /\ P \in RowSeq /\ Len(P) = k + l
       /\ (\A i \in 1 .. k : P[i] = K[i]) /\ (\A i \in 1 .. l : P[k + i] = N[i])
  BY <1>9, <1>10, Concats
<1>13. PICK o \in Nat : o = w.offset
  BY <1>1, LogIs
<1>14. l = LineRows(m.columns)
  BY <1>8, <1>10, RowsLen
<1>15. v.offset = IF o > 0 THEN o + l ELSE o
  BY <1>2, <1>13, <1>14 DEF Recording, Scrolled
<1>16. ASSUME v.offset > 0, top \in Range(P) PROVE TopRow(Clamped(v)) = top
  <2>1. o > 0 /\ v.offset = o + l
    BY <1>13, <1>15, <1>16
  <2>2. PICK i \in 1 .. k + l : top = P[i]
    <3>1. DOMAIN P = 1 .. k + l
      BY <1>12, RowSeqIs
    <3> QED  BY <1>16, <3>1 DEF Range
  <2>3. i \in 1 .. k
    <3> SUFFICES ASSUME i \notin 1 .. k PROVE FALSE
      OBVIOUS
    <3>1. i - k \in 1 .. l /\ k + (i - k) = i
      BY <1>10, <2>2
    <3>2. top = N[i - k]
      BY <1>12, <2>2, <3>1
    <3>3. N[i - k][1] = s
      BY <1>8, <1>10, <3>1, RowsAre
    <3> QED  BY <1>1, <3>2, <3>3
  <2>4. top = K[i] /\ top = R[d + i] /\ d + i \in 1 .. d + k
    BY <1>10, <1>11, <1>12, <2>2, <2>3
  <2>5. top \in Range(R)
    <3>1. DOMAIN R = 1 .. d + k
      BY <1>11, RowSeqIs
    <3> QED  BY <2>4, <3>1 DEF Range
  <2>6. TopRow(Clamped(w)) = top
    BY <1>1, <1>2, <1>8, <1>13, <2>1, <2>5 DEF ViewOf
  <2>7. PICK a \in Nat : a = Above(d + k, o)
    BY <1>10, <1>13, AreaIs DEF Above, AtLeastZero
  <2>8. a + 1 \in 1 .. d + k
    <3>1. PICK n \in Nat, b \in Nat : n = d + k /\ n > 0 /\ b = LogArea /\ b > 0
      BY <1>10, <2>3, AreaIs
    <3>2. a = AtLeastZero(AtLeastZero(n - b) - o)
      BY <2>7, <3>1 DEF Above
    <3>3. a < n
      BY <1>13, <3>1, <3>2 DEF AtLeastZero
    <3> QED  BY <2>7, <3>1, <3>3
  <2>9. R # <<>> /\ P # <<>>
    BY <1>10, <1>11, <1>12, <2>2, <2>3, NoRows
  <2>10. top = R[a + 1]
    BY <1>1, <1>2, <1>8, <1>11, <1>13, <2>6, <2>7, <2>9, ClampedIs
  <2>11. d <= a
    <3> SUFFICES ASSUME ~(d <= a) PROVE FALSE
      OBVIOUS
    <3>1. a + 1 \in 1 .. d
      BY <1>10, <2>7
    <3>2. top = D[a + 1]
      BY <1>11, <2>10, <3>1
    <3>3. PICK j \in 1 .. Len(ks) : K[i][1] = ks[j].id
      BY <1>8, <1>9, <1>10, <2>3 DEF Named
    <3>4. D[a + 1][1] # ks[j].id
      BY <1>4, <1>10, <3>1, <3>3 DEF Loses
    <3> QED  BY <2>4, <3>2, <3>3, <3>4
  <2>12. Above(k + l, o + l) = a - d
    <3>1. PICK n \in Nat : n = d + k
      OBVIOUS
    <3>2. d <= Above(n, o) /\ d <= n /\ n - d + l = k + l
      BY <1>10, <2>7, <2>11, <3>1
    <3>3. d \in Nat /\ l \in Nat /\ o \in Nat /\ n \in Nat /\ o > 0
      BY <1>10, <1>13, <2>1, <3>1
    <3>4. Above(n - d + l, o + l) = Above(n, o) - d
      BY <3>2, <3>3, AreaIs DEF Above, AtLeastZero
    <3> QED  BY <2>7, <3>1, <3>2, <3>4, Zenon
  <2>13. TopRow(Clamped(v)) = P[(a - d) + 1]
    <3>1. TopRow(Clamped(v)) = IF P = <<>> THEN NoRow ELSE P[Above(Len(P), v.offset) + 1]
      BY <1>3, <1>8, ClampedIs
    <3>2. Above(Len(P), v.offset) = a - d
      BY <1>12, <2>1, <2>12, Zenon
    <3> QED  BY <2>9, <3>1, <3>2, Zenon
  <2>14. (a - d) + 1 \in 1 .. k /\ d + ((a - d) + 1) = a + 1
    BY <1>10, <2>7, <2>8, <2>11
  <2>15. P[(a - d) + 1] = R[d + ((a - d) + 1)]
    BY <1>11, <1>12, <2>14
  <2> QED  BY <2>10, <2>13, <2>14, <2>15
<1>17. ViewOf(v, top)
  BY <1>8, <1>16 DEF ViewOf
<1> QED  BY <1>1, <1>2, <1>3, <1>6, <1>7, <1>17 DEF WindowInv

\* The numbers given out only grow.
LEMMA SerialUp ==
    ASSUME NEW w, NEW top, NEW s \in Nat, WindowInv(w, top, s)
    PROVE  WindowInv(w, top, s + 1)
<1>1. w \in Log /\ Numbered(Recorded(w), s) /\ top \in Row /\ top[1] < s /\ ViewOf(w, top)
  BY DEF WindowInv
<1>2. PICK ms : ms = Recorded(w)
  OBVIOUS
<1>3. \A i \in 1 .. Len(ms) : ms[i].id \in Nat
  BY <1>1, <1>2, RecordedIs, RecsAre, RecIs
<1>4. Numbered(ms, s + 1)
  <2>1. \A i \in 1 .. Len(ms) : ms[i].id < s + 1
    BY <1>1, <1>2, <1>3 DEF Numbered
  <2> QED  BY <1>1, <1>2, <2>1 DEF Numbered
<1>5. top[1] < s + 1
  BY <1>1 DEF Row
<1> QED  BY <1>1, <1>2, <1>4, <1>5 DEF WindowInv

\* A window just made or cleared shows nothing.
LEMMA FreshKeeps ==
    ASSUME NEW s \in Nat, s > 0
    PROVE  WindowInv(Fresh, NoRow, s)
<1>1. None \in Rec
  <2>1. <<>> \in Seq(Nat)
    OBVIOUS
  <2> QED  BY <2>1 DEF None, Rec
<1>2. PICK r : r = [i \in 0 .. LogLines - 1 |-> None]
  OBVIOUS
<1>3. r \in [0 .. LogLines - 1 -> Rec] /\ 0 \in 0 .. LogLines - 1 /\ 0 \in 0 .. LogLines
  BY <1>1, <1>2, WindowsAssumption
<1>4. Fresh = [ring |-> r, head |-> 0, count |-> 0, offset |-> 0]
  BY <1>2 DEF Fresh
<1>5. Fresh \in Log
  BY <1>3, <1>4, MakeLog
<1>6. Fresh.count = 0 /\ Fresh.offset = 0
  BY <1>4
<1>7. Len(Recorded(Fresh)) = 0
  BY <1>5, <1>6, RecordedIs
<1>8. Numbered(Recorded(Fresh), s)
  BY <1>7 DEF Numbered
<1>9. ViewOf(Fresh, NoRow)
  BY <1>6 DEF ViewOf
<1>10. NoRow \in Row /\ NoRow[1] < s
  BY DEF NoRow, Row
<1> QED  BY <1>5, <1>8, <1>9, <1>10 DEF WindowInv

\* A user who scrolls reads what is painted then.
LEMMA MoveKeeps ==
    ASSUME NEW w, NEW top, NEW s \in Nat, s > 0, WindowInv(w, top, s), NEW o \in Nat,
           NEW v, v = Clamped([w EXCEPT !.offset = o])
    PROVE  WindowInv(v, TopRow(v), s)
<1>1. w \in Log /\ Numbered(Recorded(w), s)
  BY DEF WindowInv
<1>2. PICK u : u = [w EXCEPT !.offset = o]
  OBVIOUS
<1>3. u = [ring |-> w.ring, head |-> w.head, count |-> w.count, offset |-> o]
  BY <1>1, <1>2 DEF Log
<1>4. u \in Log
  BY <1>1, <1>3, LogIs, MakeLog
<1>5. Recorded(u) = Recorded(w)
  BY <1>3 DEF Recorded, Oldest
<1>6. v = Clamped(u)
  BY <1>2
<1>7. v \in Log /\ Recorded(v) = Recorded(u) /\ Clamped(v) = v
  BY <1>4, <1>6, ClampedIs
<1>8. TopRow(v) \in Row /\ TopRow(v)[1] < s
  BY <1>1, <1>4, <1>5, <1>6, TopIs
<1>9. ViewOf(v, TopRow(v))
  BY <1>7 DEF ViewOf
<1> QED  BY <1>1, <1>5, <1>7, <1>8, <1>9 DEF WindowInv

-----------------------------------------------------------------------------
(* The windows together.                                                   *)

WindowsOK(ws, a) ==
    /\ ws \in Seq(Titles) /\ a \in 0 .. Len(ws) - 1
    /\ \E j \in 1 .. Len(ws) : ws[j] = "status"

\* Every window, open or not, keeps the view of its reader.
Logs(l, tops, s) ==
    /\ l \in [Titles -> Log] /\ tops \in [Titles -> Row]
    /\ \A t \in Titles : WindowInv(l[t], tops[t], s)

Reader == [window : Titles, top : [Titles -> Row]]

Screen(ws, a, l, r, s) ==
    /\ WindowsOK(ws, a) /\ s \in Nat /\ s > 0
    /\ r \in Reader /\ r.window = ActiveOf(ws, a)
    /\ Logs(l, r.top, s)

\* The inductive invariant of the windows.
ScreenInv == Screen(windows, active, log, reader, serial)

LEMMA ActiveIs ==
    ASSUME NEW ws, NEW a, WindowsOK(ws, a)
    PROVE  ActiveOf(ws, a) \in Titles
<1>1. PICK T : T = Titles
  OBVIOUS
<1>2. ws \in Seq(T) /\ a + 1 \in 1 .. Len(ws)
  BY <1>1 DEF WindowsOK
<1>3. ws[a + 1] \in T
  BY <1>2
<1> QED  BY <1>1, <1>3 DEF ActiveOf

\* Only one window changes, and keeps the view.
LEMMA OneChanges ==
    ASSUME NEW l, NEW tops, NEW s, Logs(l, tops, s), NEW t \in Titles, NEW w, NEW top, WindowInv(w, top, s)
    PROVE  Logs([l EXCEPT ![t] = w], [tops EXCEPT ![t] = top], s)
<1>1. /\ l \in [Titles -> Log] /\ tops \in [Titles -> Row]
      /\ \A x \in Titles : WindowInv(l[x], tops[x], s)
  BY DEF Logs
<1>2. w \in Log /\ top \in Row
  BY DEF WindowInv
<1>3. PICK k, p : k = [l EXCEPT ![t] = w] /\ p = [tops EXCEPT ![t] = top]
  OBVIOUS
<1>4. k \in [Titles -> Log] /\ p \in [Titles -> Row] /\ k[t] = w /\ p[t] = top
  BY <1>1, <1>2, <1>3
<1>5. ASSUME NEW x \in Titles PROVE WindowInv(k[x], p[x], s)
  <2>1. CASE x = t
    BY <1>4, <2>1
  <2>2. CASE x # t
    <3>1. k[x] = l[x] /\ p[x] = tops[x]
      BY <1>1, <1>3, <2>2
    <3> QED  BY <1>1, <3>1
  <2> QED  BY <2>1, <2>2
<1> QED  BY <1>3, <1>4, <1>5 DEF Logs

LEMMA LogChanges ==
    ASSUME NEW l, NEW tops, NEW s, Logs(l, tops, s), NEW t \in Titles, NEW w, WindowInv(w, tops[t], s)
    PROVE  Logs([l EXCEPT ![t] = w], tops, s)
<1>1. tops \in [Titles -> Row]
  BY DEF Logs
<1>2. PICK top : top = tops[t]
  OBVIOUS
<1>3. [tops EXCEPT ![t] = top] = tops
  BY <1>1, <1>2
<1>4. Logs([l EXCEPT ![t] = w], [tops EXCEPT ![t] = top], s)
  BY <1>2, OneChanges
<1> QED  BY <1>3, <1>4

\* Painting the active window.
LEMMA Painted ==
    ASSUME NEW ws, NEW a, WindowsOK(ws, a), NEW l, NEW tops, NEW s, Logs(l, tops, s)
    PROVE  Logs([l EXCEPT ![ActiveOf(ws, a)] = Clamped(l[ActiveOf(ws, a)])], tops, s)
<1>1. PICK t \in Titles : t = ActiveOf(ws, a)
  BY ActiveIs
<1>2. PICK w : w = Clamped(l[t])
  OBVIOUS
<1>3. WindowInv(l[t], tops[t], s)
  BY DEF Logs
<1>4. WindowInv(w, tops[t], s)
  BY <1>2, <1>3, ClampKeeps
<1>5. Logs([l EXCEPT ![t] = w], tops, s)
  BY <1>4, LogChanges
<1> QED  BY <1>1, <1>2, <1>5

LEMMA AllSerialUp ==
    ASSUME NEW l, NEW tops, NEW s \in Nat, Logs(l, tops, s)
    PROVE  Logs(l, tops, s + 1)
<1>1. \A t \in Titles : WindowInv(l[t], tops[t], s)
  BY DEF Logs
<1>2. \A t \in Titles : WindowInv(l[t], tops[t], s + 1)
  BY <1>1, SerialUp
<1> QED  BY <1>2 DEF Logs

\* A message printed to one of the windows.
LEMMA Printed ==
    ASSUME NEW l, NEW tops, NEW s \in Nat, Logs(l, tops, s), NEW t \in Titles, NEW columns \in Seq(Nat)
    PROVE  Logs([l EXCEPT ![t] = Recording(l[t], [id |-> s, columns |-> columns])], tops, s + 1)
<1>1. PICK m : m = [id |-> s, columns |-> columns]
  OBVIOUS
<1>2. m \in Rec /\ m.id = s
  BY <1>1 DEF Rec
<1>3. PICK w : w = Recording(l[t], m)
  OBVIOUS
<1>4. WindowInv(l[t], tops[t], s)
  BY DEF Logs
<1>5. WindowInv(w, tops[t], s + 1)
  BY <1>2, <1>3, <1>4, PrintKeeps
<1>6. Logs(l, tops, s + 1)
  BY AllSerialUp
<1>7. Logs([l EXCEPT ![t] = w], tops, s + 1)
  BY <1>5, <1>6, LogChanges
<1> QED  BY <1>1, <1>3, <1>7

LEMMA ScreenIs ==
    ASSUME ScreenInv
    PROVE  /\ WindowsOK(windows, active) /\ serial \in Nat /\ serial > 0
           /\ reader \in Reader /\ reader.window = ActiveTitle /\ Logs(log, reader.top, serial)
           /\ ActiveTitle \in Titles /\ reader.top \in [Titles -> Row]
<1>1. /\ WindowsOK(windows, active) /\ serial \in Nat /\ serial > 0
      /\ reader \in Reader /\ reader.window = ActiveTitle /\ Logs(log, reader.top, serial)
  BY DEF ScreenInv, Screen, ActiveTitle
<1>2. ActiveTitle \in Titles
  BY <1>1, ActiveIs DEF ActiveTitle
<1>3. reader.top \in [Titles -> Row]
  BY <1>1 DEF Logs
<1> QED  BY <1>1, <1>2, <1>3

\* The user stays where he is; only logs and numbers change.
LEMMA SameReader ==
    ASSUME ScreenInv, windows' = windows, active' = active, reader' = reader,
           serial' \in Nat, serial' > 0, Logs(log', reader.top, serial')
    PROVE  ScreenInv'
<1>1. PICK ws, a, r : ws = windows /\ a = active /\ r = reader
  OBVIOUS
<1>2. windows' = ws /\ active' = a /\ reader' = r
  BY <1>1
<1>3. WindowsOK(ws, a) /\ r \in Reader /\ r.window = ActiveOf(ws, a) /\ Logs(log', r.top, serial')
  BY <1>1 DEF ScreenInv, Screen
<1>4. Screen(ws, a, log', r, serial')
  BY <1>3 DEF Screen
<1> QED  BY <1>2, <1>4 DEF ScreenInv

\* tui_print() and what is refused.
LEMMA PrintStep ==
    ASSUME ScreenInv, NEW t \in Titles, NEW columns \in Seq(Nat), TuiPrint(t, columns)
    PROVE  ScreenInv'
<1>1. /\ WindowsOK(windows, active) /\ serial \in Nat /\ serial > 0 /\ Logs(log, reader.top, serial)
  BY ScreenIs
<1>2. PICK l, s : /\ l = [log EXCEPT ![t] = Recording(log[t], [id |-> serial, columns |-> columns])]
                  /\ s = serial + 1
  OBVIOUS
<1>3. /\ serial' = s /\ windows' = windows /\ active' = active /\ reader' = reader
      /\ Redraw(windows, active, l) \/ log' = l
  BY <1>2 DEF TuiPrint
<1>4. Logs(l, reader.top, s)
  BY <1>1, <1>2, Printed
<1>5. Logs(log', reader.top, s)
  <2>1. CASE log' = l
    BY <1>4, <2>1
  <2>2. CASE Redraw(windows, active, l)
    <3>1. log' = [l EXCEPT ![ActiveOf(windows, active)] = Clamped(l[ActiveOf(windows, active)])]
      BY <2>2 DEF Redraw
    <3> QED  BY <1>1, <1>4, <3>1, Painted
  <2> QED  BY <1>3, <2>1, <2>2
<1>6. s \in Nat /\ s > 0
  BY <1>1, <1>2
<1> QED  BY <1>3, <1>5, <1>6, SameReader

LEMMA RefuseStep ==
    ASSUME ScreenInv, Refuse
    PROVE  ScreenInv'
<1>1. PICK t \in Titles : t = ActiveTitle
  BY ScreenIs
<1>2. <<1>> \in Seq(Nat)
  OBVIOUS
<1>3. TuiPrint(t, <<1>>)
  BY <1>1 DEF Refuse
<1> QED  BY <1>2, <1>3, PrintStep

\* Painting later: tui_redraw_defer() and tui_redraw_flush().
LEMMA LaterStep ==
    ASSUME ScreenInv, Defer \/ Flush
    PROVE  ScreenInv'
<1>1. /\ WindowsOK(windows, active) /\ serial \in Nat /\ serial > 0 /\ Logs(log, reader.top, serial)
  BY ScreenIs
<1>2. /\ serial' = serial /\ windows' = windows /\ active' = active /\ reader' = reader
      /\ Redraw(windows, active, log) \/ log' = log
  BY DEF Defer, Flush
<1>3. Logs(log', reader.top, serial)
  <2>1. CASE log' = log
    BY <1>1, <2>1
  <2>2. CASE Redraw(windows, active, log)
    <3>1. log' = [log EXCEPT ![ActiveOf(windows, active)] = Clamped(log[ActiveOf(windows, active)])]
      BY <2>2 DEF Redraw
    <3> QED  BY <1>1, <3>1, Painted
  <2> QED  BY <1>2, <2>1, <2>2
<1> QED  BY <1>1, <1>2, <1>3, SameReader

\* The reader of one window begins anew at a row.
LEMMA NewTop ==
    ASSUME ScreenInv, windows' = windows, active' = active, serial' = serial,
           NEW t \in Titles, NEW row, reader' = [reader EXCEPT !.top[t] = row],
           Logs(log', [reader.top EXCEPT ![t] = row], serial)
    PROVE  ScreenInv'
<1>1. /\ WindowsOK(windows, active) /\ serial \in Nat /\ serial > 0 /\ reader \in Reader
      /\ reader.window = ActiveOf(windows, active)
  BY DEF ScreenInv, Screen
<1>2. PICK p : p = [reader.top EXCEPT ![t] = row]
  OBVIOUS
<1>3. p \in [Titles -> Row] /\ Logs(log', p, serial)
  BY <1>2 DEF Logs
<1>4. reader' = [window |-> reader.window, top |-> p]
  BY <1>1, <1>2 DEF Reader
<1>5. reader' \in Reader /\ reader'.window = reader.window /\ reader'.top = p
  BY <1>1, <1>3, <1>4 DEF Reader
<1>6. PICK ws, a, s, r : ws = windows /\ a = active /\ s = serial /\ r = reader'
  OBVIOUS
<1>7. Screen(ws, a, log', r, s)
  BY <1>1, <1>3, <1>5, <1>6 DEF Screen
<1> QED  BY <1>6, <1>7 DEF ScreenInv

LEMMA ClearStep ==
    ASSUME ScreenInv, NEW t \in Titles, ClearScrollback(t)
    PROVE  ScreenInv'
<1>1. WindowsOK(windows, active) /\ serial \in Nat /\ serial > 0 /\ Logs(log, reader.top, serial)
  BY ScreenIs
<1>2. PICK l, p, f : l = [log EXCEPT ![t] = f] /\ p = [reader.top EXCEPT ![t] = NoRow] /\ f = Fresh
  OBVIOUS
<1>3. WindowInv(f, NoRow, serial)
  BY <1>1, <1>2, FreshKeeps
<1>4. Logs(l, p, serial)
  BY <1>1, <1>2, <1>3, OneChanges
<1>5. /\ windows' = windows /\ active' = active /\ serial' = serial
      /\ reader' = [reader EXCEPT !.top[t] = NoRow]
      /\ log' = [l EXCEPT ![ActiveOf(windows, active)] = Clamped(l[ActiveOf(windows, active)])]
  BY <1>2 DEF ClearScrollback, Redraw
<1>6. Logs(log', p, serial)
  BY <1>1, <1>4, <1>5, Painted
<1> QED  BY <1>2, <1>5, <1>6, NewTop

\* handle_pgup() and handle_pgdn().
LEMMA ScrollStep ==
    ASSUME ScreenInv, PgUp \/ PgDn
    PROVE  ScreenInv'
<1>1. /\ WindowsOK(windows, active) /\ serial \in Nat /\ serial > 0 /\ Logs(log, reader.top, serial)
      /\ ActiveTitle \in Titles
  BY ScreenIs
<1>2. PICK t \in Titles : t = ActiveTitle
  BY <1>1
<1>3. log \in [Titles -> Log] /\ WindowInv(log[t], reader.top[t], serial) /\ log[t] \in Log
  BY <1>1 DEF Logs
<1>4. PICK w : w = log[t]
  OBVIOUS
<1>5. w.offset \in Nat /\ w.count \in Nat /\ Page \in Nat
  BY <1>3, <1>4, LogIs, WindowsAssumption DEF Page
<1>6. PICK o \in Nat : Redraw(windows, active, [log EXCEPT ![ActiveTitle].offset = o])
  <2>1. CASE PgUp
    <3>1. PICK max \in Nat : max = IF w.count > Page THEN w.count - Page ELSE 0
      BY <1>5
    <3>2. PICK to \in Nat : to = IF w.offset + Page > max THEN max ELSE w.offset + Page
      BY <1>5, <3>1
    <3>3. Redraw(windows, active, [log EXCEPT ![ActiveTitle].offset = to])
      BY <1>2, <1>4, <2>1, <3>1, <3>2 DEF PgUp
    <3> QED  BY <3>3
  <2>2. CASE PgDn
    <3>1. PICK to \in Nat : to = AtLeastZero(w.offset - Page)
      BY <1>5 DEF AtLeastZero
    <3>2. Redraw(windows, active, [log EXCEPT ![ActiveTitle].offset = to])
      BY <1>2, <1>4, <2>2, <3>1 DEF PgDn
    <3> QED  BY <3>2
  <2> QED  BY <2>1, <2>2
<1>7. /\ windows' = windows /\ active' = active /\ serial' = serial
      /\ reader' = [reader EXCEPT !.top[t] = TopRow(log'[t])]
  BY <1>2 DEF PgUp, PgDn, Moves
<1>8. PICK v : v = Clamped([w EXCEPT !.offset = o])
  OBVIOUS
<1>9. log' = [log EXCEPT ![t] = v]
  <2>1. PICK l : l = [log EXCEPT ![t].offset = o]
    OBVIOUS
  <2>2. l[t] = [w EXCEPT !.offset = o] /\ l \in [Titles -> {l[x] : x \in Titles}]
    BY <1>3, <1>4, <2>1
  <2>3. log' = [l EXCEPT ![t] = Clamped(l[t])]
    BY <1>2, <1>6, <2>1 DEF Redraw, ActiveTitle
  <2>4. log' = [l EXCEPT ![t] = v]
    BY <1>8, <2>2, <2>3
  <2> QED  BY <1>3, <2>1, <2>4
<1>10. WindowInv(v, TopRow(v), serial)
  BY <1>1, <1>3, <1>4, <1>8, MoveKeeps
<1>11. log'[t] = v
  BY <1>3, <1>9
<1>12. PICK row : row = TopRow(v)
  OBVIOUS
<1>13. Logs(log', [reader.top EXCEPT ![t] = row], serial)
  BY <1>1, <1>9, <1>10, <1>12, OneChanges
<1>14. reader' = [reader EXCEPT !.top[t] = row]
  BY <1>7, <1>11, <1>12
<1> QED  BY <1>7, <1>13, <1>14, NewTop

\* The user comes to the window at place a, painted or not.
LEMMA VisitStep ==
    ASSUME ScreenInv, NEW a \in 0 .. Len(windows) - 1, active' = a, windows' = windows, serial' = serial,
           Visits(a), Redraw(windows, a, log) \/ log' = log
    PROVE  ScreenInv'
<1>1. /\ WindowsOK(windows, active) /\ serial \in Nat /\ serial > 0 /\ reader \in Reader
      /\ Logs(log, reader.top, serial)
  BY ScreenIs
<1>2. WindowsOK(windows, a)
  BY <1>1 DEF WindowsOK
<1>3. Logs(log', reader.top, serial)
  <2>1. CASE log' = log
    BY <1>1, <2>1
  <2>2. CASE Redraw(windows, a, log)
    <3>1. log' = [log EXCEPT ![ActiveOf(windows, a)] = Clamped(log[ActiveOf(windows, a)])]
      BY <2>2 DEF Redraw
    <3> QED  BY <1>1, <1>2, <3>1, Painted
  <2> QED  BY <2>1, <2>2
<1>4. ActiveOf(windows, a) \in Titles
  BY <1>2, ActiveIs
<1>5. reader' = [window |-> ActiveOf(windows, a), top |-> reader.top]
  BY <1>1 DEF Visits, Reader
<1>6. reader' \in Reader /\ reader'.window = ActiveOf(windows, a) /\ reader'.top = reader.top
  BY <1>1, <1>4, <1>5 DEF Reader
<1>7. PICK ws, s, r : ws = windows /\ s = serial /\ r = reader'
  OBVIOUS
<1>8. Screen(ws, a, log', r, s)
  BY <1>1, <1>2, <1>3, <1>6, <1>7 DEF Screen
<1> QED  BY <1>7, <1>8 DEF ScreenInv

LEMMA ChooseStep ==
    ASSUME ScreenInv, NEW a, Swap(a) \/ Focus(a)
    PROVE  ScreenInv'
<1>1. /\ a \in 0 .. Len(windows) - 1 /\ active' = a /\ windows' = windows /\ serial' = serial
      /\ Visits(a) /\ (Redraw(windows, a, log) \/ log' = log)
  BY DEF Swap, Focus
<1> QED  BY <1>1, VisitStep

LEMMA CreateStep ==
    ASSUME ScreenInv, NEW t \in Titles, Create(t)
    PROVE  ScreenInv'
<1>1. /\ WindowsOK(windows, active) /\ serial \in Nat /\ serial > 0 /\ reader \in Reader
      /\ Logs(log, reader.top, serial) /\ reader.window = ActiveOf(windows, active)
  BY ScreenIs DEF ActiveTitle
<1>2. /\ windows' = Append(windows, t) /\ log' = [log EXCEPT ![t] = Fresh]
      /\ reader' = [reader EXCEPT !.top[t] = NoRow] /\ active' = active /\ serial' = serial
  BY DEF Create
<1>3. PICK T, ws, n : T = Titles /\ ws = Append(windows, t) /\ n = Len(windows)
  OBVIOUS
<1>4. windows \in Seq(T) /\ n \in Nat /\ t \in T
  BY <1>1, <1>3 DEF WindowsOK
<1>5. ws \in Seq(T) /\ Len(ws) = n + 1 /\ \A i \in 1 .. n : ws[i] = windows[i]
  BY <1>3, <1>4
<1>6. active \in 0 .. n - 1 /\ \E j \in 1 .. n : windows[j] = "status"
  BY <1>1, <1>3 DEF WindowsOK
<1>7. WindowsOK(ws, active)
  <2>1. active \in 0 .. Len(ws) - 1
    BY <1>4, <1>5, <1>6
  <2>2. PICK j \in 1 .. n : windows[j] = "status"
    BY <1>6
  <2>3. j \in 1 .. Len(ws) /\ ws[j] = "status"
    BY <1>4, <1>5, <2>2
  <2> QED  BY <1>3, <1>5, <2>1, <2>3 DEF WindowsOK
<1>8. ActiveOf(ws, active) = ActiveOf(windows, active)
  <2>1. active + 1 \in 1 .. n
    BY <1>4, <1>6
  <2> QED  BY <1>5, <2>1 DEF ActiveOf
<1>9. PICK p, f : p = [reader.top EXCEPT ![t] = NoRow] /\ f = Fresh
  OBVIOUS
<1>10. Logs(log', p, serial)
  <2>1. WindowInv(f, NoRow, serial)
    BY <1>1, <1>9, FreshKeeps
  <2>2. Logs([log EXCEPT ![t] = f], [reader.top EXCEPT ![t] = NoRow], serial)
    BY <1>1, <2>1, OneChanges
  <2> QED  BY <1>2, <1>9, <2>2
<1>11. p \in [Titles -> Row]
  BY <1>10 DEF Logs
<1>12. reader' = [window |-> reader.window, top |-> p]
  BY <1>1, <1>2, <1>9 DEF Reader
<1>13. reader' \in Reader /\ reader'.window = reader.window /\ reader'.top = p
  BY <1>1, <1>11, <1>12 DEF Reader
<1>14. PICK a, s, r : a = active /\ s = serial /\ r = reader'
  OBVIOUS
<1>15. Screen(ws, a, log', r, s)
  BY <1>1, <1>7, <1>8, <1>10, <1>13, <1>14 DEF Screen
<1> QED  BY <1>2, <1>3, <1>14, <1>15 DEF ScreenInv

\* A sequence without its k-th element.
LEMMA Removes ==
    ASSUME NEW T, NEW ws \in Seq(T), NEW k \in 1 .. Len(ws)
    PROVE  /\ RemoveAt(ws, k) \in Seq(T) /\ Len(RemoveAt(ws, k)) = Len(ws) - 1
           /\ \A j \in 1 .. Len(ws) - 1 : RemoveAt(ws, k)[j] = IF j < k THEN ws[j] ELSE ws[j + 1]
<1>1. PICK n \in Nat : n = Len(ws)
  OBVIOUS
<1>2. PICK a, b : a = SubSeq(ws, 1, k - 1) /\ b = SubSeq(ws, k + 1, n)
  OBVIOUS
<1>3. a \in Seq(T) /\ Len(a) = k - 1 /\ \A j \in 1 .. k - 1 : a[j] = ws[j]
  BY <1>1, <1>2
<1>4. b \in Seq(T) /\ Len(b) = n - k /\ \A j \in 1 .. n - k : b[j] = ws[k + j]
  BY <1>1, <1>2
<1>5. PICK c : c = a \o b
  OBVIOUS
<1>6. c \in Seq(T) /\ Len(c) = n - 1
  BY <1>1, <1>3, <1>4, <1>5
<1>7. ASSUME NEW j \in 1 .. n - 1 PROVE c[j] = IF j < k THEN ws[j] ELSE ws[j + 1]
  <2>1. CASE j < k
    <3>1. j \in 1 .. k - 1
      BY <2>1
    <3>2. c[j] = a[j]
      BY <1>3, <1>4, <1>5, <3>1
    <3> QED  BY <1>3, <2>1, <3>1, <3>2
  <2>2. CASE ~(j < k)
    <3>1. j - (k - 1) \in 1 .. n - k /\ k + (j - (k - 1)) = j + 1
      BY <1>1, <2>2
    <3>2. c[j] = b[j - (k - 1)]
      BY <1>1, <1>3, <1>4, <1>5, <2>2, <3>1
    <3>3. b[j - (k - 1)] = ws[j + 1]
      BY <1>4, <3>1
    <3> QED  BY <2>2, <3>2, <3>3
  <2> QED  BY <2>1, <2>2
<1>8. RemoveAt(ws, k) = c
  BY <1>1, <1>2, <1>5 DEF RemoveAt
<1> QED  BY <1>1, <1>6, <1>7, <1>8

LEMMA SelectIs ==
    ASSUME NEW T, NEW ws \in Seq(T), NEW t, t \in Range(ws)
    PROVE  SelectInSeq(ws, LAMBDA x : x = t) \in 1 .. Len(ws) /\ ws[SelectInSeq(ws, LAMBDA x : x = t)] = t
<1>1. PICK I : I = {i \in 1 .. Len(ws) : ws[i] = t}
  OBVIOUS
<1>2. I # {} /\ I \in SUBSET Nat
  BY <1>1 DEF Range
<1>3. SelectInSeq(ws, LAMBDA x : x = t) = Min(I)
  BY <1>1, <1>2 DEF SelectInSeq
<1>4. \E k \in I : \A j \in I : k <= j
  BY <1>2, Least
<1>5. Min(I) \in I
  BY <1>4 DEF Min
<1> QED  BY <1>1, <1>3, <1>5

\* tui_window_destroy(): the news goes to the status window, the user to a window that is left.
LEMMA DestroyStep ==
    ASSUME ScreenInv, NEW t \in Titles, Destroy(t)
    PROVE  ScreenInv'
<1>1. /\ WindowsOK(windows, active) /\ serial \in Nat /\ serial > 0 /\ reader \in Reader
      /\ Logs(log, reader.top, serial) /\ reader.window = windows[active + 1]
  BY ScreenIs DEF ActiveTitle, ActiveOf
<1>2. PICK T, n, k, ws : /\ T = Titles /\ n = Len(windows) /\ k = SelectInSeq(windows, LAMBDA x : x = t)
                         /\ ws = RemoveAt(windows, (k - 1) + 1)
  OBVIOUS
<1>3. PICK after, news : /\ after = ActiveAfter(k - 1, Len(ws))
                         /\ news = [log EXCEPT !["status"] = Recording(log["status"], [id |-> serial, columns |-> <<1>>])]
  OBVIOUS
<1>4. /\ t \in Range(windows) /\ t # "status"
      /\ windows' = ws /\ active' = after /\ serial' = serial + 1
      /\ Redraw(windows, active, news) \/ log' = news
      /\ reader' = [reader EXCEPT !.window =
                       IF @ = t \/ active >= Len(ws) THEN ActiveOf(ws, after) ELSE @]
  BY <1>2, <1>3 DEF Destroy
<1>5. windows \in Seq(T) /\ n \in Nat /\ active \in 0 .. n - 1 /\ \E j \in 1 .. n : windows[j] = "status"
  BY <1>1, <1>2 DEF WindowsOK
<1>6. k \in 1 .. n /\ windows[k] = t
  BY <1>2, <1>4, <1>5, SelectIs
<1>7. (k - 1) + 1 = k
  BY <1>5, <1>6
<1>8. /\ ws \in Seq(T) /\ Len(ws) = n - 1
      /\ \A j \in 1 .. n - 1 : ws[j] = IF j < k THEN windows[j] ELSE windows[j + 1]
  <2>1. ws = RemoveAt(windows, k)
    BY <1>2, <1>7
  <2> QED  BY <1>2, <1>5, <1>6, <2>1, Removes
<1>9. PICK q \in 1 .. n - 1 : ws[q] = "status"
  <2>1. PICK j \in 1 .. n : windows[j] = "status"
    BY <1>5
  <2>2. j # k
    BY <1>4, <1>6, <2>1
  <2>3. CASE j < k
    <3>1. j \in 1 .. n - 1
      BY <1>5, <1>6, <2>1, <2>3
    <3> QED  BY <1>8, <2>1, <2>3, <3>1
  <2>4. CASE j > k
    <3>1. j - 1 \in 1 .. n - 1 /\ ~(j - 1 < k) /\ (j - 1) + 1 = j
      BY <1>5, <1>6, <2>1, <2>4
    <3> QED  BY <1>8, <2>1, <3>1
  <2> QED  BY <1>5, <1>6, <2>1, <2>2, <2>3, <2>4
<1>10. after = IF active >= n - 1 \/ active = k - 1 THEN IF k - 1 > 0 THEN (k - 1) - 1 ELSE 0
               ELSE IF active > k - 1 THEN active - 1 ELSE active
  BY <1>3, <1>8 DEF ActiveAfter
<1>11. after \in 0 .. Len(ws) - 1
  <2>1. n - 1 > 0
    BY <1>5, <1>9
  <2> QED  BY <1>5, <1>6, <1>8, <1>10, <2>1
<1>12. WindowsOK(ws, after)
  BY <1>2, <1>8, <1>9, <1>11 DEF WindowsOK
<1>13. PICK u : u = IF reader.window = t \/ active >= Len(ws) THEN ActiveOf(ws, after) ELSE reader.window
  OBVIOUS
<1>14. u = ActiveOf(ws, after)
  <2> SUFFICES ASSUME reader.window # t, ~(active >= Len(ws)) PROVE reader.window = ActiveOf(ws, after)
    BY <1>13
  <2>1. active < n - 1 /\ active + 1 # k
    BY <1>1, <1>5, <1>6, <1>8
  <2>2. after = IF active > k - 1 THEN active - 1 ELSE active
    BY <1>5, <1>6, <1>10, <2>1
  <2>3. CASE active > k - 1
    <3>1. after + 1 = active /\ active \in 1 .. n - 1 /\ ~(active < k)
      BY <1>5, <1>6, <2>1, <2>2, <2>3
    <3>2. ws[active] = windows[active + 1]
      BY <1>8, <3>1
    <3> QED  BY <1>1, <3>1, <3>2 DEF ActiveOf
  <2>4. CASE ~(active > k - 1)
    <3>1. after = active /\ active + 1 \in 1 .. n - 1 /\ active + 1 < k
      BY <1>5, <1>6, <2>1, <2>2, <2>4
    <3>2. ws[active + 1] = windows[active + 1]
      BY <1>8, <3>1
    <3> QED  BY <1>1, <3>1, <3>2 DEF ActiveOf
  <2> QED  BY <2>3, <2>4
<1>15. Logs(news, reader.top, serial + 1)
  <2>1. <<1>> \in Seq(Nat) /\ "status" \in Titles
    BY WindowsAssumption
  <2> QED  BY <1>1, <1>3, <2>1, Printed
<1>16. Logs(log', reader.top, serial + 1)
  <2>1. CASE log' = news
    BY <1>15, <2>1
  <2>2. CASE Redraw(windows, active, news)
    <3>1. log' = [news EXCEPT ![ActiveOf(windows, active)] = Clamped(news[ActiveOf(windows, active)])]
      BY <2>2 DEF Redraw
    <3> QED  BY <1>1, <1>15, <3>1, Painted
  <2> QED  BY <1>4, <2>1, <2>2
<1>17. reader' = [window |-> u, top |-> reader.top]
  BY <1>1, <1>4, <1>13 DEF Reader
<1>18. u \in Titles
  BY <1>12, <1>14, ActiveIs
<1>19. reader' \in Reader /\ reader'.window = ActiveOf(ws, after) /\ reader'.top = reader.top
  BY <1>1, <1>14, <1>17, <1>18 DEF Reader
<1>20. PICK s, r : s = serial + 1 /\ r = reader'
  OBVIOUS
<1>21. s \in Nat /\ s > 0
  BY <1>1, <1>20
<1>22. Screen(ws, after, log', r, s)
  BY <1>12, <1>16, <1>19, <1>20, <1>21 DEF Screen
<1> QED  BY <1>4, <1>20, <1>22 DEF ScreenInv

\* The start of tui_window_init().
LEMMA ScreenStart ==
    ASSUME WindowsStart
    PROVE  ScreenInv
<1>1. PICK ws, l, p, f, T : /\ ws = <<"status">> /\ l = [t \in Titles |-> Fresh] /\ p = [t \in Titles |-> NoRow]
                            /\ f = Fresh /\ T = Titles
  OBVIOUS
<1>2. /\ windows = ws /\ active = 0 /\ log = l /\ serial = 1 /\ reader = [window |-> "status", top |-> p]
  BY <1>1 DEF WindowsStart
<1>3. "status" \in T
  BY <1>1, WindowsAssumption
<1>4. ws \in Seq(T) /\ Len(ws) = 1 /\ ws[1] = "status"
  BY <1>1, <1>3
<1>5. WindowsOK(ws, 0)
  BY <1>1, <1>4 DEF WindowsOK
<1>6. WindowInv(f, NoRow, 1)
  BY <1>1, FreshKeeps
<1>7. f \in Log /\ NoRow \in Row
  BY <1>6 DEF WindowInv
<1>8. l \in [Titles -> Log] /\ p \in [Titles -> Row] /\ \A t \in Titles : l[t] = f /\ p[t] = NoRow
  BY <1>1, <1>7
<1>9. Logs(l, p, 1)
  BY <1>6, <1>8 DEF Logs
<1>10. PICK r : r = [window |-> "status", top |-> p]
  OBVIOUS
<1>11. r \in Reader /\ r.window = ActiveOf(ws, 0) /\ r.top = p
  BY <1>1, <1>3, <1>4, <1>8, <1>10 DEF Reader, ActiveOf
<1>12. Screen(ws, 0, l, r, 1)
  BY <1>5, <1>9, <1>11 DEF Screen
<1> QED  BY <1>2, <1>10, <1>12 DEF ScreenInv

\* The user of the terminal keeps looking at what he went to, for any windows, messages and terminal,
\* a ring of any length and any sequence of prints, closings, scrolls and deferred paintings.
THEOREM ViewAlwaysKept == WindowsSpec => []ViewIsKept
<1>1. WindowsStart => ScreenInv
  BY ScreenStart
<1>2. ScreenInv /\ [WindowsNext]_screenVars => ScreenInv'
  <2> SUFFICES ASSUME ScreenInv, [WindowsNext]_screenVars PROVE ScreenInv'
    OBVIOUS
  <2>1. CASE UNCHANGED screenVars
    BY <2>1 DEF screenVars, ScreenInv
  <2>2. ASSUME NEW t \in Titles, NEW m \in Messages, TuiPrint(t, m) PROVE ScreenInv'
    <3>1. m \in Seq(Nat)
      BY WindowsAssumption
    <3> QED  BY <2>2, <3>1, PrintStep
  <2>3. ASSUME NEW t \in Titles, Create(t) PROVE ScreenInv'
    BY <2>3, CreateStep
  <2>4. ASSUME NEW t \in Titles, Destroy(t) PROVE ScreenInv'
    BY <2>4, DestroyStep
  <2>5. ASSUME NEW t \in Titles, ClearScrollback(t) PROVE ScreenInv'
    BY <2>5, ClearStep
  <2>6. CASE Refuse
    BY <2>6, RefuseStep
  <2>7. CASE Defer \/ Flush
    BY <2>7, LaterStep
  <2>8. CASE PgUp \/ PgDn
    BY <2>8, ScrollStep
  <2>9. CASE AltLeft \/ AltRight
    BY <2>9, ChooseStep DEF AltLeft, AltRight
  <2>10. ASSUME NEW a, Swap(a) \/ Focus(a) PROVE ScreenInv'
    BY <2>10, ChooseStep
  <2>11. CASE WindowStep
    BY <2>2, <2>3, <2>4, <2>5, <2>6, <2>7, <2>8, <2>9, <2>10, <2>11 DEF WindowStep
  <2> QED  BY <2>1, <2>11 DEF WindowsNext
<1>3. ScreenInv => ViewIsKept
  <2> SUFFICES ASSUME ScreenInv PROVE ViewIsKept
    OBVIOUS
  <2>1. ActiveTitle \in Titles /\ reader.window = ActiveTitle /\ Logs(log, reader.top, serial)
    BY ScreenIs
  <2>2. WindowInv(log[ActiveTitle], reader.top[ActiveTitle], serial)
    BY <2>1 DEF Logs
  <2>3. ViewOf(log[ActiveTitle], reader.top[ActiveTitle])
    BY <2>2 DEF WindowInv
  <2> QED  BY <2>1, <2>3 DEF ViewIsKept, ViewOf
<1> QED  BY <1>1, <1>2, <1>3, PTL DEF WindowsSpec

-----------------------------------------------------------------------------
(* The input line.                                                         *)

Byte == 0 .. 255
Text == Seq(Byte)
Buffer(b) == b \in [0 .. InputLen - 1 -> Byte]

\* The text left and right of a cursor.
LeftOf(b, c)     == [i \in 1 .. c |-> b[i - 1]]
RightOf(b, c, n) == [i \in 1 .. n - c |-> b[c + i - 1]]

LEMMA TextIs ==
    ASSUME NEW t \in Text
    PROVE  /\ Len(t) \in Nat /\ DOMAIN t = 1 .. Len(t) /\ (\A i \in 1 .. Len(t) : t[i] \in Byte)
           /\ (Len(t) = 0 <=> t = <<>>)
<1>1. PICK T : T = Byte
  OBVIOUS
<1>2. t \in Seq(T)
  BY <1>1 DEF Text
<1> QED  BY <1>1, <1>2

LEMMA TextsEqual ==
    ASSUME NEW a \in Text, NEW b \in Text, Len(a) = Len(b), \A i \in 1 .. Len(a) : a[i] = b[i]
    PROVE  a = b
<1>1. PICK T : T = Byte
  OBVIOUS
<1>2. a \in Seq(T) /\ b \in Seq(T)
  BY <1>1 DEF Text
<1> QED  BY <1>2, SeqEqual

\* A text of n bytes.
LEMMA MakeText ==
    ASSUME NEW n \in Nat, NEW f, DOMAIN f = 1 .. n, \A i \in 1 .. n : f[i] \in Byte, f = [i \in 1 .. n |-> f[i]]
    PROVE  f \in Text /\ Len(f) = n
<1>1. PICK T : T = Byte
  OBVIOUS
<1>2. f \in [1 .. n -> T]
  BY <1>1
<1>3. f \in Seq(T) /\ Len(f) = n
  BY <1>2
<1> QED  BY <1>1, <1>3 DEF Text

LEMMA LeftIs ==
    ASSUME NEW b, Buffer(b), NEW c \in 0 .. InputLen
    PROVE  LeftOf(b, c) \in Text /\ Len(LeftOf(b, c)) = c /\ \A i \in 1 .. c : LeftOf(b, c)[i] = b[i - 1]
<1>1. PICK f : f = LeftOf(b, c)
  OBVIOUS
<1>2. DOMAIN f = 1 .. c /\ f = [i \in 1 .. c |-> f[i]] /\ \A i \in 1 .. c : f[i] = b[i - 1]
  BY <1>1 DEF LeftOf
<1>3. c \in Nat /\ \A i \in 1 .. c : i - 1 \in 0 .. InputLen - 1
  BY InputAssumption
<1>4. \A i \in 1 .. c : f[i] \in Byte
  BY <1>2, <1>3 DEF Buffer
<1> QED  BY <1>1, <1>2, <1>3, <1>4, MakeText

LEMMA RightIs ==
    ASSUME NEW b, Buffer(b), NEW n \in 0 .. InputLen, NEW c \in 0 .. n
    PROVE  /\ RightOf(b, c, n) \in Text /\ Len(RightOf(b, c, n)) = n - c
           /\ \A i \in 1 .. n - c : RightOf(b, c, n)[i] = b[c + i - 1]
<1>1. PICK f : f = RightOf(b, c, n)
  OBVIOUS
<1>2. DOMAIN f = 1 .. n - c /\ f = [i \in 1 .. n - c |-> f[i]] /\ \A i \in 1 .. n - c : f[i] = b[c + i - 1]
  BY <1>1 DEF RightOf
<1>3. n - c \in Nat /\ \A i \in 1 .. n - c : c + i - 1 \in 0 .. InputLen - 1
  BY InputAssumption
<1>4. \A i \in 1 .. n - c : f[i] \in Byte
  BY <1>2, <1>3 DEF Buffer
<1> QED  BY <1>1, <1>2, <1>3, <1>4, MakeText

LEMMA Joins ==
    ASSUME NEW a \in Text, NEW b \in Text
    PROVE  /\ a \o b \in Text /\ Len(a \o b) = Len(a) + Len(b)
           /\ \A i \in 1 .. Len(a) : (a \o b)[i] = a[i]
           /\ \A i \in Len(a) + 1 .. Len(a) + Len(b) : (a \o b)[i] = b[i - Len(a)]
<1>1. PICK T : T = Byte
  OBVIOUS
<1>2. a \in Seq(T) /\ b \in Seq(T)
  BY <1>1 DEF Text
<1>3. a \o b \in Seq(T) /\ Len(a \o b) = Len(a) + Len(b) /\ Len(a) \in Nat /\ Len(b) \in Nat
  BY <1>2
<1>4. \A i \in 1 .. Len(a) : (a \o b)[i] = a[i]
  BY <1>2
<1>5. ASSUME NEW i \in Len(a) + 1 .. Len(a) + Len(b) PROVE (a \o b)[i] = b[i - Len(a)]
  <2>1. i \in 1 .. Len(a) + Len(b) /\ i > Len(a)
    BY <1>3
  <2> QED  BY <1>2, <1>3, <2>1
<1> QED  BY <1>1, <1>3, <1>4, <1>5 DEF Text

LEMMA Cuts ==
    ASSUME NEW a \in Text, NEW m \in Nat, NEW n \in Nat, m > 0, n <= Len(a), m <= n + 1
    PROVE  /\ SubSeq(a, m, n) \in Text /\ Len(SubSeq(a, m, n)) = n + 1 - m
           /\ \A i \in 1 .. n + 1 - m : SubSeq(a, m, n)[i] = a[m + i - 1]
<1>1. PICK T, h : T = Byte /\ h = Len(a)
  OBVIOUS
<1>2. a \in Seq(T) /\ h \in Nat
  BY <1>1 DEF Text
<1>3. PICK f : f = SubSeq(a, m, n)
  OBVIOUS
<1>4. f \in Seq(T) /\ Len(f) = n + 1 - m /\ \A i \in 1 .. n + 1 - m : f[i] = a[m + i - 1]
  BY <1>1, <1>2, <1>3
<1> QED  BY <1>1, <1>3, <1>4 DEF Text

\* The whole line does not depend on where the cursor is.
LEMMA WholeIs ==
    ASSUME NEW b, Buffer(b), NEW n \in 0 .. InputLen, NEW c \in 0 .. n
    PROVE  LeftOf(b, c) \o RightOf(b, c, n) = LeftOf(b, n)
<1>1. PICK l, r, w : l = LeftOf(b, c) /\ r = RightOf(b, c, n) /\ w = LeftOf(b, n)
  OBVIOUS
<1>2. c \in 0 .. InputLen /\ n \in Nat /\ c \in Nat /\ c <= n
  BY InputAssumption
<1>3. l \in Text /\ Len(l) = c /\ \A i \in 1 .. c : l[i] = b[i - 1]
  BY <1>1, <1>2, LeftIs
<1>4. r \in Text /\ Len(r) = n - c /\ \A i \in 1 .. n - c : r[i] = b[c + i - 1]
  BY <1>1, RightIs
<1>5. w \in Text /\ Len(w) = n /\ \A i \in 1 .. n : w[i] = b[i - 1]
  BY <1>1, LeftIs
<1>6. PICK j : j = l \o r
  OBVIOUS
<1>7. /\ j \in Text /\ Len(j) = c + (n - c) /\ (\A i \in 1 .. c : j[i] = l[i])
      /\ \A i \in c + 1 .. c + (n - c) : j[i] = r[i - c]
  <2>1. /\ j \in Text /\ Len(j) = Len(l) + Len(r) /\ (\A i \in 1 .. Len(l) : j[i] = l[i])
        /\ \A i \in Len(l) + 1 .. Len(l) + Len(r) : j[i] = r[i - Len(l)]
    BY <1>3, <1>4, <1>6, Joins
  <2> QED  BY <1>3, <1>4, <2>1
<1>8. ASSUME NEW i \in 1 .. n PROVE j[i] = w[i]
  <2>1. CASE i <= c
    BY <1>2, <1>3, <1>5, <1>7, <2>1
  <2>2. CASE ~(i <= c)
    <3>1. i \in c + 1 .. c + (n - c) /\ i - c \in 1 .. n - c /\ c + (i - c) - 1 = i - 1
      BY <1>2, <2>2
    <3>2. j[i] = r[i - c] /\ r[i - c] = b[c + (i - c) - 1]
      BY <1>4, <1>7, <3>1
    <3> QED  BY <1>5, <3>1, <3>2
  <2> QED  BY <2>1, <2>2
<1>9. Len(j) = n
  BY <1>2, <1>7
<1>10. j = w
  BY <1>5, <1>7, <1>8, <1>9, TextsEqual
<1> QED  BY <1>1, <1>6, <1>10

-----------------------------------------------------------------------------
(* Words: the places where the keys that go by words stop.                 *)

\* A walk that stops at v[n] where n is not in B, and goes on to n - 1 where it is.
Walk(f, h, B, v) ==
    /\ f \in [0 .. h -> Nat] /\ f[0] = v[0]
    /\ \A n \in 0 .. h : n # 0 => f[n] = IF n \in B THEN f[n - 1] ELSE v[n]

LEMMA Walks ==
    ASSUME NEW h \in Nat, NEW B, NEW v \in [Nat -> Nat]
    PROVE  \E f : Walk(f, h, B, v)
<1>1. PICK T, b, step : /\ T = Nat /\ b = v[0]
                        /\ step = [p \in Nat \X T |-> IF p[1] \in B THEN p[2] ELSE v[p[1]]]
  OBVIOUS
<1>2. b \in T
  BY <1>1
<1>3. ASSUME NEW n \in Nat, NEW i \in T
      PROVE  step[<<n, i>>] \in T /\ step[<<n, i>>] = IF n \in B THEN i ELSE v[n]
  <2>1. <<n, i>> \in Nat \X T /\ <<n, i>>[1] = n /\ <<n, i>>[2] = i
    OBVIOUS
  <2>2. step[<<n, i>>] = IF n \in B THEN i ELSE v[n]
    BY <1>1, <2>1
  <2> QED  BY <1>1, <2>2
<1>4. step \in [Nat \X T -> T]
  <2>1. ASSUME NEW p \in Nat \X T PROVE step[p] \in T
    <3>1. PICK n \in Nat, i \in T : p = <<n, i>>
      OBVIOUS
    <3> QED  BY <1>3, <3>1
  <2>2. DOMAIN step = Nat \X T /\ step = [p \in DOMAIN step |-> step[p]]
    BY <1>1
  <2> QED  BY <2>1, <2>2
<1>5. PICK f \in [0 .. h -> T] : f[0] = b /\ \A n \in 0 .. h : n # 0 => f[n] = step[<<n, f[n - 1]>>]
  <2>1. \E f \in [0 .. h -> T] : Iteration(f, h, b, step)
    BY <1>2, <1>4, Iterates
  <2> QED  BY <2>1 DEF Iteration
<1>6. ASSUME NEW n \in 0 .. h, n # 0 PROVE f[n] = IF n \in B THEN f[n - 1] ELSE v[n]
  <2>1. n \in Nat /\ f[n - 1] \in T
    BY <1>6
  <2> QED  BY <1>3, <1>5, <1>6, <2>1
<1>7. Walk(f, h, B, v)
  BY <1>1, <1>5, <1>6 DEF Walk
<1> QED  BY <1>7

GoesBack(f, blank) ==
    f = [i \in 0 .. InputLen |-> IF i > 0 /\ (buf[i - 1] = Space) = blank THEN f[i - 1] ELSE i]
GoesForth(f, blank) ==
    f = [i \in 0 .. InputLen |-> IF i < len /\ (buf[i] = Space) = blank THEN f[i + 1] ELSE i]

\* From n back to x all is blank, or nothing is, and there it ends.
StopsBack(x, n, blank) ==
    /\ x \in 0 .. n /\ \A i \in x .. n - 1 : (buf[i] = Space) = blank
    /\ x > 0 => ~((buf[x - 1] = Space) = blank)

LEMMA SkipBackIs ==
    ASSUME NEW n \in 0 .. InputLen, NEW blank \in BOOLEAN
    PROVE  StopsBack(SkipBack(n, blank), n, blank)
<1>1. PICK h \in Nat : h = InputLen
  BY InputAssumption
<1>2. PICK B, v : B = {i \in Nat : i > 0 /\ (buf[i - 1] = Space) = blank} /\ v = [i \in Nat |-> i]
  OBVIOUS
<1>3. v \in [Nat -> Nat]
  BY <1>2
<1>4. PICK f : Walk(f, h, B, v)
  BY <1>3, Walks
<1>5. GoesBack(f, blank)
  <2>1. ASSUME NEW i \in 0 .. h PROVE f[i] = IF i > 0 /\ (buf[i - 1] = Space) = blank THEN f[i - 1] ELSE i
    <3>1. i \in Nat /\ v[i] = i /\ (i \in B <=> i > 0 /\ (buf[i - 1] = Space) = blank)
      BY <1>2
    <3>2. CASE i = 0
      BY <1>2, <1>4, <3>2 DEF Walk
    <3>3. CASE i # 0
      BY <1>4, <3>1, <3>3 DEF Walk
    <3> QED  BY <3>2, <3>3
  <2>2. f = [i \in 0 .. h |-> f[i]]
    BY <1>4 DEF Walk
  <2> QED  BY <1>1, <2>1, <2>2 DEF GoesBack
<1>6. PICK g : g = CHOOSE q : GoesBack(q, blank)
  OBVIOUS
<1>7. GoesBack(g, blank)
  BY <1>5, <1>6
<1>8. SkipBack(n, blank) = g[n]
  BY <1>6 DEF SkipBack, GoesBack
<1>9. \A i \in 0 .. h : g[i] = IF i > 0 /\ (buf[i - 1] = Space) = blank THEN g[i - 1] ELSE i
  BY <1>1, <1>7 DEF GoesBack
<1>10. PICK C : C = {i \in Nat : i \in 0 .. h => StopsBack(g[i], i, blank)}
  OBVIOUS
<1>11. 0 \in C
  <2>1. g[0] = 0
    BY <1>9
  <2> QED  BY <1>10, <2>1 DEF StopsBack
<1>12. ASSUME NEW k \in C PROVE k + 1 \in C
  <2>1. k \in Nat /\ (k \in 0 .. h => StopsBack(g[k], k, blank))
    BY <1>10, <1>12
  <2>2. ASSUME k + 1 \in 0 .. h PROVE StopsBack(g[k + 1], k + 1, blank)
    <3>1. k \in 0 .. h /\ (k + 1) - 1 = k /\ k + 1 > 0
      BY <2>1, <2>2
    <3>2. StopsBack(g[k], k, blank)
      BY <2>1, <3>1
    <3>3. CASE (buf[k] = Space) = blank
      <4>1. g[k + 1] = g[k]
        BY <1>9, <2>2, <3>1, <3>3
      <4>2. PICK x : x = g[k]
        OBVIOUS
      <4>3. x \in 0 .. k + 1
        BY <2>1, <3>2, <4>2 DEF StopsBack
      <4>4. ASSUME NEW i \in x .. k PROVE (buf[i] = Space) = blank
        <5>1. i = k \/ i \in x .. k - 1
          BY <2>1, <4>3
        <5> QED  BY <3>2, <3>3, <4>2, <5>1 DEF StopsBack
      <4>5. (k + 1) - 1 = k
        BY <2>1
      <4> QED  BY <3>2, <4>1, <4>2, <4>3, <4>4, <4>5 DEF StopsBack
    <3>4. CASE ~((buf[k] = Space) = blank)
      <4>1. g[k + 1] = k + 1
        BY <1>9, <2>2, <3>1, <3>4
      <4>2. \A i \in k + 1 .. (k + 1) - 1 : FALSE
        BY <2>1
      <4>3. k + 1 \in 0 .. k + 1
        BY <2>1
      <4> QED  BY <3>1, <3>4, <4>1, <4>2, <4>3 DEF StopsBack
    <3> QED  BY <3>3, <3>4
  <2> QED  BY <1>10, <2>1, <2>2
<1>13. \A i \in Nat : i \in C
  <2>1. C \in SUBSET Nat
    BY <1>10
  <2> QED  BY <1>11, <1>12, <2>1, CountsUp
<1> QED  BY <1>1, <1>8, <1>10, <1>13

LEMMA SkipForthIs ==
    ASSUME len \in 0 .. InputLen, NEW n \in 0 .. len, NEW blank \in BOOLEAN
    PROVE  SkipForth(n, blank) \in n .. len
<1>1. PICK h \in Nat, m \in Nat : h = InputLen /\ m = len /\ m <= h
  BY InputAssumption
<1>2. PICK B, v : /\ B = {i \in Nat : h - i < m /\ (buf[h - i] = Space) = blank}
                  /\ v = [i \in Nat |-> IF i > h THEN 0 ELSE h - i]
  OBVIOUS
<1>3. v \in [Nat -> Nat]
  BY <1>1, <1>2
<1>4. PICK e : Walk(e, h, B, v)
  BY <1>3, Walks
<1>5. PICK f : f = [i \in 0 .. h |-> e[h - i]]
  OBVIOUS
<1>6. GoesForth(f, blank)
  <2>1. ASSUME NEW i \in 0 .. h PROVE f[i] = IF i < m /\ (buf[i] = Space) = blank THEN f[i + 1] ELSE i
    <3>1. PICK k \in 0 .. h : k = h - i /\ h - k = i
      BY <1>1
    <3>2. k \in Nat /\ v[k] = i /\ (k \in B <=> i < m /\ (buf[i] = Space) = blank)
      BY <1>1, <1>2, <3>1
    <3>3. f[i] = e[k]
      BY <1>5, <3>1
    <3>4. CASE k = 0
      <4>1. ~(i < m)
        BY <1>1, <3>1, <3>4
      <4>2. e[k] = v[k]
        BY <1>4, <3>4 DEF Walk
      <4> QED  BY <3>2, <3>3, <4>1, <4>2
    <3>5. CASE k # 0
      <4>1. e[k] = IF k \in B THEN e[k - 1] ELSE v[k]
        BY <1>4, <3>5 DEF Walk
      <4>2. f[i + 1] = e[k - 1]
        <5>1. i + 1 \in 0 .. h /\ h - (i + 1) = k - 1
          BY <1>1, <3>1, <3>5
        <5> QED  BY <1>5, <5>1
      <4> QED  BY <3>2, <3>3, <4>1, <4>2
    <3> QED  BY <3>4, <3>5
  <2>2. f = [i \in 0 .. h |-> f[i]]
    BY <1>5
  <2> QED  BY <1>1, <2>1, <2>2 DEF GoesForth
<1>7. PICK g : g = CHOOSE q : GoesForth(q, blank)
  OBVIOUS
<1>8. GoesForth(g, blank)
  BY <1>6, <1>7
<1>9. SkipForth(n, blank) = g[n]
  BY <1>7 DEF SkipForth, GoesForth
<1>10. \A i \in 0 .. h : g[i] = IF i < m /\ (buf[i] = Space) = blank THEN g[i + 1] ELSE i
  BY <1>1, <1>8 DEF GoesForth
<1>11. PICK C : C = {k \in Nat : k <= m => g[m - k] \in m - k .. m}
  OBVIOUS
<1>12. 0 \in C
  <2>1. g[m] = m
    BY <1>1, <1>10
  <2> QED  BY <1>1, <1>11, <2>1
<1>13. ASSUME NEW k \in C PROVE k + 1 \in C
  <2>1. k \in Nat /\ (k <= m => g[m - k] \in m - k .. m)
    BY <1>11, <1>13
  <2>2. ASSUME k + 1 <= m PROVE g[m - (k + 1)] \in m - (k + 1) .. m
    <3>1. PICK i \in 0 .. h : i = m - (k + 1) /\ i + 1 = m - k
      BY <1>1, <2>1, <2>2
    <3>2. g[i] = g[i + 1] \/ g[i] = i
      BY <1>10
    <3>3. g[i + 1] \in i + 1 .. m
      BY <1>1, <2>1, <2>2, <3>1
    <3> QED  BY <1>1, <2>1, <2>2, <3>1, <3>2, <3>3
  <2> QED  BY <1>11, <2>1, <2>2
<1>14. \A k \in Nat : k \in C
  <2>1. C \in SUBSET Nat
    BY <1>11
  <2> QED  BY <1>12, <1>13, <2>1, CountsUp
<1>15. PICK k \in Nat : k = m - n /\ k <= m /\ m - k = n
  BY <1>1
<1>16. g[n] \in n .. m
  BY <1>11, <1>14, <1>15
<1> QED  BY <1>1, <1>9, <1>16

\* The greatest of some places, 0 if there is none.
LastOf(I) == IF I # {} THEN Max(I) ELSE 0

LEMMA WordGoneIs ==
    ASSUME NEW t
    PROVE  Editor!WordGone(t) = SubSeq(t, 1, LastOf({i \in 1 .. Len(t) : t[i] = Space}))
BY DEF Editor!WordGone, Editor!SelectLastInSubSeq, Editor!Max, LastOf, Max

LEMMA LastWordGoneIs ==
    ASSUME NEW t, NEW n, n = LastOf({i \in 1 .. Len(t) : t[i] # Space})
    PROVE  Editor!LastWordGone(t) = SubSeq(t, 1, LastOf({i \in 1 .. n : t[i] = Space}))
<1>1. Editor!LastWordGone(t) =
        SubSeq(t, 1, LastOf({i \in 1 .. LastOf({j \in 1 .. Len(t) : t[j] # Space}) : t[i] = Space}))
  BY DEF Editor!LastWordGone, Editor!SelectLastInSubSeq, Editor!Max, LastOf, Max
<1> QED  BY <1>1

LEMMA MaxIs ==
    ASSUME NEW I \in SUBSET Nat, NEW x \in I, \A i \in I : x >= i
    PROVE  Max(I) = x
<1>1. PICK y : y = Max(I)
  OBVIOUS
<1>2. y \in I /\ \A i \in I : y >= i
  BY <1>1 DEF Max
<1>3. x \in Nat /\ y \in Nat /\ x >= y /\ y >= x
  BY <1>2
<1> QED  BY <1>1, <1>3

\* The last blank of the first n bytes is at x, 0 for none; the last that is no blank.
LEMMA LastBlankIs ==
    ASSUME NEW t, NEW n \in Nat, NEW x \in 0 .. n, x > 0 => t[x] = Space, \A i \in x + 1 .. n : t[i] # Space
    PROVE  LastOf({i \in 1 .. n : t[i] = Space}) = x
<1>1. PICK I : I = {i \in 1 .. n : t[i] = Space}
  OBVIOUS
<1>2. LastOf({i \in 1 .. n : t[i] = Space}) = IF I # {} THEN Max(I) ELSE 0
  BY <1>1 DEF LastOf
<1>3. \A i \in I : i \in Nat /\ x >= i
  BY <1>1
<1>4. CASE x = 0
  <2>1. I = {}
    BY <1>1, <1>3, <1>4
  <2> QED  BY <1>2, <1>4, <2>1
<1>5. CASE x > 0
  <2>1. x \in I
    BY <1>1, <1>5
  <2> QED  BY <1>2, <1>3, <2>1, MaxIs
<1> QED  BY <1>4, <1>5

LEMMA LastOtherIs ==
    ASSUME NEW t, NEW n \in Nat, NEW x \in 0 .. n, x > 0 => t[x] # Space, \A i \in x + 1 .. n : t[i] = Space
    PROVE  LastOf({i \in 1 .. n : t[i] # Space}) = x
<1>1. PICK I : I = {i \in 1 .. n : t[i] # Space}
  OBVIOUS
<1>2. LastOf({i \in 1 .. n : t[i] # Space}) = IF I # {} THEN Max(I) ELSE 0
  BY <1>1 DEF LastOf
<1>3. \A i \in I : i \in Nat /\ x >= i
  BY <1>1
<1>4. CASE x = 0
  <2>1. I = {}
    BY <1>1, <1>3, <1>4
  <2> QED  BY <1>2, <1>4, <2>1
<1>5. CASE x > 0
  <2>1. x \in I
    BY <1>1, <1>5
  <2> QED  BY <1>2, <1>3, <2>1, MaxIs
<1> QED  BY <1>4, <1>5

\* The beginning of a text left of the cursor.
LEMMA Begins ==
    ASSUME NEW b, Buffer(b), NEW c \in 0 .. InputLen, NEW n \in 0 .. c
    PROVE  SubSeq(LeftOf(b, c), 1, n) = LeftOf(b, n)
<1>1. PICK l, k, s : l = LeftOf(b, c) /\ k = LeftOf(b, n) /\ s = SubSeq(l, 1, n)
  OBVIOUS
<1>2. n \in 0 .. InputLen /\ n \in Nat /\ n <= c /\ 1 <= n + 1 /\ 1 > 0 /\ 1 \in Nat
  BY InputAssumption
<1>3. l \in Text /\ Len(l) = c /\ \A i \in 1 .. c : l[i] = b[i - 1]
  BY <1>1, LeftIs
<1>4. k \in Text /\ Len(k) = n /\ \A i \in 1 .. n : k[i] = b[i - 1]
  BY <1>1, <1>2, LeftIs
<1>5. s \in Text /\ Len(s) = n + 1 - 1 /\ \A i \in 1 .. n + 1 - 1 : s[i] = l[1 + i - 1]
  BY <1>1, <1>2, <1>3, Cuts
<1>6. Len(s) = n /\ \A i \in 1 .. n : s[i] = k[i]
  <2>1. ASSUME NEW i \in 1 .. n PROVE s[i] = k[i]
    <3>1. i \in 1 .. n + 1 - 1 /\ 1 + i - 1 = i /\ i \in 1 .. c
      BY <1>2
    <3> QED  BY <1>3, <1>4, <1>5, <3>1
  <2> QED  BY <1>2, <1>5, <2>1
<1>7. s = k
  BY <1>4, <1>5, <1>6, TextsEqual
<1> QED  BY <1>1, <1>7

\* Ctrl-W takes the word before the cursor and the blanks between.
LEMMA WordGoes ==
    ASSUME Buffer(buf), cur \in 0 .. InputLen
    PROVE  WordStart \in 0 .. cur /\ Editor!LastWordGone(LeftOf(buf, cur)) = LeftOf(buf, WordStart)
<1>1. PICK t, n, m : t = LeftOf(buf, cur) /\ n = SkipBack(cur, TRUE) /\ m = SkipBack(n, FALSE)
  OBVIOUS
<1>2. t \in Text /\ Len(t) = cur /\ \A i \in 1 .. cur : t[i] = buf[i - 1]
  BY <1>1, LeftIs
<1>3. /\ n \in 0 .. cur /\ (\A i \in n .. cur - 1 : buf[i] = Space) /\ (n > 0 => buf[n - 1] # Space)
  <2>1. StopsBack(n, cur, TRUE)
    BY <1>1, SkipBackIs
  <2> QED  BY <2>1 DEF StopsBack
<1>4. n \in 0 .. InputLen /\ n \in Nat /\ cur \in Nat /\ n <= cur
  BY <1>3, InputAssumption
<1>5. /\ m \in 0 .. n /\ (\A i \in m .. n - 1 : buf[i] # Space) /\ (m > 0 => buf[m - 1] = Space)
  <2>1. StopsBack(m, n, FALSE)
    BY <1>1, <1>4, SkipBackIs
  <2> QED  BY <2>1 DEF StopsBack
<1>6. LastOf({i \in 1 .. cur : t[i] # Space}) = n
  <2>1. n > 0 => t[n] # Space
    BY <1>2, <1>3, <1>4
  <2>2. ASSUME NEW i \in n + 1 .. cur PROVE t[i] = Space
    <3>1. i \in 1 .. cur /\ i - 1 \in n .. cur - 1
      BY <1>4
    <3> QED  BY <1>2, <1>3, <3>1
  <2> QED  BY <1>3, <1>4, <2>1, <2>2, LastOtherIs
<1>7. LastOf({i \in 1 .. n : t[i] = Space}) = m
  <2>1. m > 0 => t[m] = Space
    BY <1>2, <1>4, <1>5
  <2>2. ASSUME NEW i \in m + 1 .. n PROVE t[i] # Space
    <3>1. i \in 1 .. cur /\ i - 1 \in m .. n - 1
      BY <1>4, <1>5
    <3> QED  BY <1>2, <1>5, <3>1
  <2> QED  BY <1>4, <1>5, <2>1, <2>2, LastBlankIs
<1>8. Editor!LastWordGone(t) = SubSeq(t, 1, m)
  BY <1>2, <1>6, <1>7, LastWordGoneIs
<1>9. m \in 0 .. cur
  BY <1>4, <1>5
<1>10. SubSeq(t, 1, m) = LeftOf(buf, m)
  BY <1>1, <1>9, Begins
<1>11. WordStart = m
  BY <1>1 DEF WordStart
<1> QED  BY <1>1, <1>8, <1>9, <1>10, <1>11

\* A completion takes the place of the word before the cursor.
LEMMA WordBefore ==
    ASSUME Buffer(buf), cur \in 0 .. InputLen
    PROVE  SkipBack(cur, FALSE) \in 0 .. cur /\ Editor!WordGone(LeftOf(buf, cur)) = LeftOf(buf, SkipBack(cur, FALSE))
<1>1. PICK t, n : t = LeftOf(buf, cur) /\ n = SkipBack(cur, FALSE)
  OBVIOUS
<1>2. t \in Text /\ Len(t) = cur /\ \A i \in 1 .. cur : t[i] = buf[i - 1]
  BY <1>1, LeftIs
<1>3. /\ n \in 0 .. cur /\ (\A i \in n .. cur - 1 : buf[i] # Space) /\ (n > 0 => buf[n - 1] = Space)
  <2>1. StopsBack(n, cur, FALSE)
    BY <1>1, SkipBackIs
  <2> QED  BY <2>1 DEF StopsBack
<1>4. n \in Nat /\ cur \in Nat /\ n <= cur
  BY <1>3, InputAssumption
<1>5. LastOf({i \in 1 .. cur : t[i] = Space}) = n
  <2>1. n > 0 => t[n] = Space
    BY <1>2, <1>3, <1>4
  <2>2. ASSUME NEW i \in n + 1 .. cur PROVE t[i] # Space
    <3>1. i \in 1 .. cur /\ i - 1 \in n .. cur - 1
      BY <1>4
    <3> QED  BY <1>2, <1>3, <3>1
  <2> QED  BY <1>3, <1>4, <2>1, <2>2, LastBlankIs
<1>6. Editor!WordGone(t) = SubSeq(t, 1, n)
  BY <1>2, <1>5, WordGoneIs
<1>7. SubSeq(t, 1, n) = LeftOf(buf, n)
  BY <1>1, <1>3, Begins
<1> QED  BY <1>1, <1>3, <1>6, <1>7

-----------------------------------------------------------------------------
(* The state of the editor, and its steps.                                 *)

TL == LeftOf(buf, cur)
TR == RightOf(buf, cur, len)
BackOf(h, x, p) == IF x[p] < 0 THEN 0 ELSE Len(h[p]) - x[p]
TB == BackOf(history, index, InUse)

LEMMA AsType ==
    ASSUME TL' # <<>>, SubSeq(TL', 1, Len(TL') - 1) = TL, TL'[Len(TL')] \in 0 .. 255,
           Len(TL') + Len(TR) <= InputLen - 1,
           TR' = TR, history' = history, InUse' = InUse, TB' = TB, handed' = handed
    PROVE  Editor!LineNext
<1>1. Editor!Type
  BY DEF Editor!Type, Editor!Front, Editor!Last, TL, TR, TB, LeftOf, RightOf, BackOf
<1> QED  BY <1>1 DEF Editor!LineNext

LEMMA AsGo ==
    ASSUME TL' \o TR' = TL \o TR, history' = history, InUse' = InUse, TB' = TB, handed' = handed
    PROVE  Editor!LineNext
<1>1. Editor!Go
  BY DEF Editor!Go, Editor!Whole, TL, TR, TB, LeftOf, RightOf, BackOf
<1> QED  BY <1>1 DEF Editor!LineNext

LEMMA AsErase ==
    ASSUME \/ TL # <<>> /\ TL' \in {SubSeq(TL, 1, Len(TL) - 1), Editor!LastWordGone(TL)} /\ TR' = TR
           \/ TR # <<>> /\ TR' \in {Tail(TR), <<>>} /\ TL' = TL
           \/ TL' = <<>> /\ TR' = <<>>,
           history' = history, InUse' = InUse, TB' = TB, handed' = handed
    PROVE  Editor!LineNext
<1>1. Editor!Erase
  BY DEF Editor!Erase, Editor!Front, TL, TR, TB, LeftOf, RightOf, BackOf
<1> QED  BY <1>1 DEF Editor!LineNext

LEMMA AsComplete ==
    ASSUME TL # <<>>, NEW words \in Offers, NEW w \in Range(words), NEW n \in 1 .. InputLen - 1,
           NEW done, done = Editor!WordGone(TL) \o SubSeq(w, 1, IF n > Len(w) THEN Len(w) ELSE n),
           TL' \in {done, Append(done, Space)}, Len(TL' \o TR) <= InputLen - 1,
           TR' = TR, history' = history, InUse' = InUse, TB' = TB, handed' = handed
    PROVE  Editor!LineNext
<1>1. w \in UNION {Range(ws) : ws \in Offers}
  OBVIOUS
<1>2. Editor!Complete
  BY <1>1 DEF Editor!Complete, TL, TR, TB, LeftOf, RightOf, BackOf
<1> QED  BY <1>2 DEF Editor!LineNext

LEMMA AsRecall ==
    ASSUME history[InUse] # <<>>, NEW n, NEW m, m = Len(history[InUse]),
           \/ n = IF TB < m THEN TB + 1 ELSE TB
           \/ n = IF TB > 0 THEN TB - 1 ELSE 0,
           TB' = n, TL' = IF n = 0 THEN <<>> ELSE history[InUse][m - n + 1], TR' = <<>>,
           history' = history, InUse' = InUse, handed' = handed
    PROVE  Editor!LineNext
<1>1. CASE n = IF TB < m THEN TB + 1 ELSE TB
  <2>1. Editor!Older
    BY <1>1 DEF Editor!Older, Editor!Recall, TL, TR, TB, LeftOf, RightOf, BackOf
  <2> QED  BY <2>1 DEF Editor!LineNext
<1>2. CASE n = IF TB > 0 THEN TB - 1 ELSE 0
  <2>1. Editor!Newer
    BY <1>2 DEF Editor!Newer, Editor!Recall, TL, TR, TB, LeftOf, RightOf, BackOf
  <2> QED  BY <2>1 DEF Editor!LineNext
<1> QED  BY <1>1, <1>2

\* What is remembered of a place is what a step wanted, or nothing where windows go.
Forgot(h, lines) == \A p \in Places : h[p] = lines[p] \/ (p # "shared" /\ h[p] = <<>>)

LEMMA AsElsewhere ==
    ASSUME Forgot(history', history), TL' = TL, TR' = TR, handed' = handed
    PROVE  Editor!LineNext
<1>1. Editor!Elsewhere
  BY DEF Editor!Elsewhere, Editor!Forgets, Forgot, TL, TR, LeftOf, RightOf
<1> QED  BY <1>1 DEF Editor!LineNext

LEMMA AsKeptBack ==
    ASSUME TL' = <<>>, TR' = <<>>, history' = history, InUse' = InUse, TB' = TB, handed' = handed
    PROVE  Editor!LineNext
<1>1. Editor!Enter
  BY DEF Editor!Enter, TL, TR, TB, LeftOf, RightOf, BackOf
<1> QED  BY <1>1 DEF Editor!LineNext

LEMMA AsEnter ==
    ASSUME TL' = <<>>, TR' = <<>>, TL \o TR # <<>>, NEW line, line = Editor!Upto(TL \o TR), handed' = line,
           Forgot(history', IF line = <<>> THEN history
                            ELSE [history EXCEPT ![InUse] = Editor!Kept(Append(history[InUse], line))]),
           InUse' \in Places,
           InUse' = InUse /\ history'[InUse] # <<>> /\ line # <<>> => TB' = 0
    PROVE  Editor!LineNext
<1>1. Editor!Enter
  BY DEF Editor!Enter, Editor!Whole, Editor!Forgets, Forgot, TL, TR, TB, LeftOf, RightOf, BackOf
<1> QED  BY <1>1 DEF Editor!LineNext

-----------------------------------------------------------------------------
(* What the moves of memory do to the text.                                *)

Typing(b, n, c) == Buffer(b) /\ n \in 0 .. InputLen - 1 /\ c \in 0 .. n

LEMMA SameLeft ==
    ASSUME NEW b, Buffer(b), NEW d, Buffer(d), NEW c \in 0 .. InputLen, \A i \in 0 .. c - 1 : d[i] = b[i]
    PROVE  LeftOf(d, c) = LeftOf(b, c)
<1>1. PICK l, k : l = LeftOf(d, c) /\ k = LeftOf(b, c)
  OBVIOUS
<1>2. /\ l \in Text /\ Len(l) = c /\ (\A i \in 1 .. c : l[i] = d[i - 1])
      /\ k \in Text /\ Len(k) = c /\ (\A i \in 1 .. c : k[i] = b[i - 1])
  BY <1>1, LeftIs
<1>3. \A i \in 1 .. c : i - 1 \in 0 .. c - 1
  BY InputAssumption
<1>4. \A i \in 1 .. c : l[i] = k[i]
  BY <1>2, <1>3
<1>5. l = k
  BY <1>2, <1>4, TextsEqual
<1> QED  BY <1>1, <1>5

\* k bytes of b from c on are those of d from e on.
SameBytes(b, c, d, e, k) == \A i \in 0 .. k - 1 : d[e + i] = b[c + i]

\* What follows one cursor is what follows another.
AlikeRight(b, c, n, d, e, m) ==
    /\ Buffer(b) /\ Buffer(d) /\ n \in 0 .. InputLen /\ c \in 0 .. n /\ m \in 0 .. InputLen /\ e \in 0 .. m
    /\ m - e = n - c /\ SameBytes(b, c, d, e, n - c)

LEMMA SameRight ==
    ASSUME NEW b, NEW c, NEW n, NEW d, NEW e, NEW m, AlikeRight(b, c, n, d, e, m)
    PROVE  RightOf(d, e, m) = RightOf(b, c, n)
<1>1. /\ Buffer(b) /\ Buffer(d) /\ n \in 0 .. InputLen /\ c \in 0 .. n /\ m \in 0 .. InputLen /\ e \in 0 .. m
      /\ m - e = n - c /\ SameBytes(b, c, d, e, n - c)
  BY DEF AlikeRight
<1>2. PICK l, k : l = RightOf(d, e, m) /\ k = RightOf(b, c, n)
  OBVIOUS
<1>3. k \in Text /\ Len(k) = n - c /\ \A i \in 1 .. n - c : k[i] = b[c + i - 1]
  BY <1>1, <1>2, RightIs
<1>4. l \in Text /\ Len(l) = m - e /\ \A i \in 1 .. m - e : l[i] = d[e + i - 1]
  BY <1>1, <1>2, RightIs
<1>5. ASSUME NEW i \in 1 .. n - c PROVE l[i] = k[i]
  <2>1. i - 1 \in 0 .. n - c - 1 /\ e + (i - 1) = e + i - 1 /\ c + (i - 1) = c + i - 1 /\ i \in 1 .. m - e
    BY <1>1, InputAssumption
  <2>2. d[e + (i - 1)] = b[c + (i - 1)]
    BY <1>1, <2>1 DEF SameBytes
  <2> QED  BY <1>3, <1>4, <2>1, <2>2
<1>6. Len(l) = Len(k) /\ \A i \in 1 .. Len(l) : l[i] = k[i]
  BY <1>1, <1>3, <1>4, <1>5
<1>7. l = k
  BY <1>3, <1>4, <1>6, TextsEqual
<1> QED  BY <1>2, <1>7

\* f is b with k bytes moved.
BytesMove(f, b, to, from, k) ==
    \A i \in 0 .. InputLen - 1 : f[i] = IF i >= to /\ i < to + k THEN b[i - to + from] ELSE b[i]

LEMMA MemMoveIs ==
    ASSUME NEW b, Buffer(b), NEW to \in Nat, NEW from \in Nat, NEW k \in Nat, from + k <= InputLen
    PROVE  Buffer(MemMove(b, to, from, k)) /\ BytesMove(MemMove(b, to, from, k), b, to, from, k)
<1>1. PICK f, h : f = MemMove(b, to, from, k) /\ h = InputLen
  OBVIOUS
<1>2. h \in Nat /\ b \in [0 .. h - 1 -> Byte]
  BY <1>1, InputAssumption DEF Buffer
<1>3. f = [i \in 0 .. h - 1 |-> IF i >= to /\ i < to + k THEN b[i - to + from] ELSE b[i]]
  BY <1>1, <1>2 DEF MemMove
<1>4. ASSUME NEW i \in 0 .. h - 1 PROVE f[i] \in Byte
  <2>1. CASE i >= to /\ i < to + k
    <3>1. i - to + from \in 0 .. h - 1
      BY <1>1, <1>2, <2>1
    <3> QED  BY <1>2, <1>3, <2>1, <3>1
  <2>2. CASE ~(i >= to /\ i < to + k)
    BY <1>2, <1>3, <2>2
  <2> QED  BY <2>1, <2>2
<1>5. f \in [0 .. h - 1 -> Byte]
  BY <1>3, <1>4
<1> QED  BY <1>1, <1>3, <1>5 DEF Buffer, BytesMove

LEMMA SetIs ==
    ASSUME NEW b, Buffer(b), NEW c \in 0 .. InputLen - 1, NEW x \in Byte
    PROVE  /\ Buffer([b EXCEPT ![c] = x]) /\ [b EXCEPT ![c] = x][c] = x
           /\ \A i \in 0 .. InputLen - 1 : i # c => [b EXCEPT ![c] = x][i] = b[i]
BY DEF Buffer

LEMMA TypingIs ==
    ASSUME NEW b, NEW n, NEW c, Typing(b, n, c)
    PROVE  /\ Buffer(b) /\ n \in Nat /\ c \in Nat /\ c <= n /\ n < InputLen /\ InputLen \in Nat
           /\ n \in 0 .. InputLen /\ c \in 0 .. InputLen /\ c \in 0 .. n
BY InputAssumption DEF Typing

\* A byte typed.
WithByte(b, n, c, x) == [MemMove(b, c + 1, c, n - c + 1) EXCEPT ![c] = x]

LEMMA Inserts ==
    ASSUME NEW b, NEW n, NEW c, Typing(b, n, c), n < InputLen - 1, NEW x \in Byte,
           NEW d, d = WithByte(b, n, c, x)
    PROVE  /\ Typing(d, n + 1, c + 1) /\ LeftOf(d, c) = LeftOf(b, c)
           /\ LeftOf(d, c + 1)[c + 1] = x /\ RightOf(d, c + 1, n + 1) = RightOf(b, c, n)
<1>1. PICK h : h = InputLen
  OBVIOUS
<1>2. /\ Buffer(b) /\ n \in Nat /\ c \in Nat /\ c <= n /\ n < h - 1 /\ h \in Nat
      /\ n \in 0 .. h /\ c \in 0 .. h /\ c \in 0 .. n
  BY <1>1, TypingIs
<1>3. PICK to, k : to = c + 1 /\ k = n - c + 1
  OBVIOUS
<1>4. to \in Nat /\ k \in Nat /\ c + k <= h /\ to + k <= h /\ c \in 0 .. h - 1
  BY <1>2, <1>3
<1>5. PICK e : e = MemMove(b, to, c, k)
  OBVIOUS
<1>6. Buffer(e) /\ \A i \in 0 .. h - 1 : e[i] = IF i >= to /\ i < to + k THEN b[i - to + c] ELSE b[i]
  <2>1. Buffer(b) /\ to \in Nat /\ c \in Nat /\ k \in Nat /\ c + k <= InputLen
    BY <1>1, <1>2, <1>4
  <2>2. Buffer(e) /\ BytesMove(e, b, to, c, k)
    BY <1>5, <2>1, MemMoveIs
  <2> QED  BY <1>1, <2>2 DEF BytesMove
<1>7. d = [e EXCEPT ![c] = x]
  BY <1>3, <1>5 DEF WithByte
<1>8. Buffer(d) /\ d[c] = x /\ \A i \in 0 .. h - 1 : i # c => d[i] = e[i]
  <2>1. Buffer(e) /\ c \in 0 .. InputLen - 1 /\ x \in Byte
    BY <1>1, <1>4, <1>6
  <2>2. /\ Buffer([e EXCEPT ![c] = x]) /\ [e EXCEPT ![c] = x][c] = x
        /\ \A i \in 0 .. InputLen - 1 : i # c => [e EXCEPT ![c] = x][i] = e[i]
    BY <2>1, SetIs
  <2> QED  BY <1>1, <1>7, <2>2
<1>9. c + 1 \in 0 .. h /\ n + 1 \in 0 .. h /\ c + 1 \in 0 .. n + 1 /\ n + 1 \in 0 .. h - 1
  BY <1>2
<1>10. Typing(d, n + 1, c + 1)
  BY <1>1, <1>8, <1>9 DEF Typing
<1>11. LeftOf(d, c) = LeftOf(b, c)
  <2>1. ASSUME NEW i \in 0 .. c - 1 PROVE d[i] = b[i]
    <3>1. i \in 0 .. h - 1 /\ i # c /\ ~(i >= to)
      BY <1>2, <1>3
    <3> QED  BY <1>6, <1>8, <3>1
  <2> QED  BY <1>1, <1>2, <1>8, <2>1, SameLeft
<1>12. LeftOf(d, c + 1)[c + 1] = x
  <2>1. \A i \in 1 .. c + 1 : LeftOf(d, c + 1)[i] = d[i - 1]
    BY <1>1, <1>8, <1>9, LeftIs
  <2>2. c + 1 \in 1 .. c + 1 /\ (c + 1) - 1 = c
    BY <1>2
  <2> QED  BY <1>8, <2>1, <2>2
<1>13. RightOf(d, c + 1, n + 1) = RightOf(b, c, n)
  <2>1. ASSUME NEW i \in 0 .. n - c - 1 PROVE d[c + 1 + i] = b[c + i]
    <3>1. PICK j \in 0 .. h - 1 : j = c + 1 + i /\ j # c /\ j >= to /\ j < to + k /\ j - to + c = c + i
      BY <1>2, <1>3
    <3>2. d[j] = e[j] /\ e[j] = b[j - to + c]
      BY <1>6, <1>8, <3>1
    <3> QED  BY <3>1, <3>2
  <2>2. (n + 1) - (c + 1) = n - c
    BY <1>2
  <2>3. PICK f, m : f = c + 1 /\ m = n + 1
    OBVIOUS
  <2>4. f \in 0 .. m /\ m \in 0 .. InputLen /\ m - f = n - c /\ n \in 0 .. InputLen
    BY <1>1, <1>2, <1>9, <2>2, <2>3
  <2>5. SameBytes(b, c, d, f, n - c)
    BY <2>1, <2>3 DEF SameBytes
  <2>6. RightOf(d, f, m) = RightOf(b, c, n)
    <3>1. Buffer(b) /\ Buffer(d) /\ c \in 0 .. n
      BY <1>2, <1>8
    <3>2. AlikeRight(b, c, n, d, f, m)
      BY <2>4, <2>5, <3>1 DEF AlikeRight
    <3> QED  BY <3>2, SameRight
  <2> QED  BY <2>3, <2>6
<1> QED  BY <1>10, <1>11, <1>12, <1>13

\* Nothing is left of the beginning and right of the end.
LEMMA AtTheEnds ==
    ASSUME NEW b, Buffer(b), NEW n \in 0 .. InputLen
    PROVE  LeftOf(b, 0) = <<>> /\ RightOf(b, n, n) = <<>>
<1>1. 0 \in 0 .. InputLen /\ n \in 0 .. n /\ n - n = 0
  BY InputAssumption
<1>2. LeftOf(b, 0) \in Text /\ Len(LeftOf(b, 0)) = 0
  BY <1>1, LeftIs
<1>3. RightOf(b, n, n) \in Text /\ Len(RightOf(b, n, n)) = 0
  BY <1>1, RightIs
<1> QED  BY <1>2, <1>3, TextIs

\* Something is left of a cursor that is not at the beginning.
LEMMA NotAtTheEnds ==
    ASSUME NEW b, Buffer(b), NEW n \in 0 .. InputLen, NEW c \in 0 .. n
    PROVE  (c > 0 => LeftOf(b, c) # <<>>) /\ (c < n => RightOf(b, c, n) # <<>>)
<1>1. c \in 0 .. InputLen /\ c \in Nat /\ n \in Nat
  BY InputAssumption
<1>2. LeftOf(b, c) \in Text /\ Len(LeftOf(b, c)) = c
  BY <1>1, LeftIs
<1>3. RightOf(b, c, n) \in Text /\ Len(RightOf(b, c, n)) = n - c
  BY RightIs
<1>4. (c > 0 => c # 0) /\ (c < n => n - c # 0)
  BY <1>1
<1> QED  BY <1>2, <1>3, <1>4, TextIs

\* The byte under the cursor is the first of what follows.
LEMMA TailOf ==
    ASSUME NEW b, Buffer(b), NEW n \in 0 .. InputLen, NEW c \in 0 .. n, c < n
    PROVE  Tail(RightOf(b, c, n)) = RightOf(b, c + 1, n)
<1>1. PICK r, q, t : r = RightOf(b, c, n) /\ q = RightOf(b, c + 1, n) /\ t = Tail(r)
  OBVIOUS
<1>2. c \in Nat /\ n \in Nat /\ c + 1 \in 0 .. n /\ n - (c + 1) = (n - c) - 1 /\ n - c > 0
  BY InputAssumption
<1>3. r \in Text /\ Len(r) = n - c /\ \A i \in 1 .. n - c : r[i] = b[c + i - 1]
  BY <1>1, RightIs
<1>4. q \in Text /\ Len(q) = n - (c + 1) /\ \A i \in 1 .. n - (c + 1) : q[i] = b[(c + 1) + i - 1]
  BY <1>1, <1>2, RightIs
<1>5. t \in Text /\ Len(t) = (n - c) - 1 /\ \A i \in 1 .. (n - c) - 1 : t[i] = r[i + 1]
  <2>1. PICK T : T = Byte
    OBVIOUS
  <2>2. r \in Seq(T) /\ r # <<>>
    BY <1>2, <1>3, <2>1, TextIs DEF Text
  <2>3. t \in Seq(T) /\ Len(t) = Len(r) - 1 /\ \A i \in 1 .. Len(r) - 1 : t[i] = r[i + 1]
    BY <1>1, <2>2
  <2> QED  BY <1>3, <2>1, <2>3 DEF Text
<1>6. ASSUME NEW i \in 1 .. (n - c) - 1 PROVE t[i] = q[i]
  <2>1. i + 1 \in 1 .. n - c /\ c + (i + 1) - 1 = (c + 1) + i - 1 /\ i \in 1 .. n - (c + 1)
    BY <1>2
  <2>2. t[i] = r[i + 1] /\ r[i + 1] = b[c + (i + 1) - 1] /\ q[i] = b[(c + 1) + i - 1]
    BY <1>3, <1>4, <1>5, <2>1
  <2> QED  BY <2>1, <2>2
<1>7. t = q
  BY <1>2, <1>4, <1>5, <1>6, TextsEqual
<1> QED  BY <1>1, <1>7

\* The end of the line is put at the cursor, or at the beginning.
EndedAt(b, e) == [b EXCEPT ![e] = Nul]

LEMMA Ends ==
    ASSUME NEW b, NEW n, NEW c, Typing(b, n, c), NEW e \in 0 .. c, NEW d, d = EndedAt(b, e)
    PROVE  Typing(d, e, e) /\ LeftOf(d, e) = LeftOf(b, e) /\ RightOf(d, e, e) = <<>>
<1>1. PICK h : h = InputLen
  OBVIOUS
<1>2. /\ Buffer(b) /\ n \in Nat /\ c \in Nat /\ c <= n /\ n < h /\ h \in Nat
  BY <1>1, TypingIs
<1>3. e \in Nat /\ e \in 0 .. InputLen - 1 /\ e \in 0 .. InputLen /\ e \in 0 .. e /\ Nul \in Byte
  BY <1>1, <1>2 DEF Nul, Byte
<1>4. Buffer(d) /\ \A i \in 0 .. InputLen - 1 : i # e => d[i] = b[i]
  <2>1. /\ Buffer([b EXCEPT ![e] = Nul])
        /\ \A i \in 0 .. InputLen - 1 : i # e => [b EXCEPT ![e] = Nul][i] = b[i]
    BY <1>2, <1>3, SetIs
  <2> QED  BY <2>1 DEF EndedAt
<1>5. Typing(d, e, e)
  BY <1>3, <1>4 DEF Typing
<1>6. ASSUME NEW i \in 0 .. e - 1 PROVE d[i] = b[i]
  <2>1. i \in 0 .. InputLen - 1 /\ i # e
    BY <1>1, <1>2, <1>3
  <2> QED  BY <1>4, <2>1
<1>7. LeftOf(d, e) = LeftOf(b, e)
  BY <1>2, <1>3, <1>4, <1>6, SameLeft
<1>8. RightOf(d, e, e) = <<>>
  BY <1>3, <1>4, AtTheEnds
<1> QED  BY <1>5, <1>7, <1>8

\* What is between two places goes.
LEMMA TakesAway ==
    ASSUME NEW b, NEW n, NEW c, Typing(b, n, c), NEW e \in 0 .. c,
           NEW d, d = MemMove(b, e, c, n - c + 1), NEW m, m = n - (c - e)
    PROVE  Typing(d, m, e) /\ LeftOf(d, e) = LeftOf(b, e) /\ RightOf(d, e, m) = RightOf(b, c, n)
<1>1. PICK h : h = InputLen
  OBVIOUS
<1>2. /\ Buffer(b) /\ n \in Nat /\ c \in Nat /\ c <= n /\ n < h /\ h \in Nat
      /\ n \in 0 .. h /\ c \in 0 .. h /\ c \in 0 .. n
  BY <1>1, TypingIs
<1>3. e \in Nat /\ e <= c /\ e \in 0 .. h /\ m \in Nat /\ m <= n /\ m \in 0 .. h - 1 /\ e \in 0 .. m /\ m - e = n - c
  BY <1>2
<1>4. PICK k : k = n - c + 1
  OBVIOUS
<1>5. k \in Nat /\ c + k <= h
  BY <1>2, <1>4
<1>6. Buffer(d) /\ \A i \in 0 .. h - 1 : d[i] = IF i >= e /\ i < e + k THEN b[i - e + c] ELSE b[i]
  <2>1. Buffer(b) /\ e \in Nat /\ c \in Nat /\ k \in Nat /\ c + k <= InputLen
    BY <1>1, <1>2, <1>3, <1>5
  <2>2. Buffer(d) /\ BytesMove(d, b, e, c, k)
    BY <1>4, <2>1, MemMoveIs
  <2> QED  BY <1>1, <2>2 DEF BytesMove
<1>7. Typing(d, m, e)
  BY <1>1, <1>3, <1>6 DEF Typing
<1>8. LeftOf(d, e) = LeftOf(b, e)
  <2>1. ASSUME NEW i \in 0 .. e - 1 PROVE d[i] = b[i]
    <3>1. i \in 0 .. h - 1 /\ ~(i >= e)
      BY <1>2, <1>3
    <3> QED  BY <1>6, <3>1
  <2>2. e \in 0 .. InputLen
    BY <1>1, <1>3
  <2> QED  BY <1>2, <1>6, <2>1, <2>2, SameLeft
<1>9. RightOf(d, e, m) = RightOf(b, c, n)
  <2>1. ASSUME NEW i \in 0 .. n - c - 1 PROVE d[e + i] = b[c + i]
    <3>1. PICK j \in 0 .. h - 1 : j = e + i /\ j >= e /\ j < e + k /\ j - e + c = c + i
      BY <1>2, <1>3, <1>4
    <3>2. d[j] = b[j - e + c]
      BY <1>6, <3>1
    <3> QED  BY <3>1, <3>2
  <2>2. SameBytes(b, c, d, e, n - c)
    BY <2>1 DEF SameBytes
  <2>3. m \in 0 .. InputLen /\ n \in 0 .. InputLen
    BY <1>1, <1>2, <1>3
  <2>4. AlikeRight(b, c, n, d, e, m)
    BY <1>2, <1>3, <1>6, <2>2, <2>3 DEF AlikeRight
  <2> QED  BY <2>4, SameRight
<1> QED  BY <1>7, <1>8, <1>9

\* A line put into the buffer.
WithLine(b, line) ==
    [i \in DOMAIN b |-> IF i < Len(line) THEN line[i + 1] ELSE IF i = Len(line) THEN Nul ELSE b[i]]

LEMMA PutsLine ==
    ASSUME NEW b, Buffer(b), NEW line \in Text, Len(line) <= InputLen - 1, NEW d, d = WithLine(b, line)
    PROVE  Typing(d, Len(line), Len(line)) /\ LeftOf(d, Len(line)) = line /\ RightOf(d, Len(line), Len(line)) = <<>>
<1>1. PICK h, n : h = InputLen /\ n = Len(line)
  OBVIOUS
<1>2. h \in Nat /\ n \in Nat /\ n <= h - 1 /\ n \in 0 .. h /\ n \in 0 .. h - 1 /\ n \in 0 .. n
  BY <1>1, InputAssumption, TextIs
<1>3. b \in [0 .. h - 1 -> Byte] /\ Nul \in Byte /\ \A i \in 1 .. n : line[i] \in Byte
  <2>1. \A i \in 1 .. n : line[i] \in Byte
    BY <1>1, TextIs
  <2>2. Nul \in Byte
    BY DEF Nul, Byte
  <2> QED  BY <1>1, <2>1, <2>2 DEF Buffer
<1>4. d = [i \in 0 .. h - 1 |-> IF i < n THEN line[i + 1] ELSE IF i = n THEN Nul ELSE b[i]]
  BY <1>1, <1>3 DEF WithLine
<1>5. ASSUME NEW i \in 0 .. h - 1 PROVE d[i] \in Byte
  <2>1. CASE i < n
    <3>1. i + 1 \in 1 .. n
      BY <1>2, <2>1
    <3> QED  BY <1>3, <1>4, <2>1, <3>1
  <2>2. CASE ~(i < n)
    BY <1>3, <1>4, <2>2
  <2> QED  BY <2>1, <2>2
<1>6. Buffer(d)
  BY <1>1, <1>4, <1>5 DEF Buffer
<1>7. PICK l : l = LeftOf(d, n)
  OBVIOUS
<1>8. l \in Text /\ Len(l) = n /\ \A i \in 1 .. n : l[i] = d[i - 1]
  BY <1>1, <1>2, <1>6, <1>7, LeftIs
<1>9. ASSUME NEW i \in 1 .. n PROVE l[i] = line[i]
  <2>1. i - 1 \in 0 .. h - 1 /\ i - 1 < n /\ (i - 1) + 1 = i
    BY <1>2
  <2> QED  BY <1>4, <1>8, <2>1
<1>10. l = line
  BY <1>1, <1>8, <1>9, TextsEqual
<1>11. RightOf(d, n, n) = <<>>
  BY <1>1, <1>2, <1>6, AtTheEnds
<1>12. Typing(d, n, n)
  BY <1>1, <1>2, <1>6 DEF Typing
<1> QED  BY <1>1, <1>7, <1>10, <1>11, <1>12

\* A word takes the place of what is between e and the cursor.
WithWord(b, n, c, e, word) ==
    [i \in DOMAIN b |-> IF i >= e /\ i < e + Len(word) THEN word[i - e + 1]
                        ELSE MemMove(b, e + Len(word), c, n - c + 1)[i]]

\* It ends at f, the line at m.
Replaces(b, n, c, e, word, f, m) ==
    /\ Typing(b, n, c) /\ e \in 0 .. c /\ word \in Text
    /\ f = e + Len(word) /\ m \in Int /\ m - f = n - c /\ f + (n - c + 1) <= InputLen

LEMMA PutsWord ==
    ASSUME NEW b, NEW n, NEW c, NEW e, NEW word, NEW f, NEW m, Replaces(b, n, c, e, word, f, m),
           NEW d, d = WithWord(b, n, c, e, word)
    PROVE  Typing(d, m, f) /\ LeftOf(d, f) = LeftOf(b, e) \o word /\ RightOf(d, f, m) = RightOf(b, c, n)
<1>1. PICK h, k, p : h = InputLen /\ k = n - c + 1 /\ p = Len(word)
  OBVIOUS
<1>2. f = e + p /\ m \in Int /\ m - f = n - c /\ f + k <= h
  BY <1>1 DEF Replaces
<1>3. Typing(b, n, c) /\ e \in 0 .. c /\ word \in Text
  BY DEF Replaces
<1>4. /\ Buffer(b) /\ n \in Nat /\ c \in Nat /\ c <= n /\ n < h /\ h \in Nat
      /\ n \in 0 .. h /\ c \in 0 .. h /\ c \in 0 .. n
  BY <1>1, <1>3, TypingIs
<1>5. p \in Nat /\ \A i \in 1 .. p : word[i] \in Byte
  BY <1>1, <1>3, TextIs
<1>6. e \in Nat /\ e <= c /\ e \in 0 .. h /\ f \in Nat /\ k \in Nat /\ c + k <= h /\ f + k <= h
  BY <1>1, <1>4, <1>5, <1>2, <1>3
<1>7. m - f = n - c /\ m \in Nat /\ m \in 0 .. h - 1 /\ m \in 0 .. h /\ f \in 0 .. m /\ f \in 0 .. h
  BY <1>1, <1>4, <1>5, <1>6, <1>2
<1>8. PICK a : a = MemMove(b, f, c, k)
  OBVIOUS
<1>9. Buffer(a) /\ \A i \in 0 .. h - 1 : a[i] = IF i >= f /\ i < f + k THEN b[i - f + c] ELSE b[i]
  <2>1. Buffer(b) /\ f \in Nat /\ c \in Nat /\ k \in Nat /\ c + k <= InputLen
    BY <1>1, <1>4, <1>6
  <2>2. Buffer(a) /\ BytesMove(a, b, f, c, k)
    BY <1>8, <2>1, MemMoveIs
  <2> QED  BY <1>1, <2>2 DEF BytesMove
<1>10. d = [i \in 0 .. h - 1 |-> IF i >= e /\ i < f THEN word[i - e + 1] ELSE a[i]]
  BY <1>1, <1>4, <1>8, <1>2 DEF WithWord, Buffer
<1>11. ASSUME NEW i \in 0 .. h - 1 PROVE d[i] \in Byte
  <2>1. CASE i >= e /\ i < f
    <3>1. i - e + 1 \in 1 .. p
      BY <1>5, <1>6, <1>2, <2>1
    <3> QED  BY <1>5, <1>10, <2>1, <3>1
  <2>2. CASE ~(i >= e /\ i < f)
    BY <1>1, <1>9, <1>10, <2>2 DEF Buffer
  <2> QED  BY <2>1, <2>2
<1>12. Buffer(d)
  BY <1>1, <1>10, <1>11 DEF Buffer
<1>13. Typing(d, m, f)
  BY <1>1, <1>7, <1>12 DEF Typing
<1>14. RightOf(d, f, m) = RightOf(b, c, n)
  <2>1. ASSUME NEW i \in 0 .. n - c - 1 PROVE d[f + i] = b[c + i]
    <3>1. PICK j \in 0 .. h - 1 : j = f + i /\ j >= f /\ j < f + k /\ j - f + c = c + i /\ ~(j < f)
      BY <1>1, <1>4, <1>6
    <3>2. d[j] = a[j] /\ a[j] = b[j - f + c]
      BY <1>9, <1>10, <3>1
    <3> QED  BY <3>1, <3>2
  <2>2. SameBytes(b, c, d, f, n - c)
    BY <2>1 DEF SameBytes
  <2>3. m \in 0 .. InputLen /\ n \in 0 .. InputLen
    BY <1>1, <1>4, <1>7
  <2>4. f \in 0 .. m /\ m - f = n - c /\ c \in 0 .. n /\ Buffer(b)
    BY <1>4, <1>7
  <2>5. Buffer(b) /\ Buffer(d)
    BY <1>4, <1>12
  <2>6. AlikeRight(b, c, n, d, f, m)
    BY <2>2, <2>3, <2>4, <2>5 DEF AlikeRight
  <2> QED  BY <2>6, SameRight
<1>15. LeftOf(d, f) = LeftOf(b, e) \o word
  <2>1. PICK l, r, j : l = LeftOf(d, f) /\ r = LeftOf(b, e) /\ j = r \o word
    OBVIOUS
  <2>2. l \in Text /\ Len(l) = f /\ \A i \in 1 .. f : l[i] = d[i - 1]
    BY <1>1, <1>7, <1>12, <2>1, LeftIs
  <2>3. r \in Text /\ Len(r) = e /\ \A i \in 1 .. e : r[i] = b[i - 1]
    BY <1>1, <1>4, <1>6, <2>1, LeftIs
  <2>4. /\ j \in Text /\ Len(j) = f /\ (\A i \in 1 .. e : j[i] = r[i])
        /\ \A i \in e + 1 .. f : j[i] = word[i - e]
    <3>1. /\ j \in Text /\ Len(j) = Len(r) + Len(word) /\ (\A i \in 1 .. Len(r) : j[i] = r[i])
          /\ \A i \in Len(r) + 1 .. Len(r) + Len(word) : j[i] = word[i - Len(r)]
      BY <1>3, <2>1, <2>3, Joins
    <3> QED  BY <1>1, <1>2, <2>3, <3>1
  <2>5. ASSUME NEW i \in 1 .. f PROVE l[i] = j[i]
    <3>1. i - 1 \in 0 .. h - 1 /\ l[i] = d[i - 1]
      BY <1>1, <1>4, <1>6, <2>2
    <3>2. CASE i <= e
      <4>1. i \in 1 .. e /\ ~(i - 1 >= e) /\ ~(i - 1 >= f)
        BY <1>5, <1>6, <1>2, <3>2
      <4>2. d[i - 1] = b[i - 1]
        BY <1>9, <1>10, <3>1, <4>1
      <4> QED  BY <2>3, <2>4, <3>1, <4>1, <4>2
    <3>3. CASE ~(i <= e)
      <4>1. i \in e + 1 .. f /\ i - 1 >= e /\ i - 1 < f /\ (i - 1) - e + 1 = i - e
        BY <1>6, <3>3
      <4>2. d[i - 1] = word[(i - 1) - e + 1]
        BY <1>10, <3>1, <4>1
      <4> QED  BY <2>4, <3>1, <4>1, <4>2
    <3> QED  BY <3>2, <3>3
  <2>6. l = j
    BY <2>2, <2>4, <2>5, TextsEqual
  <2> QED  BY <2>1, <2>6
<1> QED  BY <1>1, <1>13, <1>14, <1>15

-----------------------------------------------------------------------------
(* The keys that edit the line.                                            *)

\* The line after a step is well-formed, and the editor takes a step.
Edited == Typing(buf', len', cur') /\ Editor!LineNext

LEMMA Untouched ==
    ASSUME UNCHANGED screenVars, Unedited
    PROVE  history' = history /\ InUse' = InUse /\ TB' = TB /\ handed' = handed
<1>1. history' = history /\ index' = index /\ handed' = handed /\ shared' = shared
  BY DEF Unedited
<1>2. InUse' = InUse
  BY <1>1 DEF InUse, Scope, ActiveTitle, screenVars
<1> QED  BY <1>1, <1>2 DEF TB, BackOf

LEMMA InsertStep ==
    ASSUME Typing(buf, len, cur), NEW x \in Typed \cup Formats, Insert(x), UNCHANGED screenVars
    PROVE  Edited
<1>1. PICK y : y = x % 256
  OBVIOUS
<1>2. y \in Byte
  <2>1. x \in Int
    BY InputAssumption
  <2> QED  BY <1>1, <2>1 DEF Byte
<1>3. PICK b, n, c, d : b = buf /\ n = len /\ c = cur /\ d = buf'
  OBVIOUS
<1>4. Typing(b, n, c) /\ n < InputLen - 1 /\ d = WithByte(b, n, c, y) /\ len' = n + 1 /\ cur' = c + 1
  BY <1>1, <1>3 DEF Insert, GapOpened, WithByte
<1>5. /\ Typing(d, n + 1, c + 1) /\ LeftOf(d, c) = LeftOf(b, c)
      /\ LeftOf(d, c + 1)[c + 1] = y /\ RightOf(d, c + 1, n + 1) = RightOf(b, c, n)
  BY <1>2, <1>4, Inserts
<1>6. TL = LeftOf(b, c) /\ TL' = LeftOf(d, c + 1) /\ TR = RightOf(b, c, n) /\ TR' = TR
  BY <1>3, <1>4, <1>5 DEF TL, TR
<1>7. Buffer(d) /\ Buffer(b) /\ n \in Nat /\ c \in Nat /\ c <= n /\ InputLen \in Nat
      /\ c + 1 \in 0 .. InputLen /\ c \in 0 .. c + 1 /\ n \in 0 .. InputLen /\ c \in 0 .. n /\ (c + 1) - 1 = c
  BY <1>4, <1>5, TypingIs
<1>8. TL' \in Text /\ Len(TL') = c + 1
  BY <1>6, <1>7, LeftIs
<1>9. TL' # <<>>
  BY <1>7, <1>8, TextIs
<1>10. SubSeq(TL', 1, Len(TL') - 1) = TL
  BY <1>5, <1>6, <1>7, <1>8, Begins
<1>11. TL'[Len(TL')] \in 0 .. 255
  BY <1>2, <1>5, <1>6, <1>8 DEF Byte
<1>12. Len(TR) = n - c
  BY <1>6, <1>7, RightIs
<1>13. Len(TL') + Len(TR) <= InputLen - 1
  BY <1>4, <1>7, <1>8, <1>12
<1>14. history' = history /\ InUse' = InUse /\ TB' = TB /\ handed' = handed
  BY Untouched DEF Insert
<1>15. Editor!LineNext
  BY <1>6, <1>9, <1>10, <1>11, <1>13, <1>14, AsType
<1> QED  BY <1>3, <1>4, <1>5, <1>15 DEF Edited

LEMMA RemoveBackStep ==
    ASSUME Typing(buf, len, cur), NEW start \in {cur - 1, WordStart}, RemoveBack(start), UNCHANGED screenVars
    PROVE  Edited
<1>1. PICK b, n, c, d, m : b = buf /\ n = len /\ c = cur /\ d = buf' /\ m = len'
  OBVIOUS
<1>2. /\ Typing(b, n, c) /\ c > 0 /\ d = MemMove(b, start, c, n - c + 1) /\ m = n - (c - start) /\ cur' = start
  BY <1>1 DEF RemoveBack
<1>3. /\ Buffer(b) /\ n \in Nat /\ c \in Nat /\ c <= n /\ n \in 0 .. InputLen /\ c \in 0 .. InputLen /\ c \in 0 .. n
  BY <1>2, TypingIs
<1>4. WordStart \in 0 .. c /\ Editor!LastWordGone(TL) = LeftOf(b, WordStart)
  BY <1>1, <1>3, WordGoes DEF TL
<1>5. c - 1 \in 0 .. c /\ start \in 0 .. c
  BY <1>1, <1>2, <1>3, <1>4
<1>6. Typing(d, m, start) /\ LeftOf(d, start) = LeftOf(b, start) /\ RightOf(d, start, m) = RightOf(b, c, n)
  BY <1>2, <1>5, TakesAway
<1>7. TL = LeftOf(b, c) /\ TL' = LeftOf(b, start) /\ TR' = TR
  BY <1>1, <1>2, <1>6 DEF TL, TR
<1>8. TL # <<>>
  BY <1>2, <1>3, <1>7, NotAtTheEnds
<1>9. SubSeq(TL, 1, Len(TL) - 1) = LeftOf(b, c - 1)
  <2>1. Len(TL) = c
    BY <1>3, <1>7, LeftIs
  <2> QED  BY <1>3, <1>5, <1>7, <2>1, Begins
<1>10. TL' \in {SubSeq(TL, 1, Len(TL) - 1), Editor!LastWordGone(TL)}
  BY <1>1, <1>4, <1>7, <1>9
<1>11. history' = history /\ InUse' = InUse /\ TB' = TB /\ handed' = handed
  BY Untouched DEF RemoveBack
<1>12. Editor!LineNext
  BY <1>7, <1>8, <1>10, <1>11, AsErase
<1> QED  BY <1>1, <1>2, <1>6, <1>12 DEF Edited

LEMMA DeleteStep ==
    ASSUME Typing(buf, len, cur), Delete, UNCHANGED screenVars
    PROVE  Edited
<1>1. PICK b, n, c, d, m : b = buf /\ n = len /\ c = cur /\ d = buf' /\ m = len'
  OBVIOUS
<1>2. Typing(b, n, c) /\ c < n /\ d = MemMove(b, c, c + 1, n - c) /\ m = n - 1 /\ cur' = c
  BY <1>1 DEF Delete
<1>3. Buffer(b) /\ n \in Nat /\ c \in Nat /\ n \in 0 .. InputLen /\ c \in 0 .. n
  BY <1>2, TypingIs
<1>4. PICK e : e = c + 1
  OBVIOUS
<1>5. Typing(b, n, e) /\ c \in 0 .. e /\ m = n - (e - c) /\ n - e + 1 = n - c
  BY <1>2, <1>3, <1>4 DEF Typing
<1>6. d = MemMove(b, c, e, n - e + 1)
  BY <1>2, <1>4, <1>5
<1>7. Typing(d, m, c) /\ LeftOf(d, c) = LeftOf(b, c) /\ RightOf(d, c, m) = RightOf(b, e, n)
  BY <1>5, <1>6, TakesAway
<1>8. TL' = TL /\ TR = RightOf(b, c, n) /\ TR' = RightOf(b, e, n)
  BY <1>1, <1>2, <1>7 DEF TL, TR
<1>9. TR # <<>>
  BY <1>2, <1>3, <1>8, NotAtTheEnds
<1>10. TR' = Tail(TR)
  BY <1>2, <1>3, <1>4, <1>8, TailOf
<1>11. history' = history /\ InUse' = InUse /\ TB' = TB /\ handed' = handed
  BY Untouched DEF Delete
<1>12. Editor!LineNext
  BY <1>8, <1>9, <1>10, <1>11, AsErase
<1> QED  BY <1>1, <1>2, <1>7, <1>12 DEF Edited

LEMMA KillStep ==
    ASSUME Typing(buf, len, cur), KillEnd \/ KillLine, UNCHANGED screenVars
    PROVE  Edited
<1>1. PICK b, n, c, d : b = buf /\ n = len /\ c = cur /\ d = buf'
  OBVIOUS
<1>2. Typing(b, n, c)
  BY <1>1
<1>3. Buffer(b) /\ n \in Nat /\ c \in Nat /\ c <= n /\ n \in 0 .. InputLen /\ c \in 0 .. n /\ c \in 0 .. c /\ 0 \in 0 .. c /\ 0 \in 0 .. InputLen
  BY <1>2, TypingIs
<1>4. history' = history /\ InUse' = InUse /\ TB' = TB /\ handed' = handed
  BY Untouched DEF KillEnd, KillLine
<1>5. CASE KillEnd
  <2>1. d = EndedAt(b, c) /\ len' = c /\ cur' = c
    BY <1>1, <1>5 DEF KillEnd, EndedAt
  <2>2. Typing(d, c, c) /\ LeftOf(d, c) = LeftOf(b, c) /\ RightOf(d, c, c) = <<>>
    BY <1>2, <1>3, <2>1, Ends
  <2>3. TL' = TL /\ TR = RightOf(b, c, n) /\ TR' = <<>>
    BY <1>1, <2>1, <2>2 DEF TL, TR
  <2>4. CASE c < n
    <3>1. TR # <<>>
      BY <1>3, <2>3, <2>4, NotAtTheEnds
    <3>2. Editor!LineNext
      BY <1>4, <2>3, <3>1, AsErase
    <3> QED  BY <1>1, <2>1, <2>2, <3>2 DEF Edited
  <2>5. CASE ~(c < n)
    <3>1. n = c
      BY <1>3, <2>5
    <3>2. TR = <<>>
      BY <1>3, <2>3, <3>1, AtTheEnds
    <3>3. Editor!LineNext
      BY <1>4, <2>3, <3>2, AsGo
    <3> QED  BY <1>1, <2>1, <2>2, <3>3 DEF Edited
  <2> QED  BY <2>4, <2>5
<1>6. CASE KillLine
  <2>1. d = EndedAt(b, 0) /\ len' = 0 /\ cur' = 0
    BY <1>1, <1>6 DEF KillLine, EndedAt
  <2>2. Typing(d, 0, 0) /\ LeftOf(d, 0) = LeftOf(b, 0) /\ RightOf(d, 0, 0) = <<>>
    BY <1>2, <1>3, <2>1, Ends
  <2>3. LeftOf(b, 0) = <<>>
    BY <1>3, AtTheEnds
  <2>4. TL' = <<>> /\ TR' = <<>>
    BY <1>1, <2>1, <2>2, <2>3 DEF TL, TR
  <2>5. Editor!LineNext
    BY <1>4, <2>4, AsErase
  <2> QED  BY <1>1, <2>1, <2>2, <2>5 DEF Edited
<1> QED  BY <1>5, <1>6

LEMMA MoveStep ==
    ASSUME Typing(buf, len, cur), UNCHANGED screenVars,
           NEW n \in {0, len, AtLeastZero(cur - 1), Clamp(cur + 1, 0, len), WordStart, WordEnd}, MoveTo(n)
    PROVE  Edited
<1>1. PICK b, m, c : b = buf /\ m = len /\ c = cur
  OBVIOUS
<1>2. Typing(b, m, c) /\ buf' = b /\ len' = m /\ cur' = n
  BY <1>1 DEF MoveTo
<1>3. Buffer(b) /\ m \in Nat /\ c \in Nat /\ c <= m /\ m \in 0 .. InputLen /\ c \in 0 .. m /\ c \in 0 .. InputLen /\ m \in 0 .. InputLen - 1
  BY <1>2, TypingIs DEF Typing
<1>4. n \in 0 .. m
  <2>1. WordStart \in 0 .. c
    BY <1>1, <1>3, WordGoes
  <2>2. PICK w \in c .. m : w = SkipForth(c, FALSE)
    BY <1>1, <1>3, SkipForthIs
  <2>3. w \in 0 .. m
    BY <1>3
  <2>4. WordEnd \in w .. m
    BY <1>1, <1>3, <2>2, <2>3, SkipForthIs DEF WordEnd
  <2>5. AtLeastZero(c - 1) \in 0 .. m /\ Clamp(c + 1, 0, m) \in 0 .. m
    BY <1>3 DEF AtLeastZero, Clamp
  <2>6. PICK e, f : e = WordStart /\ f = WordEnd
    OBVIOUS
  <2>7. e \in 0 .. m /\ f \in 0 .. m /\ m \in 0 .. m /\ 0 \in 0 .. m
    BY <1>3, <2>1, <2>3, <2>4, <2>6
  <2> QED  BY <1>1, <2>5, <2>6, <2>7
<1>5. TL \o TR = LeftOf(b, m)
  BY <1>1, <1>3, WholeIs DEF TL, TR
<1>6. TL' \o TR' = LeftOf(b, m)
  <2>1. LeftOf(b, n) \o RightOf(b, n, m) = LeftOf(b, m)
    BY <1>3, <1>4, WholeIs
  <2> QED  BY <1>2, <2>1 DEF TL, TR
<1>7. history' = history /\ InUse' = InUse /\ TB' = TB /\ handed' = handed
  BY Untouched DEF MoveTo
<1>8. Editor!LineNext
  BY <1>5, <1>6, <1>7, AsGo
<1>9. Typing(buf', len', cur')
  BY <1>2, <1>3, <1>4 DEF Typing
<1> QED  BY <1>8, <1>9 DEF Edited

-----------------------------------------------------------------------------
(* The keys that recall lines.                                             *)

Line == {t \in Text : Len(t) <= InputLen - 1}

\* Of every place no more lines than are remembered, and a place among them.
Pasts(h, x) ==
    /\ h \in [Places -> Seq(Line)] /\ x \in [Places -> Int]
    /\ \A p \in Places : Len(h[p]) <= HistoryLines /\ x[p] \in -1 .. Len(h[p])

LEMMA PastIs ==
    ASSUME NEW h, NEW x, Pasts(h, x), NEW p \in Places
    PROVE  /\ h[p] \in Seq(Line) /\ Len(h[p]) \in Nat /\ x[p] \in Int /\ x[p] >= -1 /\ x[p] <= Len(h[p])
           /\ (h[p] # <<>> => Len(h[p]) > 0) /\ \A i \in 1 .. Len(h[p]) : h[p][i] \in Line
<1>1. h[p] \in Seq(Line) /\ x[p] \in -1 .. Len(h[p])
  BY DEF Pasts
<1>2. PICK T, s : T = Line /\ s = h[p]
  OBVIOUS
<1>3. s \in Seq(T)
  BY <1>1, <1>2
<1>4. Len(s) \in Nat /\ (s # <<>> => Len(s) > 0) /\ \A i \in 1 .. Len(s) : s[i] \in T
  BY <1>3
<1> QED  BY <1>1, <1>2, <1>4

\* The place in one of the histories changes.
PlaceAt(x, p, i) == [x EXCEPT ![p] = i]

LEMMA PlaceMoves ==
    ASSUME NEW h, NEW x, Pasts(h, x), NEW p \in Places, NEW i \in -1 .. Len(h[p])
    PROVE  Pasts(h, PlaceAt(x, p, i)) /\ PlaceAt(x, p, i)[p] = i
<1>1. PICK y, n : y = PlaceAt(x, p, i) /\ n = Len(h[p])
  OBVIOUS
<1>2. n \in Nat /\ i \in -1 .. n /\ i \in Int
  BY <1>1, PastIs
<1>3. x \in [Places -> Int]
  BY DEF Pasts
<1>4. y \in [Places -> Int] /\ y[p] = i /\ \A q \in Places : q # p => y[q] = x[q]
  BY <1>1, <1>2, <1>3 DEF PlaceAt
<1>5. ASSUME NEW q \in Places PROVE y[q] \in -1 .. Len(h[q])
  BY <1>1, <1>2, <1>4 DEF Pasts
<1>6. Pasts(h, y)
  BY <1>4, <1>5 DEF Pasts
<1> QED  BY <1>1, <1>4, <1>6

LEMMA InUseIs ==
    ASSUME ScreenInv
    PROVE  InUse \in Places
<1>1. ActiveTitle \in Titles
  BY ActiveIs DEF ScreenInv, Screen, ActiveTitle
<1> QED  BY <1>1 DEF InUse, Scope, Places

LEMMA RecalledIs ==
    ASSUME Typing(buf, len, cur), NEW line \in Line, Recalled(line), UNCHANGED screenVars
    PROVE  /\ Typing(buf', len', cur') /\ TL' = line /\ TR' = <<>>
           /\ history' = history /\ InUse' = InUse /\ handed' = handed
<1>1. PICK b, d, n : b = buf /\ d = buf' /\ n = Len(line)
  OBVIOUS
<1>2. d = WithLine(b, line) /\ len' = n /\ cur' = n
  BY <1>1 DEF Recalled, Copied, WithLine
<1>3. Buffer(b) /\ line \in Text /\ Len(line) <= InputLen - 1
  BY <1>1 DEF Typing, Line
<1>4. Typing(d, n, n) /\ LeftOf(d, n) = line /\ RightOf(d, n, n) = <<>>
  BY <1>1, <1>2, <1>3, PutsLine
<1>5. Typing(buf', len', cur') /\ TL' = line /\ TR' = <<>>
  BY <1>1, <1>2, <1>4 DEF TL, TR
<1>6. history' = history /\ handed' = handed /\ shared' = shared
  BY DEF Recalled
<1>7. InUse' = InUse
  BY <1>6 DEF InUse, Scope, ActiveTitle, screenVars
<1> QED  BY <1>5, <1>6, <1>7

LEMMA EmptyIsLine == <<>> \in Line
<1>1. PICK T : T = Byte
  OBVIOUS
<1>2. <<>> \in Seq(T) /\ Len(<<>>) = 0
  OBVIOUS
<1> QED  BY <1>1, <1>2, InputAssumption DEF Line, Text

LEMMA UpStep ==
    ASSUME ScreenInv, Typing(buf, len, cur), Pasts(history, index), Up, UNCHANGED screenVars
    PROVE  Edited /\ Pasts(history', index')
<1>1. PICK p, s, i, m : p = InUse /\ s = history[p] /\ i = index[p] /\ m = Len(s)
  OBVIOUS
<1>2. p \in Places
  BY <1>1, InUseIs
<1>3. m \in Nat /\ i \in Int /\ i >= -1 /\ i <= m /\ \A j \in 1 .. m : s[j] \in Line
  BY <1>1, <1>2, PastIs
<1>4. s # <<>> /\ m > 0
  BY <1>1, <1>2, PastIs DEF Up
<1>5. PICK to : to = IF i < 0 THEN m - 1 ELSE IF i > 0 THEN i - 1 ELSE i
  OBVIOUS
<1>6. to \in Nat /\ to < m /\ to \in -1 .. m /\ to + 1 \in 1 .. m
  BY <1>3, <1>4, <1>5
<1>7. index' = PlaceAt(index, p, to) /\ Recalled(s[to + 1])
  BY <1>1, <1>5 DEF Up, PlaceAt
<1>8. s[to + 1] \in Line
  BY <1>3, <1>6
<1>9. /\ Typing(buf', len', cur') /\ TL' = s[to + 1] /\ TR' = <<>>
      /\ history' = history /\ InUse' = p /\ handed' = handed
  BY <1>1, <1>7, <1>8, RecalledIs
<1>10. Pasts(history, index') /\ index'[p] = to
  <2>1. to \in -1 .. Len(history[p])
    BY <1>1, <1>6
  <2> QED  BY <1>2, <1>7, <2>1, PlaceMoves
<1>11. TB = IF i < 0 THEN 0 ELSE m - i
  BY <1>1 DEF TB, BackOf
<1>12. PICK n : n = m - to
  OBVIOUS
<1>13. TB' = n
  BY <1>1, <1>6, <1>9, <1>10, <1>12 DEF TB, BackOf
<1>14. n = (IF TB < m THEN TB + 1 ELSE TB) /\ n # 0 /\ m - n + 1 = to + 1
  BY <1>3, <1>4, <1>5, <1>6, <1>11, <1>12
<1>15. TL' = IF n = 0 THEN <<>> ELSE s[m - n + 1]
  BY <1>9, <1>14
<1>16. Editor!LineNext
  BY <1>1, <1>4, <1>9, <1>13, <1>14, <1>15, AsRecall
<1> QED  BY <1>9, <1>10, <1>16 DEF Edited

LEMMA DownStep ==
    ASSUME ScreenInv, Typing(buf, len, cur), Pasts(history, index), Down, UNCHANGED screenVars
    PROVE  Edited /\ Pasts(history', index')
<1>1. PICK p, s, i, m : p = InUse /\ s = history[p] /\ i = index[p] /\ m = Len(s)
  OBVIOUS
<1>2. p \in Places
  BY <1>1, InUseIs
<1>3. m \in Nat /\ i \in Int /\ i >= -1 /\ i <= m /\ \A j \in 1 .. m : s[j] \in Line
  BY <1>1, <1>2, PastIs
<1>4. s # <<>> /\ m > 0 /\ i >= 0
  BY <1>1, <1>2, PastIs DEF Down
<1>5. TB = m - i
  BY <1>1, <1>3, <1>4 DEF TB, BackOf
<1>6. CASE i + 1 >= m
  <2>1. index' = PlaceAt(index, p, -1) /\ Recalled(<<>>)
    BY <1>1, <1>6 DEF Down, PlaceAt
  <2>2. /\ Typing(buf', len', cur') /\ TL' = <<>> /\ TR' = <<>>
        /\ history' = history /\ InUse' = p /\ handed' = handed
    BY <1>1, <2>1, EmptyIsLine, RecalledIs
  <2>3. -1 \in -1 .. Len(history[p])
    BY <1>1, <1>3
  <2>4. Pasts(history, index') /\ index'[p] = -1
    BY <1>2, <2>1, <2>3, PlaceMoves
  <2>5. TB' = 0
    BY <2>2, <2>4 DEF TB, BackOf
  <2>6. 0 = IF TB > 0 THEN TB - 1 ELSE 0
    BY <1>3, <1>4, <1>5, <1>6
  <2>7. Editor!LineNext
    BY <1>1, <1>4, <2>2, <2>5, <2>6, AsRecall
  <2> QED  BY <2>2, <2>4, <2>7 DEF Edited
<1>7. CASE ~(i + 1 >= m)
  <2>1. PICK to : to = i + 1
    OBVIOUS
  <2>2. to \in Nat /\ to < m /\ to \in -1 .. m /\ to + 1 \in 1 .. m
    BY <1>3, <1>4, <1>7, <2>1
  <2>3. index' = PlaceAt(index, p, to) /\ Recalled(s[to + 1])
    BY <1>1, <1>7, <2>1 DEF Down, PlaceAt
  <2>4. s[to + 1] \in Line
    BY <1>3, <2>2
  <2>5. /\ Typing(buf', len', cur') /\ TL' = s[to + 1] /\ TR' = <<>>
        /\ history' = history /\ InUse' = p /\ handed' = handed
    BY <1>1, <2>3, <2>4, RecalledIs
  <2>6. Pasts(history, index') /\ index'[p] = to
    <3>1. to \in -1 .. Len(history[p])
      BY <1>1, <2>2
    <3> QED  BY <1>2, <2>3, <3>1, PlaceMoves
  <2>7. PICK n : n = m - to
    OBVIOUS
  <2>8. TB' = n
    BY <1>1, <2>2, <2>5, <2>6, <2>7 DEF TB, BackOf
  <2>9. n = (IF TB > 0 THEN TB - 1 ELSE 0) /\ n # 0 /\ m - n + 1 = to + 1
    BY <1>3, <1>5, <1>7, <2>1, <2>2, <2>7
  <2>10. TL' = IF n = 0 THEN <<>> ELSE s[m - n + 1]
    BY <2>5, <2>9
  <2>11. Editor!LineNext
    BY <1>1, <1>4, <2>5, <2>8, <2>9, <2>10, AsRecall
  <2> QED  BY <2>5, <2>6, <2>11 DEF Edited
<1> QED  BY <1>6, <1>7

LEMMA ShareStep ==
    ASSUME Typing(buf, len, cur), Pasts(history, index), NEW now \in BOOLEAN, SetShared(now)
    PROVE  Edited /\ Pasts(history', index')
<1>1. buf' = buf /\ len' = len /\ cur' = cur /\ history' = history /\ handed' = handed
  BY DEF SetShared
<1>2. "shared" \in Places
  BY DEF Places
<1>3. PICK i : i = IF now THEN Len(history["shared"]) ELSE -1
  OBVIOUS
<1>4. i \in -1 .. Len(history["shared"])
  BY <1>2, <1>3, PastIs
<1>5. index' = PlaceAt(index, "shared", i)
  BY <1>3 DEF SetShared, PlaceAt
<1>6. Pasts(history', index')
  BY <1>1, <1>2, <1>4, <1>5, PlaceMoves
<1>7. TL' = TL /\ TR' = TR /\ Forgot(history', history)
  BY <1>1 DEF TL, TR, Forgot
<1>8. Editor!LineNext
  BY <1>1, <1>7, AsElsewhere
<1> QED  BY <1>1, <1>6, <1>8 DEF Edited

-----------------------------------------------------------------------------
(* Completion.                                                             *)

LEMMA WordsAre ==
    ASSUME NEW words \in Offers
    PROVE  Len(words) \in Nat /\ DOMAIN words = 1 .. Len(words) /\ Len(words) > 0 /\ \A i \in 1 .. Len(words) : words[i] \in Text
<1>1. PICK T : T = Seq(CharBytes)
  OBVIOUS
<1>2. words \in Seq(T) /\ words # <<>>
  BY <1>1, InputAssumption
<1>3. Len(words) \in Nat /\ Len(words) > 0 /\ DOMAIN words = 1 .. Len(words) /\ \A i \in 1 .. Len(words) : words[i] \in T
  BY <1>2
<1>4. ASSUME NEW w \in T PROVE w \in Text
  <2>1. PICK U : U = CharBytes
    OBVIOUS
  <2>2. w \in Seq(U)
    BY <1>1, <1>4, <2>1
  <2>3. Len(w) \in Nat /\ DOMAIN w = 1 .. Len(w) /\ w = [i \in 1 .. Len(w) |-> w[i]] /\ \A i \in 1 .. Len(w) : w[i] \in U
    BY <2>2
  <2>4. \A x \in U : x \in Byte
    BY <2>1 DEF CharBytes, Byte
  <2> QED  BY <2>3, <2>4, MakeText
<1> QED  BY <1>3, <1>4

LEMMA BeginningIs ==
    ASSUME NEW t \in Text, NEW k \in 0 .. Len(t)
    PROVE  /\ SubSeq(t, 1, k) \in Text /\ Len(SubSeq(t, 1, k)) = k /\ (k = Len(t) => SubSeq(t, 1, k) = t)
           /\ IsPrefix(SubSeq(t, 1, k), t)
<1>1. PICK s : s = SubSeq(t, 1, k)
  OBVIOUS
<1>2. Len(t) \in Nat /\ k \in Nat /\ k <= Len(t) /\ 1 \in Nat /\ 1 > 0 /\ 1 <= k + 1 /\ k + 1 - 1 = k
  BY TextIs
<1>3. s \in Text /\ Len(s) = k /\ \A i \in 1 .. k : s[i] = t[i]
  <2>1. s \in Text /\ Len(s) = k + 1 - 1 /\ \A i \in 1 .. k + 1 - 1 : s[i] = t[1 + i - 1]
    BY <1>1, <1>2, Cuts
  <2> QED  BY <1>2, <2>1
<1>4. k = Len(t) => s = t
  BY <1>3, TextsEqual
<1>5. SubSeq(s, 1, k) = s
  <2>1. PICK r : r = SubSeq(s, 1, k)
    OBVIOUS
  <2>2. r \in Text /\ Len(r) = k + 1 - 1 /\ \A i \in 1 .. k + 1 - 1 : r[i] = s[1 + i - 1]
    BY <1>2, <1>3, <2>1, Cuts
  <2>3. Len(r) = k /\ \A i \in 1 .. k : r[i] = s[i]
    BY <1>2, <2>2
  <2>4. r = s
    BY <1>3, <2>2, <2>3, TextsEqual
  <2> QED  BY <2>1, <2>4
<1>6. IsPrefix(s, t)
  BY <1>1, <1>2, <1>3, <1>5 DEF IsPrefix
<1> QED  BY <1>1, <1>3, <1>4, <1>6

LEMMA NothingBegins ==
    ASSUME NEW t \in Text, NEW w \in Text
    PROVE  IsPrefix(SubSeq(w, 1, 0), t)
<1>1. Len(t) \in Nat /\ Len(w) \in Nat /\ 0 \in 0 .. Len(t) /\ 0 \in 0 .. Len(w)
  BY TextIs
<1>2. SubSeq(w, 1, 0) \in Text /\ Len(SubSeq(w, 1, 0)) = 0 /\ SubSeq(t, 1, 0) \in Text /\ Len(SubSeq(t, 1, 0)) = 0
  BY <1>1, BeginningIs
<1>3. SubSeq(w, 1, 0) = <<>> /\ SubSeq(t, 1, 0) = <<>>
  BY <1>2, TextIs
<1>4. Len(<<>>) = 0 /\ SubSeq(<<>>, 1, 0) = <<>>
  OBVIOUS
<1> QED  BY <1>1, <1>3, <1>4 DEF IsPrefix

\* The words agree on n bytes and no more.
Agree(words, n) ==
    /\ \A i \in DOMAIN words : IsPrefix(SubSeq(words[1], 1, n), words[i])
    /\ n < Len(words[1]) => \E i \in DOMAIN words : ~IsPrefix(SubSeq(words[1], 1, n + 1), words[i])

LEMMA CommonIs ==
    ASSUME NEW words \in Offers
    PROVE  \E n \in 0 .. Len(words[1]) : Agree(words, n) /\ CommonPrefix(words) = SubSeq(words[1], 1, n)
<1>1. PICK w, h : w = words[1] /\ h = Len(w)
  OBVIOUS
<1>2. /\ w \in Text /\ h \in Nat /\ DOMAIN words = 1 .. Len(words) /\ \A i \in DOMAIN words : words[i] \in Text
  BY <1>1, WordsAre, TextIs
<1>3. PICK S : S = {n \in 0 .. h : \A i \in DOMAIN words : IsPrefix(SubSeq(w, 1, n), words[i])}
  OBVIOUS
<1>4. 0 \in S
  <2>1. 0 \in 0 .. h
    BY <1>2
  <2>2. \A i \in DOMAIN words : IsPrefix(SubSeq(w, 1, 0), words[i])
    BY <1>2, NothingBegins
  <2> QED  BY <1>3, <2>1, <2>2
<1>5. S \in SUBSET Nat /\ IsFiniteSet(S) /\ S # {}
  <2>1. 0 \in Int /\ h \in Int /\ S \subseteq 0 .. h
    BY <1>2, <1>3
  <2>2. IsFiniteSet(0 .. h)
    BY <2>1, FS_Interval
  <2> QED  BY <1>2, <1>3, <1>4, <2>1, <2>2, FS_Subset
<1>6. PICK g \in S : \A j \in S : g >= j
  BY <1>5, Greatest
<1>7. g \in 0 .. h /\ g \in Nat
  BY <1>2, <1>3, <1>6
<1>8. Agree(words, g)
  <2>1. ASSUME g < h, \A i \in DOMAIN words : IsPrefix(SubSeq(w, 1, g + 1), words[i]) PROVE FALSE
    <3>1. g + 1 \in 0 .. h
      BY <1>2, <1>7, <2>1
    <3>2. g + 1 \in S
      BY <1>3, <2>1, <3>1
    <3> QED  BY <1>6, <1>7, <3>2
  <2> QED  BY <1>1, <1>3, <1>6, <2>1 DEF Agree
<1>9. PICK n : n = CHOOSE k \in 0 .. Len(words[1]) : Agree(words, k)
  OBVIOUS
<1>10. n \in 0 .. Len(words[1]) /\ Agree(words, n)
  BY <1>1, <1>7, <1>8, <1>9
<1>11. CommonPrefix(words) = SubSeq(words[1], 1, n)
  BY <1>9 DEF CommonPrefix, Agree
<1> QED  BY <1>10, <1>11

LEMMA BlankBehind ==
    ASSUME NEW t \in Text
    PROVE  Append(t, Space) \in Text /\ Len(Append(t, Space)) = Len(t) + 1
<1>1. PICK T : T = Byte
  OBVIOUS
<1>2. t \in Seq(T) /\ Space \in T
  BY <1>1 DEF Text, Space, Byte
<1>3. Append(t, Space) \in Seq(T) /\ Len(Append(t, Space)) = Len(t) + 1
  BY <1>2
<1> QED  BY <1>1, <1>3 DEF Text

LEMMA BlankBehindAll ==
    ASSUME NEW a \in Text, NEW t \in Text
    PROVE  a \o Append(t, Space) = Append(a \o t, Space)
<1>1. PICK T, x : T = Byte /\ x = Space
  OBVIOUS
<1>2. a \in Seq(T) /\ t \in Seq(T) /\ x \in T
  BY <1>1 DEF Text, Space, Byte
<1>3. a \o Append(t, x) = Append(a \o t, x)
  BY <1>2
<1> QED  BY <1>1, <1>3

\* How much is put in place of the word before the cursor, and what.
PutLen(words) ==
    IF Len(words) = 1 /\ Len(CommonPrefix(words)) < InputLen - 1
    THEN Len(CommonPrefix(words)) + 1 ELSE Len(CommonPrefix(words))
PutWord(words) ==
    IF Len(words) = 1 THEN Append(SubSeq(CommonPrefix(words), 1, PutLen(words) - 1), Space) ELSE CommonPrefix(words)

\* It is a word as far as n bytes of it, or that and a blank.
Completes(words, w, n) ==
    LET k == IF n > Len(w) THEN Len(w) ELSE n IN
    /\ w \in Text /\ k \in 0 .. Len(w)
    /\ PutWord(words) \in Text /\ Len(PutWord(words)) = PutLen(words)
    /\ PutWord(words) \in {SubSeq(w, 1, k), Append(SubSeq(w, 1, k), Space)}

LEMMA PutIs ==
    ASSUME NEW words \in Offers, PutLen(words) < InputLen, Len(words) = 1 \/ Len(CommonPrefix(words)) > 0
    PROVE  \E w \in Range(words), n \in 1 .. InputLen - 1 : Completes(words, w, n)
<1>1. PICK w, h, L : w = words[1] /\ h = Len(w) /\ L = InputLen
  OBVIOUS
<1>2. /\ w \in Text /\ h \in Nat /\ DOMAIN words = 1 .. Len(words) /\ Len(words) \in Nat /\ Len(words) > 0
      /\ L \in Nat /\ L > 2
  BY <1>1, WordsAre, TextIs, InputAssumption
<1>3. w \in Range(words)
  BY <1>1, <1>2 DEF Range
<1>4. PICK c \in 0 .. h : Agree(words, c) /\ CommonPrefix(words) = SubSeq(w, 1, c)
  BY <1>1, CommonIs
<1>5. c \in Nat /\ CommonPrefix(words) \in Text /\ Len(CommonPrefix(words)) = c
  BY <1>1, <1>2, <1>4, BeginningIs
<1>6. CASE Len(words) = 1
  <2>1. c = h
    <3>1. ASSUME c < h PROVE FALSE
      <4>1. PICK i \in 1 .. 1 : ~IsPrefix(SubSeq(w, 1, c + 1), words[i])
        BY <1>1, <1>2, <1>4, <1>6, <3>1 DEF Agree
      <4>2. i = 1 /\ c + 1 \in 0 .. h
        BY <1>2, <1>5, <3>1
      <4>3. IsPrefix(SubSeq(w, 1, c + 1), w)
        BY <1>1, <1>2, <4>2, BeginningIs
      <4> QED  BY <1>1, <4>1, <4>2, <4>3
    <3> QED  BY <1>2, <1>4, <3>1
  <2>2. CommonPrefix(words) = w
    BY <1>1, <1>2, <1>4, <2>1, BeginningIs
  <2>3. PICK pl : pl = PutLen(words)
    OBVIOUS
  <2>4. pl = (IF h < L - 1 THEN h + 1 ELSE h) /\ pl < L
    BY <1>1, <1>5, <1>6, <2>1, <2>3 DEF PutLen
  <2>5. PICK k : k = pl - 1
    OBVIOUS
  <2>6. k \in 0 .. h /\ pl = k + 1 /\ pl \in Nat
    BY <1>2, <2>4, <2>5
  <2>7. PICK n : n = IF k = 0 THEN 1 ELSE k
    OBVIOUS
  <2>8. n \in 1 .. L - 1 /\ k = IF n > h THEN h ELSE n
    BY <1>2, <2>4, <2>5, <2>6, <2>7
  <2>9. PICK s : s = SubSeq(w, 1, k)
    OBVIOUS
  <2>10. s \in Text /\ Len(s) = k
    BY <1>1, <1>2, <2>6, <2>9, BeginningIs
  <2>11. PutWord(words) = Append(s, Space)
    BY <1>6, <2>2, <2>3, <2>5, <2>9 DEF PutWord
  <2>12. Append(s, Space) \in Text /\ Len(Append(s, Space)) = pl
    BY <2>6, <2>10, BlankBehind
  <2>13. Completes(words, w, n)
    BY <1>1, <1>2, <2>3, <2>6, <2>8, <2>9, <2>11, <2>12 DEF Completes
  <2> QED  BY <1>1, <1>3, <2>8, <2>13
<1>7. CASE Len(words) # 1
  <2>1. PutLen(words) = c /\ PutWord(words) = SubSeq(w, 1, c)
    BY <1>4, <1>5, <1>7 DEF PutLen, PutWord
  <2>2. c \in 1 .. L - 1 /\ c = IF c > h THEN h ELSE c
    BY <1>1, <1>2, <1>4, <1>5, <1>7, <2>1
  <2>3. Completes(words, w, c)
    BY <1>1, <1>2, <1>4, <1>5, <2>1, <2>2 DEF Completes
  <2> QED  BY <1>1, <1>3, <2>2, <2>3
<1> QED  BY <1>6, <1>7

LEMMA CompletionStep ==
    ASSUME Typing(buf, len, cur), NEW words \in Offers, Completion(words), UNCHANGED screenVars
    PROVE  Edited
<1>1. PICK b, n, c, d, e, pl, word : /\ b = buf /\ n = len /\ c = cur /\ d = buf' /\ e = SkipBack(cur, FALSE)
                                     /\ pl = PutLen(words) /\ word = PutWord(words)
  OBVIOUS
<1>2. /\ c > 0 /\ (Len(words) = 1 \/ Len(CommonPrefix(words)) > c - e) /\ e + pl < InputLen
      /\ shared' = shared /\ history' = history /\ index' = index /\ handed' = handed
  BY <1>1 DEF Completion, PutLen
<1>3. InUse' = InUse /\ TB' = TB
  <2>1. InUse' = InUse
    BY <1>2 DEF InUse, Scope, ActiveTitle, screenVars
  <2> QED  BY <1>2, <2>1 DEF TB, BackOf
<1>4. /\ Typing(b, n, c) /\ Buffer(b) /\ n \in Nat /\ c \in Nat /\ c <= n /\ n \in 0 .. InputLen
      /\ c \in 0 .. InputLen /\ c \in 0 .. n /\ InputLen \in Nat
  BY <1>1, TypingIs
<1>5. e \in 0 .. c /\ e \in Nat /\ e <= c /\ Editor!WordGone(TL) = LeftOf(b, e)
  <2>1. e \in 0 .. c /\ Editor!WordGone(TL) = LeftOf(b, e)
    BY <1>1, <1>4, WordBefore DEF TL
  <2> QED  BY <1>4, <2>1
<1>6. CASE e + pl + (n - c + 1) > InputLen
  <2>1. buf' = buf /\ len' = len /\ cur' = cur
    BY <1>1, <1>6 DEF Completion, PutLen
  <2>2. TL' = TL /\ TR' = TR
    BY <2>1 DEF TL, TR
  <2>3. Editor!LineNext
    BY <1>2, <1>3, <2>2, AsGo
  <2> QED  BY <2>1, <2>3 DEF Edited
<1>7. CASE ~(e + pl + (n - c + 1) > InputLen)
  <2>1. Len(words) = 1 \/ Len(CommonPrefix(words)) > 0
    <3>1. PICK k \in 0 .. Len(words[1]) : CommonPrefix(words) = SubSeq(words[1], 1, k)
      BY CommonIs
    <3>2. 1 \in 1 .. Len(words) /\ words[1] \in Text
      BY WordsAre
    <3>3. Len(CommonPrefix(words)) = k /\ k \in Nat
      BY <3>1, <3>2, BeginningIs, TextIs
    <3>4. k > c - e => k > 0
      BY <1>4, <1>5, <3>3
    <3> QED  BY <1>2, <3>3, <3>4
  <2>2. pl < InputLen
    <3>1. pl \in Int
      <4>1. PICK k \in 0 .. Len(words[1]) : CommonPrefix(words) = SubSeq(words[1], 1, k)
        BY CommonIs
      <4>2. 1 \in 1 .. Len(words) /\ words[1] \in Text
        BY WordsAre
      <4>3. Len(CommonPrefix(words)) = k /\ k \in Nat
        BY <4>1, <4>2, BeginningIs, TextIs
      <4> QED  BY <1>1, <4>3 DEF PutLen
    <3> QED  BY <1>2, <1>4, <1>5, <3>1
  <2>3. PICK w \in Range(words), q \in 1 .. InputLen - 1 : Completes(words, w, q)
    BY <1>1, <2>1, <2>2, PutIs
  <2>4. PICK k : k = IF q > Len(w) THEN Len(w) ELSE q
    OBVIOUS
  <2>5. PICK s : s = SubSeq(w, 1, k)
    OBVIOUS
  <2>6. w \in Text /\ k \in 0 .. Len(w) /\ word \in Text /\ Len(word) = pl /\ word \in {s, Append(s, Space)}
    BY <1>1, <2>3, <2>4, <2>5 DEF Completes
  <2>7. s \in Text /\ pl \in Nat
    BY <2>5, <2>6, BeginningIs, TextIs
  <2>8. d = WithWord(b, n, c, e, word)
    <3>1. d = [i \in DOMAIN b |-> IF i >= e /\ i < e + pl THEN word[i - e + 1] ELSE MemMove(b, e + pl, c, n - c + 1)[i]]
      BY <1>1, <1>7 DEF Completion, PutLen, PutWord
    <3> QED  BY <2>6, <3>1 DEF WithWord
  <2>9. len' = n + pl - (c - e) /\ cur' = e + pl
    BY <1>1, <1>7 DEF Completion, PutLen
  <2>10. PICK f, m : f = e + pl /\ m = n + pl - (c - e)
    OBVIOUS
  <2>11. Replaces(b, n, c, e, word, f, m) /\ m - f = n - c /\ m < InputLen
    BY <1>4, <1>5, <1>7, <2>6, <2>7, <2>10 DEF Replaces
  <2>12. Typing(d, m, f) /\ LeftOf(d, f) = LeftOf(b, e) \o word /\ RightOf(d, f, m) = RightOf(b, c, n)
    BY <2>8, <2>11, PutsWord
  <2>13. TL = LeftOf(b, c) /\ TL' = LeftOf(b, e) \o word /\ TR = RightOf(b, c, n) /\ TR' = TR
    BY <1>1, <2>9, <2>10, <2>12 DEF TL, TR
  <2>14. TL # <<>>
    BY <1>2, <1>4, <2>13, NotAtTheEnds
  <2>15. PICK done : done = LeftOf(b, e) \o s
    OBVIOUS
  <2>16. done = Editor!WordGone(TL) \o SubSeq(w, 1, IF q > Len(w) THEN Len(w) ELSE q)
    BY <1>5, <2>4, <2>5, <2>15
  <2>17. LeftOf(b, e) \in Text /\ Len(LeftOf(b, e)) = e
    <3>1. e \in 0 .. InputLen
      BY <1>4, <1>5
    <3> QED  BY <1>4, <3>1, LeftIs
  <2>18. TL' \in {done, Append(done, Space)}
    BY <2>6, <2>7, <2>13, <2>15, <2>17, BlankBehindAll
  <2>19. Len(TL' \o TR) <= InputLen - 1
    <3>1. TL' \in Text /\ Len(TL') = f
      <4>1. LeftOf(b, e) \o word \in Text /\ Len(LeftOf(b, e) \o word) = Len(LeftOf(b, e)) + Len(word)
        BY <2>6, <2>17, Joins
      <4> QED  BY <2>6, <2>10, <2>13, <2>17, <4>1
    <3>2. TR \in Text /\ Len(TR) = n - c
      BY <1>4, <2>13, RightIs
    <3>3. Len(TL' \o TR) = Len(TL') + Len(TR)
      BY <3>1, <3>2, Joins
    <3>4. f \in Int /\ m \in Int
      BY <1>4, <1>5, <2>7, <2>10
    <3> QED  BY <1>4, <2>11, <3>1, <3>2, <3>3, <3>4
  <2>20. Editor!LineNext
    BY <1>2, <1>3, <2>3, <2>13, <2>14, <2>16, <2>18, <2>19, AsComplete
  <2> QED  BY <1>1, <2>9, <2>10, <2>12, <2>20 DEF Edited
<1> QED  BY <1>6, <1>7

-----------------------------------------------------------------------------
(* Enter.                                                                  *)

FirstIn(I) == IF I # {} THEN Min(I) ELSE 0

LEMMA UptoIs ==
    ASSUME NEW t, NEW n, n = FirstIn({i \in 1 .. Len(t) : t[i] = Nul})
    PROVE  Editor!Upto(t) = IF n = 0 THEN t ELSE SubSeq(t, 1, n - 1)
<1>1. Editor!Upto(t) = IF FirstIn({i \in 1 .. Len(t) : t[i] = Nul}) = 0 THEN t
                       ELSE SubSeq(t, 1, FirstIn({i \in 1 .. Len(t) : t[i] = Nul}) - 1)
  BY DEF Editor!Upto, Editor!SelectInSeq, Editor!Min, FirstIn, Min
<1> QED  BY <1>1

\* The first zero byte.
EndsString(b, z) == z \in DOMAIN b /\ b[z] = Nul /\ \A j \in 0 .. z - 1 : b[j] # Nul

LEMMA StringIs ==
    ASSUME NEW b, NEW n, NEW c, Typing(b, n, c)
    PROVE  \E z \in 0 .. n : StringIn(EndedAt(b, n)) = LeftOf(b, z) /\ Editor!Upto(LeftOf(b, n)) = LeftOf(b, z)
<1>1. PICK h, d : h = InputLen /\ d = EndedAt(b, n)
  OBVIOUS
<1>2. Buffer(b) /\ n \in Nat /\ n < h /\ h \in Nat /\ n \in 0 .. InputLen
  BY <1>1, TypingIs
<1>3. n \in 0 .. InputLen - 1 /\ Nul \in Byte
  BY <1>1, <1>2 DEF Nul, Byte
<1>4. Buffer(d) /\ d[n] = Nul /\ \A i \in 0 .. h - 1 : i # n => d[i] = b[i]
  <2>1. /\ Buffer([b EXCEPT ![n] = Nul]) /\ [b EXCEPT ![n] = Nul][n] = Nul
        /\ \A i \in 0 .. InputLen - 1 : i # n => [b EXCEPT ![n] = Nul][i] = b[i]
    BY <1>2, <1>3, SetIs
  <2> QED  BY <1>1, <2>1 DEF EndedAt
<1>5. DOMAIN d = 0 .. h - 1
  BY <1>1, <1>4 DEF Buffer
<1>6. PICK S : S = {i \in 0 .. n : d[i] = Nul}
  OBVIOUS
<1>7. S \in SUBSET Nat /\ n \in S
  BY <1>2, <1>4, <1>6
<1>8. PICK k \in S : \A j \in S : k <= j
  BY <1>7, Least
<1>9. k \in 0 .. n /\ k \in Nat /\ k <= n /\ d[k] = Nul
  BY <1>2, <1>6, <1>8
<1>10. EndsString(d, k)
  <2>1. ASSUME NEW j \in 0 .. k - 1 PROVE d[j] # Nul
    <3>1. j \in 0 .. n /\ j < k /\ j \in Nat
      BY <1>9, <1>2
    <3>2. ASSUME d[j] = Nul PROVE FALSE
      <4>1. j \in S
        BY <1>6, <3>1, <3>2
      <4> QED  BY <1>8, <1>9, <3>1, <4>1
    <3> QED  BY <3>2
  <2>2. k \in 0 .. h - 1
    BY <1>2, <1>9
  <2> QED  BY <1>5, <1>9, <2>1, <2>2 DEF EndsString
<1>11. PICK z : z = CHOOSE i : EndsString(d, i)
  OBVIOUS
<1>12. EndsString(d, z)
  BY <1>10, <1>11
<1>13. StringIn(d) = LeftOf(d, z)
  <2>1. StringIn(d) = LeftOf(d, CHOOSE i : EndsString(d, i))
    BY DEF StringIn, LeftOf, EndsString
  <2> QED  BY <1>11, <2>1
<1>14. z \in Nat /\ z <= n /\ z \in 0 .. n
  <2>1. z \in 0 .. h - 1
    BY <1>5, <1>12 DEF EndsString
  <2>2. ASSUME n < z PROVE FALSE
    <3>1. n \in 0 .. z - 1
      BY <1>2, <2>1, <2>2
    <3> QED  BY <1>4, <1>12, <3>1 DEF EndsString
  <2> QED  BY <1>2, <2>1, <2>2
<1>15. LeftOf(d, z) = LeftOf(b, z)
  <2>1. ASSUME NEW i \in 0 .. z - 1 PROVE d[i] = b[i]
    <3>1. i \in 0 .. h - 1 /\ i # n
      BY <1>2, <1>14
    <3> QED  BY <1>4, <3>1
  <2>2. z \in 0 .. InputLen
    BY <1>1, <1>2, <1>14
  <2> QED  BY <1>2, <1>4, <2>1, <2>2, SameLeft
<1>16. PICK t, I : t = LeftOf(b, n) /\ I = {i \in 1 .. n : t[i] = Nul}
  OBVIOUS
<1>17. t \in Text /\ Len(t) = n /\ \A i \in 1 .. n : t[i] = b[i - 1]
  BY <1>2, <1>16, LeftIs
<1>18. ASSUME NEW i \in 1 .. n, i <= z PROVE i \notin I
  <2>1. i - 1 \in 0 .. z - 1 /\ i - 1 \in 0 .. h - 1 /\ i - 1 # n
    BY <1>2, <1>14, <1>18
  <2>2. d[i - 1] # Nul /\ d[i - 1] = b[i - 1]
    BY <1>4, <1>12, <2>1 DEF EndsString
  <2> QED  BY <1>16, <1>17, <2>2
<1>19. Editor!Upto(t) = LeftOf(b, z)
  <2>1. \A m : m = FirstIn(I) => Editor!Upto(t) = IF m = 0 THEN t ELSE SubSeq(t, 1, m - 1)
    BY <1>16, <1>17, UptoIs
  <2>2. CASE z = n
    <3>1. I = {}
      <4>1. ASSUME NEW i \in I PROVE FALSE
        <5>1. i \in 1 .. n /\ i <= z
          BY <1>2, <1>16, <2>2
        <5> QED  BY <1>18, <5>1
      <4> QED  BY <4>1
    <3>2. FirstIn(I) = 0
      BY <3>1 DEF FirstIn
    <3> QED  BY <1>16, <2>1, <2>2, <3>2
  <2>3. CASE z # n
    <3>1. PICK y : y = z + 1
      OBVIOUS
    <3>2. y \in 1 .. n /\ y - 1 = z /\ y # 0 /\ z \in 0 .. h - 1 /\ y \in Nat
      BY <1>2, <1>14, <2>3, <3>1
    <3>3. y \in I
      <4>1. t[y] = b[z] /\ d[z] = b[z] /\ d[z] = Nul
        BY <1>4, <1>12, <1>17, <2>3, <3>2 DEF EndsString
      <4> QED  BY <1>16, <3>2, <4>1
    <3>4. ASSUME NEW i \in I PROVE y <= i
      <4>1. i \in 1 .. n /\ ~(i <= z)
        BY <1>16, <1>18
      <4> QED  BY <1>2, <1>14, <3>1, <4>1
    <3>5. FirstIn(I) = y
      <4>1. PICK a : a = Min(I)
        OBVIOUS
      <4>2. a \in I /\ \A i \in I : a <= i
        BY <3>3, <3>4, <4>1 DEF Min
      <4>3. a \in Nat /\ a <= y /\ y <= a
        BY <1>2, <1>16, <3>3, <3>4, <4>2
      <4>4. a = y
        BY <3>2, <4>3
      <4> QED  BY <3>3, <4>1, <4>4 DEF FirstIn
    <3>6. Editor!Upto(t) = SubSeq(t, 1, z)
      BY <2>1, <3>2, <3>5
    <3> QED  BY <1>2, <1>14, <1>16, <3>6, Begins
  <2> QED  BY <2>2, <2>3
<1> QED  BY <1>1, <1>13, <1>14, <1>15, <1>16, <1>19

\* A full history drops its oldest line for the new one.
LEMMA KeptIs ==
    ASSUME NEW h \in Seq(Line), Len(h) <= HistoryLines, NEW line \in Line
    PROVE  /\ Editor!Kept(Append(h, line)) = Append(Room(h), line)
           /\ Append(Room(h), line) \in Seq(Line) /\ Len(Append(Room(h), line)) = Len(Room(h)) + 1
           /\ Len(Append(Room(h), line)) <= HistoryLines /\ Len(Room(h)) \in Nat
<1>1. PICK T, r, s : T = Line /\ r = HistoryLines /\ s = Append(h, line)
  OBVIOUS
<1>2. h \in Seq(T) /\ line \in T /\ r \in Nat /\ r > 0 /\ Len(h) <= r /\ Len(h) \in Nat
  BY <1>1, InputAssumption
<1>3. s \in Seq(T) /\ Len(s) = Len(h) + 1
  BY <1>1, <1>2
<1>4. Editor!Kept(s) = SubSeq(s, IF Len(s) > r THEN Len(s) - r + 1 ELSE 1, Len(s))
  BY <1>1 DEF Editor!Kept
<1>5. CASE Len(h) >= r
  <2>1. Len(h) = r /\ h # <<>> /\ Len(s) > r /\ Len(s) - r + 1 = 2
    BY <1>2, <1>3, <1>5
  <2>2. Room(h) = Tail(h)
    BY <1>1, <1>5 DEF Room
  <2>3. Tail(h) \in Seq(T) /\ Len(Tail(h)) = r - 1
    BY <1>2, <2>1
  <2>4. SubSeq(s, 2, Len(s)) = Append(Tail(h), line)
    BY <1>1, <1>2, <1>3, <2>1
  <2>5. Append(Tail(h), line) \in Seq(T) /\ Len(Append(Tail(h), line)) = r
    BY <1>2, <2>3
  <2>6. Editor!Kept(s) = Append(Tail(h), line)
    BY <1>4, <2>1, <2>4
  <2> QED  BY <1>1, <1>2, <2>2, <2>3, <2>5, <2>6
<1>6. CASE ~(Len(h) >= r)
  <2>1. Room(h) = h
    BY <1>1, <1>6 DEF Room
  <2>2. SubSeq(s, 1, Len(s)) = s
    BY <1>3
  <2>3. ~(Len(s) > r)
    BY <1>2, <1>3, <1>6
  <2>4. Editor!Kept(s) = s
    BY <1>4, <2>2, <2>3
  <2> QED  BY <1>1, <1>2, <1>3, <1>6, <2>1, <2>4
<1> QED  BY <1>5, <1>6

\* What is remembered of the places K that stay, the line added to u; O are the windows there are then.
HistoryOf(h, u, line, K) ==
    [p \in Places |-> IF p \in K
                      THEN [h EXCEPT ![u] = IF line = <<>> THEN h[u] ELSE Append(Room(h[u]), line)][p] ELSE <<>>]
IndexOf(h, x, u, line, K, O) ==
    [p \in Places |-> IF p \in K
                      THEN (IF line = <<>> THEN x ELSE [x EXCEPT ![u] = Len(Room(h[u])) + 1])[p]
                      ELSE IF p \in O THEN 0 ELSE -1]

LEMMA Remembers ==
    ASSUME NEW h, NEW x, Pasts(h, x), NEW u \in Places, NEW line \in Line, NEW K, "shared" \in K, NEW O,
           NEW H, H = HistoryOf(h, u, line, K), NEW X, X = IndexOf(h, x, u, line, K, O)
    PROVE  /\ Pasts(H, X)
           /\ Forgot(H, IF line = <<>> THEN h ELSE [h EXCEPT ![u] = Editor!Kept(Append(h[u], line))])
           /\ H[u] # <<>> /\ line # <<>> => BackOf(H, X, u) = 0
<1>1. /\ h \in [Places -> Seq(Line)] /\ x \in [Places -> Int]
      /\ \A p \in Places : Len(h[p]) <= HistoryLines /\ x[p] \in -1 .. Len(h[p])
  BY DEF Pasts
<1>2. PICK a : a = Append(Room(h[u]), line)
  OBVIOUS
<1>3. PICK r : r = Len(Room(h[u])) + 1
  OBVIOUS
<1>4. /\ Editor!Kept(Append(h[u], line)) = a /\ a \in Seq(Line) /\ Len(a) = r /\ Len(a) <= HistoryLines /\ r \in Nat
  <2>1. h[u] \in Seq(Line) /\ Len(h[u]) <= HistoryLines
    BY <1>1
  <2> QED  BY <1>2, <1>3, <2>1, KeptIs
<1>5. <<>> \in Seq(Line) /\ Len(<<>>) = 0 /\ 0 <= HistoryLines
  BY InputAssumption
<1>6. ASSUME NEW p \in Places
      PROVE  /\ H[p] = IF p \in K THEN (IF p = u /\ line # <<>> THEN a ELSE h[p]) ELSE <<>>
             /\ X[p] = IF p \in K THEN (IF p = u /\ line # <<>> THEN r ELSE x[p]) ELSE IF p \in O THEN 0 ELSE -1
  <2>1. H[p] = IF p \in K THEN [h EXCEPT ![u] = IF line = <<>> THEN h[u] ELSE a][p] ELSE <<>>
    BY <1>2 DEF HistoryOf
  <2>2. X[p] = IF p \in K THEN (IF line = <<>> THEN x ELSE [x EXCEPT ![u] = r])[p] ELSE IF p \in O THEN 0 ELSE -1
    BY <1>3 DEF IndexOf
  <2>3. [h EXCEPT ![u] = IF line = <<>> THEN h[u] ELSE a][p] = IF p = u /\ line # <<>> THEN a ELSE h[p]
    BY <1>1
  <2>4. (IF line = <<>> THEN x ELSE [x EXCEPT ![u] = r])[p] = IF p = u /\ line # <<>> THEN r ELSE x[p]
    BY <1>1
  <2> QED  BY <2>1, <2>2, <2>3, <2>4
<1>7. DOMAIN H = Places /\ H = [p \in Places |-> H[p]] /\ DOMAIN X = Places /\ X = [p \in Places |-> X[p]]
  BY DEF HistoryOf, IndexOf
<1>8. ASSUME NEW p \in Places
      PROVE  H[p] \in Seq(Line) /\ X[p] \in Int /\ Len(H[p]) <= HistoryLines /\ X[p] \in -1 .. Len(H[p])
  <2>1. CASE p \in K /\ p = u /\ line # <<>>
    <3>1. H[p] = a /\ X[p] = r
      BY <1>6, <2>1
    <3>2. r \in -1 .. r /\ r \in Int
      BY <1>4
    <3> QED  BY <1>4, <3>1, <3>2
  <2>2. CASE p \in K /\ ~(p = u /\ line # <<>>)
    <3>1. H[p] = h[p] /\ X[p] = x[p]
      BY <1>6, <2>2
    <3> QED  BY <1>1, <3>1
  <2>3. CASE p \notin K
    <3>1. H[p] = <<>> /\ X[p] \in {0, -1}
      BY <1>6, <2>3
    <3>2. 0 \in -1 .. 0 /\ -1 \in -1 .. 0
      OBVIOUS
    <3> QED  BY <1>5, <3>1, <3>2
  <2> QED  BY <2>1, <2>2, <2>3
<1>9. Pasts(H, X)
  <2>1. H \in [Places -> Seq(Line)] /\ X \in [Places -> Int]
    BY <1>7, <1>8
  <2> QED  BY <1>8, <2>1 DEF Pasts
<1>10. Forgot(H, IF line = <<>> THEN h ELSE [h EXCEPT ![u] = Editor!Kept(Append(h[u], line))])
  <2>1. PICK g : g = IF line = <<>> THEN h ELSE [h EXCEPT ![u] = a]
    OBVIOUS
  <2>2. ASSUME NEW p \in Places PROVE g[p] = IF p = u /\ line # <<>> THEN a ELSE h[p]
    BY <1>1, <2>1
  <2>3. Forgot(H, g)
    <3>1. ASSUME NEW p \in Places PROVE H[p] = g[p] \/ (p # "shared" /\ H[p] = <<>>)
      BY <1>6, <2>2
    <3> QED  BY <3>1 DEF Forgot
  <2> QED  BY <1>4, <2>1, <2>3
<1>11. ASSUME H[u] # <<>>, line # <<>> PROVE BackOf(H, X, u) = 0
  <2>1. u \in K
    BY <1>6, <1>11
  <2>2. H[u] = a /\ X[u] = r
    BY <1>6, <1>11, <2>1
  <2>3. ~(r < 0) /\ r - r = 0
    BY <1>4
  <2> QED  BY <1>4, <2>2, <2>3 DEF BackOf
<1> QED  BY <1>9, <1>10, <1>11

LEMMA ProgramStep ==
    ASSUME ScreenInv, Program
    PROVE  ScreenInv'
<1>1. CASE UNCHANGED screenVars
  BY <1>1 DEF screenVars, ScreenInv
<1>2. CASE \E t \in Titles : Create(t) \/ Destroy(t)
  BY <1>2, CreateStep, DestroyStep
<1> QED  BY <1>1, <1>2 DEF Program

LEMMA ReturnStep ==
    ASSUME ScreenInv, Typing(buf, len, cur), Pasts(history, index), shared \in BOOLEAN, Return
    PROVE  ScreenInv' /\ Edited /\ Pasts(history', index') /\ shared' \in BOOLEAN
<1>1. PICK b, n, c, d : b = buf /\ n = len /\ c = cur /\ d = buf'
  OBVIOUS
<1>2. /\ Typing(b, n, c) /\ Buffer(b) /\ n \in Nat /\ c \in Nat /\ c <= n /\ n \in 0 .. InputLen
      /\ c \in 0 .. n /\ InputLen \in Nat /\ n < InputLen /\ 0 \in 0 .. InputLen /\ 0 \in 0 .. InputLen - 1
  BY <1>1, TypingIs
<1>3. Buffer(d)
  <2>1. Nul \in Byte /\ n \in 0 .. InputLen - 1
    BY <1>2 DEF Nul, Byte
  <2>2. CASE d = [i \in DOMAIN b |-> Nul]
    BY <1>2, <2>1, <2>2 DEF Buffer
  <2>3. CASE d = [b EXCEPT ![n] = Nul, ![0] = Nul]
    <3>1. d = [[b EXCEPT ![n] = Nul] EXCEPT ![0] = Nul]
      BY <2>3
    <3>2. Buffer([b EXCEPT ![n] = Nul])
      BY <1>2, <2>1, SetIs
    <3> QED  BY <1>2, <2>1, <3>1, <3>2, SetIs
  <2> QED  BY <1>1, <2>2, <2>3 DEF Return
<1>4. len' = 0 /\ cur' = 0 /\ shared' = shared
  BY DEF Return
<1>5. Typing(buf', len', cur')
  BY <1>1, <1>2, <1>3, <1>4 DEF Typing
<1>6. TL' = <<>> /\ TR' = <<>>
  BY <1>1, <1>2, <1>3, <1>4, AtTheEnds DEF TL, TR
<1>7. CASE UNCHANGED <<screenVars, history, index, handed>>
  <2>1. InUse' = InUse
    BY <1>4, <1>7 DEF InUse, Scope, ActiveTitle, screenVars
  <2>2. TB' = TB
    BY <1>7, <2>1 DEF TB, BackOf
  <2>3. Editor!LineNext
    BY <1>6, <1>7, <2>1, <2>2, AsKeptBack
  <2>4. ScreenInv'
    BY <1>7 DEF screenVars, ScreenInv
  <2> QED  BY <1>4, <1>5, <1>7, <2>3, <2>4 DEF Edited
<1>8. ASSUME NEW line, line = StringIn([buf EXCEPT ![len] = Nul]), len > 0, Program, handed' = line,
             history' = HistoryAfter(line), index' = IndexAfter(line)
      PROVE  ScreenInv' /\ Edited /\ Pasts(history', index') /\ shared' \in BOOLEAN
  <2>1. ScreenInv'
    BY <1>8, ProgramStep
  <2>2. InUse \in Places /\ InUse' \in Places
    <3>1. ActiveTitle' \in Titles
      BY <2>1, ActiveIs DEF ScreenInv, Screen, ActiveTitle
    <3> QED  BY <3>1, InUseIs DEF InUse, Scope, Places
  <2>3. PICK z \in 0 .. n : line = LeftOf(b, z) /\ Editor!Upto(LeftOf(b, n)) = LeftOf(b, z)
    <3>1. line = StringIn(EndedAt(b, n))
      BY <1>1, <1>8 DEF EndedAt
    <3> QED  BY <1>2, <3>1, StringIs
  <2>4. line \in Line
    <3>1. z \in 0 .. InputLen /\ z <= InputLen - 1
      BY <1>2
    <3> QED  BY <1>2, <2>3, <3>1, LeftIs DEF Line
  <2>5. TL \o TR = LeftOf(b, n)
    BY <1>1, <1>2, WholeIs DEF TL, TR
  <2>6. TL \o TR # <<>>
    <3>1. LeftOf(b, n) \in Text /\ Len(LeftOf(b, n)) = n
      BY <1>2, LeftIs
    <3> QED  BY <1>1, <1>2, <1>8, <2>5, <3>1, TextIs
  <2>7. line = Editor!Upto(TL \o TR)
    BY <2>3, <2>5
  <2>8. PICK u, O, K : u = InUse /\ O = Range(windows') /\ K = {"shared"} \cup (Range(windows) \cap Range(windows'))
    OBVIOUS
  <2>9. history' = HistoryOf(history, u, line, K)
    BY <1>8, <2>8 DEF HistoryAfter, HistoryOf
  <2>10. index' = IndexOf(history, index, u, line, K, O)
    BY <1>8, <2>8 DEF IndexAfter, IndexOf
  <2>11. "shared" \in K /\ u \in Places
    BY <2>2, <2>8
  <2>12. /\ Pasts(history', index')
         /\ Forgot(history', IF line = <<>> THEN history
                             ELSE [history EXCEPT ![u] = Editor!Kept(Append(history[u], line))])
         /\ history'[u] # <<>> /\ line # <<>> => BackOf(history', index', u) = 0
    BY <2>4, <2>9, <2>10, <2>11, Remembers
  <2>13. InUse' = InUse /\ history'[InUse] # <<>> /\ line # <<>> => TB' = 0
    BY <2>8, <2>12 DEF TB
  <2>14. Editor!LineNext
    BY <1>6, <1>8, <2>2, <2>6, <2>7, <2>8, <2>12, <2>13, AsEnter
  <2> QED  BY <1>4, <1>5, <2>1, <2>12, <2>14 DEF Edited
<1> QED  BY <1>7, <1>8 DEF Return

\* The inductive invariant of the input line.
InputInv == ScreenInv /\ Typing(buf, len, cur) /\ Pasts(history, index) /\ shared \in BOOLEAN

LEMMA InputStarts ==
    ASSUME WindowsStart, InputStart
    PROVE  InputInv /\ Editor!LineInit
<1>1. ScreenInv
  BY ScreenStart
<1>2. InputLen \in Nat /\ InputLen > 2 /\ HistoryLines \in Nat /\ 0 \in Byte
  BY InputAssumption DEF Byte
<1>3. buf = [i \in 0 .. InputLen - 1 |-> 0] /\ len = 0 /\ cur = 0 /\ shared = TRUE /\ handed = <<>>
  BY DEF InputStart, Nul
<1>4. Buffer(buf)
  BY <1>2, <1>3 DEF Buffer
<1>5. Typing(buf, len, cur)
  BY <1>2, <1>3, <1>4 DEF Typing
<1>6. history = [p \in Places |-> <<>>] /\ index = [p \in Places |-> IF p = "status" THEN 0 ELSE -1]
  BY DEF InputStart
<1>7. <<>> \in Seq(Line) /\ Len(<<>>) = 0
  OBVIOUS
<1>8. Pasts(history, index)
  <2>1. \A p \in Places : history[p] = <<>> /\ index[p] \in {0, -1}
    BY <1>6
  <2>2. history \in [Places -> Seq(Line)] /\ index \in [Places -> Int]
    BY <1>6, <1>7
  <2>3. 0 \in -1 .. 0 /\ -1 \in -1 .. 0 /\ 0 <= HistoryLines
    BY <1>2
  <2> QED  BY <1>7, <2>1, <2>2, <2>3 DEF Pasts
<1>9. InUse \in Places
  BY <1>1, InUseIs
<1>10. TL = <<>> /\ TR = <<>>
  <2>1. 0 \in 0 .. InputLen
    BY <1>2
  <2> QED  BY <1>3, <1>4, <2>1, AtTheEnds DEF TL, TR
<1>11. TB = 0
  <2>1. history[InUse] = <<>> /\ index[InUse] \in {0, -1}
    BY <1>6, <1>9
  <2> QED  BY <1>7, <2>1 DEF TB, BackOf
<1>12. Editor!LineInit
  BY <1>3, <1>6, <1>9, <1>10, <1>11 DEF Editor!LineInit, TL, TR, TB, LeftOf, RightOf, BackOf
<1> QED  BY <1>1, <1>3, <1>5, <1>8, <1>12 DEF InputInv

LEMMA EditKeyStep ==
    ASSUME InputInv, EditKey, UNCHANGED screenVars
    PROVE  InputInv' /\ Editor!LineNext
<1>1. Typing(buf, len, cur)
  BY DEF InputInv
<1>2. Edited /\ Unedited
  <2>1. ASSUME NEW x \in Typed \cup Formats, Insert(x) PROVE Edited /\ Unedited
    BY <1>1, <2>1, InsertStep DEF Insert
  <2>2. ASSUME NEW start \in {cur - 1, WordStart}, RemoveBack(start) PROVE Edited /\ Unedited
    BY <1>1, <2>2, RemoveBackStep DEF RemoveBack
  <2>3. CASE Delete
    BY <1>1, <2>3, DeleteStep DEF Delete
  <2>4. CASE KillEnd \/ KillLine
    BY <1>1, <2>4, KillStep DEF KillEnd, KillLine
  <2>5. ASSUME NEW n \in {0, len, AtLeastZero(cur - 1), Clamp(cur + 1, 0, len), WordStart, WordEnd}, MoveTo(n)
        PROVE  Edited /\ Unedited
    BY <1>1, <2>5, MoveStep DEF MoveTo
  <2> QED  BY <2>1, <2>2, <2>3, <2>4, <2>5 DEF EditKey
<1>3. ScreenInv'
  BY DEF InputInv, ScreenInv, screenVars
<1>4. history' = history /\ index' = index /\ shared' = shared
  BY <1>2 DEF Unedited
<1> QED  BY <1>2, <1>3, <1>4 DEF InputInv, Edited

LEMMA NextWindowStep ==
    ASSUME InputInv, NextWindow
    PROVE  InputInv' /\ Editor!LineNext
<1>1. ScreenInv'
  BY ChooseStep DEF InputInv, NextWindow, AltRight
<1>2. buf' = buf /\ len' = len /\ cur' = cur /\ shared' = shared /\ history' = history /\ index' = index /\ handed' = handed
  BY DEF NextWindow
<1>3. TL' = TL /\ TR' = TR /\ Forgot(history', history)
  BY <1>2 DEF TL, TR, Forgot
<1>4. Editor!LineNext
  BY <1>2, <1>3, AsElsewhere
<1> QED  BY <1>1, <1>2, <1>4 DEF InputInv

LEMMA InputStep ==
    ASSUME InputInv, InputNext
    PROVE  InputInv' /\ Editor!LineNext
<1>1. ScreenInv /\ Typing(buf, len, cur) /\ Pasts(history, index) /\ shared \in BOOLEAN
  BY DEF InputInv
<1>2. UNCHANGED screenVars => ScreenInv'
  BY <1>1 DEF ScreenInv, screenVars
<1>3. CASE EditKey /\ UNCHANGED screenVars
  BY <1>3, EditKeyStep
<1>4. CASE Up /\ UNCHANGED screenVars
  <2>1. Edited /\ Pasts(history', index')
    BY <1>1, <1>4, UpStep
  <2>2. shared' = shared
    BY <1>4 DEF Up, Recalled
  <2> QED  BY <1>1, <1>2, <1>4, <2>1, <2>2 DEF InputInv, Edited
<1>5. CASE Down /\ UNCHANGED screenVars
  <2>1. Edited /\ Pasts(history', index')
    BY <1>1, <1>5, DownStep
  <2>2. shared' = shared
    BY <1>5 DEF Down, Recalled
  <2> QED  BY <1>1, <1>2, <1>5, <2>1, <2>2 DEF InputInv, Edited
<1>6. ASSUME NEW now \in BOOLEAN, SetShared(now), UNCHANGED screenVars PROVE InputInv' /\ Editor!LineNext
  <2>1. Edited /\ Pasts(history', index')
    BY <1>1, <1>6, ShareStep
  <2>2. shared' \in BOOLEAN
    BY <1>6 DEF SetShared
  <2> QED  BY <1>2, <1>6, <2>1, <2>2 DEF InputInv, Edited
<1>7. ASSUME NEW words \in Offers, Completion(words), UNCHANGED screenVars PROVE InputInv' /\ Editor!LineNext
  <2>1. Edited
    BY <1>1, <1>7, CompletionStep
  <2>2. shared' = shared /\ history' = history /\ index' = index
    BY <1>7 DEF Completion
  <2> QED  BY <1>1, <1>2, <1>7, <2>1, <2>2 DEF InputInv, Edited
<1>8. CASE Return
  BY <1>1, <1>8, ReturnStep DEF InputInv, Edited
<1>9. CASE NextWindow
  BY <1>9, NextWindowStep
<1>10. CASE Key
  BY <1>3, <1>4, <1>5, <1>6, <1>7, <1>8, <1>9, <1>10 DEF Key
<1> QED  BY <1>8, <1>10 DEF InputNext

\* The bytes, the length and the cursor of the input line edit a line of text as LineEditor
\* promises, for any length of the buffer and of the history, any keys, words offered and windows,
\* as long as no completion overruns the buffer, where the model stops (tui.completion.c:222).
THEOREM LineAlwaysEdited == InputSpec => LineIsEdited
<1>1. WindowsStart /\ InputStart => InputInv /\ Editor!LineInit
  BY InputStarts
<1>2. InputInv /\ [InputNext]_<<screenVars, inputVars>> => InputInv' /\ [Editor!LineNext]_Editor!lineVars
  <2> SUFFICES ASSUME InputInv, [InputNext]_<<screenVars, inputVars>>
               PROVE  InputInv' /\ [Editor!LineNext]_Editor!lineVars
    OBVIOUS
  <2>1. CASE InputNext
    BY <2>1, InputStep
  <2>2. CASE UNCHANGED <<screenVars, inputVars>>
    <3>1. UNCHANGED <<windows, active, log, reader, serial, buf, len, cur, shared, history, index, handed>>
      BY <2>2 DEF screenVars, inputVars
    <3>2. InputInv'
      BY <3>1 DEF InputInv, ScreenInv
    <3>3. InUse' = InUse
      BY <3>1 DEF InUse, Scope, ActiveTitle
    <3>4. UNCHANGED Editor!lineVars
      BY <3>1, <3>3 DEF Editor!lineVars
    <3> QED  BY <3>2, <3>4
  <2> QED  BY <2>1, <2>2
<1> QED  BY <1>1, <1>2, PTL DEF InputSpec, LineIsEdited, Editor!LineSpec
=============================================================================
