------------------------- MODULE FileHistory_proofs -------------------------
(* Proofs about FileHistory, for every set of paths, tags and contents: an *)
(* UNDO takes back the REVERT or UNDO before it, and no step on the way    *)
(* loses what the file held. *)
EXTENDS FileHistory, TLAPS

Files == [Name -> Version \cup {Missing}]

(* The file that UNDO restores the main file from. *)
Source(fs) ==
  IF fs["__UNDO__"] # Missing THEN "__UNDO__"
  ELSE IF fs["__REDO__"] # Missing THEN "__REDO__" ELSE "bak"

(* rename moves a file if it is there. *)
LEMMA RenamedFacts ==
  ASSUME NEW fs \in Files, NEW a \in Name, NEW b \in Name, a # b
  PROVE  /\ Renamed(fs, a, b) \in Files
         /\ \A n \in Name \ {a, b} : Renamed(fs, a, b)[n] = fs[n]
         /\ fs[a] = Missing => Renamed(fs, a, b) = fs
         /\ fs[a] # Missing =>
              Renamed(fs, a, b)[a] = Missing /\ Renamed(fs, a, b)[b] = fs[a]
BY DEF Renamed, Files

(* A copy changes the target only: to what the source holds, or to empty.  *)
LEMMA CopyingFacts ==
  ASSUME NEW fs \in Files, NEW a \in Name, NEW b \in Name
  PROVE  /\ Copying(fs, a, b) \in Seq(Files) /\ Len(Copying(fs, a, b)) = 2
         /\ End(Copying(fs, a, b)) \in Files
         /\ \A n \in Name : End(Copying(fs, a, b))[n] =
              IF n # b THEN fs[n] ELSE IF fs[a] = Missing THEN Empty ELSE fs[a]
<1> DEFINE truncated == [fs EXCEPT ![b] = Empty]
           copied == IF fs[a] = Missing THEN truncated ELSE [fs EXCEPT ![b] = fs[a]]
<1>1. truncated \in Files /\ copied \in Files
  BY HistoryAssumption DEF Files
<1>2. Copying(fs, a, b) = <<truncated, copied>>
  BY DEF Copying
<1>3. \A n \in Name : copied[n] =
        IF n # b THEN fs[n] ELSE IF fs[a] = Missing THEN Empty ELSE fs[a]
  BY DEF Files
<1> HIDE DEF truncated, copied
<1> QED
  BY <1>1, <1>2, <1>3 DEF End

(* What lists of steps in a row end in is what the last list ends in.      *)
LEMMA EndOfTwo ==
  ASSUME NEW p \in Seq(Files), NEW q \in Seq(Files), Len(q) > 0
  PROVE  /\ p \o q \in Seq(Files) /\ Len(p \o q) > 0
         /\ End(p \o q) = End(q)
<1>1. /\ p \o q \in Seq(Files) /\ Len(p \o q) = Len(p) + Len(q)
      /\ \A k \in 1..Len(q) : (p \o q)[Len(p) + k] = q[k]
  OBVIOUS
<1>2. Len(p) \in Nat /\ Len(q) \in Nat
  OBVIOUS
<1> QED
  BY <1>1, <1>2 DEF End

(* A content that one of a document's files holds, at every one of a list  *)
(* of steps. *)
Holds(fs, w) == \E n \in Name : fs[n] = w

Keeps(states, w) == \A k \in 1..Len(states) : Holds(states[k], w)

(* Copying keeps what any file but the target holds. *)
LEMMA CopyingKeeps ==
  ASSUME NEW fs \in Files, NEW a \in Name, NEW b \in Name, NEW m \in Name \ {b}
  PROVE  Keeps(Copying(fs, a, b), fs[m])
<1> DEFINE truncated == [fs EXCEPT ![b] = Empty]
           copied == IF fs[a] = Missing THEN truncated ELSE [fs EXCEPT ![b] = fs[a]]
<1>1. Copying(fs, a, b) = <<truncated, copied>>
  BY DEF Copying
<1>2. truncated[m] = fs[m] /\ copied[m] = fs[m]
  BY DEF Files
<1> HIDE DEF truncated, copied
<1>3. ASSUME NEW k \in 1..2 PROVE Holds(<<truncated, copied>>[k], fs[m])
  BY <1>2, <1>3 DEF Holds
<1> QED
  BY <1>1, <1>3 DEF Keeps

(* Two lists in a row keep what both keep. *)
LEMMA BothKeep ==
  ASSUME NEW w, NEW p \in Seq(Files), NEW q \in Seq(Files), Keeps(p, w), Keeps(q, w)
  PROVE  p \o q \in Seq(Files) /\ Keeps(p \o q, w)
<1>1. /\ p \o q \in Seq(Files) /\ Len(p \o q) = Len(p) + Len(q)
      /\ Len(p) \in Nat /\ Len(q) \in Nat
      /\ \A k \in 1..Len(p) : (p \o q)[k] = p[k]
      /\ \A k \in (Len(p) + 1)..(Len(p) + Len(q)) : (p \o q)[k] = q[k - Len(p)]
  OBVIOUS
<1> SUFFICES ASSUME NEW k \in 1..(Len(p) + Len(q)) PROVE Holds((p \o q)[k], w)
  BY <1>1 DEF Keeps
<1>2. CASE k =< Len(p)
  BY <1>1, <1>2 DEF Keeps
<1>3. CASE k > Len(p)
  <2>1. k - Len(p) \in 1..Len(q) /\ k \in (Len(p) + 1)..(Len(p) + Len(q))
    BY <1>1, <1>3
  <2> QED
    BY <1>1, <2>1 DEF Keeps
<1> QED
  BY <1>1, <1>2, <1>3

(* Restoring keeps the main file, then puts the saved one in its place.    *)
LEMMA RestoringFacts ==
  ASSUME NEW fs \in Files, NEW saved \in Name \ {"main", "bak"}, fs[saved] # Missing,
         NEW keep \in {"__UNDO__", "__REDO__"}
  PROVE  LET states == Restoring(fs, saved, keep)
             end    == End(states)
         IN /\ states \in Seq(Files) /\ Len(states) > 0 /\ end \in Files
            /\ fs["main"] # Missing => end[keep] = fs["main"]
            /\ saved # keep => end["main"] = fs[saved]
            /\ \A n \in Name \ {"main", "bak", keep} : end[n] = fs[n]
            /\ fs["main"] # Missing => Keeps(states, fs["main"])
<1> DEFINE kept == Copying(fs, "main", keep)
           k    == End(kept)
           main == Copying(k, saved, "main")
           m    == End(main)
           bak  == Copying(m, saved, "bak")
           e    == End(bak)
<1>0. "main" \in Name /\ "bak" \in Name /\ keep \in Name /\ saved \in Name
  BY DEF Name
<1>1. /\ kept \in Seq(Files) /\ k \in Files
      /\ \A n \in Name : k[n] =
           IF n # keep THEN fs[n] ELSE IF fs["main"] = Missing THEN Empty ELSE fs["main"]
  BY <1>0, CopyingFacts
<1>2. Restoring(fs, saved, keep) = kept \o main \o bak
  BY DEF Restoring
<1> HIDE DEF kept, k
<1>3. /\ main \in Seq(Files) /\ Len(main) = 2 /\ m \in Files
      /\ \A n \in Name : m[n] =
           IF n # "main" THEN k[n] ELSE IF k[saved] = Missing THEN Empty ELSE k[saved]
  BY <1>0, <1>1, CopyingFacts
<1> HIDE DEF main, m
<1>4. /\ bak \in Seq(Files) /\ Len(bak) = 2 /\ e \in Files
      /\ \A n \in Name : e[n] =
           IF n # "bak" THEN m[n] ELSE IF m[saved] = Missing THEN Empty ELSE m[saved]
  BY <1>0, <1>3, CopyingFacts
<1>5. e = End(bak)
  OBVIOUS
<1> HIDE DEF bak, e
<1>6. /\ kept \o main \in Seq(Files) /\ kept \o main \o bak \in Seq(Files)
      /\ Len(kept \o main \o bak) > 0 /\ End(kept \o main \o bak) = e
  <2>1. kept \o main \in Seq(Files) /\ Len(bak) > 0
    BY <1>1, <1>3, <1>4
  <2>2. /\ (kept \o main) \o bak \in Seq(Files) /\ Len((kept \o main) \o bak) > 0
        /\ End((kept \o main) \o bak) = End(bak)
    BY <1>4, <2>1, EndOfTwo, Zenon
  <2> QED
    BY <1>5, <2>1, <2>2
<1>7. /\ fs["main"] # Missing => e[keep] = fs["main"]
      /\ saved # keep => e["main"] = fs[saved]
      /\ \A n \in Name \ {"main", "bak", keep} : e[n] = fs[n]
  BY <1>0, <1>1, <1>3, <1>4 DEF Files
<1>8. ASSUME fs["main"] # Missing PROVE Keeps(kept \o main \o bak, fs["main"])
  <2>1. k[keep] = fs["main"] /\ m[keep] = fs["main"]
    BY <1>0, <1>1, <1>3, <1>8
  <2>2. Keeps(kept, fs["main"])
    BY <1>0, CopyingKeeps DEF kept
  <2>3. Keeps(main, k[keep])
    BY <1>0, <1>1, CopyingKeeps DEF main
  <2>4. Keeps(bak, m[keep])
    BY <1>0, <1>3, CopyingKeeps DEF bak
  <2>5. kept \o main \in Seq(Files) /\ Keeps(kept \o main, fs["main"])
    BY <1>1, <1>3, <2>1, <2>2, <2>3, BothKeep
  <2>6. Keeps((kept \o main) \o bak, fs["main"])
    BY <1>4, <2>1, <2>4, <2>5, BothKeep, Zenon
  <2> QED
    BY <2>6
<1> QED
  BY <1>2, <1>4, <1>6, <1>7, <1>8

(* Toggling also removes the file it restored from.                        *)
LEMMA TogglingFacts ==
  ASSUME NEW fs \in Files, NEW saved \in {"__UNDO__", "__REDO__"}, fs[saved] # Missing,
         NEW keep \in {"__UNDO__", "__REDO__"}, keep # saved
  PROVE  LET end == End(Toggling(fs, saved, keep))
         IN /\ Toggling(fs, saved, keep) \in Seq(Files)
            /\ Len(Toggling(fs, saved, keep)) > 0 /\ end \in Files
            /\ fs["main"] # Missing => end[keep] = fs["main"]
            /\ end["main"] = fs[saved] /\ end[saved] = Missing
<1> DEFINE states == Restoring(fs, saved, keep)
           gone   == [End(states) EXCEPT ![saved] = Missing]
<1>0. "main" \in Name /\ keep \in Name /\ saved \in Name \ {"main", "bak"}
  BY DEF Name
<1>1. /\ states \in Seq(Files) /\ Len(states) > 0 /\ End(states) \in Files
      /\ fs["main"] # Missing => End(states)[keep] = fs["main"]
      /\ End(states)["main"] = fs[saved]
  BY <1>0, RestoringFacts
<1>2. Toggling(fs, saved, keep) = Append(states, gone)
  BY DEF Toggling
<1> HIDE DEF states
<1>3. gone \in Files
  BY <1>1 DEF Files
<1>4. /\ fs["main"] # Missing => gone[keep] = fs["main"]
      /\ gone["main"] = fs[saved] /\ gone[saved] = Missing
  BY <1>0, <1>1 DEF Files
<1> HIDE DEF gone
<1>5. /\ Append(states, gone) \in Seq(Files) /\ Len(Append(states, gone)) > 0
      /\ End(Append(states, gone)) = gone
  BY <1>1, <1>3 DEF End
<1> QED
  BY <1>2, <1>3, <1>4, <1>5

(* UNDO restores the main file from its source and leaves what it replaced *)
(* where the next UNDO looks first.                                        *)
LEMMA UndoingFacts ==
  ASSUME NEW fs \in Files
  PROVE  LET end == End(Undoing(fs))
         IN /\ Undoing(fs) \in Seq(Files) /\ Len(Undoing(fs)) > 0 /\ end \in Files
            /\ end["main"] = fs[Source(fs)]
            /\ fs["main"] # Missing => end[Source(end)] = fs["main"]
<1>1. CASE fs["__UNDO__"] # Missing
  <2>1. Undoing(fs) = Toggling(fs, "__UNDO__", "__REDO__")
    BY <1>1 DEF Undoing
  <2> QED
    BY <1>1, <2>1, TogglingFacts DEF Source
<1>2. CASE fs["__UNDO__"] = Missing /\ fs["__REDO__"] # Missing
  <2>1. Undoing(fs) = Toggling(fs, "__REDO__", "__UNDO__")
    BY <1>2 DEF Undoing
  <2> QED
    BY <1>2, <2>1, TogglingFacts DEF Source
<1>3. CASE fs["__UNDO__"] = Missing /\ fs["__REDO__"] = Missing
  <2> DEFINE out  == Renamed(fs, "main", "swap")
             back == Renamed(out, "bak", "main")
             end  == Renamed(back, "swap", "bak")
  <2>0. {"main", "bak", "swap", "__UNDO__", "__REDO__"} \subseteq Name
    BY DEF Name
  <2>1. Undoing(fs) = <<out, back, end>> /\ End(Undoing(fs)) = end
    BY <1>3 DEF Undoing, End
  <2>2. /\ out \in Files
        /\ \A n \in Name \ {"main", "swap"} : out[n] = fs[n]
        /\ fs["main"] = Missing => out = fs
        /\ fs["main"] # Missing => out["main"] = Missing /\ out["swap"] = fs["main"]
    BY <2>0, RenamedFacts
  <2> HIDE DEF out
  <2>3. /\ back \in Files
        /\ \A n \in Name \ {"bak", "main"} : back[n] = out[n]
        /\ out["bak"] = Missing => back = out
        /\ out["bak"] # Missing => back["bak"] = Missing /\ back["main"] = out["bak"]
    BY <2>0, <2>2, RenamedFacts
  <2> HIDE DEF back
  <2>4. /\ end \in Files
        /\ \A n \in Name \ {"swap", "bak"} : end[n] = back[n]
        /\ back["swap"] = Missing => end = back
        /\ back["swap"] # Missing => end["swap"] = Missing /\ end["bak"] = back["swap"]
    BY <2>0, <2>3, RenamedFacts
  <2> HIDE DEF end
  <2>5. end["main"] = fs["bak"] /\ (fs["main"] # Missing => end["bak"] = fs["main"])
    BY <2>0, <2>2, <2>3, <2>4
  <2>6. end["__UNDO__"] = Missing /\ end["__REDO__"] = Missing
    BY <1>3, <2>0, <2>2, <2>3, <2>4
  <2> QED
    BY <1>3, <2>1, <2>2, <2>3, <2>4, <2>5, <2>6 DEF Source
<1> QED
  BY <1>1, <1>2, <1>3

(* A commit leaves files behind at each of its steps. *)
LEMMA SavingFacts ==
  ASSUME NEW fs \in Files, NEW v \in Version
  PROVE  /\ Saving(fs, v) \in Seq(Files) /\ Len(Saving(fs, v)) > 0
         /\ End(Saving(fs, v)) \in Files
         /\ fs["main"] # Missing => End(Saving(fs, v))["bak"] = fs["main"]
         /\ \A n \in Name \ {"main", "bak"} : End(Saving(fs, v))[n] = fs[n]
<1> DEFINE out == Renamed(fs, "main", "bak")
<1>1. "main" \in Name /\ "bak" \in Name
  BY DEF Name
<1>2. out \in Files
  BY <1>1, RenamedFacts
<1>5. /\ fs["main"] # Missing => out["bak"] = fs["main"]
      /\ \A n \in Name \ {"main", "bak"} : out[n] = fs[n]
  BY <1>1, RenamedFacts
<1>3. Saving(fs, v) = <<out, [out EXCEPT !["main"] = Empty], [out EXCEPT !["main"] = v]>>
  BY DEF Saving
<1> HIDE DEF out
<1> DEFINE opened  == [out EXCEPT !["main"] = Empty]
           written == [out EXCEPT !["main"] = v]
<1>4. opened \in Files /\ written \in Files
  BY <1>1, <1>2, HistoryAssumption DEF Files
<1>6. \A n \in Name \ {"main"} : written[n] = out[n]
  BY <1>1, <1>2 DEF Files
<1> HIDE DEF opened, written
<1> DEFINE states == <<out, opened, written>>
<1>7. states \in Seq(Files) /\ Len(states) > 0 /\ End(states) = written
  BY <1>2, <1>4 DEF End
<1>8. Saving(fs, v) = states
  BY <1>3 DEF opened, written
<1>9. /\ fs["main"] # Missing => written["bak"] = fs["main"]
      /\ \A n \in Name \ {"main", "bak"} : written[n] = fs[n]
  BY <1>1, <1>5, <1>6
<1> HIDE DEF states
<1> QED
  BY <1>4, <1>7, <1>8, <1>9

-----------------------------------------------------------------------------
(* The file that the next UNDO restores holds what the last UNDO or REVERT *)
(* replaced. *)
Ready(fs, was) == was # Missing => fs[Source(fs)] = was

HInv ==
  /\ TypeOK
  /\ PlainTags => \A f \in Path : Ready(disk[f], last[f])

(* Types and readiness survive when one document's files become fs, and    *)
(* nothing is remembered of it, or what an UNDO or a REVERT replaced and   *)
(* left for the next UNDO.                                                 *)
LEMMA OneFile ==
  ASSUME HInv, NEW f \in Path, NEW fs \in Files,
         disk' = [disk EXCEPT ![f] = fs],
         \/ Forget({f})
         \/ Remember(f) /\ Ready(fs, disk[f]["main"]),
         slots' \in [Path -> 0..MaxEntries], loaded' \subseteq Path
  PROVE  HInv'
<1>1. "main" \in Name
  BY DEF Name
<1>0. PICK was \in Version \cup {Missing} :
        /\ last' = [last EXCEPT ![f] = was]
        /\ was # Missing => was = disk[f]["main"] /\ Ready(fs, was)
  <2>1. CASE Forget({f})
    <3>1. last' = [last EXCEPT ![f] = Missing]
      BY <2>1 DEF HInv, TypeOK, Forget
    <3> QED
      BY <3>1
  <2>2. CASE Remember(f) /\ Ready(fs, disk[f]["main"])
    <3> DEFINE was == disk[f]["main"]
    <3>1. was \in Version \cup {Missing}
      BY <1>1 DEF HInv, TypeOK
    <3>2. last' = [last EXCEPT ![f] = was] /\ Ready(fs, was)
      BY <2>2 DEF Remember
    <3>3. was = disk[f]["main"]
      OBVIOUS
    <3> HIDE DEF was
    <3> QED
      BY <3>1, <3>2, <3>3
  <2> QED
    BY <2>1, <2>2
<1>2. TypeOK'
  BY <1>0, ZenonT(40) DEF HInv, TypeOK, Files
<1>3. ASSUME PlainTags, NEW g \in Path PROVE Ready(disk'[g], last'[g])
  <2>1. CASE g = f
    <3>1. disk'[g] = fs /\ last'[g] = was
      BY <1>0, <2>1 DEF HInv, TypeOK
    <3> QED
      BY <1>0, <3>1 DEF Ready
  <2>2. CASE g # f
    <3>1. disk'[g] = disk[g] /\ last'[g] = last[g]
      BY <1>0, <2>2 DEF HInv, TypeOK
    <3> QED
      BY <1>3, <3>1 DEF HInv
  <2> QED
    BY <2>1, <2>2
<1> QED
  BY <1>2, <1>3 DEF HInv

(* The files a server that ended inside an operation leaves, and what it   *)
(* registers then. *)
LEMMA DyingStep ==
  ASSUME HInv, NEW f \in Path, NEW states \in Seq(Files),
         StopWithin(f, states), Forget({f}), Register
  PROVE  HInv'
<1>1. PICK k \in 1..(Len(states) - 1) : disk' = [disk EXCEPT ![f] = states[k]]
  BY DEF StopWithin
<1>2. states[k] \in Files
  OBVIOUS
<1>3. slots' \in [Path -> 0..MaxEntries] /\ loaded' \subseteq Path
  BY HistoryAssumption DEF Register
<1> QED
  BY <1>1, <1>2, <1>3, OneFile

(* Every step keeps the invariant. *)
LEMMA NextHInv == HInv /\ [Next]_vars => HInv'
<1> SUFFICES ASSUME HInv, [Next]_vars PROVE HInv'
  OBVIOUS
<1>t. /\ {"main", "bak", "swap", "__UNDO__", "__REDO__"} \cup Tag \subseteq Name
      /\ Tag \subseteq Name \ {"main", "bak"}
      /\ \A f \in Path : disk[f] \in Files
      /\ slots \in [Path -> 0..MaxEntries] /\ loaded \subseteq Path
      /\ MaxEntries \in Nat \ {0} /\ Empty \in Version /\ Missing \notin Version
  BY HistoryAssumption DEF HInv, TypeOK, Name, Files
<1>1. ASSUME NEW f \in Path, Create(f) PROVE HInv'
  <2> DEFINE fs == Emptied(disk[f])
  <2>1. fs \in Files /\ disk' = [disk EXCEPT ![f] = fs]
    BY <1>1, <1>t DEF Create, Emptied, Files, HInv, TypeOK
  <2>2. slots' \in [Path -> 0..MaxEntries] /\ loaded' \subseteq Path /\ Forget({f})
    BY <1>1, <1>t DEF Create
  <2> HIDE DEF fs
  <2> QED
    BY <2>1, <2>2, OneFile
<1>2. ASSUME NEW f \in Path, Delete(f) PROVE HInv'
  <2> DEFINE fs == Removed(disk[f])
  <2>1. fs \in Files /\ disk' = [disk EXCEPT ![f] = fs]
    BY <1>2, <1>t DEF Delete, Removed, Files, HInv, TypeOK
  <2>2. slots' \in [Path -> 0..MaxEntries] /\ loaded' \subseteq Path /\ Forget({f})
    BY <1>2, <1>t DEF Delete, Listed
  <2> HIDE DEF fs
  <2> QED
    BY <2>1, <2>2, OneFile
<1>3. ASSUME NEW f \in Path, Undo(f) PROVE HInv'
  <2> DEFINE fs == End(Undoing(disk[f]))
  <2>1. fs \in Files /\ Ready(fs, disk[f]["main"])
    BY <1>t, UndoingFacts DEF Ready
  <2>2. /\ disk' = [disk EXCEPT ![f] = fs] /\ Remember(f)
        /\ slots' \in [Path -> 0..MaxEntries] /\ loaded' \subseteq Path
    BY <1>3, <1>t DEF Undo, Perform
  <2> HIDE DEF fs
  <2> QED
    BY <2>1, <2>2, OneFile
<1>4. ASSUME NEW f \in Path, NEW tag \in Tag, Checkpoint(f, tag) PROVE HInv'
  <2> DEFINE Saved(old) == End(Copying(old, "main", tag))
             fs         == Saved(disk[f])
  <2>0. "main" \in Name /\ tag \in Name /\ disk[f] \in Files
    BY <1>t
  <2>1. fs \in Files /\ \A n \in Name \ {tag} : fs[n] = disk[f][n]
    <3>1. ASSUME NEW old \in Files
          PROVE  Saved(old) \in Files /\ \A n \in Name \ {tag} : Saved(old)[n] = old[n]
      BY <2>0, CopyingFacts
    <3> HIDE DEF Saved
    <3> QED
      BY <2>0, <3>1
  <2>2. /\ disk' = [disk EXCEPT ![f] = fs] /\ UNCHANGED <<slots, loaded, last>>
    BY <1>4 DEF Checkpoint, Perform
  <2> HIDE DEF fs
  <2>3. TypeOK'
    BY <2>1, <2>2 DEF HInv, TypeOK, Files
  <2>4. ASSUME PlainTags, NEW g \in Path PROVE Ready(disk'[g], last'[g])
    <3>1. Ready(disk[g], last[g])
      BY <2>4 DEF HInv
    <3>2. CASE g = f
      <4>1. \A n \in {"__UNDO__", "__REDO__", "bak"} : fs[n] = disk[f][n]
        BY <1>t, <2>1, <2>4, HistoryAssumption DEF PlainTags
      <4>2. disk'[g] = fs /\ last'[g] = last[g]
        BY <2>2, <3>2 DEF HInv, TypeOK
      <4> QED
        BY <3>1, <3>2, <4>1, <4>2 DEF Ready, Source
    <3>3. CASE g # f
      BY <2>2, <3>1, <3>3 DEF HInv, TypeOK
    <3> QED
      BY <3>2, <3>3
  <2> QED
    BY <2>3, <2>4 DEF HInv
<1>5. ASSUME NEW f \in Path, NEW tag \in Tag, Revert(f, tag) PROVE HInv'
  <2> DEFINE fs == End(Restoring(disk[f], tag, "__UNDO__"))
  <2>1. fs \in Files /\ (disk[f]["main"] # Missing => fs["__UNDO__"] = disk[f]["main"])
    BY <1>5, <1>t, RestoringFacts DEF Revert
  <2>2. /\ disk' = [disk EXCEPT ![f] = fs] /\ Remember(f)
        /\ slots' \in [Path -> 0..MaxEntries] /\ loaded' \subseteq Path
    BY <1>5, <1>t DEF Revert, Perform
  <2> HIDE DEF fs
  <2>3. Ready(fs, disk[f]["main"])
    BY <2>1 DEF Source, Ready
  <2> QED
    BY <2>1, <2>2, <2>3, OneFile
<1>6. ASSUME NEW f \in Path, NEW g \in Path, Move(f, g) PROVE HInv'
  <2>1. f # g /\ slots[f] > 0 /\ slots[g] < MaxEntries
    BY <1>6 DEF Move, Listed
  <2>2. /\ slots' \in [Path -> 0..MaxEntries] /\ loaded' \subseteq Path
    BY <1>6, <1>t, <2>1 DEF Move
  <2>3. disk' \in [Path -> Files]
    <3>1. Removed(disk[f]) \in Files /\ Replaced(disk[g], disk[f]) \in Files
      BY <1>t DEF Removed, Replaced, Files
    <3>2. disk' = [disk EXCEPT ![f] = Removed(disk[f]), ![g] = Replaced(disk[g], disk[f])]
      BY <1>6, <2>1 DEF Move, HInv, TypeOK
    <3> QED
      BY <3>1, <3>2 DEF HInv, TypeOK, Files
  <2>4. last' = [h \in Path |-> IF h \in {f, g} THEN Missing ELSE last[h]]
    BY <1>6 DEF Move, Forget
  <2>5. last' \in [Path -> Version \cup {Missing}]
    BY <2>4 DEF HInv, TypeOK
  <2>6. \A h \in Path \ {f, g} : disk'[h] = disk[h] /\ last'[h] = last[h]
    BY <1>6, <2>4 DEF Move, HInv, TypeOK
  <2>7. \A h \in {f, g} : last'[h] = Missing
    BY <2>4
  <2>8. ASSUME PlainTags, NEW h \in Path PROVE Ready(disk'[h], last'[h])
    BY <2>6, <2>7, <2>8 DEF HInv, Ready
  <2> QED
    BY <2>2, <2>3, <2>5, <2>8 DEF HInv, TypeOK, Files
<1>7. ASSUME NEW f \in Path, Load(f) \/ Unload(f) PROVE HInv'
  <2>1. UNCHANGED <<disk, slots, last>> /\ loaded' \subseteq Path
    BY <1>7, <1>t DEF Load, Unload
  <2> QED
    BY <2>1 DEF HInv, TypeOK
<1>8. ASSUME NEW f \in Path, NEW v \in Version, Commit(f, v) PROVE HInv'
  <2> DEFINE fs == End(Saving(disk[f], v))
  <2>1. fs \in Files
    BY <1>t, SavingFacts
  <2>2. /\ disk' = [disk EXCEPT ![f] = fs] /\ Forget({f})
        /\ slots' \in [Path -> 0..MaxEntries] /\ loaded' \subseteq Path
    BY <1>8, <1>t DEF Commit, Perform
  <2> HIDE DEF fs
  <2> QED
    BY <2>1, <2>2, OneFile
<1>9. ASSUME Restart PROVE HInv'
  <2>1. slots' \in [Path -> 0..MaxEntries] /\ loaded' \subseteq Path
    BY <1>9, <1>t DEF Restart, Register
  <2> QED
    BY <1>9, <2>1 DEF HInv, TypeOK, Restart
<1>10. ASSUME NEW f \in Path, UndoDies(f) PROVE HInv'
  BY <1>10, <1>t, UndoingFacts, DyingStep DEF UndoDies
<1>11. ASSUME NEW f \in Path, NEW tag \in Tag, RevertDies(f, tag) PROVE HInv'
  BY <1>11, <1>t, RestoringFacts, DyingStep DEF RevertDies
<1>12. ASSUME NEW f \in Path, CommitDies(f) PROVE HInv'
  BY <1>12, <1>t, SavingFacts, DyingStep DEF CommitDies
<1>13. ASSUME UNCHANGED vars PROVE HInv'
  BY <1>13 DEF HInv, TypeOK, vars
<1> QED
  BY <1>1, <1>2, <1>3, <1>4, <1>5, <1>6, <1>7, <1>8, <1>9, <1>10, <1>11, <1>12, <1>13
  DEF Next

(* The invariant holds initially. *)
LEMMA InitHInv == Init => HInv
BY HistoryAssumption DEF Init, HInv, TypeOK, NoFiles, Ready

(* The inductive invariant: types, and an UNDO ready to be taken back.     *)
THEOREM HistoryInvariant == Spec => []HInv
BY InitHInv, NextHInv, PTL DEF Spec

(* Files, catalog entries and histories keep their types, also when the    *)
(* server ends inside an operation. *)
THEOREM HistoryTypeCorrect == Spec => []TypeOK
<1>1. HInv => TypeOK
  BY DEF HInv
<1> QED
  BY <1>1, HistoryInvariant, PTL

(* With the server's checkpoint names left to the server, an UNDO gives    *)
(* back what the last UNDO or REVERT replaced, whatever checkpoints were   *)
(* saved, documents loaded and released or servers restarted in between.   *)
THEOREM UndoToggles == PlainTags => (Spec => UndoTakesBack)
<1> SUFFICES ASSUME PlainTags PROVE Spec => UndoTakesBack
  OBVIOUS
<1>1. HInv /\ [Next]_vars =>
        [\A f \in Path :
           last[f] # Missing /\ Undo(f) => disk'[f]["main"] = last[f]]_vars
  <2> SUFFICES ASSUME HInv, NEW f \in Path, Undo(f), last[f] # Missing
               PROVE  disk'[f]["main"] = last[f]
    OBVIOUS
  <2>1. disk[f] \in Files /\ Ready(disk[f], last[f])
    BY DEF HInv, TypeOK, Files
  <2>2. disk'[f] = End(Undoing(disk[f]))
    BY DEF Undo, Perform, HInv, TypeOK
  <2> QED
    BY <2>1, <2>2, UndoingFacts DEF Ready
<1> QED
  BY <1>1, HistoryInvariant, PTL DEF Spec, UndoTakesBack

(* A commit of a file of which no UNDO or REVERT has saved a version is    *)
(* undone by the next UNDO of those files.  (With a saved version left the *)
(* code prefers that one, storage/handlers.c:63, to the .bak of the        *)
(* commit: src/README.md:122 knows no such exception.)                     *)
THEOREM CommitsUndone ==
  Spec => [][\A f \in Path, v \in Version :
               Commit(f, v) /\ disk[f]["main"] # Missing
                 /\ disk[f]["__UNDO__"] = Missing /\ disk[f]["__REDO__"] = Missing
               => End(Undoing(disk'[f]))["main"] = disk[f]["main"]]_vars
<1>1. HInv /\ [Next]_vars =>
        [\A f \in Path, v \in Version :
           Commit(f, v) /\ disk[f]["main"] # Missing
             /\ disk[f]["__UNDO__"] = Missing /\ disk[f]["__REDO__"] = Missing
           => End(Undoing(disk'[f]))["main"] = disk[f]["main"]]_vars
  <2> SUFFICES ASSUME HInv, NEW f \in Path, NEW v \in Version,
                      Commit(f, v), disk[f]["main"] # Missing,
                      disk[f]["__UNDO__"] = Missing, disk[f]["__REDO__"] = Missing
               PROVE  End(Undoing(disk'[f]))["main"] = disk[f]["main"]
    OBVIOUS
  <2>1. disk[f] \in Files
    BY DEF HInv, TypeOK, Files
  <2> DEFINE fs == End(Saving(disk[f], v))
  <2>2. disk'[f] = fs
    BY DEF Commit, Perform, HInv, TypeOK
  <2>3. fs \in Files /\ fs["bak"] = disk[f]["main"]
    BY <2>1, SavingFacts
  <2>4. fs["__UNDO__"] = Missing /\ fs["__REDO__"] = Missing
    BY <2>1, SavingFacts DEF Name
  <2> HIDE DEF fs
  <2>5. Source(fs) = "bak"
    BY <2>4 DEF Source
  <2> QED
    BY <2>2, <2>3, <2>5, UndoingFacts
<1> QED
  BY <1>1, HistoryInvariant, PTL DEF Spec

-----------------------------------------------------------------------------
(* An UNDO keeps what the file held, in each of its three ways.             *)
LEMMA UndoingKeeps ==
  ASSUME NEW fs \in Files, fs["main"] # Missing
  PROVE  Keeps(Undoing(fs), fs["main"])
<1>0. {"main", "bak", "swap", "__UNDO__", "__REDO__"} \subseteq Name
  BY DEF Name
<1>1. ASSUME NEW saved \in {"__UNDO__", "__REDO__"}, fs[saved] # Missing,
             NEW keep \in {"__UNDO__", "__REDO__"}, keep # saved
      PROVE  Keeps(Toggling(fs, saved, keep), fs["main"])
  <2> DEFINE w      == fs["main"]
             states == Restoring(fs, saved, keep)
             gone   == [End(states) EXCEPT ![saved] = Missing]
  <2>0. saved \in Name \ {"main", "bak"} /\ keep \in Name
    BY DEF Name
  <2>1. /\ states \in Seq(Files) /\ Len(states) > 0 /\ End(states) \in Files
        /\ End(states)[keep] = w
    BY <1>1, <2>0, RestoringFacts
  <2>2. Keeps(states, w)
    BY <1>1, <2>0, RestoringFacts
  <2>3. Toggling(fs, saved, keep) = Append(states, gone)
    BY DEF Toggling
  <2> HIDE DEF states
  <2>4. gone \in Files /\ gone[keep] = w
    BY <1>1, <2>0, <2>1 DEF Files
  <2> HIDE DEF gone, w
  <2>5. ASSUME NEW k \in 1..(Len(states) + 1) PROVE Holds(Append(states, gone)[k], w)
    <3>1. CASE k = Len(states) + 1
      BY <2>0, <2>1, <2>4, <3>1 DEF Holds
    <3>2. CASE k # Len(states) + 1
      <4>1. k \in 1..Len(states) /\ Append(states, gone)[k] = states[k]
        BY <2>1, <3>2
      <4> QED
        BY <2>2, <4>1 DEF Keeps
    <3> QED
      BY <3>1, <3>2
  <2>6. Len(Append(states, gone)) = Len(states) + 1
    BY <2>1
  <2> QED
    BY <2>3, <2>5, <2>6 DEF Keeps, w
<1>2. CASE fs["__UNDO__"] # Missing
  BY <1>1, <1>2 DEF Undoing
<1>3. CASE fs["__UNDO__"] = Missing /\ fs["__REDO__"] # Missing
  BY <1>1, <1>3 DEF Undoing
<1>4. CASE fs["__UNDO__"] = Missing /\ fs["__REDO__"] = Missing
  <2> DEFINE out  == Renamed(fs, "main", "swap")
             back == Renamed(out, "bak", "main")
             end  == Renamed(back, "swap", "bak")
  <2>1. Undoing(fs) = <<out, back, end>>
    BY <1>4 DEF Undoing
  <2>2. out \in Files /\ out["swap"] = fs["main"]
    BY <1>0, RenamedFacts
  <2> HIDE DEF out
  <2>3. back \in Files /\ \A n \in Name \ {"bak", "main"} : back[n] = out[n]
    BY <1>0, <2>2, RenamedFacts
  <2> HIDE DEF back
  <2>5. back["swap"] = fs["main"]
    BY <1>0, <2>2, <2>3
  <2>4. end["bak"] = fs["main"]
    BY <1>0, <2>3, <2>5, RenamedFacts
  <2> HIDE DEF end
  <2> QED
    BY <1>0, <2>1, <2>2, <2>5, <2>4 DEF Keeps, Holds
<1> QED
  BY <1>2, <1>3, <1>4

(* And a commit, which moves the file to its .bak first. *)
LEMMA SavingKeeps ==
  ASSUME NEW fs \in Files, NEW v \in Version, fs["main"] # Missing
  PROVE  Keeps(Saving(fs, v), fs["main"])
<1> DEFINE out == Renamed(fs, "main", "bak")
<1>0. "main" \in Name /\ "bak" \in Name
  BY DEF Name
<1>1. out \in Files /\ out["bak"] = fs["main"]
  BY <1>0, RenamedFacts
<1>2. Saving(fs, v) = <<out, [out EXCEPT !["main"] = Empty], [out EXCEPT !["main"] = v]>>
  BY DEF Saving
<1> HIDE DEF out
<1> DEFINE opened  == [out EXCEPT !["main"] = Empty]
           written == [out EXCEPT !["main"] = v]
<1>3. opened["bak"] = fs["main"] /\ written["bak"] = fs["main"]
  BY <1>1 DEF Files
<1> HIDE DEF opened, written
<1>4. ASSUME NEW k \in 1..3 PROVE Holds(<<out, opened, written>>[k], fs["main"])
  BY <1>0, <1>1, <1>3 DEF Holds
<1> QED
  BY <1>2, <1>4 DEF Keeps, opened, written

(* Wherever an UNDO, a REVERT or a commit ends, in the operation or in the *)
(* middle of it, what the document held is in one of its files: for all    *)
(* tags, reserved ones too. *)
THEOREM NothingLost == Spec => ReplacedIsKept
<1> DEFINE Kept(f) == disk[f]["main"] \in {Missing} \cup {disk'[f][n] : n \in Name}
<1>1. ASSUME HInv, NEW f \in Path, Replaces(f) PROVE Kept(f)
  <2> SUFFICES ASSUME disk[f]["main"] # Missing PROVE Holds(disk'[f], disk[f]["main"])
    BY DEF Holds
  <2>0. disk[f] \in Files /\ \A s \in Files : [disk EXCEPT ![f] = s][f] = s
    BY <1>1 DEF HInv, TypeOK, Files
  <2>t. \A tag \in Tag : tag \in Name \ {"main", "bak"}
    BY HistoryAssumption DEF Name
  <2>1. ASSUME NEW states \in Seq(Files), Len(states) > 0, Keeps(states, disk[f]["main"]),
               Perform(f, states) \/ StopWithin(f, states)
        PROVE  Holds(disk'[f], disk[f]["main"])
    <3>1. PICK k \in 1..Len(states) : disk' = [disk EXCEPT ![f] = states[k]]
      BY <2>1 DEF Perform, StopWithin, End
    <3> QED
      BY <2>0, <2>1, <3>1 DEF Keeps
  <2>2. CASE Undo(f) \/ UndoDies(f)
    <3>1. /\ Undoing(disk[f]) \in Seq(Files) /\ Len(Undoing(disk[f])) > 0
          /\ Keeps(Undoing(disk[f]), disk[f]["main"])
      BY <2>0, UndoingFacts, UndoingKeeps
    <3> QED
      BY <2>1, <2>2, <3>1 DEF Undo, UndoDies
  <2>3. ASSUME NEW tag \in Tag, Revert(f, tag) \/ RevertDies(f, tag)
        PROVE  Holds(disk'[f], disk[f]["main"])
    <3> DEFINE states == Restoring(disk[f], tag, "__UNDO__")
    <3>1. states \in Seq(Files) /\ Len(states) > 0 /\ Keeps(states, disk[f]["main"])
      BY <2>0, <2>t, <2>3, RestoringFacts DEF Revert, RevertDies
    <3> QED
      BY <2>1, <2>3, <3>1 DEF Revert, RevertDies
  <2>4. ASSUME NEW v \in Version,
               Perform(f, Saving(disk[f], v)) \/ StopWithin(f, Saving(disk[f], v))
        PROVE  Holds(disk'[f], disk[f]["main"])
    <3>1. /\ Saving(disk[f], v) \in Seq(Files) /\ Len(Saving(disk[f], v)) > 0
          /\ Keeps(Saving(disk[f], v), disk[f]["main"])
      BY <2>0, SavingFacts, SavingKeeps
    <3> QED
      BY <2>1, <2>4, <3>1
  <2>5. CASE CommitDies(f)
    BY <2>4, <2>5, HistoryAssumption DEF CommitDies
  <2>6. ASSUME NEW v \in Version, Commit(f, v) PROVE Holds(disk'[f], disk[f]["main"])
    BY <2>4, <2>6 DEF Commit
  <2> QED
    BY <1>1, <2>2, <2>3, <2>5, <2>6 DEF Replaces
<1>2. HInv /\ [Next]_vars =>
        [\A f \in Path :
           disk[f]["main"] \notin {Missing} \cup {disk'[f][n] : n \in Name}
             => ~Replaces(f)]_vars
  BY <1>1
<1> QED
  BY <1>2, HistoryInvariant, PTL DEF Spec, ReplacedIsKept

-----------------------------------------------------------------------------
(* One of a document's files holds w at every one of a list of steps.      *)
Stays(states, n, w) == \A k \in 1..Len(states) : states[k][n] = w

LEMMA BothStay ==
  ASSUME NEW p \in Seq(Files), NEW q \in Seq(Files), NEW n, NEW w,
         Stays(p, n, w), Stays(q, n, w)
  PROVE  p \o q \in Seq(Files) /\ Stays(p \o q, n, w)
<1>1. /\ p \o q \in Seq(Files) /\ Len(p \o q) = Len(p) + Len(q)
      /\ Len(p) \in Nat /\ Len(q) \in Nat
      /\ \A k \in 1..Len(p) : (p \o q)[k] = p[k]
      /\ \A k \in (Len(p) + 1)..(Len(p) + Len(q)) : (p \o q)[k] = q[k - Len(p)]
  OBVIOUS
<1> SUFFICES ASSUME NEW k \in 1..(Len(p) + Len(q)) PROVE (p \o q)[k][n] = w
  BY <1>1 DEF Stays
<1>2. CASE k =< Len(p)
  BY <1>1, <1>2 DEF Stays
<1>3. CASE k > Len(p)
  <2>1. k - Len(p) \in 1..Len(q) /\ k \in (Len(p) + 1)..(Len(p) + Len(q))
    BY <1>1, <1>3
  <2> QED
    BY <1>1, <2>1 DEF Stays
<1> QED
  BY <1>1, <1>2, <1>3

(* A copy leaves every file but its target alone at each step. *)
LEMMA CopyingStays ==
  ASSUME NEW fs \in Files, NEW a \in Name, NEW b \in Name, NEW n \in Name \ {b}
  PROVE  /\ Copying(fs, a, b) \in Seq(Files) /\ End(Copying(fs, a, b)) \in Files
         /\ Stays(Copying(fs, a, b), n, fs[n]) /\ End(Copying(fs, a, b))[n] = fs[n]
<1> DEFINE truncated == [fs EXCEPT ![b] = Empty]
           copied == IF fs[a] = Missing THEN truncated ELSE [fs EXCEPT ![b] = fs[a]]
<1>1. Copying(fs, a, b) = <<truncated, copied>>
  BY DEF Copying
<1>2. truncated[n] = fs[n] /\ copied[n] = fs[n]
  BY DEF Files
<1> HIDE DEF truncated, copied
<1>3. Stays(<<truncated, copied>>, n, fs[n]) /\ End(<<truncated, copied>>)[n] = fs[n]
  BY <1>2 DEF Stays, End
<1>4. Copying(fs, a, b) \in Seq(Files) /\ End(Copying(fs, a, b)) \in Files
  BY CopyingFacts
<1> QED
  BY <1>1, <1>3, <1>4

(* REVERT leaves every file but its three targets alone at each step. *)
LEMMA RestoringStays ==
  ASSUME NEW fs \in Files, NEW saved \in Name, NEW keep \in Name,
         NEW n \in Name \ {"main", "bak", keep}
  PROVE  /\ Restoring(fs, saved, keep) \in Seq(Files)
         /\ Stays(Restoring(fs, saved, keep), n, fs[n])
<1> DEFINE kept == Copying(fs, "main", keep)
           main == Copying(End(kept), saved, "main")
           bak  == Copying(End(main), saved, "bak")
<1>0. "main" \in Name /\ "bak" \in Name
  BY DEF Name
<1>1. kept \in Seq(Files) /\ End(kept) \in Files /\ Stays(kept, n, fs[n]) /\ End(kept)[n] = fs[n]
  BY <1>0, CopyingStays
<1>2. Restoring(fs, saved, keep) = (kept \o main) \o bak
  BY DEF Restoring
<1> HIDE DEF kept
<1>3. main \in Seq(Files) /\ End(main) \in Files /\ Stays(main, n, fs[n]) /\ End(main)[n] = fs[n]
  BY <1>0, <1>1, CopyingStays
<1> HIDE DEF main
<1>4. bak \in Seq(Files) /\ Stays(bak, n, fs[n])
  BY <1>0, <1>3, CopyingStays
<1> HIDE DEF bak
<1>5. kept \o main \in Seq(Files) /\ Stays(kept \o main, n, fs[n])
  BY <1>1, <1>3, BothStay
<1>6. (kept \o main) \o bak \in Seq(Files) /\ Stays((kept \o main) \o bak, n, fs[n])
  BY <1>4, <1>5, BothStay, Zenon
<1> QED
  BY <1>2, <1>6

(* A rename leaves every other file alone. *)
LEMMA RenamedStays ==
  ASSUME NEW fs \in Files, NEW a \in Name, NEW b \in Name, a # b, NEW n \in Name \ {a, b}
  PROVE  Renamed(fs, a, b) \in Files /\ Renamed(fs, a, b)[n] = fs[n]
BY RenamedFacts

(* UNDO leaves checkpoints alone at each step. *)
LEMMA UndoingStays ==
  ASSUME NEW fs \in Files,
         NEW n \in Name \ {"main", "bak", "swap", "__UNDO__", "__REDO__"}
  PROVE  Stays(Undoing(fs), n, fs[n])
<1>0. {"main", "bak", "swap", "__UNDO__", "__REDO__"} \subseteq Name
  BY DEF Name
<1>1. ASSUME NEW saved \in {"__UNDO__", "__REDO__"}, fs[saved] # Missing,
             NEW keep \in {"__UNDO__", "__REDO__"}, keep # saved
      PROVE  Stays(Toggling(fs, saved, keep), n, fs[n])
  <2> DEFINE states == Restoring(fs, saved, keep)
             gone   == [End(states) EXCEPT ![saved] = Missing]
  <2>0. saved \in Name \ {"main", "bak"} /\ saved \in Name /\ keep \in Name
    BY DEF Name
  <2>1. Toggling(fs, saved, keep) = Append(states, gone)
    BY DEF Toggling
  <2>2. /\ states \in Seq(Files) /\ Len(states) > 0 /\ End(states) \in Files
        /\ End(states)[n] = fs[n]
    BY <1>1, <2>0, RestoringFacts
  <2>3. Stays(states, n, fs[n])
    BY <2>0, RestoringStays
  <2> HIDE DEF states
  <2>4. gone[n] = fs[n]
    BY <2>2 DEF Files
  <2> HIDE DEF gone
  <2>5. ASSUME NEW k \in 1..(Len(states) + 1) PROVE Append(states, gone)[k][n] = fs[n]
    <3>1. CASE k = Len(states) + 1
      <4>1. Append(states, gone)[k] = gone
        BY <2>2, <3>1
      <4> QED
        BY <2>4, <4>1
    <3>2. CASE k # Len(states) + 1
      <4>1. k \in 1..Len(states) /\ Append(states, gone)[k] = states[k]
        BY <2>2, <3>2
      <4> QED
        BY <2>3, <4>1 DEF Stays
    <3> QED
      BY <3>1, <3>2
  <2>6. Len(Append(states, gone)) = Len(states) + 1
    BY <2>2
  <2> QED
    BY <2>1, <2>5, <2>6 DEF Stays
<1>2. CASE fs["__UNDO__"] # Missing
  BY <1>1, <1>2 DEF Undoing
<1>3. CASE fs["__UNDO__"] = Missing /\ fs["__REDO__"] # Missing
  BY <1>1, <1>3 DEF Undoing
<1>4. CASE fs["__UNDO__"] = Missing /\ fs["__REDO__"] = Missing
  <2> DEFINE out  == Renamed(fs, "main", "swap")
             back == Renamed(out, "bak", "main")
             end  == Renamed(back, "swap", "bak")
  <2>1. Undoing(fs) = <<out, back, end>>
    BY <1>4 DEF Undoing
  <2>2. out \in Files /\ out[n] = fs[n]
    BY <1>0, RenamedStays, SMTT(30)
  <2> HIDE DEF out
  <2>3. back \in Files /\ back[n] = fs[n]
    BY <1>0, <2>2, RenamedStays
  <2> HIDE DEF back
  <2>4. end[n] = fs[n]
    BY <1>0, <2>3, RenamedStays
  <2> HIDE DEF end
  <2> QED
    BY <2>1, <2>2, <2>3, <2>4 DEF Stays
<1> QED
  BY <1>2, <1>3, <1>4

(* So does a commit. *)
LEMMA SavingStays ==
  ASSUME NEW fs \in Files, NEW v \in Version, NEW n \in Name \ {"main", "bak"}
  PROVE  Stays(Saving(fs, v), n, fs[n])
<1> DEFINE out     == Renamed(fs, "main", "bak")
           opened  == [out EXCEPT !["main"] = Empty]
           written == [out EXCEPT !["main"] = v]
<1>0. "main" \in Name /\ "bak" \in Name
  BY DEF Name
<1>1. out \in Files /\ out[n] = fs[n]
  BY <1>0, RenamedStays
<1>2. Saving(fs, v) = <<out, opened, written>>
  BY DEF Saving
<1> HIDE DEF out
<1>3. opened[n] = fs[n] /\ written[n] = fs[n]
  BY <1>1 DEF Files
<1> HIDE DEF opened, written
<1> QED
  BY <1>1, <1>2, <1>3 DEF Stays

(* With the server's checkpoint names left to the server, nothing changes  *)
(* a checkpoint of a listed file: no UNDO, REVERT, commit or other         *)
(* CHECKPOINT, done or cut short, no MOVE, DELETE or restart.              *)
THEOREM CheckpointsKept == PlainTags => (Spec => CheckpointsStay)
<1> SUFFICES ASSUME PlainTags PROVE Spec => CheckpointsStay
  OBVIOUS
<1> DEFINE Kept(h, tag) == disk'[h][tag] = disk[h][tag]
<1>1. ASSUME HInv, Next, NEW h \in Path, NEW tag \in Tag,
             Listed(h), disk[h][tag] # Missing
      PROVE  Kept(h, tag)
  <2>t. /\ tag \in Name \ {"main", "bak", "swap", "__UNDO__", "__REDO__"}
        /\ "__UNDO__" \in Name /\ "main" \in Name
        /\ Tag \subseteq Name \ {"main", "bak"}
        /\ \A f \in Path : disk[f] \in Files
        /\ DOMAIN disk = Path
    BY <1>1, HistoryAssumption DEF PlainTags, HInv, TypeOK, Name, Files
  <2>1. ASSUME NEW f \in Path, NEW states, Len(states) \in Nat, Len(states) > 0,
               Stays(states, tag, disk[f][tag]), Perform(f, states) \/ StopWithin(f, states)
        PROVE  Kept(h, tag)
    <3>1. PICK k \in 1..Len(states) : disk' = [disk EXCEPT ![f] = states[k]]
      BY <2>1 DEF Perform, StopWithin, End
    <3> QED
      BY <2>t, <2>1, <3>1 DEF Stays
  <2>2. ASSUME NEW f \in Path, Undo(f) \/ UndoDies(f) PROVE Kept(h, tag)
    <3>1. /\ Undoing(disk[f]) \in Seq(Files) /\ Len(Undoing(disk[f])) > 0
          /\ Stays(Undoing(disk[f]), tag, disk[f][tag])
      BY <2>t, UndoingFacts, UndoingStays
    <3> QED
      BY <2>1, <2>2, <3>1 DEF Undo, UndoDies
  <2>3. ASSUME NEW f \in Path, NEW other \in Tag, Revert(f, other) \/ RevertDies(f, other)
        PROVE  Kept(h, tag)
    <3> DEFINE states == Restoring(disk[f], other, "__UNDO__")
    <3>1. states \in Seq(Files) /\ Len(states) > 0
      BY <2>t, <2>3, RestoringFacts DEF Revert, RevertDies
    <3>2. Stays(states, tag, disk[f][tag])
      BY <2>t, RestoringStays
    <3> QED
      BY <2>1, <2>3, <3>1, <3>2 DEF Revert, RevertDies
  <2>4. ASSUME NEW f \in Path, NEW v \in Version,
               Perform(f, Saving(disk[f], v)) \/ StopWithin(f, Saving(disk[f], v))
        PROVE  Kept(h, tag)
    <3>1. /\ Saving(disk[f], v) \in Seq(Files) /\ Len(Saving(disk[f], v)) > 0
          /\ Stays(Saving(disk[f], v), tag, disk[f][tag])
      BY <2>t, SavingFacts, SavingStays
    <3> QED
      BY <2>1, <2>4, <3>1
  <2>5. ASSUME NEW f \in Path, NEW other \in Tag, Checkpoint(f, other) PROVE Kept(h, tag)
    <3> DEFINE Saved(old) == End(Copying(old, "main", other))
    <3>1. disk' = [disk EXCEPT ![f] = Saved(disk[f])] /\ disk[f][other] = Missing
      BY <2>5 DEF Checkpoint, Perform
    <3>2. tag # other => \A old \in Files : Saved(old)[tag] = old[tag]
      BY <2>t, CopyingFacts
    <3> HIDE DEF Saved
    <3> QED
      BY <1>1, <2>t, <3>1, <3>2
  <2>6. ASSUME NEW f \in Path, NEW g \in Path, Move(f, g) PROVE Kept(h, tag)
    <3>1. Removed(disk[f])[tag] = disk[f][tag] /\ Replaced(disk[g], disk[f])[tag] = disk[g][tag]
      BY <2>t DEF Removed, Replaced, Files
    <3>2. /\ f # g
          /\ disk' = [disk EXCEPT ![f] = Removed(disk[f]), ![g] = Replaced(disk[g], disk[f])]
      BY <2>6, <2>t DEF Move
    <3> QED
      BY <2>t, <3>1, <3>2
  <2>7. ASSUME NEW f \in Path, Create(f) \/ Delete(f) PROVE Kept(h, tag)
    <3>1. Emptied(disk[f])[tag] = disk[f][tag] /\ Removed(disk[f])[tag] = disk[f][tag]
      BY <2>t DEF Emptied, Removed, Files
    <3>2. \/ disk' = [disk EXCEPT ![f] = Emptied(disk[f])]
          \/ disk' = [disk EXCEPT ![f] = Removed(disk[f])]
      BY <2>7, <2>t DEF Create, Delete
    <3> QED
      BY <2>t, <3>1, <3>2
  <2>8. CASE UNCHANGED disk
    BY <2>8
  <2>9. ASSUME NEW f \in Path, CommitDies(f) PROVE Kept(h, tag)
    BY <2>4, <2>9, HistoryAssumption DEF CommitDies
  <2>10. ASSUME NEW f \in Path, NEW v \in Version, Commit(f, v) PROVE Kept(h, tag)
    BY <2>4, <2>10 DEF Commit
  <2> HIDE DEF Kept
  <2> QED
    BY <1>1, <2>2, <2>3, <2>10, <2>5, <2>6, <2>7, <2>8, <2>9 DEF Next, Load, Unload, Restart
<1>2. HInv /\ [Next]_vars =>
        [\A f \in Path, tag \in Tag :
           Listed(f) /\ disk[f][tag] # Missing => disk'[f][tag] = disk[f][tag]]_vars
  BY <1>1
<1> QED
  BY <1>2, HistoryInvariant, PTL DEF Spec, CheckpointsStay
=============================================================================
