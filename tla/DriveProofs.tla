----------------------------- MODULE DriveProofs -----------------------------
(***************************************************************************)
(* Theorems about the directory and the mounted drive, for lists of any    *)
(* length: every name gets into the index, a drive that was mounted does   *)
(* not crash over a name, and every entry is freed once.                   *)
(***************************************************************************)
EXTENDS Drive, TextProofs, FiniteSetTheorems

(* The list is the entries in the order of their allocation, each linked   *)
(* to the next one, the last one to none.                                  *)
ListInv ==
  /\ entries \in Seq({entries[j] : j \in DOMAIN entries})
  /\ link = [j \in 1..Len(entries) |-> IF j < Len(entries) THEN j + 1 ELSE 0]
  /\ tail = Len(entries)
  /\ head = IF Len(entries) = 0 THEN 0 ELSE 1

(* num_files is the number of entries, those of the page in work excepted. *)
CountInv ==
  /\ numFiles \in Nat /\ count \in Nat
  /\ pc \notin {"crashed", "starved"} =>
       Len(entries) = numFiles + (IF pc = "parse" THEN count ELSE 0)

(* What a loop over the list has left behind when it is at walk.           *)
Passed == {j \in 1..Len(entries) : walk = 0 \/ j < walk}

(* The table leads from each name of some entries to the first of them.    *)
Indexed(some) ==
  /\ DOMAIN table = {entries[j].filename : j \in some}
  /\ \A f \in DOMAIN table :
       /\ f # NULL
       /\ table[f] \in some /\ entries[table[f]].filename = f
       /\ \A j \in some : entries[j].filename = f => table[f] <= j

IndexInv ==
  /\ pc = "enter" => walk \in 0..Len(entries) /\ Indexed(Passed)
  /\ pc = "mounted" /\ stage \in {"init", "serving"} => Indexed(1..Len(entries))

(* What the stages of main have done and left to do.                       *)
StageInv ==
  /\ stage \in {"init", "serving", "freeing", "exited", "failed"}
  /\ stage \in {"serving", "freeing", "exited"} => pc = "mounted"
  /\ stage = "init" => grip = "none" /\ freed = {}
  /\ stage = "serving" => /\ freed = {}
                          /\ grip # "none" => FileAt(name) # 0
                          /\ grip = "open" => FileAt(name) \in cached
  /\ stage = "freeing" => walk \in 0..Len(entries) /\ freed = Passed
  /\ stage = "exited" => freed = 1..Len(entries)

DriveInv == ListInv /\ CountInv /\ IndexInv /\ StageInv

-----------------------------------------------------------------------------

LEMMA AppendOne ==
  ASSUME NEW s, s \in Seq({s[j] : j \in DOMAIN s}), NEW e
  PROVE  /\ Append(s, e) \in Seq({Append(s, e)[j] : j \in DOMAIN Append(s, e)})
         /\ Len(Append(s, e)) = Len(s) + 1
<1> DEFINE S == {s[j] : j \in DOMAIN s} \cup {e}
           t == Append(s, e)
<1>1. s \in Seq(S)
  OBVIOUS
<1>2. t \in Seq(S) /\ Len(t) = Len(s) + 1 /\ DOMAIN t = 1..(Len(s) + 1)
  <2> HIDE DEF S
  <2>1. e \in S
    BY DEF S
  <2> QED
    BY <1>1, <2>1
<1>3. t \in Seq({t[j] : j \in DOMAIN t})
  <2> HIDE DEF t, S
  <2> QED
    BY <1>2
<1> QED
  BY <1>2, <1>3

LEMMA ListStep ==
  ASSUME ListInv, [DriveNext]_<<vars, driveVars>>
  PROVE  ListInv'
<1>1. CASE ParseEntry
  <2> DEFINE n == Len(entries) + 1
  <2>1. /\ entries' = Append(entries, EntryFromXml(Head(nodes)))
        /\ head' = IF tail = 0 THEN n ELSE head
        /\ link' = [j \in 1..n |-> IF j = tail THEN n ELSE IF j = n THEN 0 ELSE link[j]]
        /\ tail' = n
    BY <1>1 DEF ParseEntry, TailAfter, NextOfNew
  <2>2. /\ entries' \in Seq({entries'[j] : j \in DOMAIN entries'})
        /\ Len(entries') = n
    BY <2>1, AppendOne DEF ListInv
  <2>3. Len(entries) \in Nat /\ tail = Len(entries) /\ head = (IF Len(entries) = 0 THEN 0 ELSE 1)
        /\ link = [j \in 1..Len(entries) |-> IF j < Len(entries) THEN j + 1 ELSE 0]
    BY DEF ListInv
  <2>4. head' = 1 /\ n # 0
    BY <2>1, <2>3
  <2>5. link' = [j \in 1..n |-> IF j < n THEN j + 1 ELSE 0]
    BY <2>1, <2>3
  <2> HIDE DEF n
  <2> QED
    BY <2>1, <2>2, <2>4, <2>5 DEF ListInv
<1>2. ASSUME UNCHANGED <<head, tail, link, entries>> PROVE ListInv'
  BY <1>2 DEF ListInv
<1>3. CASE Setup /\ ~ParseEntry
  <2>1. UNCHANGED <<head, tail, link, entries>>
    BY <1>3
       DEF Setup, listVars, Begin, Ask, Wait, StartParse, ParseNothing, ParseLink, ParseCrash,
           ParseStarves, EndParse, TurnPage, EndListing, CreateHash, CreateHashFails, Enter,
           EnterCrash, Mount
  <2> QED
    BY <1>2, <2>1
<1>4. CASE Serve \/ GiveUp \/ Readdir \/ Getattr \/ Open \/ Release \/ Ended
  BY <1>2, <1>4 DEF Serve, GiveUp, Readdir, Getattr, Open, Release, Ended, vars, listVars
<1>5. CASE Unmount \/ FreeEntry \/ PopStack
  BY <1>2, <1>5 DEF Unmount, FreeEntry, PopStack, listVars
<1>6. CASE \E n \in Names : Turn(n)
  BY <1>2, <1>6 DEF Turn, vars, listVars
<1>7. CASE UNCHANGED <<vars, driveVars>>
  BY <1>2, <1>7 DEF vars, listVars
<1> QED
  BY <1>1, <1>3, <1>4, <1>5, <1>6, <1>7 DEF DriveNext, GdiInit

LEMMA CountStep ==
  ASSUME ListInv, CountInv, [DriveNext]_<<vars, driveVars>>
  PROVE  CountInv'
<1> USE DEF Goto
<1>1. CASE ParseEntry
  <2>1. Len(entries') = Len(entries) + 1
    BY <1>1, AppendOne DEF ParseEntry, ListInv
  <2> QED
    BY <1>1, <2>1 DEF ParseEntry, CountInv
<1>2. CASE StartParse
  BY <1>2 DEF StartParse, CountInv, listVars
<1>3. CASE EndParse
  BY <1>3 DEF EndParse, CountInv, pageVars
<1>4. CASE ParseCrash \/ ParseStarves
  BY <1>4 DEF ParseCrash, ParseStarves, CountInv, pageVars, listVars
<1>5. CASE ParseLink
  BY <1>5 DEF ParseLink, CountInv, listVars
<1>6. ASSUME UNCHANGED <<entries, numFiles, count>>,
             UNCHANGED pc \/ (pc # "parse" /\ pc' # "parse"),
             pc \in {"crashed", "starved"} => UNCHANGED pc
      PROVE  CountInv'
  BY <1>6 DEF CountInv
<1>7. CASE Begin \/ Ask \/ Wait \/ ParseNothing \/ TurnPage \/ EndListing
  BY <1>6, <1>7
     DEF Begin, Ask, Wait, ParseNothing, TurnPage, EndListing, pageVars, listVars
<1>8. CASE CreateHash \/ CreateHashFails \/ Enter \/ EnterCrash \/ Mount
  BY <1>6, <1>8
     DEF CreateHash, CreateHashFails, Enter, EnterCrash, Mount, pageVars, listVars
<1>9. CASE Serve \/ GiveUp \/ Readdir \/ Getattr \/ Open \/ Release \/ Ended
  BY <1>6, <1>9
     DEF Serve, GiveUp, Readdir, Getattr, Open, Release, Ended, vars, listVars, pageVars
<1>10. CASE Unmount \/ FreeEntry \/ PopStack
  BY <1>6, <1>10 DEF Unmount, FreeEntry, PopStack, listVars, pageVars
<1>11. CASE \E n \in Names : Turn(n)
  BY <1>6, <1>11 DEF Turn, vars, listVars, pageVars
<1>12. CASE UNCHANGED <<vars, driveVars>>
  BY <1>6, <1>12 DEF vars, listVars, pageVars
<1> QED
  BY <1>1, <1>2, <1>3, <1>4, <1>5, <1>7, <1>8, <1>9, <1>10, <1>11, <1>12
     DEF DriveNext, GdiInit, Setup

(* The table has a slot for every entry: it holds no more names than there *)
(* are entries, and at least four slots for each of these, or three.       *)
LEMMA RoomInTable ==
  ASSUME ListInv, CountInv, pc = "enter", walk \in 1..Len(entries), Indexed(Passed)
  PROVE  ~(Cardinality(DOMAIN table) >= Slots)
<1>1. Len(entries) \in Nat /\ numFiles = Len(entries)
  BY DEF ListInv, CountInv
<1>2. Slots >= numFiles * 4 /\ Slots \in Nat
  <2> DEFINE four == numFiles * 4
             S    == {3, four}
  <2>1. four \in Nat
    BY <1>1
  <2> HIDE DEF four
  <2>2. \E x \in S : \A y \in S : x >= y
    BY <2>1
  <2>3. Max(S) \in S /\ \A y \in S : Max(S) >= y
    BY <2>2 DEF Max
  <2> QED
    BY <2>1, <2>3 DEF Slots, four
<1>3. Passed = 1..(walk - 1)
  BY <1>1 DEF Passed
<1>4. IsFiniteSet(1..(walk - 1)) /\ Cardinality(1..(walk - 1)) = walk - 1
  <2>1. walk - 1 \in Int /\ 1 \in Int /\ walk - 1 >= 0
    BY <1>1
  <2>2. IsFiniteSet(1..(walk - 1))
    BY <2>1, FS_Interval
  <2>3. Cardinality(1..(walk - 1)) = IF 1 > walk - 1 THEN 0 ELSE (walk - 1) - 1 + 1
    BY <2>1, FS_Interval
  <2> QED
    BY <2>1, <2>2, <2>3
<1> DEFINE first == [f \in DOMAIN table |-> table[f]]
<1>5. first \in Injection(DOMAIN table, 1..(walk - 1))
  BY <1>3 DEF Indexed, Injection, IsInjective
<1>6. Cardinality(DOMAIN table) <= walk - 1
  BY <1>4, <1>5, FS_Injection
<1>7. IsFiniteSet(DOMAIN table) /\ Cardinality(DOMAIN table) \in Nat
  BY <1>4, <1>5, FS_Injection, FS_CardinalityType
<1> QED
  BY <1>1, <1>2, <1>6, <1>7

(* A loop over the list goes from each entry to the next.                  *)
LEMMA NextPassed ==
  ASSUME ListInv, walk \in 1..Len(entries), walk' = link[walk], entries' = entries
  PROVE  /\ Passed' = Passed \cup {walk}
         /\ walk \notin Passed
         /\ walk' \in 0..Len(entries')
<1>1. Len(entries) \in Nat
  BY DEF ListInv
<1>2. link[walk] = IF walk < Len(entries) THEN walk + 1 ELSE 0
  BY DEF ListInv
<1>3. Passed = 1..(walk - 1)
  BY <1>1 DEF Passed
<1>4. CASE walk < Len(entries)
  BY <1>1, <1>2, <1>3, <1>4 DEF Passed
<1>5. CASE walk = Len(entries)
  BY <1>1, <1>2, <1>3, <1>5 DEF Passed
<1> QED
  BY <1>1, <1>4, <1>5

LEMMA EnterStep ==
  ASSUME ListInv, CountInv, IndexInv, Enter
  PROVE  walk' \in 0..Len(entries') /\ Indexed(Passed)'
<1> DEFINE f == entries[walk].filename
<1>1. /\ pc = "enter" /\ f # NULL /\ entries' = entries /\ walk' = link[walk]
      /\ table' = Entered(table, f, walk)
      /\ Indexed(Passed) /\ walk \in 1..Len(entries)
  <2>1. walk \in 0..Len(entries) /\ walk # 0 /\ Len(entries) \in Nat
    BY DEF Enter, IndexInv, ListInv
  <2> QED
    BY <2>1 DEF Enter, IndexInv, Follower, listVars
<1>2. /\ Passed' = Passed \cup {walk} /\ walk \notin Passed /\ walk' \in 0..Len(entries')
  BY <1>1, NextPassed
<1>3. Passed = 1..(walk - 1) /\ walk \in Nat
  BY <1>1 DEF Passed, ListInv
<1>4. ~(Cardinality(DOMAIN table) >= Slots)
  BY <1>1, RoomInTable
<1>5. CASE f \in DOMAIN table
  <2>1. table' = table
    BY <1>1, <1>5 DEF Entered
  <2>2. table[f] \in Passed /\ table[f] <= walk
    BY <1>1, <1>3, <1>5 DEF Indexed
  <2>3. DOMAIN table' = {entries[j].filename : j \in Passed \cup {walk}}
    BY <1>1, <1>5, <2>1 DEF Indexed
  <2>4. ASSUME NEW g \in DOMAIN table'
        PROVE  /\ g # NULL
               /\ table'[g] \in Passed \cup {walk} /\ entries[table'[g]].filename = g
               /\ \A j \in Passed \cup {walk} : entries[j].filename = g => table'[g] <= j
    BY <1>1, <2>1, <2>2 DEF Indexed
  <2> QED
    BY <1>1, <1>2, <2>3, <2>4 DEF Indexed
<1>6. CASE f \notin DOMAIN table
  <2>1. table' = [n \in DOMAIN table \cup {f} |-> IF n = f THEN walk ELSE table[n]]
    BY <1>1, <1>4, <1>6 DEF Entered
  <2>2. DOMAIN table' = {entries[j].filename : j \in Passed \cup {walk}}
    BY <1>1, <2>1 DEF Indexed
  <2>3. \A j \in Passed : entries[j].filename # f
    BY <1>1, <1>6 DEF Indexed
  <2>4. ASSUME NEW g \in DOMAIN table'
        PROVE  /\ g # NULL
               /\ table'[g] \in Passed \cup {walk} /\ entries[table'[g]].filename = g
               /\ \A j \in Passed \cup {walk} : entries[j].filename = g => table'[g] <= j
    <3>1. CASE g = f
      BY <1>1, <1>3, <2>1, <2>3, <3>1
    <3>2. CASE g # f
      BY <1>1, <1>3, <2>1, <3>2 DEF Indexed
    <3> QED
      BY <3>1, <3>2
  <2> QED
    BY <1>1, <1>2, <2>2, <2>4 DEF Indexed
<1> QED
  BY <1>2, <1>5, <1>6

LEMMA IndexStep ==
  ASSUME ListInv, CountInv, IndexInv, StageInv, [DriveNext]_<<vars, driveVars>>
  PROVE  IndexInv'
<1> USE DEF Goto
<1>1. CASE CreateHash
  <2>1. /\ pc' = "enter" /\ table' = <<>> /\ walk' = head /\ entries' = entries
    BY <1>1 DEF CreateHash, listVars
  <2>2. walk' \in 0..Len(entries') /\ Passed' = {}
    BY <2>1 DEF ListInv, Passed
  <2>3. DOMAIN table' = {}
    BY <2>1
  <2>4. Indexed(Passed)'
    BY <2>2, <2>3 DEF Indexed
  <2> QED
    BY <2>1, <2>2, <2>4 DEF IndexInv
<1>2. CASE Enter
  <2>1. walk' \in 0..Len(entries') /\ Indexed(Passed)'
    BY <1>2, EnterStep
  <2> QED
    BY <1>2, <2>1 DEF Enter, IndexInv
<1>3. CASE Mount
  <2>1. Passed = 1..Len(entries) /\ Indexed(Passed) /\ UNCHANGED <<entries, table>>
    BY <1>3 DEF Mount, Passed, IndexInv, listVars, indexVars
  <2>2. Indexed(1..Len(entries))'
    BY <2>1 DEF Indexed
  <2> QED
    BY <1>3, <2>2 DEF Mount, IndexInv
<1>4. CASE Begin \/ Ask \/ Wait \/ StartParse \/ ParseNothing \/ ParseEntry \/ ParseLink
  BY <1>4 DEF Begin, Ask, Wait, StartParse, ParseNothing, ParseEntry, ParseLink, IndexInv
<1>5. CASE ParseCrash \/ ParseStarves \/ EndParse \/ TurnPage \/ EndListing
           \/ CreateHashFails \/ EnterCrash
  BY <1>5
     DEF ParseCrash, ParseStarves, EndParse, TurnPage, EndListing, CreateHashFails,
         EnterCrash, IndexInv
<1>6. ASSUME UNCHANGED <<pc, walk, table, entries>>,
             stage' \in {"init", "serving"} => stage \in {"init", "serving"}
      PROVE  IndexInv'
  BY <1>6 DEF IndexInv, Indexed, Passed
<1>7. CASE Serve \/ GiveUp \/ Readdir \/ Getattr \/ Open \/ Release \/ Ended
  BY <1>6, <1>7
     DEF Serve, GiveUp, Readdir, Getattr, Open, Release, Ended, vars, driveVars, listVars,
         indexVars
<1>8. CASE Unmount \/ FreeEntry \/ PopStack
  BY <1>8 DEF Unmount, FreeEntry, PopStack, IndexInv, StageInv
<1>9. CASE \E n \in Names : Turn(n)
  BY <1>6, <1>9 DEF Turn, vars, listVars, indexVars
<1>10. CASE UNCHANGED <<vars, driveVars>>
  BY <1>6, <1>10 DEF vars, driveVars, listVars, indexVars
<1> QED
  BY <1>1, <1>2, <1>3, <1>4, <1>5, <1>7, <1>8, <1>9, <1>10 DEF DriveNext, GdiInit, Setup

LEMMA StageStep ==
  ASSUME ListInv, StageInv, [DriveNext]_<<vars, driveVars>>
  PROVE  StageInv'
<1>1. CASE GdiInit
  BY <1>1 DEF GdiInit, driveVars, userVars, StageInv
<1>2. CASE Serve \/ GiveUp
  BY <1>2 DEF Serve, GiveUp, vars, userVars, StageInv
<1>3. ASSUME UNCHANGED <<table, name>>
      PROVE  FileAt(name)' = FileAt(name)
  BY <1>3 DEF FileAt, Find
<1>4. CASE Readdir \/ Getattr \/ Open \/ Release
  <2>1. UNCHANGED <<table, name, entries, pc, walk>>
    BY <1>4 DEF Readdir, Getattr, Open, Release, vars, indexVars, listVars
  <2>2. FileAt(name)' = FileAt(name)
    BY <1>3, <2>1
  <2> QED
    BY <1>4, <2>1, <2>2 DEF Readdir, Getattr, Answered, Open, Release, StageInv
<1>5. CASE \E n \in Names : Turn(n)
  BY <1>5 DEF Turn, vars, StageInv
<1>6. CASE Unmount
  <2>1. walk' \in 0..Len(entries) /\ entries' = entries /\ Passed' = {}
    BY <1>6 DEF Unmount, listVars, ListInv, Passed
  <2> QED
    BY <1>6, <2>1 DEF Unmount, StageInv
<1>7. CASE FreeEntry
  <2>1. /\ walk \in 1..Len(entries) /\ freed = Passed /\ entries' = entries
        /\ walk' = link[walk] /\ freed' = freed \cup {walk}
    BY <1>7 DEF FreeEntry, MoreToFree, StageInv, listVars, ListInv
  <2>2. /\ Passed' = Passed \cup {walk} /\ walk \notin Passed /\ walk' \in 0..Len(entries')
    BY <2>1, NextPassed
  <2> QED
    BY <1>7, <2>1, <2>2 DEF FreeEntry, StageInv
<1>8. CASE PopStack
  <2>1. freed = 1..Len(entries) /\ entries' = entries
    BY <1>8 DEF PopStack, MoreToFree, StageInv, Passed, listVars
  <2> QED
    BY <1>8, <2>1 DEF PopStack, StageInv
<1>9. CASE UNCHANGED <<vars, driveVars>>
  BY <1>3, <1>9 DEF vars, driveVars, userVars, listVars, indexVars, StageInv, Passed
<1>10. CASE Ended
  BY <1>9, <1>10 DEF Ended
<1> QED
  BY <1>1, <1>2, <1>4, <1>5, <1>6, <1>7, <1>8, <1>9, <1>10 DEF DriveNext

LEMMA DriveInvariant == DriveSpec => []DriveInv
<1>1. DriveInit => DriveInv
  <2> SUFFICES ASSUME DriveInit PROVE DriveInv
    OBVIOUS
  <2>1. entries = <<>> /\ link = <<>> /\ head = 0 /\ tail = 0 /\ numFiles = 0 /\ count = 0
        /\ pc = "start" /\ stage = "init"
    BY DEF DriveInit, Init
  <2>2. ListInv
    BY <2>1 DEF ListInv
  <2>3. CountInv /\ IndexInv
    BY <2>1 DEF CountInv, IndexInv
  <2>4. StageInv
    BY <2>1 DEF DriveInit, StageInv
  <2> QED
    BY <2>2, <2>3, <2>4 DEF DriveInv
<1>2. DriveInv /\ [DriveNext]_<<vars, driveVars>> => DriveInv'
  BY ListStep, CountStep, IndexStep, StageStep DEF DriveInv
<1> QED
  BY <1>1, <1>2, PTL DEF DriveSpec

(* Once mounted the program does not crash over a name that is not there,  *)
(* frees no entry twice, and gd_read finds the file that gd_open opened    *)
(* and loaded, whatever the server listed and the user does.               *)
THEOREM MountedIsSafe == DriveSpec => []SafeOnceMounted
<1>1. DriveInv => SafeOnceMounted
  BY DEF DriveInv, StageInv, SafeOnceMounted
<1> QED
  BY <1>1, DriveInvariant, PTL

(* gdi_destroy frees every entry of a list of any length, and none of them *)
(* while the drive is served.                                              *)
THEOREM FreesTheWholeList == DriveSpec => []EveryEntryFreed
<1>1. DriveInv => EveryEntryFreed
  BY DEF DriveInv, ListInv, StageInv, EveryEntryFreed
<1> QED
  BY <1>1, DriveInvariant, PTL

(* While the drive is served, each file's name is in the table and leads   *)
(* to the first file of that name, and the table holds no other name:      *)
(* create_hash_table skips no entry and the table was never full.          *)
IndexExact ==
  stage = "serving" =>
    /\ DOMAIN table = {entries[j].filename : j \in DOMAIN entries}
    /\ \A j \in DOMAIN entries :
         LET f == entries[j].filename IN
         /\ f # NULL /\ Find(f) \in DOMAIN entries
         /\ entries[Find(f)].filename = f
         /\ \A k \in DOMAIN entries : entries[k].filename = f => Find(f) <= k

THEOREM IndexIsExact == DriveSpec => []IndexExact
<1>1. DriveInv => IndexExact
  <2> SUFFICES ASSUME DriveInv, stage = "serving" PROVE IndexExact
    BY DEF IndexExact
  <2>1. Indexed(1..Len(entries)) /\ DOMAIN entries = 1..Len(entries)
    BY DEF DriveInv, ListInv, IndexInv, StageInv
  <2> QED
    BY <2>1 DEF Indexed, IndexExact, Find
<1> QED
  BY <1>1, DriveInvariant, PTL

-----------------------------------------------------------------------------
(* What readdir walks: the list from its head on has every entry once, in  *)
(* the order of their allocation.                                          *)
LEMMA ChainIsWhole ==
  ASSUME ListInv
  PROVE  Chain = [j \in 1..Len(entries) |-> j]
<1> DEFINE L     == Len(entries)
           Eq(f) == f = [e \in 0..L |-> IF e = 0 THEN <<>> ELSE <<e>> \o f[link[e]]]
           from  == CHOOSE f : Eq(f)
           rest(e) == IF e = 0 THEN <<>> ELSE [j \in 1..(L - e + 1) |-> e + j - 1]
           h     == [e \in 0..L |-> rest(e)]
<1>1. /\ L \in Nat /\ head = (IF L = 0 THEN 0 ELSE 1)
      /\ \A e \in 1..L : link[e] = IF e < L THEN e + 1 ELSE 0
  BY DEF ListInv
<1> HIDE DEF L
<1>2. ASSUME NEW e \in 1..L PROVE rest(e) = <<e>> \o h[link[e]]
  <2> DEFINE r == h[link[e]]
  <2>0. link[e] \in 0..L
    BY <1>1
  <2>1. r \in Seq(Nat) /\ Len(r) = L - e /\ \A i \in 1..(L - e) : r[i] = e + i
    <3>1. CASE e < L
      <4>1. link[e] = e + 1 /\ e + 1 # 0 /\ e + 1 \in 0..L
        BY <1>1, <3>1
      <4>2. r = [j \in 1..(L - (e + 1) + 1) |-> (e + 1) + j - 1]
        BY <4>1
      <4>3. L - (e + 1) + 1 = L - e /\ L - e \in Nat
        BY <1>1, <3>1
      <4>4. \A j \in 1..(L - e) : (e + 1) + j - 1 = e + j /\ e + j \in Nat
        BY <1>1
      <4> HIDE DEF r, rest
      <4> QED
        BY <4>2, <4>3, <4>4
    <3>2. CASE e = L
      <4>1. link[e] = 0 /\ 0 \in 0..L
        BY <1>1, <3>2
      <4>2. r = <<>>
        BY <4>1
      <4> HIDE DEF r, rest
      <4> QED
        BY <1>1, <3>2, <4>2
    <3>3. e < L \/ e = L
      BY <1>1
    <3> HIDE DEF r, rest, h
    <3> QED
      BY <3>1, <3>2, <3>3
  <2> HIDE DEF r
  <2>2. <<e>> \in Seq(Nat) /\ Len(<<e>>) = 1 /\ <<e>>[1] = e /\ e \in Nat /\ L - e \in Nat
    BY <1>1
  <2>3. /\ <<e>> \o r \in Seq(Nat) /\ Len(<<e>> \o r) = 1 + (L - e)
        /\ (<<e>> \o r)[1] = e
        /\ \A i \in 1..(L - e) : (<<e>> \o r)[1 + i] = e + i
    BY <2>1, <2>2, ConcatTyped
  <2> DEFINE t == <<e>> \o r
  <2>4. \A j \in 1..(L - e + 1) : t[j] = e + j - 1
    <3> SUFFICES ASSUME NEW j \in 1..(L - e + 1) PROVE t[j] = e + j - 1
      OBVIOUS
    <3> HIDE DEF t
    <3>1. CASE j = 1
      BY <2>3, <3>1 DEF t
    <3>2. CASE j # 1
      <4>1. PICK i \in 1..(L - e) : j = 1 + i
        <5>1. j - 1 \in 1..(L - e) /\ j = 1 + (j - 1)
          BY <2>2, <3>2
        <5> QED
          BY <5>1
      <4>2. t[1 + i] = e + i
        BY <2>3, <4>1 DEF t
      <4>3. t[j] = e + i
        BY <4>1, <4>2
      <4> QED
        BY <4>1, <4>3
    <3> QED
      BY <3>1, <3>2
  <2>5. t = [j \in 1..(L - e + 1) |-> e + j - 1]
    <3>1. t \in Seq(Nat) /\ Len(t) = L - e + 1
      BY <2>2, <2>3
    <3> HIDE DEF t
    <3> QED
      BY <2>2, <2>4, <3>1
  <2>6. rest(e) = t
    <3> HIDE DEF t
    <3>1. e # 0
      BY <1>1
    <3> QED
      BY <2>5, <3>1
  <2> QED
    BY <2>6 DEF r
<1>3. Eq(h)
  <2>1. \A e \in 0..L : rest(e) = IF e = 0 THEN <<>> ELSE <<e>> \o h[link[e]]
    <3>1. rest(0) = <<>>
      OBVIOUS
    <3>2. \A e \in 0..L : e = 0 \/ e \in 1..L
      BY <1>1
    <3> HIDE DEF rest, h
    <3> QED
      BY <1>1, <1>2, <3>1, <3>2
  <2> QED
    BY <2>1
<1>4. Eq(from)
  <2> HIDE DEF Eq
  <2> QED
    BY <1>3
<1> HIDE DEF rest
<1>5. Chain = from[head]
  BY DEF Chain, L
<1>6. \A e \in 0..L : from[e] = IF e = 0 THEN <<>> ELSE <<e>> \o from[link[e]]
  <2> HIDE DEF from
  <2> QED
    BY <1>4
<1>7. \A e \in 0..L : h[e] = IF e = 0 THEN <<>> ELSE <<e>> \o h[link[e]]
  <2> HIDE DEF h
  <2> QED
    BY <1>3
<1> HIDE DEF from, h, Eq
<1>8. from[0] = h[0]
  <2>1. 0 \in 0..L
    BY <1>1
  <2> QED
    BY <1>6, <1>7, <2>1, Zenon
<1> DEFINE S == {k \in 0..L : k < L => from[L - k] = h[L - k]}
<1>9. 0 \in S
  <2>1. CASE L = 0
    <3>1. 0 \in 0..L /\ ~(0 < L)
      BY <2>1
    <3> QED
      BY <3>1
  <2>2. CASE L # 0
    <3>1. link[L] = 0 /\ L \in 0..L /\ L - 0 = L
      BY <1>1, <2>2
    <3>2. from[L] = h[L]
      <4>1. from[L] = <<L>> \o from[link[L]]
        BY <1>6, <2>2, <3>1, Zenon
      <4>2. h[L] = <<L>> \o h[link[L]]
        BY <1>7, <2>2, <3>1, Zenon
      <4> QED
        BY <1>8, <3>1, <4>1, <4>2, Zenon
    <3> QED
      BY <1>1, <3>1, <3>2
  <2> QED
    BY <2>1, <2>2
<1>10. ASSUME NEW k \in 0..L, k \in S, k < L PROVE k + 1 \in S
  <2>1. CASE k + 1 < L
    <3> DEFINE e == L - (k + 1)
    <3>1. e \in 1..L /\ e < L /\ e + 1 = L - k /\ e \in 0..L
      BY <1>1, <2>1
    <3>2. link[e] = e + 1
      BY <1>1, <3>1
    <3>3. from[L - k] = h[L - k]
      BY <1>10
    <3>4. e # 0
      BY <3>1
    <3> HIDE DEF e
    <3>5. from[e + 1] = h[e + 1]
      BY <3>1, <3>3
    <3>6. from[e] = h[e]
      BY <1>6, <1>7, <3>1, <3>2, <3>4, <3>5, Zenon
    <3> QED
      <4>1. k + 1 \in 0..L
        BY <1>1, <1>10
      <4>2. from[L - (k + 1)] = h[L - (k + 1)]
        BY <3>6 DEF e
      <4> QED
        BY <4>1, <4>2
  <2>2. CASE ~(k + 1 < L)
    BY <1>1, <1>10, <2>2
  <2> QED
    BY <2>1, <2>2
<1>11. \A k \in 0..L : k \in S
  <2> HIDE DEF S
  <2>1. 0..L \subseteq S
    BY <1>1, <1>9, <1>10, Induction
  <2> QED
    BY <2>1
<1>12. from[head] = h[head]
  <2>1. CASE L = 0
    BY <1>1, <1>8, <2>1
  <2>2. CASE L # 0
    <3>1. L - 1 \in 0..L /\ L - 1 < L /\ L - (L - 1) = 1 /\ head = 1
      BY <1>1, <2>2
    <3>2. from[L - (L - 1)] = h[L - (L - 1)]
      BY <1>11, <3>1
    <3> QED
      BY <3>1, <3>2
  <2> QED
    BY <2>1, <2>2
<1>13. h[head] = [j \in 1..L |-> j]
  <2>1. CASE L = 0
    BY <1>1, <2>1 DEF h, rest
  <2>2. CASE L # 0
    <3>1. head = 1 /\ 1 \in 0..L
      BY <1>1, <2>2
    <3>2. h[1] = [j \in 1..(L - 1 + 1) |-> 1 + j - 1]
      BY <3>1 DEF h, rest
    <3>3. L - 1 + 1 = L /\ \A j \in 1..L : 1 + j - 1 = j
      BY <1>1
    <3> QED
      BY <3>1, <3>2, <3>3
  <2> QED
    BY <2>1, <2>2
<1> QED
  BY <1>5, <1>12, <1>13 DEF L

-----------------------------------------------------------------------------
(* What is read comes from the server, and each entry from a node of it.   *)
FeedInv ==
  /\ server \in Layouts
  /\ nodes \in Seq(NodesOf(server))
  /\ \A e \in DOMAIN entries :
       \E n \in NodesOf(server) : IsEntry(n) /\ entries[e] = EntryFromXml(n)

LEMMA FeedStep ==
  ASSUME ListInv, FeedInv, [DriveNext]_<<vars, driveVars>>
  PROVE  FeedInv'
<1> USE DEF Goto
<1>1. CASE StartParse
  <2> DEFINE whole == PagesIn(body)
  <2>1. /\ nodes' = IF whole = {} THEN <<>> ELSE server[CHOOSE u \in whole : TRUE]
        /\ server' = server /\ entries' = entries
    BY <1>1 DEF StartParse, listVars
  <2>2. whole \subseteq Uris
    BY DEF PagesIn
  <2> HIDE DEF whole
  <2>3. \A u \in Uris : server[u] \in Seq(NodesOf(server))
    BY FeedAssumption DEF FeedInv
  <2>4. nodes' \in Seq(NodesOf(server))
    <3>1. CASE whole = {}
      BY <2>1, <3>1
    <3>2. CASE whole # {}
      <4> DEFINE u == CHOOSE v \in whole : TRUE
      <4>1. u \in Uris
        BY <2>2, <3>2
      <4> QED
        BY <2>1, <2>3, <3>2, <4>1
    <3> QED
      BY <3>1, <3>2
  <2> QED
    BY <2>1, <2>4 DEF FeedInv
<1>2. CASE ParseEntry
  <2> DEFINE n == Head(nodes)
  <2>1. /\ nodes # <<>> /\ IsEntry(n) /\ nodes' = Tail(nodes) /\ server' = server
        /\ entries' = Append(entries, EntryFromXml(n))
    BY <1>2 DEF ParseEntry
  <2>2. n \in NodesOf(server) /\ Tail(nodes) \in Seq(NodesOf(server))
    <3> DEFINE N == NodesOf(server)
    <3>1. nodes \in Seq(N)
      BY DEF FeedInv
    <3> HIDE DEF N
    <3>2. Head(nodes) \in N /\ Tail(nodes) \in Seq(N)
      BY <2>1, <3>1
    <3> QED
      BY <3>2 DEF N
  <2> HIDE DEF n
  <2>3. /\ DOMAIN entries' = DOMAIN entries \cup {Len(entries) + 1}
        /\ entries'[Len(entries) + 1] = EntryFromXml(n)
        /\ \A e \in DOMAIN entries : entries'[e] = entries[e]
    BY <2>1 DEF ListInv
  <2>4. ASSUME NEW e \in DOMAIN entries'
        PROVE  \E k \in NodesOf(server) : IsEntry(k) /\ entries'[e] = EntryFromXml(k)
    <3>1. CASE e = Len(entries) + 1
      BY <2>1, <2>2, <2>3, <3>1
    <3>2. CASE e # Len(entries) + 1
      <4>1. e \in DOMAIN entries
        BY <2>3, <3>2
      <4> QED
        BY <2>3, <4>1 DEF FeedInv
    <3> QED
      BY <3>1, <3>2
  <2> QED
    BY <2>1, <2>2, <2>4 DEF FeedInv
<1>3. CASE ParseLink
  <2>1. nodes # <<>> /\ nodes' = Tail(nodes) /\ UNCHANGED <<server, entries>>
    BY <1>3 DEF ParseLink, listVars
  <2>2. Tail(nodes) \in Seq(NodesOf(server))
    <3> DEFINE N == NodesOf(server)
    <3>1. nodes \in Seq(N)
      BY DEF FeedInv
    <3> HIDE DEF N
    <3>2. Tail(nodes) \in Seq(N)
      BY <2>1, <3>1
    <3> QED
      BY <3>2 DEF N
  <2> QED
    BY <2>1, <2>2 DEF FeedInv
<1>4. ASSUME UNCHANGED <<server, nodes, entries>> PROVE FeedInv'
  BY <1>4 DEF FeedInv
<1>5. CASE Begin \/ Ask \/ Wait \/ ParseNothing \/ ParseCrash \/ ParseStarves \/ EndParse
  BY <1>4, <1>5
     DEF Begin, Ask, Wait, ParseNothing, ParseCrash, ParseStarves, EndParse, pageVars, listVars
<1>6. CASE TurnPage \/ EndListing \/ CreateHash \/ CreateHashFails \/ Enter \/ EnterCrash
           \/ Mount
  BY <1>4, <1>6
     DEF TurnPage, EndListing, CreateHash, CreateHashFails, Enter, EnterCrash, Mount,
         pageVars, listVars
<1>7. CASE Serve \/ GiveUp \/ Readdir \/ Getattr \/ Open \/ Release \/ Ended
  BY <1>4, <1>7
     DEF Serve, GiveUp, Readdir, Getattr, Open, Release, Ended, vars, pageVars, listVars
<1>8. CASE Unmount \/ FreeEntry \/ PopStack
  BY <1>4, <1>8 DEF Unmount, FreeEntry, PopStack, pageVars, listVars
<1>9. CASE \E n \in Names : Turn(n)
  BY <1>4, <1>9 DEF Turn, vars, pageVars, listVars
<1>10. CASE UNCHANGED <<vars, driveVars>>
  BY <1>4, <1>10 DEF vars, pageVars, listVars
<1> QED
  BY <1>1, <1>2, <1>3, <1>5, <1>6, <1>7, <1>8, <1>9, <1>10 DEF DriveNext, GdiInit, Setup

(* The title of an entry is what its last title child holds, a text.       *)
LEMMA TitleIsText ==
  ASSUME server \in Layouts, NEW n \in NodesOf(server), IsEntry(n),
         Field(n, "title", NULL) # NULL
  PROVE  Field(n, "title", NULL) \in Seq(STRING)
<1> DEFINE c  == n.children
           at == {j \in DOMAIN c : c[j].name = "title"}
<1>1. /\ c \in Seq(Range(c))
      /\ \A d \in Range(c) : d.name = "title" /\ d.value # NULL => d.value \in Seq(STRING)
  BY FeedAssumption
<1>2. Field(n, "title", NULL) = IF at = {} THEN NULL ELSE c[Max(at)].value
  BY DEF Field
<1>3. at # {}
  BY <1>2
<1>4. Max(at) \in at
  <2>1. DOMAIN c = 1..Len(c) /\ Len(c) \in Nat
    BY <1>1
  <2>2. at \subseteq 1..Len(c)
    BY <2>1
  <2> HIDE DEF at, c
  <2> QED
    BY <1>3, <2>1, <2>2, GreatestMember
<1>5. c[Max(at)] \in Range(c) /\ c[Max(at)].name = "title"
  <2> DEFINE m == Max(at)
  <2>1. m \in DOMAIN c /\ c[m].name = "title"
    BY <1>4
  <2> HIDE DEF m
  <2> QED
    BY <2>1 DEF Range, m
<1> QED
  BY <1>1, <1>2, <1>3, <1>5

(* A file name has no slash, and two titles have two names.                *)
NameCodes == Codes(STRING, FilenameUnsafe)

LEMMA NamesOfEntries ==
  ASSUME FeedInv, NEW e \in DOMAIN entries, entries[e].filename # NULL
  PROVE  /\ TitleOf(e) \in Seq(STRING)
         /\ entries[e].filename = Encode(TitleOf(e), FilenameUnsafe)
<1>1. PICK n \in NodesOf(server) : IsEntry(n) /\ entries[e] = EntryFromXml(n)
  BY DEF FeedInv
<1> DEFINE title == Field(n, "title", NULL)
<1>2. /\ entries[e].src = Field(n, "content", NULL)
      /\ entries[e].filename = IF title = NULL THEN NULL ELSE Encode(title, FilenameUnsafe)
  BY <1>1 DEF EntryFromXml
<1>3. title \in Seq(STRING)
  <2>1. title # NULL
    BY <1>2
  <2> QED
    BY <1>1, <2>1, TitleIsText DEF FeedInv
<1> DEFINE Q(k) == IsEntry(k) /\ Field(k, "content", NULL) = entries[e].src
           of   == CHOOSE k \in NodesOf(server) : Q(k)
<1>4. of \in NodesOf(server) /\ Q(of)
  <2>1. Q(n)
    BY <1>1, <1>2
  <2> HIDE DEF Q
  <2> QED
    BY <2>1
<1>5. Field(of, "title", NULL) = title
  <2> HIDE DEF of
  <2> QED
    BY <1>1, <1>2, <1>4, FeedAssumption DEF FeedInv
<1>6. TitleOf(e) = title
  BY <1>5 DEF TitleOf
<1>7. title # NULL
  BY <1>2
<1> QED
  BY <1>2, <1>3, <1>6, <1>7

LEMMA NamesAreFlat ==
  ASSUME FeedInv, NEW e \in DOMAIN entries, entries[e].filename # NULL
  PROVE  StripPath(<<"/">> \o entries[e].filename) = entries[e].filename
<1> DEFINE name_ == entries[e].filename
<1>1. FilenameUnsafe \in SUBSET Escapable
  BY DEF FilenameUnsafe, Escapable
<1>2. name_ \in Seq(NameCodes)
  BY <1>1, NamesOfEntries, EncodeTyped DEF NameCodes
<1>3. "/" \notin NameCodes
  BY DEF NameCodes, Codes, FilenameUnsafe
<1> HIDE DEF name_
<1>4. StripPath(<<"/">> \o name_) = name_
  BY <1>2, <1>3, StripOfName
<1> QED
  BY <1>4 DEF name_

-----------------------------------------------------------------------------
(* Types                                                                   *)

LEMMA AnswersTyped ==
  ASSUME NEW u \in Uris, NEW a \in Answers[u]
  PROVE  a \in Seq(Request!Piece)
<1> DEFINE K == Request!Piece
<1>1. /\ P("line", "status") \in K /\ P("blank", "crlf") \in K /\ P("data", "oops") \in K
      /\ P("data", <<u, 1>>) \in K /\ P("data", <<u, 2>>) \in K
  BY DEF Request!Piece, P, Payload
<1>2. Answers[u] = {Page(u)}
                   \cup (IF "proxied" \in Replies THEN {Block \o Page(u)} ELSE {})
                   \cup (IF "error" \in Replies THEN {Block \o <<P("data", "oops")>>} ELSE {})
  BY DEF Answers
<1> HIDE DEF K
<1>3. Block \in Seq(K) /\ <<P("data", "oops")>> \in Seq(K)
      /\ Feed(u) \in Seq(K)
  BY <1>1 DEF Block, Feed
<1>4. Page(u) \in Seq(K)
  BY <1>3, ConcatTyped DEF Page
<1>5. Block \o Page(u) \in Seq(K) /\ Block \o <<P("data", "oops")>> \in Seq(K)
  BY <1>3, <1>4, ConcatTyped
<1> QED
  BY <1>2, <1>4, <1>5 DEF K

LEMMA RequestStep ==
  ASSUME Request!TypeOK, next \in Uris \cup {NULL}, GdiInit
  PROVE  Request!TypeOK'
<1> USE DEF Request!TypeOK
<1> DEFINE K == Request!Piece
<1>0. <<>> \in Seq(K) /\ 0 \in 0..Len(<<>>)
  OBVIOUS
<1>1. CASE Begin
  <2>1. uri' \in Uris
    BY <1>1, ListingAssumption DEF Begin, Request!CiInit
  <2> QED
    BY <1>0, <1>1, <2>1 DEF Begin, Request!CiInit
<1>2. CASE Ask
  <2>1. PICK a \in Answers[uri] : Request!CiRequest(a)
    BY <1>2 DEF Ask
  <2>2. a \in Seq(Request!Piece)
    BY AnswersTyped
  <2>3. 0 \in 0..Len(a)
    BY <2>2
  <2> QED
    BY <2>1, <2>2, <2>3 DEF Request!CiRequest
<1>3. CASE Wait
  <2>1. CASE Request!Callback
    <3>1. PICK ok \in Request!MayStore : Request!Receive(ok)
      BY <2>1 DEF Request!Callback
    <3> DEFINE p == answer[arrived + 1]
    <3>2. arrived + 1 \in 1..Len(answer) /\ p \in Request!Piece
      BY <3>1 DEF Request!Receive
    <3>3. Request!Stored(headers, p, ok) \in Seq(Request!Piece)
          /\ Request!Stored(body, p, ok) \in Seq(Request!Piece)
      BY <3>2 DEF Request!Stored
    <3>4. (p.kind = "blank") \in BOOLEAN /\ (lost \/ ~ok) \in BOOLEAN
      OBVIOUS
    <3>5. /\ arrived' = arrived + 1 /\ lost' = (lost \/ ~ok) /\ UNCHANGED <<phase, uri, answer>>
          /\ \/ /\ header' = (p.kind = "blank")
                /\ headers' = Request!Stored(headers, p, ok) /\ body' = body
             \/ /\ body' = Request!Stored(body, p, ok) /\ UNCHANGED <<header, headers>>
      BY <3>1 DEF Request!Receive
    <3>6. arrived' \in 0..Len(answer')
      BY <3>2, <3>5
    <3>7. header' \in BOOLEAN /\ lost' \in BOOLEAN
      <4> HIDE DEF p
      <4> QED
        BY <3>4, <3>5, Zenon
    <3> HIDE DEF p
    <3> QED
      BY <3>3, <3>5, <3>6, <3>7
  <2>2. CASE Request!Perform
    BY <2>2 DEF Request!Perform
  <2> QED
    BY <1>3, <2>1, <2>2 DEF Wait
<1>4. CASE TurnPage
  <2>1. uri' \in Uris
    BY <1>4 DEF TurnPage, Request!CiSetUri
  <2>2. /\ phase' = "ready" /\ body' = <<>> /\ headers' = <<>> /\ header' = FALSE
        /\ UNCHANGED <<answer, arrived, lost>>
    BY <1>4 DEF TurnPage, Request!CiClearResponse, Request!Cleared
  <2> QED
    BY <1>0, <2>1, <2>2
<1>5. CASE EndListing
  BY <1>0, <1>5 DEF EndListing, Request!CiDestroy
<1>6. ASSUME UNCHANGED transferVars PROVE Request!TypeOK'
  BY <1>6 DEF transferVars
<1>7. CASE StartParse \/ ParseNothing \/ ParseEntry \/ ParseLink \/ ParseCrash \/ ParseStarves
           \/ EndParse
  BY <1>6, <1>7
     DEF StartParse, ParseNothing, ParseEntry, ParseLink, ParseCrash, ParseStarves, EndParse
<1>8. CASE CreateHash \/ CreateHashFails \/ Enter \/ EnterCrash \/ Mount
  BY <1>6, <1>8 DEF CreateHash, CreateHashFails, Enter, EnterCrash, Mount
<1> QED
  BY <1>1, <1>2, <1>3, <1>4, <1>5, <1>7, <1>8 DEF GdiInit, Setup

(* The same for what is not the request's, and not ListInv's or CountInv's.*)
IndexOK ==
  /\ next \in Uris \cup {NULL}
  /\ walk \in 0..Len(entries)
  /\ \A f \in DOMAIN table : table[f] \in 1..Len(entries)

LEMMA IndexOKStep ==
  ASSUME ListInv, FeedInv, IndexOK, StageInv, [DriveNext]_<<vars, driveVars>>
  PROVE  IndexOK'
<1> USE DEF Goto
<1>0. /\ Len(entries) \in Nat /\ DOMAIN entries = 1..Len(entries)
      /\ \A e \in 1..Len(entries) : link[e] \in 0..Len(entries)
      /\ head \in 0..Len(entries)
  BY DEF ListInv
<1>1. CASE ParseEntry
  <2>1. Len(entries') = Len(entries) + 1 /\ UNCHANGED <<next, walk, table>>
    BY <1>1, AppendOne DEF ParseEntry, ListInv, indexVars
  <2> QED
    BY <1>0, <2>1 DEF IndexOK
<1>2. CASE ParseLink
  <2>1. nodes # <<>> /\ Head(nodes) \in NodesOf(server)
    <3> DEFINE N == NodesOf(server)
    <3>1. nodes \in Seq(N) /\ nodes # <<>>
      BY <1>2 DEF FeedInv, ParseLink
    <3> HIDE DEF N
    <3>2. Head(nodes) \in N
      BY <3>1
    <3> QED
      BY <3>1, <3>2 DEF N
  <2>2. next' \in Uris \cup {NULL}
    BY <1>2, <2>1, FeedAssumption DEF ParseLink, IndexOK, FeedInv
  <2> QED
    BY <1>2, <2>2 DEF ParseLink, IndexOK, indexVars, listVars
<1>3. CASE StartParse
  BY <1>3 DEF StartParse, IndexOK, indexVars, listVars
<1>4. CASE CreateHash
  <2>1. DOMAIN table' = {} /\ walk' = head /\ entries' = entries /\ next' = next
    BY <1>4 DEF CreateHash, listVars, pageVars
  <2>2. walk' \in 0..Len(entries')
    BY <1>0, <2>1
  <2>3. \A f \in DOMAIN table' : table'[f] \in 1..Len(entries')
    BY <2>1
  <2> QED
    BY <2>1, <2>2, <2>3 DEF IndexOK
<1>5. CASE Enter
  <2>1. /\ walk \in 1..Len(entries) /\ UNCHANGED <<entries, next>>
        /\ table' = Entered(table, entries[walk].filename, walk) /\ walk' = link[walk]
    BY <1>0, <1>5 DEF Enter, IndexOK, Follower, listVars, pageVars
  <2>2. \A f \in DOMAIN table' : table'[f] \in 1..Len(entries)
    BY <2>1 DEF IndexOK, Entered
  <2> QED
    BY <1>0, <2>1, <2>2 DEF IndexOK
<1>6. CASE Unmount \/ FreeEntry \/ PopStack
  <2>1. /\ walk' = head \/ walk' = walk \/ (walk # 0 /\ walk' = link[walk])
        /\ entries' = entries /\ next' = next
    BY <1>6 DEF Unmount, FreeEntry, MoreToFree, PopStack, listVars, pageVars
  <2>2. DOMAIN table' = {} \/ table' = table
    <3>1. DOMAIN <<>> = {}
      OBVIOUS
    <3> QED
      BY <1>6, <3>1, Zenon DEF Unmount, FreeEntry, PopStack
  <2>3. walk' \in 0..Len(entries')
    <3>1. walk \in 0..Len(entries)
      BY DEF IndexOK
    <3> QED
      BY <1>0, <2>1, <3>1
  <2>4. \A f \in DOMAIN table' : table'[f] \in 1..Len(entries')
    BY <2>1, <2>2 DEF IndexOK
  <2> QED
    BY <2>1, <2>3, <2>4 DEF IndexOK
<1>7. ASSUME UNCHANGED <<next, walk, table, entries>> PROVE IndexOK'
  BY <1>7 DEF IndexOK
<1>8. CASE Begin \/ Ask \/ Wait \/ ParseNothing \/ ParseCrash \/ ParseStarves \/ EndParse
  BY <1>7, <1>8
     DEF Begin, Ask, Wait, ParseNothing, ParseCrash, ParseStarves, EndParse, pageVars,
         listVars, indexVars
<1>9. CASE TurnPage \/ EndListing \/ CreateHashFails \/ EnterCrash \/ Mount
  BY <1>7, <1>9
     DEF TurnPage, EndListing, CreateHashFails, EnterCrash, Mount, pageVars, listVars, indexVars
<1>10. CASE Serve \/ GiveUp \/ Readdir \/ Getattr \/ Open \/ Release \/ Ended
  BY <1>7, <1>10
     DEF Serve, GiveUp, Readdir, Getattr, Open, Release, Ended, vars, pageVars, listVars,
         indexVars
<1>11. CASE \E n \in Names : Turn(n)
  BY <1>7, <1>11 DEF Turn, vars, pageVars, listVars, indexVars
<1>12. CASE UNCHANGED <<vars, driveVars>>
  BY <1>7, <1>12 DEF vars, pageVars, listVars, indexVars
<1> QED
  BY <1>1, <1>2, <1>3, <1>4, <1>5, <1>6, <1>8, <1>9, <1>10, <1>11, <1>12
     DEF DriveNext, GdiInit, Setup

(* What the user's side of the drive holds is what the entries hold.       *)
UserInv ==
  /\ \A j \in DOMAIN dir : \E e \in DOMAIN entries : dir[j] = entries[e].filename
  /\ name \in Names \cup {NULL}
  /\ grip \in {"none", "known", "open"}
  /\ cached \subseteq DOMAIN entries
  /\ freed \subseteq DOMAIN entries

LEMMA UserStep ==
  ASSUME ListInv, IndexOK, UserInv, [DriveNext]_<<vars, driveVars>>
  PROVE  UserInv'
<1>0. Len(entries) \in Nat /\ DOMAIN entries = 1..Len(entries)
  BY DEF ListInv
<1>1. CASE ParseEntry /\ UNCHANGED driveVars
  <2>1. DOMAIN entries' = DOMAIN entries \cup {Len(entries) + 1}
        /\ \A e \in DOMAIN entries : entries'[e] = entries[e]
    BY <1>0, <1>1 DEF ParseEntry, ListInv
  <2>2. UNCHANGED <<dir, name, grip, cached, freed>>
    BY <1>1 DEF driveVars, userVars
  <2>3. \A j \in DOMAIN dir' : \E e \in DOMAIN entries' : dir'[j] = entries'[e].filename
    BY <2>1, <2>2 DEF UserInv
  <2> QED
    BY <2>1, <2>2, <2>3 DEF UserInv
<1>2. ASSUME UNCHANGED <<entries, dir, name, grip, cached, freed>> PROVE UserInv'
  BY <1>2 DEF UserInv
<1>3. CASE Setup /\ ~ParseEntry /\ UNCHANGED driveVars
  <2>1. UNCHANGED entries
    BY <1>3
       DEF Setup, listVars, Begin, Ask, Wait, StartParse, ParseNothing, ParseLink, ParseCrash,
           ParseStarves, EndParse, TurnPage, EndListing, CreateHash, CreateHashFails, Enter,
           EnterCrash, Mount
  <2> QED
    BY <1>2, <1>3, <2>1 DEF driveVars, userVars
<1>4. CASE Readdir
  <2>1. UNCHANGED <<entries, name, grip, cached, freed>>
    BY <1>4 DEF Readdir, vars, listVars
  <2>2. Chain = [j \in 1..Len(entries) |-> j]
    BY ChainIsWhole
  <2>3. \A j \in DOMAIN dir' : \E e \in DOMAIN entries : dir'[j] = entries[e].filename
    BY <1>0, <1>4, <2>2 DEF Readdir
  <2> QED
    BY <2>1, <2>3 DEF UserInv
<1>5. CASE Open
  <2>1. UNCHANGED <<entries, dir, name, freed>> /\ grip' \in {"none", "known", "open"}
    BY <1>5 DEF Open, vars, listVars, UserInv
  <2>2. FileAt(name) # 0 => FileAt(name) \in DOMAIN entries
    BY <1>0 DEF FileAt, Find, IndexOK
  <2> QED
    BY <1>5, <2>1, <2>2 DEF Open, UserInv
<1>6. CASE \E n \in Names : Turn(n)
  BY <1>6 DEF Turn, vars, listVars, UserInv
<1>7. CASE Getattr \/ Release
  BY <1>7 DEF Getattr, Release, vars, listVars, UserInv
<1>8. CASE FreeEntry
  BY <1>0, <1>8 DEF FreeEntry, MoreToFree, IndexOK, userVars, listVars, UserInv
<1>9. CASE Serve \/ GiveUp \/ Unmount \/ PopStack
  BY <1>2, <1>9 DEF Serve, GiveUp, Unmount, PopStack, vars, listVars, userVars
<1>10. CASE Ended \/ UNCHANGED <<vars, driveVars>>
  BY <1>2, <1>10 DEF Ended, vars, driveVars, listVars, userVars
<1> QED
  BY <1>1, <1>3, <1>4, <1>5, <1>6, <1>7, <1>8, <1>9, <1>10 DEF DriveNext, GdiInit

(* Where gdi_init can be, and the history.                                 *)
PcOK ==
  /\ pc \in {"start", "ask", "wait", "parse", "turn", "end", "hash", "enter",
             "mounted", "failed", "crashed", "starved"}
  /\ cut \in BOOLEAN /\ read \in Nat

LEMMA PcStep ==
  ASSUME PcOK, [DriveNext]_<<vars, driveVars>>
  PROVE  PcOK'
<1>1. CASE StartParse
  <2> DEFINE none == PagesIn(body) = {}
  <2>1. pc' = "parse" /\ cut' = (cut \/ none) /\ read' = IF none THEN read ELSE read + 1
    BY <1>1 DEF StartParse, Goto
  <2>2. cut' \in BOOLEAN
    BY <2>1, Zenon
  <2> HIDE DEF none
  <2>3. read' \in Nat
    BY <2>1 DEF PcOK
  <2> QED
    BY <2>1, <2>2, <2>3 DEF PcOK
<1>2. CASE Setup /\ ~StartParse
  BY <1>2
     DEF PcOK, Goto, Setup, Begin, Ask, Wait, ParseNothing, ParseEntry, ParseLink,
         ParseCrash, ParseStarves, EndParse, TurnPage, EndListing, CreateHash,
         CreateHashFails, Enter, EnterCrash, Mount, history
<1>3. CASE ~Setup
  <2>1. UNCHANGED <<pc, cut, read>>
    BY <1>3
       DEF DriveNext, GdiInit, Serve, GiveUp, Readdir, Getattr, Open, Release, Turn,
           Unmount, FreeEntry, PopStack, Ended, vars, history
  <2> QED
    BY <2>1 DEF PcOK
<1> QED
  BY <1>1, <1>2, <1>3

LEMMA RequestKept ==
  ASSUME Request!TypeOK, next \in Uris \cup {NULL}, [DriveNext]_<<vars, driveVars>>
  PROVE  Request!TypeOK'
<1>1. CASE GdiInit
  BY <1>1, RequestStep
<1>2. CASE ~GdiInit
  <2>1. UNCHANGED transferVars
    BY <1>2
       DEF DriveNext, Serve, GiveUp, Readdir, Getattr, Open, Release, Turn,
           Unmount, FreeEntry, PopStack, Ended, vars
  <2> QED
    BY <2>1 DEF transferVars, Request!TypeOK
<1> QED
  BY <1>1, <1>2

NamesInv == FeedInv /\ IndexOK /\ UserInv /\ PcOK /\ Request!TypeOK

LEMMA NamesInvariant == DriveSpec => [](DriveInv /\ NamesInv)
<1>1. DriveInit => NamesInv
  <2> SUFFICES ASSUME DriveInit PROVE NamesInv
    OBVIOUS
  <2> USE DEF DriveInit, Init
  <2>1. FeedInv
    BY DEF FeedInv
  <2>2. IndexOK
    BY DEF IndexOK
  <2>3. UserInv
    BY DEF UserInv
  <2>4. PcOK
    BY DEF PcOK
  <2>5. Request!TypeOK
    <3> DEFINE K == Request!Piece
    <3>1. <<>> \in Seq(K) /\ 0 \in 0..Len(<<>>)
      OBVIOUS
    <3> QED
      BY <3>1, ListingAssumption DEF Request!TypeOK, Request!Idle
  <2> QED
    BY <2>1, <2>2, <2>3, <2>4, <2>5 DEF NamesInv
<1>2. DriveInv /\ NamesInv /\ [DriveNext]_<<vars, driveVars>> => NamesInv'
  <2> SUFFICES ASSUME DriveInv, NamesInv, [DriveNext]_<<vars, driveVars>> PROVE NamesInv'
    OBVIOUS
  <2>1. ListInv /\ StageInv /\ FeedInv /\ IndexOK /\ UserInv /\ PcOK /\ Request!TypeOK
    BY DEF DriveInv, NamesInv
  <2>2. FeedInv'
    BY <2>1, FeedStep
  <2>3. IndexOK'
    BY <2>1, IndexOKStep
  <2>4. UserInv'
    BY <2>1, UserStep
  <2>5. PcOK'
    BY <2>1, PcStep
  <2>6. next \in Uris \cup {NULL}
    BY <2>1 DEF IndexOK
  <2>7. Request!TypeOK'
    BY <2>1, <2>6, RequestKept
  <2> QED
    BY <2>2, <2>3, <2>4, <2>5, <2>7 DEF NamesInv
<1> QED
  BY <1>1, <1>2, DriveInvariant, PTL DEF DriveSpec

(* The variables of the listing and of the drive keep their types for any  *)
(* feed, any answers and faults, and any sequence of operations.           *)
THEOREM DriveTypeCorrect == DriveSpec => []DriveTypeOK
<1>1. DriveInv /\ NamesInv => DriveTypeOK
  <2> SUFFICES ASSUME DriveInv, NamesInv PROVE DriveTypeOK
    OBVIOUS
  <2>1. ListInv /\ CountInv /\ StageInv /\ IndexOK /\ UserInv /\ PcOK /\ Request!TypeOK
    BY DEF DriveInv, NamesInv
  <2>2. /\ Len(entries) \in Nat
        /\ head \in 0..Len(entries) /\ tail \in 0..Len(entries)
        /\ link \in [1..Len(entries) -> 0..Len(entries)]
    BY <2>1 DEF ListInv
  <2>3. TypeOK
    BY <2>1, <2>2 DEF TypeOK, IndexOK, CountInv, PcOK
  <2> QED
    BY <2>1, <2>3 DEF DriveTypeOK, UserInv, StageInv
<1> QED
  BY <1>1, NamesInvariant, PTL

(* Every name gd_readdir gave is found by gd_fs_entry_find when the kernel *)
(* comes back with it as a path, for any titles: an encoded name holds no  *)
(* slash, so gdi_strip_path gives it back as it is.                        *)
THEOREM ListedNamesResolve == DriveSpec => []NamesResolve
<1>1. DriveInv /\ NamesInv => NamesResolve
  <2> SUFFICES ASSUME DriveInv, NamesInv, stage = "serving", NEW j \in DOMAIN dir
               PROVE  FileAt(dir[j]) # 0 /\ entries[FileAt(dir[j])].filename = dir[j]
    BY DEF NamesResolve
  <2>1. PICK e \in DOMAIN entries : dir[j] = entries[e].filename
    BY DEF NamesInv, UserInv
  <2> DEFINE f == entries[e].filename
  <2>2. f # NULL /\ f \in DOMAIN table /\ table[f] \in 1..Len(entries) /\ entries[table[f]].filename = f
    <3>1. Indexed(1..Len(entries)) /\ DOMAIN entries = 1..Len(entries)
      BY DEF DriveInv, ListInv, IndexInv, StageInv
    <3> QED
      BY <3>1 DEF Indexed
  <2>3. StripPath(<<"/">> \o f) = f
    BY <2>2, NamesAreFlat DEF NamesInv
  <2>4. FileAt(f) = table[f]
    BY <2>2, <2>3 DEF FileAt, Find
  <2> QED
    BY <2>1, <2>2, <2>4
<1> QED
  BY <1>1, NamesInvariant, PTL

(* Once mounted, the name of a file leads to the first file with its title *)
(* and never to one with another title: filenameencode gives two titles    *)
(* two names and create_hash_table leaves none out.                        *)
THEOREM FilesAreFound == DriveSpec => []EveryFileFound
<1>1. DriveInv /\ NamesInv => EveryFileFound
  <2> SUFFICES ASSUME DriveInv, NamesInv, stage = "serving", NEW j \in DOMAIN entries
               PROVE  Find(entries[j].filename)
                        = Min({k \in DOMAIN entries : TitleOf(k) = TitleOf(j)})
    BY DEF EveryFileFound
  <2>1. Indexed(1..Len(entries)) /\ DOMAIN entries = 1..Len(entries) /\ Len(entries) \in Nat
    BY DEF DriveInv, ListInv, IndexInv, StageInv
  <2>2. ASSUME NEW k \in DOMAIN entries
        PROVE  /\ entries[k].filename # NULL
               /\ TitleOf(k) \in Seq(STRING)
               /\ entries[k].filename = Encode(TitleOf(k), FilenameUnsafe)
    <3>1. entries[k].filename # NULL
      BY <2>1 DEF Indexed
    <3> QED
      BY <3>1, NamesOfEntries DEF NamesInv
  <2>3. FilenameUnsafe \in SUBSET Escapable /\ "%" \in FilenameUnsafe
    BY DEF FilenameUnsafe, Escapable
  <2>4. ASSUME NEW k \in DOMAIN entries
        PROVE  TitleOf(k) = TitleOf(j) <=> entries[k].filename = entries[j].filename
    <3> DEFINE s == TitleOf(k)
               t == TitleOf(j)
    <3>1. /\ s \in Seq(STRING) /\ entries[k].filename = Encode(s, FilenameUnsafe)
          /\ t \in Seq(STRING) /\ entries[j].filename = Encode(t, FilenameUnsafe)
      BY <2>2
    <3> HIDE DEF s, t
    <3>2. Encode(s, FilenameUnsafe) = Encode(t, FilenameUnsafe) => s = t
      BY <2>3, <3>1, EncodeInjective
    <3>3. s = t <=> entries[k].filename = entries[j].filename
      BY <3>1, <3>2
    <3> QED
      BY <3>3 DEF s, t
  <2> DEFINE S == {k \in DOMAIN entries : TitleOf(k) = TitleOf(j)}
             f == entries[j].filename
             m == Find(f)
  <2>5. f \in DOMAIN table
    BY <2>1 DEF Indexed
  <2>6. /\ m \in DOMAIN entries /\ entries[m].filename = f
        /\ \A k \in DOMAIN entries : entries[k].filename = f => m <= k
    BY <2>1, <2>5 DEF Indexed, Find
  <2> HIDE DEF m, f
  <2>7. m \in S /\ \A k \in S : m <= k
    BY <2>4, <2>6 DEF f
  <2>8. S \subseteq Nat
    BY <2>1
  <2> HIDE DEF S
  <2>9. Min(S) = m
    <3> DEFINE g == Min(S)
    <3>1. g \in S /\ \A k \in S : g <= k
      BY <2>7 DEF Min
    <3> HIDE DEF g
    <3>2. g <= m /\ m <= g /\ g \in Nat /\ m \in Nat
      BY <2>7, <2>8, <3>1
    <3>3. g = m
      BY <3>2
    <3> QED
      BY <3>3 DEF g
  <2> QED
    BY <2>9 DEF m, f, S
<1> QED
  BY <1>1, NamesInvariant, PTL

-----------------------------------------------------------------------------
(* The pages the links lead to, and their entries                          *)

EntryOf(n) == IF IsEntry(n) THEN <<EntryFromXml(n)>> ELSE <<>>

LEMMA EntriesInEmpty == EntriesIn(<<>>) = <<>>
<1>1. DOMAIN <<>> = {}
  OBVIOUS
<1>2. [j \in DOMAIN <<>> |-> IF IsEntry(<<>>[j]) THEN <<EntryFromXml(<<>>[j])>> ELSE <<>>] = <<>>
  BY <1>1
<1> QED
  BY <1>2 DEF EntriesIn, FlattenSeq

(* One node more brings its entry, if it is one.                           *)
LEMMA EntriesInAppend ==
  ASSUME NEW N, NEW ns \in Seq(N), NEW n \in N
  PROVE  /\ EntriesIn(ns) \in Seq({EntryFromXml(m) : m \in N})
         /\ EntriesIn(Append(ns, n)) = EntriesIn(ns) \o EntryOf(n)
<1> DEFINE A == {EntryFromXml(m) : m \in N}
           t == Append(ns, n)
           c == [j \in DOMAIN ns |-> EntryOf(ns[j])]
           d == [j \in DOMAIN t |-> EntryOf(t[j])]
<1>1. ASSUME NEW m \in N PROVE EntryOf(m) \in Seq(A)
  <2>1. EntryFromXml(m) \in A
    OBVIOUS
  <2> HIDE DEF A
  <2> QED
    BY <2>1 DEF EntryOf
<1> HIDE DEF A
<1>2. /\ Len(ns) \in Nat /\ DOMAIN ns = 1..Len(ns) /\ DOMAIN t = 1..(Len(ns) + 1)
      /\ t[Len(ns) + 1] = n
      /\ \A j \in 1..Len(ns) : t[j] = ns[j] /\ ns[j] \in N
  OBVIOUS
<1>3. c \in Seq(Seq(A)) /\ Len(c) = Len(ns)
  BY <1>1, <1>2
<1>4. d = Append(c, EntryOf(n))
  BY <1>1, <1>2, <1>3
<1>5. EntryOf(n) \in Seq(A)
  BY <1>1
<1>6. EntriesIn(ns) = FlattenSeq(c) /\ EntriesIn(t) = FlattenSeq(d)
  BY DEF EntriesIn, EntryOf
<1> HIDE DEF c, d
<1>7. FlattenSeq(c) \in Seq(A) /\ FlattenSeq(Append(c, EntryOf(n))) = FlattenSeq(c) \o EntryOf(n)
  BY <1>3, <1>5, FlattenAppend
<1> QED
  BY <1>4, <1>6, <1>7 DEF A

LEMMA EntriesInTyped ==
  ASSUME NEW N, NEW ns \in Seq(N)
  PROVE  EntriesIn(ns) \in Seq({EntryFromXml(m) : m \in N})
<1>1. CASE N = {}
  <2>1. ns = <<>>
    BY <1>1
  <2>2. EntriesIn(ns) = <<>>
    BY <2>1, EntriesInEmpty
  <2> QED
    BY <2>2
<1>2. CASE N # {}
  BY <1>2, EntriesInAppend
<1> QED
  BY <1>1, <1>2

(* One node more gives the link, if it is one.                             *)
LEMMA LinkInEmpty == LinkIn(<<>>) = NULL
<1>1. DOMAIN <<>> = {}
  OBVIOUS
<1> QED
  BY <1>1 DEF LinkIn

LEMMA LinkInAppend ==
  ASSUME NEW N, NEW ns \in Seq(N), NEW n \in N
  PROVE  LinkIn(Append(ns, n)) = IF IsNext(n) THEN n.uri ELSE LinkIn(ns)
<1> DEFINE t     == Append(ns, n)
           at(s) == {j \in DOMAIN s : IsNext(s[j])}
<1>1. /\ Len(ns) \in Nat /\ DOMAIN ns = 1..Len(ns) /\ DOMAIN t = 1..(Len(ns) + 1)
      /\ t[Len(ns) + 1] = n
      /\ \A j \in 1..Len(ns) : t[j] = ns[j]
  OBVIOUS
<1>2. /\ LinkIn(t) = IF at(t) = {} THEN NULL ELSE t[Max(at(t))].uri
      /\ LinkIn(ns) = IF at(ns) = {} THEN NULL ELSE ns[Max(at(ns))].uri
  BY DEF LinkIn
<1> HIDE DEF t
<1>3. CASE IsNext(n)
  <2> DEFINE S == at(t)
  <2>1. Len(ns) + 1 \in S /\ S \subseteq 1..(Len(ns) + 1)
    BY <1>1, <1>3
  <2>2. Max(S) \in S /\ \A m \in S : m <= Max(S)
    <3>1. Len(ns) + 1 \in Nat
      BY <1>1
    <3> HIDE DEF S
    <3> QED
      BY <2>1, <3>1, GreatestMember
  <2>3. Max(S) = Len(ns) + 1
    <3> HIDE DEF S
    <3> DEFINE m == Max(S)
    <3>1. m \in 1..(Len(ns) + 1) /\ Len(ns) + 1 <= m
      BY <2>1, <2>2
    <3> HIDE DEF m
    <3>2. m = Len(ns) + 1
      BY <1>1, <3>1
    <3> QED
      BY <3>2 DEF m
  <2>4. S # {}
    BY <2>1
  <2> QED
    BY <1>1, <1>2, <1>3, <2>3, <2>4 DEF t
<1>4. CASE ~IsNext(n)
  <2>1. at(t) = at(ns)
    BY <1>1, <1>4
  <2>2. CASE at(ns) = {}
    BY <1>2, <1>4, <2>1, <2>2 DEF t
  <2>3. CASE at(ns) # {}
    <3> DEFINE S == at(ns)
    <3>1. S \subseteq 1..Len(ns) /\ S # {}
      BY <1>1, <2>3
    <3>2. Max(S) \in S
      <4> HIDE DEF S
      <4> QED
        BY <1>1, <3>1, GreatestMember
    <3>3. t[Max(S)] = ns[Max(S)]
      <4> HIDE DEF S
      <4> QED
        BY <1>1, <3>1, <3>2
    <3> QED
      BY <1>2, <1>4, <2>1, <2>3, <3>3 DEF t
  <2> QED
    BY <2>2, <2>3
<1> QED
  BY <1>3, <1>4

LEMMA LinkTyped ==
  ASSUME server \in Layouts, NEW u \in Uris
  PROVE  LinkIn(server[u]) \in Uris \cup {NULL}
<1> DEFINE ns == server[u]
           at == {j \in DOMAIN ns : IsNext(ns[j])}
           N  == NodesOf(server)
<1>1. ns \in Seq(N) /\ \A n \in N : IsNext(n) => n.uri \in Uris \cup {NULL}
  BY FeedAssumption
<1>2. LinkIn(ns) = IF at = {} THEN NULL ELSE ns[Max(at)].uri
  BY DEF LinkIn
<1> HIDE DEF ns, N
<1>3. CASE at # {}
  <2>1. at \subseteq 1..Len(ns) /\ Len(ns) \in Nat
    BY <1>1
  <2>2. Max(at) \in at
    <3> HIDE DEF at
    <3> QED
      BY <1>3, <2>1, GreatestMember
  <2> DEFINE m == Max(at)
  <2>3. m \in DOMAIN ns /\ IsNext(ns[m])
    BY <2>2
  <2> HIDE DEF m
  <2>4. ns[m] \in N
    BY <1>1, <2>3
  <2>5. ns[m].uri \in Uris \cup {NULL}
    BY <1>1, <2>3, <2>4
  <2> QED
    BY <1>2, <1>3, <2>5 DEF m, ns
<1> QED
  BY <1>2, <1>3 DEF ns

(* Each page is the one the link of the page before it leads to.           *)
LEMMA PageAtStep ==
  ASSUME server \in Layouts
  PROVE  /\ PageAt \in [Nat -> Uris \cup {NULL}]
         /\ PageAt[0] = First
         /\ \A n \in Nat : PageAt[n] # NULL => PageAt[n + 1] = LinkIn(server[PageAt[n]])
<1> DEFINE V     == Uris \cup {NULL}
           step  == [u \in V |-> IF u = NULL THEN NULL ELSE LinkIn(server[u])]
           Eq(f) == f = [n \in Nat |-> IF n = 0 THEN First
                                       ELSE IF f[n - 1] = NULL THEN NULL
                                            ELSE LinkIn(server[f[n - 1]])]
           page  == CHOOSE f : Eq(f)
<1>1. ASSUME NEW u \in V PROVE step[u] \in V
  <2>1. CASE u = NULL
    BY <2>1
  <2>2. CASE u # NULL
    BY <2>2, LinkTyped
  <2> QED
    BY <2>1, <2>2
<1>2. step \in [V -> V] /\ First \in V
  <2>1. step = [u \in V |-> step[u]]
    OBVIOUS
  <2>2. First \in V
    BY ListingAssumption
  <2> HIDE DEF step, V
  <2> QED
    BY <1>1, <2>1, <2>2
<1>3. PICK f \in [Nat -> V] : Repeats(f, First, step)
  <2> HIDE DEF step, V
  <2> QED
    BY <1>2, RecursionOnNat
<1>4. Eq(f)
  <2>1. ASSUME NEW n \in Nat
        PROVE  f[n] = IF n = 0 THEN First
                      ELSE IF f[n - 1] = NULL THEN NULL ELSE LinkIn(server[f[n - 1]])
    <3>1. CASE n = 0
      BY <1>3, <3>1 DEF Repeats
    <3>2. CASE n # 0
      <4>1. PICK k \in Nat : n = k + 1 /\ n - 1 = k
        <5>1. n - 1 \in Nat /\ n = (n - 1) + 1
          BY <3>2
        <5> QED
          BY <5>1
      <4>2. f[k + 1] = step[f[k]] /\ f[k] \in V
        BY <1>3 DEF Repeats
      <4>3. step[f[k]] = IF f[k] = NULL THEN NULL ELSE LinkIn(server[f[k]])
        BY <4>2
      <4> HIDE DEF step
      <4> QED
        BY <3>2, <4>1, <4>2, <4>3
    <3> QED
      BY <3>1, <3>2
  <2> HIDE DEF step
  <2> QED
    BY <1>3, <2>1
<1>5. Eq(page)
  <2> HIDE DEF Eq
  <2> QED
    BY <1>4
<1>6. PageAt = page
  BY DEF PageAt
<1> HIDE DEF page
<1>7. \A n \in Nat : page[n] = IF n = 0 THEN First
                               ELSE IF page[n - 1] = NULL THEN NULL
                                    ELSE LinkIn(server[page[n - 1]])
  BY <1>5
<1>8. page[0] = First
  BY <1>7
<1>9. ASSUME NEW n \in Nat
      PROVE  page[n + 1] = IF page[n] = NULL THEN NULL ELSE LinkIn(server[page[n]])
  <2>1. n + 1 \in Nat /\ n + 1 # 0 /\ (n + 1) - 1 = n
    OBVIOUS
  <2> QED
    BY <1>7, <2>1
<1>10. \A n \in Nat : page[n] \in V
  <2> SUFFICES ASSUME NEW n \in Nat PROVE page[n] \in V
    OBVIOUS
  <2> DEFINE S == {k \in 0..n : page[k] \in V}
  <2>1. 0 \in S
    BY <1>2, <1>8
  <2>2. ASSUME NEW k \in 0..n, k \in S, k < n PROVE k + 1 \in S
    <3>1. page[k] \in V /\ k + 1 \in 0..n /\ k \in Nat
      BY <2>2
    <3>2. page[k + 1] = step[page[k]]
      BY <1>9, <3>1
    <3>3. page[k + 1] \in V
      <4> HIDE DEF step, V
      <4> QED
        BY <1>1, <3>1, <3>2
    <3> HIDE DEF V
    <3> QED
      BY <3>1, <3>3
  <2>3. 0..n \subseteq S
    <3> HIDE DEF S
    <3> QED
      BY <2>1, <2>2, Induction
  <2> QED
    BY <2>3
<1>11. page \in [Nat -> V]
  <2>1. \A x : Eq(x) => x = [n \in Nat |-> x[n]]
    OBVIOUS
  <2>2. page = [n \in Nat |-> page[n]]
    <3> HIDE DEF Eq
    <3> QED
      BY <1>5, <2>1
  <2> HIDE DEF V, Eq
  <2> QED
    BY <1>10, <2>2
<1> QED
  BY <1>6, <1>8, <1>9, <1>11

(* One page more brings its entries.                                       *)
LEMMA EntriesUpToNone == EntriesUpTo(0) = <<>>
<1> DEFINE s == [j \in 1..0 |-> EntriesIn(server[PageAt[j - 1]])]
<1>1. s = <<>>
  OBVIOUS
<1> HIDE DEF s
<1>2. FlattenSeq(s) = <<>>
  BY <1>1 DEF FlattenSeq
<1> QED
  BY <1>2 DEF EntriesUpTo, s

LEMMA EntriesUpToGrows ==
  ASSUME server \in Layouts, NEW n \in Nat, \A k \in 0..n : PageAt[k] \in Uris
  PROVE  /\ EntriesUpTo(n) \in Seq({EntryFromXml(m) : m \in NodesOf(server)})
         /\ EntriesUpTo(n + 1) = EntriesUpTo(n) \o EntriesIn(server[PageAt[n]])
<1> DEFINE N    == NodesOf(server)
           A    == {EntryFromXml(m) : m \in N}
           e(j) == EntriesIn(server[PageAt[j - 1]])
           c    == [j \in 1..n |-> e(j)]
           d    == [j \in 1..(n + 1) |-> e(j)]
<1>1. ASSUME NEW j \in 1..(n + 1) PROVE e(j) \in Seq(A)
  <2> DEFINE ns == server[PageAt[j - 1]]
  <2>1. j - 1 \in 0..n
    OBVIOUS
  <2>2. ns \in Seq(N)
    BY <2>1, FeedAssumption
  <2> HIDE DEF ns, N
  <2>3. EntriesIn(ns) \in Seq(A)
    BY <2>2, EntriesInTyped
  <2> QED
    BY <2>3 DEF ns
<1> HIDE DEF A, e
<1>2. n + 1 \in 1..(n + 1) /\ \A j \in 1..n : j \in 1..(n + 1)
  OBVIOUS
<1>3. c \in Seq(Seq(A)) /\ e(n + 1) \in Seq(A) /\ Len(c) = n
  BY <1>1, <1>2
<1>4. d = Append(c, e(n + 1))
  BY <1>1, <1>2, <1>3
<1>5. EntriesUpTo(n) = FlattenSeq(c) /\ EntriesUpTo(n + 1) = FlattenSeq(d)
  BY DEF EntriesUpTo, e
<1>6. e(n + 1) = EntriesIn(server[PageAt[n]])
  <2>1. (n + 1) - 1 = n
    OBVIOUS
  <2> QED
    BY <2>1 DEF e
<1> HIDE DEF c, d
<1>7. FlattenSeq(c) \in Seq(A) /\ FlattenSeq(Append(c, e(n + 1))) = FlattenSeq(c) \o e(n + 1)
  BY <1>3, FlattenAppend
<1> QED
  BY <1>4, <1>5, <1>6, <1>7 DEF A
-----------------------------------------------------------------------------
(* The response                                                            *)

(* A request starts with an empty body, which then holds pieces of the     *)
(* answer to it and nothing else.                                          *)
AskInv ==
  /\ pc = "ask" => body = <<>>
  /\ pc = "wait" => /\ answer \in Answers[uri]
                    /\ \A j \in DOMAIN body : \E i \in DOMAIN answer : body[j] = answer[i]

LEMMA AskStep ==
  ASSUME Request!TypeOK, AskInv, [DriveNext]_<<vars, driveVars>>
  PROVE  AskInv'
<1> USE DEF Goto
<1> DEFINE K == Request!Piece
<1>1. CASE Begin
  BY <1>1 DEF Begin, Request!CiInit, AskInv
<1>2. CASE Ask
  <2>1. PICK a \in Answers[uri] : Request!CiRequest(a)
    BY <1>2 DEF Ask
  <2>2. pc = "ask" /\ pc' = "wait" /\ body = <<>> /\ body' = body /\ answer' = a /\ uri' = uri
    BY <1>2, <2>1 DEF Ask, Request!CiRequest, AskInv
  <2>3. DOMAIN body' = {}
    BY <2>2
  <2>4. answer' \in Answers[uri']
    BY <2>2
  <2> QED
    BY <2>2, <2>3, <2>4 DEF AskInv
<1>3. CASE Wait
  <2>1. CASE Request!Callback
    <3>1. PICK ok \in Request!MayStore : Request!Receive(ok)
      BY <2>1 DEF Request!Callback
    <3> DEFINE p == answer[arrived + 1]
    <3>2. arrived + 1 \in DOMAIN answer /\ p \in K /\ body \in Seq(K)
      <4>1. arrived + 1 \in 1..Len(answer) /\ answer \in Seq(K) /\ body \in Seq(K)
        BY <3>1 DEF Request!Receive, Request!TypeOK
      <4> HIDE DEF K
      <4> QED
        BY <4>1
    <3>3. pc' = pc /\ answer' = answer /\ uri' = uri /\ (body' = body \/ body' = Append(body, p))
      BY <1>3, <3>1 DEF Wait, Request!Receive, Request!Stored
    <3>4. \A j \in DOMAIN body' : (j \in DOMAIN body /\ body'[j] = body[j]) \/ body'[j] = p
      <4> HIDE DEF K, p
      <4> QED
        BY <3>2, <3>3
    <3>5. pc = "wait"
      BY <1>3 DEF Wait
    <3>6. ASSUME NEW j \in DOMAIN body' PROVE \E i \in DOMAIN answer : body'[j] = answer[i]
      BY <3>2, <3>4, <3>5 DEF AskInv
    <3>7. answer' \in Answers[uri']
      BY <3>3, <3>5 DEF AskInv
    <3> HIDE DEF p, K
    <3> QED
      BY <3>3, <3>5, <3>6, <3>7 DEF AskInv
  <2>2. CASE Request!Perform
    BY <1>3, <2>2 DEF Wait, Request!Perform, AskInv
  <2> QED
    BY <1>3, <2>1, <2>2 DEF Wait
<1>4. CASE TurnPage
  BY <1>4 DEF TurnPage, Request!CiClearResponse, Request!Cleared, AskInv
<1>5. ASSUME UNCHANGED <<body, answer, uri>>, UNCHANGED pc \/ pc' \notin {"ask", "wait"}
      PROVE  AskInv'
  BY <1>5 DEF AskInv
<1>6. CASE EndListing
  BY <1>6 DEF EndListing, AskInv
<1>7. CASE StartParse \/ ParseNothing \/ ParseEntry \/ ParseLink \/ ParseCrash \/ ParseStarves
           \/ EndParse
  BY <1>5, <1>7
     DEF StartParse, ParseNothing, ParseEntry, ParseLink, ParseCrash, ParseStarves, EndParse,
         transferVars
<1>8. CASE CreateHash \/ CreateHashFails \/ Enter \/ EnterCrash \/ Mount
  BY <1>5, <1>8 DEF CreateHash, CreateHashFails, Enter, EnterCrash, Mount, transferVars
<1>9. CASE ~GdiInit
  BY <1>5, <1>9
     DEF DriveNext, Serve, GiveUp, Readdir, Getattr, Open, Release, Turn,
         Unmount, FreeEntry, PopStack, Ended, vars, transferVars
<1> QED
  BY <1>1, <1>2, <1>3, <1>4, <1>6, <1>7, <1>8, <1>9 DEF GdiInit, Setup

(* Two different pieces of a feed that are in an answer: it is the feed    *)
(* that was asked for.                                                     *)
LEMMA AnswerIsAsked ==
  ASSUME uri \in Uris, answer \in Answers[uri], NEW u \in Uris,
         \E i \in DOMAIN answer : answer[i] = P("data", <<u, 1>>),
         \E i \in DOMAIN answer : answer[i] = P("data", <<u, 2>>)
  PROVE  u = uri
<1> DEFINE E == {P("line", "status"), P("blank", "crlf"), P("data", <<uri, 1>>), P("data", <<uri, 2>>)}
           F == {P("line", "status"), P("blank", "crlf"), P("data", "oops")}
<1>1. answer \in Seq(E) \/ answer \in Seq(F)
  <2>1. Answers[uri] = {Page(uri)}
                       \cup (IF "proxied" \in Replies THEN {Block \o Page(uri)} ELSE {})
                       \cup (IF "error" \in Replies THEN {Block \o <<P("data", "oops")>>} ELSE {})
    BY DEF Answers
  <2>2. Page(uri) \in Seq(E) /\ Block \in Seq(E)
    BY ConcatTyped DEF Page, Block, Feed
  <2>3. Block \in Seq(F) /\ <<P("data", "oops")>> \in Seq(F)
    BY DEF Block
  <2> HIDE DEF E, F
  <2>4. Block \o Page(uri) \in Seq(E)
    BY <2>2, ConcatTyped
  <2>5. Block \o <<P("data", "oops")>> \in Seq(F)
    BY <2>3, ConcatTyped
  <2> QED
    BY <2>1, <2>2, <2>4, <2>5
<1>2. CASE answer \in Seq(E)
  <2>1. P("data", <<u, 1>>) \in E
    <3> HIDE DEF E
    <3> QED
      BY <1>2
  <2>2. \/ P("data", <<u, 1>>) = P("data", <<uri, 1>>)
        \/ P("data", <<u, 1>>) = P("data", <<uri, 2>>)
    BY <2>1 DEF P
  <2>3. <<u, 1>> = <<uri, 1>> \/ <<u, 1>> = <<uri, 2>>
    BY <2>2 DEF P
  <2> QED
    BY <2>3
<1>3. CASE answer \in Seq(F)
  <2>1. P("data", <<u, 1>>) \in F /\ P("data", <<u, 2>>) \in F
    <3> HIDE DEF F
    <3> QED
      BY <1>3
  <2>2. P("data", <<u, 1>>) = P("data", "oops") /\ P("data", <<u, 2>>) = P("data", "oops")
    BY <2>1 DEF P
  <2>3. <<u, 1>> = "oops" /\ <<u, 2>> = "oops"
    BY <2>2 DEF P
  <2>4. <<u, 1>> = <<u, 2>>
    BY <2>3
  <2> QED
    BY <2>4
<1> QED
  BY <1>1, <1>2, <1>3

(* So a body that is parsed is the page that was asked for or none.        *)
LEMMA BodyIsAsked ==
  ASSUME Request!TypeOK, AskInv, pc = "wait"
  PROVE  PagesIn(body) \subseteq {uri}
<1> SUFFICES ASSUME NEW u \in PagesIn(body) PROVE u = uri
  OBVIOUS
<1> DEFINE K == Request!Piece
<1>1. u \in Uris /\ uri \in Uris /\ body \in Seq(K)
  BY DEF PagesIn, Request!TypeOK
<1>2. PICK j \in DOMAIN body : SubSeq(body, j, Len(body)) = Feed(u)
  BY DEF PagesIn
<1> HIDE DEF K
<1>3. /\ Len(Feed(u)) = 2
      /\ Feed(u)[1] = P("data", <<u, 1>>) /\ Feed(u)[2] = P("data", <<u, 2>>)
  BY DEF Feed
<1>4. j + 1 \in DOMAIN body /\ body[j] = Feed(u)[1] /\ body[j + 1] = Feed(u)[2]
  <2> DEFINE f == Feed(u)
             r == SubSeq(body, j, Len(body))
  <2>1. j \in 1..Len(body) /\ Len(body) \in Nat
    BY <1>1
  <2>2. Len(r) = Len(body) - j + 1 /\ \A i \in 1..(Len(body) - j + 1) : r[i] = body[j + i - 1]
    <3>1. ASSUME NEW s \in Seq(K), NEW k \in 1..Len(s)
          PROVE  /\ Len(SubSeq(s, k, Len(s))) = Len(s) - k + 1
                 /\ \A i \in 1..(Len(s) - k + 1) : SubSeq(s, k, Len(s))[i] = s[k + i - 1]
      OBVIOUS
    <3> QED
      BY <1>1, <2>1, <3>1
  <2> HIDE DEF f, r
  <2>3. r = f /\ Len(f) = 2
    BY <1>2, <1>3 DEF f, r
  <2>4. Len(body) - j + 1 = 2
    BY <2>2, <2>3
  <2>5. f[1] = body[j + 1 - 1] /\ f[2] = body[j + 2 - 1]
    BY <2>2, <2>3, <2>4
  <2>6. j + 1 - 1 = j /\ j + 2 - 1 = j + 1 /\ j + 1 \in 1..Len(body)
    BY <2>1, <2>4
  <2> QED
    BY <1>1, <2>5, <2>6 DEF f
<1>5. /\ answer \in Answers[uri]
      /\ \E i \in DOMAIN answer : answer[i] = P("data", <<u, 1>>)
      /\ \E i \in DOMAIN answer : answer[i] = P("data", <<u, 2>>)
  BY <1>2, <1>3, <1>4 DEF AskInv
<1> QED
  BY <1>1, <1>5, AnswerIsAsked
-----------------------------------------------------------------------------
(* The pages read                                                          *)

(* The current page is read up to the nodes that are left of it.           *)
Partway ==
  \E k \in Nat, done \in Seq(NodesOf(server)) :
    /\ read = k + 1
    /\ server[PageAt[k]] = done \o nodes
    /\ entries = EntriesUpTo(k) \o EntriesIn(done)
    /\ next = LinkIn(done)

(* A node of one of the first n pages.                                     *)
NodeUpTo(n, node) ==
  \E k \in 0..(n - 1) : \E j \in DOMAIN server[PageAt[k]] : server[PageAt[k]][j] = node

(* The pages read are the first ones, and the entries theirs; next is the  *)
(* link of the last of them, unless a page was cut, which is the last.     *)
PageInv ==
  /\ \A k \in 0..(read - 1) : PageAt[k] \in Uris
  /\ pc = "start" => read = 0 /\ ~cut
  /\ pc \in {"ask", "wait"} => ~cut /\ uri = PageAt[read]
  /\ pc \in {"start", "ask", "wait", "turn", "end", "hash", "enter", "mounted"} =>
       entries = EntriesUpTo(read)
  /\ pc = "parse" => \/ cut /\ nodes = <<>> /\ next = NULL /\ entries = EntriesUpTo(read)
                     \/ ~cut /\ Partway
  /\ pc = "turn" => next = IF cut THEN NULL ELSE PageAt[read]
  /\ pc \in {"end", "hash", "enter", "mounted"} => cut \/ PageAt[read] = NULL

LEMMA SamePages ==
  ASSUME UNCHANGED server
  PROVE  /\ PageAt' = PageAt
         /\ \A n \in Nat : EntriesUpTo(n)' = EntriesUpTo(n)
<1>1. PageAt' = PageAt
  BY DEF PageAt
<1>2. ASSUME NEW n \in Nat PROVE EntriesUpTo(n)' = EntriesUpTo(n)
  BY <1>1 DEF EntriesUpTo
<1> QED
  BY <1>1, <1>2

LEMMA SamePartway ==
  ASSUME UNCHANGED <<server, read, nodes, entries, next>>, Partway
  PROVE  Partway'
<1>1. PICK k \in Nat, done \in Seq(NodesOf(server)) :
        /\ read = k + 1
        /\ server[PageAt[k]] = done \o nodes
        /\ entries = EntriesUpTo(k) \o EntriesIn(done)
        /\ next = LinkIn(done)
  BY DEF Partway
<1>2. PageAt' = PageAt /\ EntriesUpTo(k)' = EntriesUpTo(k)
  BY SamePages
<1>3. NodesOf(server)' = NodesOf(server)
  OBVIOUS
<1> QED
  BY <1>1, <1>2, <1>3 DEF Partway

(* One node further into the page.                                         *)
LEMMA OneFurther ==
  ASSUME NEW N, NEW done \in Seq(N), NEW rest \in Seq(N), rest # <<>>
  PROVE  /\ Head(rest) \in N /\ Tail(rest) \in Seq(N)
         /\ Append(done, Head(rest)) \in Seq(N)
         /\ Append(done, Head(rest)) \o Tail(rest) = done \o rest
         /\ Len(done) + 1 \in DOMAIN (done \o rest)
         /\ (done \o rest)[Len(done) + 1] = Head(rest)
<1> DEFINE h == Head(rest)
           t == Tail(rest)
<1>1. /\ h \in N /\ t \in Seq(N) /\ h = rest[1]
      /\ Len(rest) = Len(t) + 1 /\ \A j \in 1..Len(t) : t[j] = rest[1 + j]
  <2>1. Tail(rest) \in Seq(N) /\ Head(rest) = rest[1] /\ rest[1] \in N
        /\ Len(rest) = Len(Tail(rest)) + 1
    OBVIOUS
  <2>2. \A j \in 1..Len(Tail(rest)) : Tail(rest)[j] = rest[1 + j]
    OBVIOUS
  <2> QED
    BY <2>1, <2>2
<1> HIDE DEF h, t
<1> DEFINE l == Append(done, h) \o t
           r == done \o rest
<1>2. /\ Append(done, h) \in Seq(N) /\ Len(Append(done, h)) = Len(done) + 1
      /\ Append(done, h)[Len(done) + 1] = h
      /\ \A j \in 1..Len(done) : Append(done, h)[j] = done[j]
      /\ Len(done) \in Nat /\ Len(t) \in Nat
  BY <1>1
<1>3. /\ l \in Seq(N) /\ Len(l) = Len(done) + 1 + Len(t)
      /\ \A j \in 1..(Len(done) + 1) : l[j] = Append(done, h)[j]
      /\ \A j \in 1..Len(t) : l[Len(done) + 1 + j] = t[j]
  <2> DEFINE a == Append(done, h)
  <2>1. a \in Seq(N) /\ Len(a) = Len(done) + 1 /\ t \in Seq(N)
    BY <1>1, <1>2
  <2> HIDE DEF a
  <2>2. /\ a \o t \in Seq(N) /\ Len(a \o t) = Len(a) + Len(t)
        /\ \A j \in 1..Len(a) : (a \o t)[j] = a[j]
        /\ \A j \in 1..Len(t) : (a \o t)[Len(a) + j] = t[j]
    <3>1. ASSUME NEW x \in Seq(N), NEW y \in Seq(N)
          PROVE  /\ x \o y \in Seq(N) /\ Len(x \o y) = Len(x) + Len(y)
                 /\ \A j \in 1..Len(x) : (x \o y)[j] = x[j]
                 /\ \A j \in 1..Len(y) : (x \o y)[Len(x) + j] = y[j]
      OBVIOUS
    <3>2. a \in Seq(N) /\ t \in Seq(N)
      BY <2>1
    <3> QED
      BY <3>1, <3>2, Zenon
  <2> QED
    BY <1>2, <2>1, <2>2 DEF a
<1>4. /\ r \in Seq(N) /\ Len(r) = Len(done) + Len(rest)
      /\ \A j \in 1..Len(done) : r[j] = done[j]
      /\ \A j \in 1..Len(rest) : r[Len(done) + j] = rest[j]
  BY ConcatTyped
<1> HIDE DEF l, r
<1>5. Len(l) = Len(r) /\ Len(r) = Len(done) + 1 + Len(t)
  BY <1>1, <1>2, <1>3, <1>4
<1>6. r[Len(done) + 1] = h
  <2>1. 1 \in 1..Len(rest)
    BY <1>1, <1>2
  <2> QED
    BY <1>1, <1>4, <2>1
<1>7. ASSUME NEW j \in 1..Len(r) PROVE l[j] = r[j]
  <2>1. CASE j <= Len(done)
    <3>1. j \in 1..Len(done) /\ j \in 1..(Len(done) + 1)
      BY <1>2, <1>5, <2>1
    <3> QED
      BY <1>2, <1>3, <1>4, <3>1
  <2>2. CASE j = Len(done) + 1
    <3>1. j \in 1..(Len(done) + 1)
      BY <1>2, <2>2
    <3>2. l[j] = Append(done, h)[Len(done) + 1]
      BY <1>3, <2>2, <3>1
    <3> QED
      BY <1>2, <1>6, <2>2, <3>2
  <2>3. CASE j > Len(done) + 1
    <3>1. PICK i \in 1..Len(t) : j = Len(done) + 1 + i
      <4>1. j - (Len(done) + 1) \in 1..Len(t) /\ j = Len(done) + 1 + (j - (Len(done) + 1))
        BY <1>2, <1>5, <2>3
      <4> QED
        BY <4>1
    <3>2. 1 + i \in 1..Len(rest) /\ j = Len(done) + (1 + i)
      BY <1>1, <1>2, <3>1
    <3>3. r[j] = rest[1 + i]
      BY <1>4, <3>2
    <3> QED
      BY <1>1, <1>3, <3>1, <3>3
  <2>4. j <= Len(done) \/ j = Len(done) + 1 \/ j > Len(done) + 1
    <3>1. j \in Int /\ Len(done) \in Int
      BY <1>2, <1>5
    <3> QED
      BY <3>1
  <2> QED
    BY <2>1, <2>2, <2>3, <2>4
<1>8. l = r
  <2>1. l \in Seq(N) /\ r \in Seq(N) /\ Len(l) = Len(r)
    BY <1>3, <1>4, <1>5
  <2> QED
    BY <1>7, <2>1, SameElements
<1>9. Len(done) + 1 \in DOMAIN r
  BY <1>2, <1>4, <1>5
<1> QED
  BY <1>1, <1>2, <1>6, <1>8, <1>9 DEF l, r, h, t

LEMMA ConcatAssoc ==
  ASSUME NEW A, NEW r \in Seq(A), NEW s \in Seq(A), NEW e \in A
  PROVE  Append(r \o s, e) = r \o (s \o <<e>>)
<1>1. s \o <<e>> = Append(s, e)
  OBVIOUS
<1> DEFINE x == Append(r \o s, e)
           y == r \o Append(s, e)
<1>2. /\ Len(r) \in Nat /\ Len(s) \in Nat
      /\ Append(s, e) \in Seq(A) /\ Len(Append(s, e)) = Len(s) + 1
      /\ Append(s, e)[Len(s) + 1] = e
      /\ \A j \in 1..Len(s) : Append(s, e)[j] = s[j]
  OBVIOUS
<1>3. /\ r \o s \in Seq(A) /\ Len(r \o s) = Len(r) + Len(s)
      /\ \A j \in 1..Len(r) : (r \o s)[j] = r[j]
      /\ \A j \in 1..Len(s) : (r \o s)[Len(r) + j] = s[j]
  BY ConcatTyped
<1>4. /\ y \in Seq(A) /\ Len(y) = Len(r) + (Len(s) + 1)
      /\ \A j \in 1..Len(r) : y[j] = r[j]
      /\ \A j \in 1..(Len(s) + 1) : y[Len(r) + j] = Append(s, e)[j]
  BY <1>2, ConcatTyped
<1>5. ASSUME NEW q \in Seq(A)
      PROVE  /\ Append(q, e) \in Seq(A) /\ Len(Append(q, e)) = Len(q) + 1
             /\ Append(q, e)[Len(q) + 1] = e
             /\ \A j \in 1..Len(q) : Append(q, e)[j] = q[j]
  OBVIOUS
<1>6. /\ x \in Seq(A) /\ Len(x) = Len(r) + Len(s) + 1
      /\ x[Len(r) + Len(s) + 1] = e
      /\ \A j \in 1..(Len(r) + Len(s)) : x[j] = (r \o s)[j]
  BY <1>3, <1>5
<1> HIDE DEF x, y
<1>7. ASSUME NEW j \in 1..Len(y) PROVE x[j] = y[j]
  <2>1. CASE j \in 1..Len(r)
    <3>1. j \in 1..(Len(r) + Len(s))
      BY <1>2, <2>1
    <3> QED
      BY <1>3, <1>4, <1>6, <2>1, <3>1
  <2>2. CASE \E i \in 1..Len(s) : j = Len(r) + i
    <3>1. PICK i \in 1..Len(s) : j = Len(r) + i
      BY <2>2
    <3>2. j \in 1..(Len(r) + Len(s)) /\ i \in 1..(Len(s) + 1)
      BY <1>2, <3>1
    <3> QED
      BY <1>2, <1>3, <1>4, <1>6, <3>1, <3>2
  <2>3. CASE j = Len(r) + (Len(s) + 1)
    <3>1. Len(s) + 1 \in 1..(Len(s) + 1) /\ Len(r) + Len(s) + 1 = j
      BY <1>2, <2>3
    <3>2. y[Len(r) + (Len(s) + 1)] = Append(s, e)[Len(s) + 1]
      BY <1>4, <3>1
    <3> QED
      BY <1>2, <1>6, <2>3, <3>1, <3>2
  <2>4. j \in 1..Len(r) \/ (\E i \in 1..Len(s) : j = Len(r) + i) \/ j = Len(r) + (Len(s) + 1)
    <3>1. j \in 1..(Len(r) + (Len(s) + 1))
      BY <1>4
    <3>2. CASE j > Len(r) /\ j < Len(r) + (Len(s) + 1)
      <4>1. j - Len(r) \in 1..Len(s) /\ j = Len(r) + (j - Len(r))
        BY <1>2, <3>1, <3>2
      <4> QED
        BY <4>1
    <3> QED
      <4>1. j \in Nat /\ j >= 1 /\ j <= Len(r) + (Len(s) + 1)
        BY <1>2, <3>1
      <4>2. j <= Len(r) \/ (j > Len(r) /\ j < Len(r) + (Len(s) + 1)) \/ j = Len(r) + (Len(s) + 1)
        BY <1>2, <4>1
      <4>3. j <= Len(r) => j \in 1..Len(r)
        BY <1>2, <4>1
      <4> QED
        BY <3>2, <4>2, <4>3
  <2> QED
    BY <2>1, <2>2, <2>3, <2>4
<1>8. x = y
  <2>1. x \in Seq(A) /\ y \in Seq(A) /\ Len(x) = Len(y)
    BY <1>2, <1>4, <1>6
  <2> QED
    BY <1>7, <2>1, SameElements
<1> QED
  BY <1>1, <1>8 DEF x, y

LEMMA ReadsOn ==
  ASSUME FeedInv, Partway, \A k \in 0..(read - 1) : PageAt[k] \in Uris,
         nodes # <<>>, UNCHANGED <<server, read>>, nodes' = Tail(nodes),
         \/ /\ IsEntry(Head(nodes))
            /\ entries' = Append(entries, EntryFromXml(Head(nodes))) /\ next' = next
         \/ /\ ~IsEntry(Head(nodes)) /\ entries' = entries
            /\ next' = IF IsNext(Head(nodes)) THEN Head(nodes).uri ELSE next
  PROVE  Partway'
<1> DEFINE N == NodesOf(server)
           A == {EntryFromXml(m) : m \in N}
<1>1. PICK k \in Nat, done \in Seq(N) :
        /\ read = k + 1
        /\ server[PageAt[k]] = done \o nodes
        /\ entries = EntriesUpTo(k) \o EntriesIn(done)
        /\ next = LinkIn(done)
  BY DEF Partway
<1>2. PageAt' = PageAt /\ EntriesUpTo(k)' = EntriesUpTo(k)
  BY SamePages
<1>3. N' = N
  OBVIOUS
<1>4. EntriesUpTo(k) \in Seq(A)
  <2>1. (k + 1) - 1 = k
    OBVIOUS
  <2> QED
    BY <1>1, <2>1, EntriesUpToGrows DEF FeedInv
<1>5. nodes \in Seq(N)
  BY DEF FeedInv
<1> DEFINE h    == Head(nodes)
           more == Append(done, h)
<1> HIDE DEF N
<1>6. h \in N /\ Tail(nodes) \in Seq(N) /\ more \in Seq(N) /\ more \o Tail(nodes) = done \o nodes
  BY <1>5, OneFurther
<1> HIDE DEF h
<1>7. EntriesIn(done) \in Seq(A) /\ EntriesIn(more) = EntriesIn(done) \o EntryOf(h)
  BY <1>6, EntriesInAppend
<1>8. LinkIn(more) = IF IsNext(h) THEN h.uri ELSE LinkIn(done)
  BY <1>6, LinkInAppend
<1>9. entries' = EntriesUpTo(k) \o EntriesIn(more) /\ next' = LinkIn(more)
  <2>1. CASE IsEntry(h)
    <3>1. EntryFromXml(h) \in A
      BY <1>6
    <3>2. Append(EntriesUpTo(k) \o EntriesIn(done), EntryFromXml(h))
            = EntriesUpTo(k) \o (EntriesIn(done) \o <<EntryFromXml(h)>>)
      <4> HIDE DEF A
      <4> QED
        BY <1>4, <1>7, <3>1, ConcatAssoc
    <3>3. EntryOf(h) = <<EntryFromXml(h)>> /\ ~IsNext(h)
      BY <2>1 DEF EntryOf, IsEntry, IsNext
    <3>4. entries' = Append(entries, EntryFromXml(h)) /\ next' = next
      BY <2>1 DEF h
    <3> HIDE DEF more, A
    <3>5. entries' = EntriesUpTo(k) \o EntriesIn(more)
      BY <1>1, <1>7, <3>2, <3>3, <3>4, Zenon
    <3> QED
      BY <1>1, <1>8, <3>3, <3>4, <3>5
  <2>2. CASE ~IsEntry(h)
    <3>1. EntryOf(h) = <<>>
      BY <2>2 DEF EntryOf
    <3>2. EntriesIn(done) \o <<>> = EntriesIn(done)
      <4> HIDE DEF A
      <4> QED
        BY <1>7
    <3>3. entries' = entries /\ next' = IF IsNext(h) THEN h.uri ELSE next
      BY <2>2 DEF h
    <3> HIDE DEF more, A
    <3> QED
      BY <1>1, <1>7, <1>8, <3>1, <3>2, <3>3, Zenon
  <2> QED
    BY <2>1, <2>2
<1>10. server'[PageAt'[k]] = more \o nodes' /\ read' = k + 1
  BY <1>1, <1>2, <1>6
<1> HIDE DEF more
<1>11. more \in Seq(NodesOf(server)')
  BY <1>3, <1>6 DEF N
<1>12. entries' = EntriesUpTo(k)' \o EntriesIn(more)
  BY <1>2, <1>9
<1> QED
  BY <1>9, <1>10, <1>11, <1>12 DEF Partway
LEMMA SameRead ==
  ASSUME UNCHANGED <<server, read>>
  PROVE  /\ EntriesUpTo(read)' = EntriesUpTo(read)
         /\ PageAt' = PageAt
<1>1. PageAt' = PageAt
  BY DEF PageAt
<1> QED
  BY <1>1 DEF EntriesUpTo

(* A page that arrived whole is the next one.                              *)
LEMMA StartParsePages ==
  ASSUME FeedInv, PcOK, Request!TypeOK, AskInv, PageInv, StartParse
  PROVE  PageInv'
<1> DEFINE whole == PagesIn(body)
<1>1. /\ pc = "wait" /\ pc' = "parse" /\ next' = NULL
      /\ nodes' = IF whole = {} THEN <<>> ELSE server[CHOOSE u \in whole : TRUE]
      /\ cut' = (cut \/ whole = {})
      /\ read' = IF whole = {} THEN read ELSE read + 1
      /\ UNCHANGED <<server, entries>>
  BY DEF StartParse, Goto, listVars
<1>2. /\ ~cut /\ uri = PageAt[read] /\ entries = EntriesUpTo(read)
      /\ \A k \in 0..(read - 1) : PageAt[k] \in Uris
      /\ read \in Nat /\ uri \in Uris /\ whole \subseteq {uri}
  BY <1>1, BodyIsAsked DEF PageInv, PcOK, Request!TypeOK
<1> HIDE DEF whole
<1>3. CASE whole = {}
  <2>1. UNCHANGED <<server, read>> /\ cut' /\ nodes' = <<>>
    BY <1>1, <1>3
  <2>2. EntriesUpTo(read)' = EntriesUpTo(read) /\ PageAt' = PageAt
    BY <2>1, SameRead
  <2> QED
    BY <1>1, <1>2, <2>1, <2>2 DEF PageInv
<1>4. CASE whole # {}
  <2>1. (CHOOSE u \in whole : TRUE) = uri
    BY <1>2, <1>4
  <2>2. nodes' = server[uri] /\ read' = read + 1 /\ cut' = cut
    <3>1. cut' = FALSE /\ cut = FALSE
      BY <1>1, <1>2, <1>4, Zenon DEF PcOK
    <3> QED
      BY <1>1, <1>4, <2>1, <3>1
  <2>3. PageAt' = PageAt /\ EntriesUpTo(read) = entries
    BY <1>1, <1>2, SamePages
  <2>4. \A k \in 0..(read' - 1) : PageAt'[k] \in Uris
    <3> SUFFICES ASSUME NEW k \in 0..(read' - 1) PROVE PageAt[k] \in Uris
      BY <2>3
    <3>1. k = read \/ k \in 0..(read - 1)
      BY <1>2, <2>2
    <3> QED
      BY <1>2, <3>1
  <2>5. Partway'
    <3> DEFINE k    == read
               none == <<>>
    <3> HIDE DEF k
    <3>0. k = read /\ k \in Nat
      BY <1>2 DEF k
    <3>1. none \in Seq(NodesOf(server)')
      OBVIOUS
    <3>2. server'[PageAt'[k]] = none \o nodes'
      <4> DEFINE N == NodesOf(server)
                 s == server[uri]
      <4>1. s \in Seq(N)
        BY <1>2, FeedAssumption DEF FeedInv
      <4> HIDE DEF s, N
      <4>2. <<>> \o s = s
        BY <4>1
      <4> QED
        BY <1>1, <1>2, <2>2, <2>3, <3>0, <4>2 DEF s
    <3>3. entries' = EntriesUpTo(k) \o EntriesIn(none)
      <4> DEFINE A == {EntryFromXml(m) : m \in NodesOf(server)}
      <4>1. EntriesUpTo(k) \in Seq(A)
        <5>1. ASSUME NEW j \in 0..k PROVE PageAt[j] \in Uris
          <6>1. j = read \/ j \in 0..(read - 1)
            BY <3>0
          <6> QED
            BY <1>2, <6>1
        <5> QED
          BY <3>0, <5>1, EntriesUpToGrows DEF FeedInv
      <4> HIDE DEF A
      <4>2. EntriesUpTo(k) \o <<>> = EntriesUpTo(k)
        BY <4>1
      <4> QED
        BY <1>1, <2>3, <3>0, <4>2, EntriesInEmpty
    <3>4. next' = LinkIn(none)
      BY <1>1, LinkInEmpty
    <3>5. \A n \in Nat : EntriesUpTo(n)' = EntriesUpTo(n)
      BY <1>1, SamePages
    <3>6. \E n \in Nat, done \in Seq(NodesOf(server)') :
            /\ read' = n + 1
            /\ server'[PageAt'[n]] = done \o nodes'
            /\ entries' = EntriesUpTo(n)' \o EntriesIn(done)
            /\ next' = LinkIn(done)
      <4> HIDE DEF none
      <4>1. read' = k + 1
        BY <2>2, <3>0
      <4> QED
        BY <3>0, <3>1, <3>2, <3>3, <3>4, <3>5, <4>1
    <3> QED
      BY <3>6 DEF Partway
  <2> QED
    BY <1>1, <1>2, <2>2, <2>4, <2>5 DEF PageInv
<1> QED
  BY <1>3, <1>4

(* At the end of a page all its entries are there, and its link.           *)
LEMMA EndParsePages ==
  ASSUME FeedInv, PcOK, PageInv, EndParse
  PROVE  PageInv'
<1>1. /\ pc = "parse" /\ nodes = <<>> /\ pc' = "turn"
      /\ UNCHANGED <<server, entries, next, read, cut>>
  BY DEF EndParse, Goto, pageVars, history
<1>2. EntriesUpTo(read)' = EntriesUpTo(read) /\ PageAt' = PageAt
  BY <1>1, SameRead
<1>3. \A k \in 0..(read - 1) : PageAt[k] \in Uris
  BY DEF PageInv
<1>4. entries = EntriesUpTo(read) /\ next = IF cut THEN NULL ELSE PageAt[read]
  <2>1. CASE cut /\ next = NULL /\ entries = EntriesUpTo(read)
    BY <2>1
  <2>2. CASE ~cut /\ Partway
    <3>1. PICK k \in Nat, done \in Seq(NodesOf(server)) :
            /\ read = k + 1
            /\ server[PageAt[k]] = done \o nodes
            /\ entries = EntriesUpTo(k) \o EntriesIn(done)
            /\ next = LinkIn(done)
      BY <2>2 DEF Partway
    <3>2. done \o nodes = done
      <4>1. ASSUME NEW N, NEW s \in Seq(N) PROVE s \o <<>> = s
        OBVIOUS
      <4>2. done \o <<>> = done
        BY <4>1
      <4> QED
        BY <1>1, <4>2
    <3>3. k \in 0..(read - 1) /\ (\A j \in 0..k : j \in 0..(read - 1))
      BY <3>1
    <3>4. \A j \in 0..k : PageAt[j] \in Uris
      BY <1>3, <3>3
    <3>5. EntriesUpTo(k + 1) = EntriesUpTo(k) \o EntriesIn(server[PageAt[k]])
      BY <3>4, EntriesUpToGrows DEF FeedInv
    <3>6. PageAt[k] # NULL
      BY <3>4, ListingAssumption
    <3>7. PageAt[k + 1] = LinkIn(server[PageAt[k]])
      BY <3>6, PageAtStep DEF FeedInv
    <3> QED
      BY <2>2, <3>1, <3>2, <3>5, <3>7
  <2> QED
    BY <1>1, <2>1, <2>2 DEF PageInv
<1> QED
  BY <1>1, <1>2, <1>3, <1>4 DEF PageInv

LEMMA PageStep ==
  ASSUME FeedInv, IndexOK, PcOK, Request!TypeOK, AskInv, PageInv, [DriveNext]_<<vars, driveVars>>
  PROVE  PageInv'
<1> USE DEF Goto
<1>1. CASE StartParse
  BY <1>1, StartParsePages
<1>2. CASE EndParse
  BY <1>2, EndParsePages
<1>3. CASE ParseEntry \/ ParseLink
  <2>1. /\ pc = "parse" /\ nodes # <<>> /\ UNCHANGED <<server, read, cut, pc>>
        /\ nodes' = Tail(nodes)
        /\ \/ /\ IsEntry(Head(nodes))
              /\ entries' = Append(entries, EntryFromXml(Head(nodes))) /\ next' = next
           \/ /\ ~IsEntry(Head(nodes)) /\ entries' = entries
              /\ next' = IF IsNext(Head(nodes)) THEN Head(nodes).uri ELSE next
    BY <1>3 DEF ParseEntry, ParseLink, history, listVars
  <2>2. ~cut /\ Partway /\ \A k \in 0..(read - 1) : PageAt[k] \in Uris
    BY <2>1 DEF PageInv
  <2>3. Partway'
    BY <2>1, <2>2, ReadsOn
  <2>4. PageAt' = PageAt
    BY <2>1, SamePages
  <2> QED
    BY <2>1, <2>2, <2>3, <2>4 DEF PageInv
<1>4. ASSUME UNCHANGED <<server, read>>
      PROVE  /\ EntriesUpTo(read)' = EntriesUpTo(read) /\ PageAt' = PageAt
             /\ \A k \in 0..(read' - 1) : PageAt'[k] \in Uris
  BY <1>4, SameRead DEF PageInv
<1>5. CASE Begin
  <2>1. /\ pc = "start" /\ pc' = "ask" /\ uri' = First /\ UNCHANGED <<server, read, cut, entries>>
    BY <1>5 DEF Begin, Request!CiInit, history, listVars
  <2>2. PageAt[0] = First
    BY PageAtStep DEF FeedInv
  <2> QED
    BY <1>4, <2>1, <2>2 DEF PageInv
<1>6. CASE Ask \/ Wait
  <2>1. /\ pc \in {"ask", "wait"} /\ pc' \in {"ask", "wait"}
        /\ UNCHANGED <<server, read, cut, entries, uri>>
    BY <1>6
       DEF Ask, Wait, Request!CiRequest, Request!Callback, Request!Receive, Request!Perform,
           history, listVars
  <2> QED
    BY <1>4, <2>1 DEF PageInv
<1>7. CASE TurnPage
  <2>1. /\ pc = "turn" /\ UNCHANGED <<server, read, cut, entries>>
        /\ IF next # NULL THEN pc' = "ask" /\ uri' = next ELSE pc' = "end"
    BY <1>7 DEF TurnPage, MorePages, Request!CiSetUri, history, listVars
  <2>2. entries = EntriesUpTo(read) /\ next = IF cut THEN NULL ELSE PageAt[read]
    BY <2>1 DEF PageInv
  <2>3. CASE next # NULL
    BY <1>4, <2>1, <2>2, <2>3 DEF PageInv
  <2>4. CASE next = NULL
    <3>1. cut \/ PageAt[read] = NULL
      BY <2>2, <2>4
    <3> QED
      BY <1>4, <2>1, <2>2, <2>4, <3>1 DEF PageInv
  <2> QED
    BY <2>3, <2>4
<1>8. CASE EndListing \/ CreateHash \/ Enter \/ Mount
  <2>1. /\ pc \in {"end", "hash", "enter"} /\ pc' \in {"hash", "enter", "mounted"}
        /\ UNCHANGED <<server, read, cut, entries>>
    BY <1>8 DEF EndListing, CreateHash, Enter, Mount, history, listVars
  <2> QED
    BY <1>4, <2>1 DEF PageInv
<1>9. CASE ParseNothing \/ ParseCrash \/ ParseStarves \/ CreateHashFails \/ EnterCrash
  <2>1. pc' \in {"crashed", "starved", "failed"} /\ UNCHANGED <<server, read>>
    BY <1>9 DEF ParseNothing, ParseCrash, ParseStarves, CreateHashFails, EnterCrash, history
  <2> QED
    BY <1>4, <2>1 DEF PageInv
<1>10. CASE ~GdiInit
  <2>1. UNCHANGED <<server, read, cut, entries, pc, uri, nodes, next>>
    BY <1>10
       DEF DriveNext, Serve, GiveUp, Readdir, Getattr, Open, Release, Turn,
           Unmount, FreeEntry, PopStack, Ended, vars, transferVars, pageVars, listVars, history
  <2>2. pc = "parse" /\ Partway => Partway'
    BY <2>1, SamePartway
  <2> QED
    BY <1>4, <2>1, <2>2 DEF PageInv
<1> QED
  BY <1>1, <1>2, <1>3, <1>5, <1>6, <1>7, <1>8, <1>9, <1>10 DEF GdiInit, Setup
-----------------------------------------------------------------------------
(* The crashes                                                             *)

(* The nodes of the pages read, of which the entries were made.            *)
NodesRead == UNION {Range(server[PageAt[k]]) : k \in 0..(read - 1)}

SourceInv ==
  \A e \in DOMAIN entries : \E n \in NodesRead : IsEntry(n) /\ entries[e] = EntryFromXml(n)

LEMMA MoreNodes ==
  ASSUME server' = server, read \in Nat, read' \in Nat, read <= read'
  PROVE  NodesRead \subseteq NodesRead'
<1>1. PageAt' = PageAt
  BY SamePages
<1>2. \A k \in 0..(read - 1) : k \in 0..(read' - 1)
  <2>1. ASSUME NEW a \in Nat, NEW b \in Nat, a <= b PROVE 0..(a - 1) \subseteq 0..(b - 1)
    BY <2>1
  <2> QED
    BY <2>1
<1> QED
  BY <1>1, <1>2 DEF NodesRead

LEMMA HeadIsRead ==
  ASSUME FeedInv, PageInv, pc = "parse", nodes # <<>>
  PROVE  Head(nodes) \in NodesRead
<1>1. Partway
  BY DEF PageInv
<1>2. PICK k \in Nat, done \in Seq(NodesOf(server)) :
        read = k + 1 /\ server[PageAt[k]] = done \o nodes
  BY <1>1 DEF Partway
<1> DEFINE N == NodesOf(server)
<1>3. nodes \in Seq(N) /\ done \in Seq(N)
  BY DEF FeedInv
<1> HIDE DEF N
<1>4. Len(done) + 1 \in DOMAIN (done \o nodes) /\ (done \o nodes)[Len(done) + 1] = Head(nodes)
  BY <1>3, OneFurther
<1>5. k \in 0..(read - 1)
  BY <1>2
<1>6. Head(nodes) \in Range(server[PageAt[k]])
  BY <1>2, <1>4 DEF Range
<1> QED
  BY <1>5, <1>6 DEF NodesRead

LEMMA SourceStep ==
  ASSUME ListInv, FeedInv, PcOK, PageInv, SourceInv, [DriveNext]_<<vars, driveVars>>
  PROVE  SourceInv'
<1>0. PcOK'
  BY PcStep
<1>1. server' = server /\ (read' = read \/ read' = read + 1)
  BY DEF DriveNext, GdiInit, Setup, Begin, Ask, Wait, StartParse, ParseNothing, ParseEntry,
         ParseLink, ParseCrash, ParseStarves, EndParse, TurnPage, EndListing, CreateHash,
         CreateHashFails, Enter, EnterCrash, Mount, Serve, GiveUp, Readdir, Getattr, Open,
         Release, Turn, Unmount, FreeEntry, PopStack, Ended, vars, history
<1>2. read \in Nat /\ read' \in Nat /\ read <= read'
  BY <1>0, <1>1 DEF PcOK
<1>3. NodesRead \subseteq NodesRead'
  BY <1>1, <1>2, MoreNodes
<1>4. CASE ParseEntry
  <2>1. /\ pc = "parse" /\ nodes # <<>> /\ IsEntry(Head(nodes))
        /\ entries' = Append(entries, EntryFromXml(Head(nodes)))
    BY <1>4 DEF ParseEntry
  <2>2. PICK n \in NodesRead' : n = Head(nodes)
    BY <1>3, <2>1, HeadIsRead
  <2>3. /\ DOMAIN entries' = DOMAIN entries \cup {Len(entries) + 1}
        /\ entries'[Len(entries) + 1] = EntryFromXml(n)
        /\ \A e \in DOMAIN entries : entries'[e] = entries[e]
    BY <2>1, <2>2 DEF ListInv
  <2>4. ASSUME NEW e \in DOMAIN entries'
        PROVE  \E m \in NodesRead' : IsEntry(m) /\ entries'[e] = EntryFromXml(m)
    <3>1. CASE e = Len(entries) + 1
      BY <2>1, <2>2, <2>3, <3>1
    <3>2. CASE e # Len(entries) + 1
      <4>1. e \in DOMAIN entries
        BY <2>3, <3>2
      <4> QED
        BY <1>3, <2>3, <4>1 DEF SourceInv
    <3> QED
      BY <3>1, <3>2
  <2> QED
    BY <2>4 DEF SourceInv
<1>5. CASE UNCHANGED entries
  BY <1>3, <1>5 DEF SourceInv
<1>6. ParseEntry \/ UNCHANGED entries
  BY DEF DriveNext, GdiInit, Setup, Begin, Ask, Wait, StartParse, ParseNothing,
         ParseLink, ParseCrash, ParseStarves, EndParse, TurnPage, EndListing, CreateHash,
         CreateHashFails, Enter, EnterCrash, Mount, Serve, GiveUp, Readdir, Getattr, Open,
         Release, Turn, Unmount, FreeEntry, PopStack, Ended, vars, listVars
<1> QED
  BY <1>4, <1>5, <1>6

LEMMA ReadIsExplained ==
  ASSUME NEW n \in NodesRead, Malformed(n)
  PROVE  \E k \in 0..(read - 1) : \E j \in DOMAIN server[PageAt[k]] : Malformed(server[PageAt[k]][j])
<1>1. PICK k \in 0..(read - 1) : n \in Range(server[PageAt[k]])
  BY DEF NodesRead
<1>2. PICK j \in DOMAIN server[PageAt[k]] : server[PageAt[k]][j] = n
  BY <1>1 DEF Range
<1> QED
  BY <1>1, <1>2

(* An entry has a name if the node it was made of has a title.             *)
LEMMA NamedIfTitled ==
  ASSUME FeedInv, NEW n \in NodesOf(server), IsEntry(n), EntryFromXml(n).filename = NULL
  PROVE  Malformed(n)
<1> DEFINE title == Field(n, "title", NULL)
           chars == STRING \cup {"%", "2", "5", "6", "F", "0"}
<1>1. EntryFromXml(n).filename = IF title = NULL THEN NULL ELSE Encode(title, FilenameUnsafe)
  BY DEF EntryFromXml
<1>2. ASSUME title # NULL PROVE FALSE
  <2>1. title \in Seq(STRING)
    BY <1>2, TitleIsText DEF FeedInv
  <2>2. FilenameUnsafe \in SUBSET Escapable
    BY DEF FilenameUnsafe, Escapable
  <2> HIDE DEF title
  <2>3. Encode(title, FilenameUnsafe) \in Seq(NameCodes)
    BY <2>1, <2>2, EncodeTyped DEF NameCodes
  <2>4. NameCodes \subseteq chars
    BY DEF NameCodes, Codes
  <2> HIDE DEF chars
  <2>5. Encode(title, FilenameUnsafe) \in Seq(chars)
    BY <2>3, <2>4
  <2>6. NULL \notin Seq(chars)
    BY ListingAssumption DEF chars
  <2> QED
    BY <1>1, <1>2, <2>5, <2>6
<1> QED
  BY <1>2 DEF Malformed

LEMMA NodesReadAreNodes ==
  ASSUME FeedInv, PageInv
  PROVE  NodesRead \subseteq NodesOf(server)
<1> SUFFICES ASSUME NEW n \in NodesRead PROVE n \in NodesOf(server)
  OBVIOUS
<1>1. PICK k \in 0..(read - 1) : n \in Range(server[PageAt[k]])
  BY DEF NodesRead
<1>2. PageAt[k] \in Uris
  BY DEF PageInv
<1> QED
  BY <1>1, <1>2 DEF NodesOf

LEMMA CrashStep ==
  ASSUME ListInv, FeedInv, IndexOK, PcOK, PageInv, SourceInv, CrashesExplained,
         [DriveNext]_<<vars, driveVars>>
  PROVE  CrashesExplained'
<1> DEFINE Explained == \E k \in 0..(read - 1) : \E j \in DOMAIN server[PageAt[k]] :
                          Malformed(server[PageAt[k]][j])
<1>1. ASSUME UNCHANGED <<server, read>>, Explained PROVE CrashesExplained'
  <2>1. PageAt' = PageAt
    BY <1>1, SamePages
  <2> QED
    BY <1>1, <2>1 DEF CrashesExplained
<1>2. CASE ParseNothing
  BY <1>2 DEF ParseNothing, transferVars, CrashesExplained
<1>3. CASE ParseCrash
  <2>1. pc = "parse" /\ nodes # <<>> /\ ~Readable(Head(nodes)) /\ UNCHANGED <<server, read>>
    BY <1>3 DEF ParseCrash, history
  <2>2. Head(nodes) \in NodesRead
    BY <2>1, HeadIsRead
  <2>3. Malformed(Head(nodes))
    BY <2>1 DEF Readable, Malformed
  <2>4. Explained
    BY <2>2, <2>3, ReadIsExplained
  <2> QED
    BY <1>1, <2>1, <2>4
<1>4. CASE EnterCrash
  <2>1. walk \in DOMAIN entries /\ entries[walk].filename = NULL /\ UNCHANGED <<server, read>>
    <3>1. walk # 0 /\ walk \in 0..Len(entries) /\ entries[walk].filename = NULL
          /\ UNCHANGED <<server, read>>
      BY <1>4 DEF EnterCrash, history, IndexOK
    <3>2. DOMAIN entries = 1..Len(entries) /\ Len(entries) \in Nat
      BY DEF ListInv
    <3> QED
      BY <3>1, <3>2
  <2>2. PICK n \in NodesRead : IsEntry(n) /\ entries[walk] = EntryFromXml(n)
    BY <2>1 DEF SourceInv
  <2>3. Malformed(n)
    BY <2>1, <2>2, NamedIfTitled, NodesReadAreNodes
  <2>4. Explained
    BY <2>3, ReadIsExplained
  <2> QED
    BY <1>1, <2>1, <2>4
<1>5. ASSUME pc' # "crashed" PROVE CrashesExplained'
  BY <1>5 DEF CrashesExplained
<1>6. ASSUME UNCHANGED <<pc, phase, body, server, read>> PROVE CrashesExplained'
  <2>1. CASE pc = "crashed" /\ Explained
    BY <1>1, <1>6, <2>1
  <2>2. CASE ~(pc = "crashed" /\ Explained)
    BY <1>6, <2>2 DEF CrashesExplained
  <2> QED
    BY <2>1, <2>2
<1>7. CASE Begin \/ Ask \/ Wait \/ StartParse \/ ParseEntry \/ ParseLink \/ ParseStarves
           \/ EndParse \/ TurnPage
  BY <1>5, <1>7
     DEF Begin, Ask, Wait, StartParse, ParseEntry, ParseLink, ParseStarves, EndParse, TurnPage,
         Goto
<1>8. CASE EndListing \/ CreateHash \/ CreateHashFails \/ Enter \/ Mount
  BY <1>5, <1>8 DEF EndListing, CreateHash, CreateHashFails, Enter, Mount, Goto
<1>9. CASE ~GdiInit
  BY <1>6, <1>9
     DEF DriveNext, Serve, GiveUp, Readdir, Getattr, Open, Release, Turn,
         Unmount, FreeEntry, PopStack, Ended, vars, transferVars, history
<1> QED
  BY <1>2, <1>3, <1>4, <1>7, <1>8, <1>9 DEF GdiInit, Setup
ReadInv == NamesInv /\ AskInv /\ PageInv /\ SourceInv /\ CrashesExplained

LEMMA ReadInvariant == DriveSpec => [](DriveInv /\ ReadInv)
<1>1. DriveInit /\ NamesInv => ReadInv
  <2> SUFFICES ASSUME DriveInit, NamesInv PROVE ReadInv
    OBVIOUS
  <2>1. pc = "start" /\ entries = <<>> /\ read = 0 /\ cut = FALSE
    BY DEF DriveInit, Init
  <2>2. AskInv /\ CrashesExplained
    BY <2>1 DEF AskInv, CrashesExplained
  <2>3. SourceInv
    BY <2>1 DEF SourceInv
  <2>4. 0..(read - 1) = {}
    BY <2>1
  <2>5. entries = EntriesUpTo(read)
    BY <2>1, EntriesUpToNone
  <2>6. PageInv
    BY <2>1, <2>4, <2>5 DEF PageInv
  <2> QED
    BY <2>2, <2>3, <2>6 DEF ReadInv
<1>2. DriveInv /\ ReadInv /\ NamesInv' /\ [DriveNext]_<<vars, driveVars>> => ReadInv'
  <2> SUFFICES ASSUME DriveInv, ReadInv, NamesInv', [DriveNext]_<<vars, driveVars>>
               PROVE  ReadInv'
    OBVIOUS
  <2>1. /\ ListInv /\ FeedInv /\ IndexOK /\ PcOK /\ Request!TypeOK
        /\ AskInv /\ PageInv /\ SourceInv /\ CrashesExplained
    BY DEF DriveInv, ReadInv, NamesInv
  <2>2. AskInv' /\ PageInv'
    BY <2>1, AskStep, PageStep
  <2>3. SourceInv' /\ CrashesExplained'
    BY <2>1, SourceStep, CrashStep
  <2> QED
    BY <2>2, <2>3 DEF ReadInv
<1> QED
  BY <1>1, <1>2, NamesInvariant, PTL DEF DriveSpec

(* What is listed is what the server's first pages hold, every entry once  *)
(* and in order, and all of it if no page was cut: the loop over the pages *)
(* follows the last link of each page and loses none, for any feed, of any *)
(* number of pages, and any answers, broken connections included.          *)
THEOREM ListedIsExact == DriveSpec => []ListingExact
<1>1. DriveInv /\ ReadInv => ListingExact
  <2> SUFFICES ASSUME DriveInv, ReadInv, Listed
               PROVE  InOrder = EntriesUpTo(read) /\ (~cut => PageAt[read] = NULL)
    BY DEF ListingExact
  <2>1. entries = EntriesUpTo(read) /\ (~cut => PageAt[read] = NULL)
    BY DEF ReadInv, PageInv, Listed
  <2>2. ListInv
    BY DEF DriveInv
  <2>3. Chain = [j \in 1..Len(entries) |-> j]
    BY <2>2, ChainIsWhole
  <2>4. InOrder = [j \in 1..Len(entries) |-> entries[j]]
    BY <2>3 DEF InOrder
  <2>5. entries = [j \in 1..Len(entries) |-> entries[j]]
    BY <2>2 DEF ListInv
  <2> QED
    BY <2>1, <2>4, <2>5
<1> QED
  BY <1>1, ReadInvariant, PTL

(* The program crashes while mounting only over a page without a body or   *)
(* over a node of a page it read that lacks what is taken from it.         *)
THEOREM CrashesHaveCauses == DriveSpec => []CrashesExplained
<1>1. ReadInv => CrashesExplained
  BY DEF ReadInv
<1> QED
  BY <1>1, ReadInvariant, PTL
=============================================================================
