---------------------------- MODULE StoresProofs ----------------------------
(***************************************************************************)
(* The skill files, the skill manager, the vectors of a document, the      *)
(* summaries, the profile card, the context window, the builds of          *)
(* knowledge bases, the rate windows and the semantic cache, for any       *)
(* constants and any number of operations, and what no step of the         *)
(* engine's stores takes back.                                             *)
(***************************************************************************)
EXTENDS MCStores, DataLemmas

----------------------------------------------------------------------------
(* The skill files.                                                        *)

File == [v : -3..SkillOps, on : BOOLEAN]
Files == [Dirs -> [SkillNames -> File]]

\* What is turned off has a file of the user's own, which is the one that is found, until
\* another name's path leads to it.
OffIsOwn == \A d \in SkillUsers, n \in SkillNames :
    n \in off[d] => files[d][n] = Strange \/ (Readable(files[d][n]) /\ ~files[d][n].on)

FilesInv == files \in Files /\ StoreTypeOK /\ OffIsOwn /\ SavedIsKept

LEMMA SkillConstants ==
    /\ OldTenant \subseteq SkillNames /\ OldBase \subseteq SkillNames /\ SkillOps \in Nat
    /\ SkillUsers \cap {"tenant", "shared"} = {}
    /\ Dirs = SkillUsers \union {"tenant", "shared"}
    /\ NoFile \in File /\ Torn \in File /\ Strange \in File /\ Old \in File
    /\ NoFile.v = -1 /\ Torn.v = -2 /\ Strange.v = -3 /\ Old.v = 0 /\ ~NoFile.on
BY SkillAssumption, SMT DEF SkillAssumption, Layers, Dirs, NoFile, Torn, Strange, Old, File

LEMMA MigratedKeeps ==
    ASSUME NEW fs \in Files, NEW d \in Dirs, NEW old
    PROVE  /\ Migrated(fs, d, old) \in Files
           /\ \A e \in Dirs, n \in SkillNames : e # d \/ fs[e][n] # NoFile => Migrated(fs, d, old)[e][n] = fs[e][n]
<1> DEFINE copies == [n \in SkillNames |-> IF n \in old THEN Old ELSE NoFile]
<1>1. copies \in [SkillNames -> File]
  BY SkillConstants
<1>2. CASE \E n \in SkillNames : fs[d][n] # NoFile
  BY <1>2 DEF Migrated
<1>3. CASE ~\E n \in SkillNames : fs[d][n] # NoFile
  <2>1. Migrated(fs, d, old) = [fs EXCEPT ![d] = copies]
    BY <1>3 DEF Migrated
  <2> HIDE DEF copies
  <2> QED BY <1>1, <1>3, <2>1 DEF Files
<1> QED BY <1>2, <1>3

\* The migration reaches no user's directory and replaces no file.
LEMMA OpenedKeeps ==
    ASSUME NEW fs \in Files, NEW a \in Dirs
    PROVE  /\ Opened(fs, a) \in Files
           /\ \A e \in Dirs, n \in SkillNames :
                  e \in SkillUsers \/ fs[e][n] # NoFile => Opened(fs, a)[e][n] = fs[e][n]
<1> DEFINE g == Migrated(fs, "shared", OldBase)
<1>1. "shared" \in Dirs /\ "tenant" \in Dirs /\ SkillUsers \cap {"tenant", "shared"} = {}
  BY SkillConstants
<1>2. /\ g \in Files
      /\ \A e \in Dirs, n \in SkillNames : e # "shared" \/ fs[e][n] # NoFile => g[e][n] = fs[e][n]
  BY <1>1, MigratedKeeps
<1> HIDE DEF g
<1>3. /\ Migrated(g, "tenant", OldTenant) \in Files
      /\ \A e \in Dirs, n \in SkillNames :
             e # "tenant" \/ g[e][n] # NoFile => Migrated(g, "tenant", OldTenant)[e][n] = g[e][n]
  BY <1>1, <1>2, MigratedKeeps
<1>4. Opened(fs, a) = IF a = "shared" THEN g ELSE Migrated(g, "tenant", OldTenant)
  BY DEF Opened, g
<1> QED BY <1>1, <1>2, <1>3, <1>4

LEMMA Nearest ==
    ASSUME NEW S \in SUBSET (1..3), S # {}
    PROVE  LET first == CHOOSE i \in S : \A j \in S : i <= j
           IN first \in S /\ (1 \in S => first = 1)
<1>1. \A i \in S : i \in {1, 2, 3}
  OBVIOUS
<1>2. \E i \in S : \A j \in S : i <= j
  <2>1. CASE 1 \in S
    BY <1>1, <2>1, SMT
  <2>2. CASE 1 \notin S /\ 2 \in S
    <3>1. \A j \in S : j \in {2, 3}
      BY <1>1, <2>2
    <3> QED BY <2>2, <3>1, SMT
  <2>3. CASE 1 \notin S /\ 2 \notin S
    <3>1. \A j \in S : j = 3
      BY <1>1, <2>3
    <3>2. 3 \in S
      BY <3>1
    <3> QED BY <3>1, <3>2, SMT
  <2> QED BY <2>1, <2>2, <2>3
<1> DEFINE first == CHOOSE i \in S : \A j \in S : i <= j
<1>3. first \in S /\ \A j \in S : first <= j
  BY <1>2
<1> HIDE DEF first
<1>4. 1 \in S => first = 1
  BY <1>1, <1>3
<1> QED BY <1>3, <1>4 DEF first

LEMMA ResolvedIs ==
    ASSUME NEW fs \in Files, NEW a \in Dirs, NEW n \in SkillNames
    PROVE  /\ Resolved(fs, a, n) \in File
           /\ Resolved(fs, a, n) # NoFile => Readable(Resolved(fs, a, n))
           /\ Readable(fs[a][n]) => Resolved(fs, a, n) = fs[a][n]
<1> DEFINE s == SearchPath(a)
           hits == {i \in DOMAIN s : Readable(fs[s[i]][n])}
           first == CHOOSE i \in hits : \A j \in hits : i <= j
<1>1. /\ Len(s) \in 1..3 /\ DOMAIN s = 1..Len(s) /\ s[1] = a
      /\ \A i \in 1..Len(s) : s[i] \in Dirs
  <2>1. CASE a \in SkillUsers
    <3>1. s = <<a, "tenant", "shared">>
      BY <2>1, SkillConstants DEF SearchPath
    <3> HIDE DEF s
    <3> QED BY <3>1, SkillConstants
  <2>2. CASE a = "tenant"
    <3>1. s = <<"tenant", "shared">>
      BY <2>2, SkillConstants DEF SearchPath
    <3> HIDE DEF s
    <3> QED BY <2>2, <3>1, SkillConstants
  <2>3. CASE a = "shared"
    <3>1. s = <<"shared">>
      BY <2>3, SkillConstants DEF SearchPath
    <3> HIDE DEF s
    <3> QED BY <2>3, <3>1, SkillConstants
  <2> QED BY <2>1, <2>2, <2>3, SkillConstants
<1>2. Resolved(fs, a, n) = IF hits = {} THEN NoFile ELSE fs[s[first]][n]
  BY DEF Resolved
<1>3. hits \subseteq 1..3
  BY <1>1
<1>4. hits # {} => first \in hits /\ (1 \in hits => first = 1)
  BY <1>3, Nearest
<1> HIDE DEF first
<1>5. hits # {} => fs[s[first]][n] \in File /\ Readable(fs[s[first]][n])
  BY <1>1, <1>4 DEF Files
<1>6. Readable(fs[a][n]) => 1 \in hits
  BY <1>1
<1> HIDE DEF hits, s
<1> QED BY <1>1, <1>2, <1>4, <1>5, <1>6, SkillConstants
\* One file of the layer d is written with f: what lies there afterwards is what
\* was last written, and what is off stays a file of its user's own.
Written(fs, d, n, f, v, o) ==
    /\ files' = [fs EXCEPT ![d][n] = f] /\ latest' = [latest EXCEPT ![d][n] = v]
    /\ off' = o

LEMMA WriteKeeps ==
    ASSUME FilesInv,
           NEW fs \in Files, NEW d \in Dirs, NEW n \in SkillNames, NEW f \in File, NEW v \in 0..SkillOps,
           NEW o \in [SkillUsers -> SUBSET SkillNames],
           \A e \in Dirs, m \in SkillNames : e \in SkillUsers \/ files[e][m] # NoFile => fs[e][m] = files[e][m],
           Written(fs, d, n, f, v, o),
           v # 0 => f \in {Torn, Strange} \/ f.v = v,
           \A e \in SkillUsers : o[e] \subseteq off[e] \union (IF e = d THEN {n} ELSE {}),
           d \in SkillUsers /\ n \in o[d] => f = Strange \/ (Readable(f) /\ ~f.on),
           fetching' \subseteq Dirs, sops2' \in 0..SkillOps
    PROVE  FilesInv'
<1>1. /\ files \in Files /\ latest \in [Dirs -> [SkillNames -> 0..SkillOps]]
      /\ off \in [SkillUsers -> SUBSET SkillNames] /\ OffIsOwn /\ SavedIsKept
  BY DEF FilesInv, StoreTypeOK
<1>2. /\ files' = [fs EXCEPT ![d][n] = f] /\ latest' = [latest EXCEPT ![d][n] = v] /\ off' = o
  BY DEF Written
<1>3. /\ files' \in Files
      /\ \A e \in Dirs, m \in SkillNames : files'[e][m] = IF e = d /\ m = n THEN f ELSE fs[e][m]
  BY <1>2 DEF Files
<1>4. /\ latest' \in [Dirs -> [SkillNames -> 0..SkillOps]]
      /\ \A e \in Dirs, m \in SkillNames : latest'[e][m] = IF e = d /\ m = n THEN v ELSE latest[e][m]
  BY <1>1, <1>2
<1>5. StoreTypeOK'
  BY <1>2, <1>3, <1>4 DEF StoreTypeOK, Files, File
<1>6. OffIsOwn'
  <2> SUFFICES ASSUME NEW e \in SkillUsers, NEW m \in SkillNames, m \in o[e]
               PROVE  files'[e][m] = Strange \/ (Readable(files'[e][m]) /\ ~files'[e][m].on)
    BY <1>2 DEF OffIsOwn, Readable
  <2>1. e \in Dirs
    BY SkillConstants
  <2>2. CASE e = d /\ m = n
    BY <1>3, <2>1, <2>2
  <2>3. CASE ~(e = d /\ m = n)
    <3>1. m \in off[e]
      BY <2>3
    <3>2. files'[e][m] = files[e][m]
      BY <1>3, <2>1, <2>3
    <3> QED BY <1>1, <3>1, <3>2 DEF OffIsOwn
  <2> QED BY <2>2, <2>3
<1>7. SavedIsKept'
  <2> SUFFICES ASSUME NEW e \in Dirs, NEW m \in SkillNames, latest'[e][m] # 0
               PROVE  files'[e][m] \in {Torn, Strange} \/ files'[e][m].v = latest'[e][m]
    BY DEF SavedIsKept
  <2>1. CASE e = d /\ m = n
    BY <1>3, <1>4, <2>1
  <2>2. CASE ~(e = d /\ m = n)
    <3>1. latest'[e][m] = latest[e][m] /\ files'[e][m] = fs[e][m]
      BY <1>3, <1>4, <2>2
    <3>2. files[e][m] \in {Torn, Strange} \/ files[e][m].v = latest[e][m]
      BY <1>1, <3>1 DEF SavedIsKept
    <3>3. latest[e][m] \in 1..SkillOps
      BY <1>1, <3>1, SkillConstants
    <3>4. files[e][m] # NoFile
      BY <3>2, <3>3, SkillConstants
    <3> QED BY <3>1, <3>2, <3>4
  <2> QED BY <2>1, <2>2
<1> QED BY <1>3, <1>5, <1>6, <1>7 DEF FilesInv
LEMMA OpenFilesKeep ==
    ASSUME FilesInv, NEW a \in Dirs, files' = Opened(files, a), UNCHANGED <<latest, off, sops2>>,
           fetching' \subseteq Dirs
    PROVE  FilesInv'
<1>1. /\ files \in Files /\ files' \in Files
      /\ \A e \in Dirs, n \in SkillNames : e \in SkillUsers \/ files[e][n] # NoFile => files'[e][n] = files[e][n]
  BY OpenedKeeps DEF FilesInv
<1>2. latest' = latest /\ off' = off /\ sops2' = sops2
  OBVIOUS
<1>3. StoreTypeOK'
  BY <1>1, <1>2 DEF FilesInv, StoreTypeOK, Files, File
<1>4. OffIsOwn'
  BY <1>1, <1>2, SkillConstants DEF FilesInv, OffIsOwn, Readable
<1>5. SavedIsKept'
  <2> SUFFICES ASSUME NEW e \in Dirs, NEW n \in SkillNames, latest[e][n] # 0
               PROVE  files'[e][n] \in {Torn, Strange} \/ files'[e][n].v = latest[e][n]
    BY <1>2 DEF SavedIsKept
  <2>1. files[e][n] \in {Torn, Strange} \/ files[e][n].v = latest[e][n]
    BY DEF FilesInv, SavedIsKept
  <2>2. latest[e][n] \in 1..SkillOps
    BY SkillConstants DEF FilesInv, StoreTypeOK
  <2>3. files[e][n] # NoFile
    BY <2>1, <2>2, SkillConstants
  <2> QED BY <1>1, <2>1, <2>3
<1> QED BY <1>1, <1>3, <1>4, <1>5 DEF FilesInv

LEMMA ForgottenIs ==
    ASSUME FilesInv, NEW a \in Dirs, NEW d \in WritesTo(a) \union {a}, NEW n \in SkillNames
    PROVE  /\ d \in Dirs /\ Forgotten(a, d, n) \in [SkillUsers -> SUBSET SkillNames]
           /\ \A e \in SkillUsers : Forgotten(a, d, n)[e] \subseteq off[e]
           /\ d \in SkillUsers => n \notin Forgotten(a, d, n)[d]
<1>1. off \in [SkillUsers -> SUBSET SkillNames]
  BY DEF FilesInv, StoreTypeOK
<1>2. d \in Dirs /\ (d \in SkillUsers => d = a)
  BY SkillConstants DEF WritesTo
<1>3. CASE a \in SkillUsers /\ d = a
  BY <1>1, <1>2, <1>3 DEF Forgotten
<1>4. CASE ~(a \in SkillUsers /\ d = a)
  BY <1>1, <1>2, <1>4 DEF Forgotten
<1> QED BY <1>3, <1>4

LEMMA SaveKeeps ==
    ASSUME FilesInv, NEW a \in Dirs, NEW d \in WritesTo(a) \union {a}, NEW n \in SkillNames,
           NEW fs \in Files,
           \A e \in Dirs, m \in SkillNames : e \in SkillUsers \/ files[e][m] # NoFile => fs[e][m] = files[e][m],
           SaveSkill(fs, a, d, n), fetching' \subseteq Dirs
    PROVE  FilesInv'
<1>1. /\ sops2 \in 0..SkillOps /\ sops2 < SkillOps /\ sops2' = sops2 + 1
  BY DEF SaveSkill, Writes, FilesInv, StoreTypeOK
<1>2. sops2 + 1 \in 1..SkillOps /\ sops2' \in 0..SkillOps /\ sops2 + 1 \in 0..SkillOps
  BY <1>1, SkillConstants
<1>3. CASE \E f \in {[v |-> sops2 + 1, on |-> TRUE], Torn} : Written(fs, d, n, f, sops2 + 1, Forgotten(a, d, n))
  <2>1. PICK f \in {[v |-> sops2 + 1, on |-> TRUE], Torn} : Written(fs, d, n, f, sops2 + 1, Forgotten(a, d, n))
    BY <1>3
  <2>2. sops2 + 1 \in -3..SkillOps
    BY <1>2, SkillConstants
  <2>3. [v |-> sops2 + 1, on |-> TRUE] \in File
    BY <2>2 DEF File
  <2>4. f \in File /\ (f = Torn \/ f.v = sops2 + 1)
    <3>1. CASE f = [v |-> sops2 + 1, on |-> TRUE]
      BY <2>3, <3>1
    <3>2. CASE f = Torn
      BY <3>2, SkillConstants
    <3> QED BY <2>1, <3>1, <3>2
  <2>5. /\ d \in Dirs /\ Forgotten(a, d, n) \in [SkillUsers -> SUBSET SkillNames]
        /\ \A e \in SkillUsers : Forgotten(a, d, n)[e] \subseteq off[e]
        /\ d \in SkillUsers => n \notin Forgotten(a, d, n)[d]
    BY ForgottenIs
  <2> QED BY <1>2, <2>1, <2>4, <2>5, WriteKeeps
<1>4. CASE \E e \in Dirs : files' = [fs EXCEPT ![e][n] = Strange] /\ UNCHANGED <<latest, off>>
  <2>1. PICK e \in Dirs : files' = [fs EXCEPT ![e][n] = Strange] /\ UNCHANGED <<latest, off>>
    BY <1>4
  <2>2. latest \in [Dirs -> [SkillNames -> 0..SkillOps]] /\ off \in [SkillUsers -> SUBSET SkillNames]
    BY DEF FilesInv, StoreTypeOK
  <2> DEFINE v == latest[e][n]
  <2>3. v \in 0..SkillOps /\ latest' = [latest EXCEPT ![e][n] = v]
    BY <2>1, <2>2
  <2> HIDE DEF v
  <2>4. Written(fs, e, n, Strange, v, off)
    BY <2>1, <2>3 DEF Written
  <2> QED BY <1>2, <2>2, <2>3, <2>4, SkillConstants, WriteKeeps
<1> QED BY <1>3, <1>4 DEF SaveSkill, Written

LEMMA DeleteKeeps ==
    ASSUME FilesInv, NEW a \in Dirs, DeleteSkill(a)
    PROVE  FilesInv'
<1>1. PICK n \in SkillNames :
          /\ Writes /\ UNCHANGED fetching
          /\ Written(Opened(files, a), a, n, NoFile, 0, Forgotten(a, a, n))
  BY DEF DeleteSkill, Written
<1>2. /\ sops2' \in 0..SkillOps /\ fetching' \subseteq Dirs /\ 0 \in 0..SkillOps
  BY <1>1, SkillConstants DEF Writes, FilesInv, StoreTypeOK
<1>3. /\ Forgotten(a, a, n) \in [SkillUsers -> SUBSET SkillNames]
      /\ \A e \in SkillUsers : Forgotten(a, a, n)[e] \subseteq off[e]
      /\ a \in SkillUsers => n \notin Forgotten(a, a, n)[a]
  BY ForgottenIs
<1>4. /\ Opened(files, a) \in Files
      /\ \A e \in Dirs, m \in SkillNames :
             e \in SkillUsers \/ files[e][m] # NoFile => Opened(files, a)[e][m] = files[e][m]
  BY OpenedKeeps DEF FilesInv
<1> QED BY <1>1, <1>2, <1>3, <1>4, SkillConstants, WriteKeeps

LEMMA ToggleKeeps ==
    ASSUME FilesInv, NEW a \in Dirs, ToggleSkill(a)
    PROVE  FilesInv'
<1> DEFINE fs == Opened(files, a)
<1>1. PICK n \in SkillNames, on \in BOOLEAN :
          LET found == Resolved(fs, a, n) IN
          /\ found # NoFile /\ Writes
          /\ latest' = [latest EXCEPT ![a][n] = found.v] /\ UNCHANGED fetching
          /\ \/ /\ files' = [fs EXCEPT ![a][n] = [found EXCEPT !.on = on]]
                /\ off' = IF a \notin SkillUsers THEN off
                          ELSE [off EXCEPT ![a] = IF on THEN @ \ {n} ELSE @ \union {n}]
             \/ files' = [fs EXCEPT ![a][n] = Torn] /\ off' = Forgotten(a, a, n)
  BY DEF ToggleSkill, ToggleAt
<1> DEFINE found == Resolved(fs, a, n)
           f == [found EXCEPT !.on = on]
           o == IF a \notin SkillUsers THEN off
                ELSE [off EXCEPT ![a] = IF on THEN @ \ {n} ELSE @ \union {n}]
<1>2. /\ fs \in Files
      /\ \A e \in Dirs, m \in SkillNames : e \in SkillUsers \/ files[e][m] # NoFile => fs[e][m] = files[e][m]
  BY OpenedKeeps DEF FilesInv
<1>3. /\ found # NoFile /\ Writes /\ UNCHANGED fetching
      /\ Written(fs, a, n, f, found.v, o) \/ Written(fs, a, n, Torn, found.v, Forgotten(a, a, n))
  BY <1>1 DEF Written
<1> HIDE DEF fs
<1>4. found \in File /\ Readable(found)
  BY <1>2, <1>3, ResolvedIs
<1> HIDE DEF found
<1>5. f \in File /\ f.v = found.v /\ f.on = on /\ Readable(f) /\ found.v \in 0..SkillOps
  BY <1>1, <1>4 DEF File, Readable
<1> HIDE DEF f
<1>6. off \in [SkillUsers -> SUBSET SkillNames]
  BY DEF FilesInv, StoreTypeOK
<1>7. /\ o \in [SkillUsers -> SUBSET SkillNames]
      /\ \A e \in SkillUsers : o[e] \subseteq off[e] \union (IF e = a THEN {n} ELSE {})
      /\ a \in SkillUsers /\ n \in o[a] => ~on
  <2>1. CASE a \notin SkillUsers
    BY <1>6, <2>1
  <2>2. CASE a \in SkillUsers /\ on
    <3>1. o = [off EXCEPT ![a] = @ \ {n}]
      BY <2>2
    <3> HIDE DEF o
    <3> QED BY <1>6, <2>2, <3>1
  <2>3. CASE a \in SkillUsers /\ ~on
    <3>1. o = [off EXCEPT ![a] = @ \union {n}]
      BY <2>3
    <3> HIDE DEF o
    <3> QED BY <1>6, <2>3, <3>1
  <2> QED BY <2>1, <2>2, <2>3
<1> HIDE DEF o
<1>8. /\ sops2' \in 0..SkillOps /\ fetching' \subseteq Dirs
  BY <1>3, SkillConstants DEF Writes, FilesInv, StoreTypeOK
<1>9. CASE Written(fs, a, n, f, found.v, o)
  BY <1>2, <1>5, <1>7, <1>8, <1>9, WriteKeeps
<1>10. CASE Written(fs, a, n, Torn, found.v, Forgotten(a, a, n))
  <2>1. /\ Forgotten(a, a, n) \in [SkillUsers -> SUBSET SkillNames]
        /\ \A e \in SkillUsers : Forgotten(a, a, n)[e] \subseteq off[e]
        /\ a \in SkillUsers => n \notin Forgotten(a, a, n)[a]
    BY ForgottenIs
  <2> QED BY <1>2, <1>5, <1>8, <1>10, <2>1, SkillConstants, WriteKeeps
<1> QED BY <1>3, <1>9, <1>10

LEMMA StoreStep ==
    ASSUME FilesInv, StoreNext
    PROVE  FilesInv'
<1>1. fetching \subseteq Dirs /\ files \in Files
  BY DEF FilesInv, StoreTypeOK
<1>2. PICK a \in Dirs : OpenStore(a) \/ InstallSkill(a) \/ BeginFetch(a) \/ EndFetch(a) \/ DeleteSkill(a) \/ ToggleSkill(a)
  BY DEF StoreNext, Askers
<1>3. CASE OpenStore(a)
  BY <1>1, <1>3, OpenFilesKeep DEF OpenStore
<1>4. CASE InstallSkill(a)
  <2>1. PICK d \in WritesTo(a), n \in SkillNames : SaveSkill(Opened(files, a), a, d, n) /\ UNCHANGED fetching
    BY <1>4 DEF InstallSkill
  <2>2. /\ Opened(files, a) \in Files
        /\ \A e \in Dirs, m \in SkillNames :
               e \in SkillUsers \/ files[e][m] # NoFile => Opened(files, a)[e][m] = files[e][m]
    BY <1>1, OpenedKeeps
  <2> QED BY <1>1, <2>1, <2>2, SaveKeeps
<1>5. CASE BeginFetch(a)
  <2>1. PICK d \in WritesTo(a) : fetching' = fetching \union {d}
    BY <1>5 DEF BeginFetch
  <2>2. d \in Dirs
    BY SkillConstants DEF WritesTo
  <2>3. files' = Opened(files, a) /\ UNCHANGED <<latest, off, sops2>>
    BY <1>5 DEF BeginFetch
  <2> QED BY <1>1, <2>1, <2>2, <2>3, OpenFilesKeep
<1>6. CASE EndFetch(a)
  <2>1. fetching' \subseteq Dirs
    BY <1>1, <1>6 DEF EndFetch
  <2>2. CASE \E n \in SkillNames : SaveSkill(files, a, a, n)
    BY <1>1, <2>1, <2>2, SaveKeeps
  <2>3. CASE UNCHANGED <<files, sops2, latest, off>>
    BY <2>1, <2>3 DEF FilesInv, StoreTypeOK, OffIsOwn, SavedIsKept, Readable
  <2> QED BY <1>6, <2>2, <2>3 DEF EndFetch
<1> QED BY <1>2, <1>3, <1>4, <1>5, <1>6, DeleteKeeps, ToggleKeeps

LEMMA FilesInvHolds == FilesInv => StoreTypeOK /\ OffStaysOff /\ SavedIsKept
<1> SUFFICES ASSUME FilesInv, NEW d \in SkillUsers, NEW n \in SkillNames, n \in off[d]
             PROVE  ~Resolved(files, d, n).on \/ files[d][n] = Strange
  BY DEF FilesInv, OffStaysOff
<1>1. files \in Files /\ (files[d][n] = Strange \/ (Readable(files[d][n]) /\ ~files[d][n].on)) /\ d \in Dirs
  BY SkillConstants DEF FilesInv, OffIsOwn
<1> QED BY <1>1, ResolvedIs
----------------------------------------------------------------------------
(* The skill manager.                                                      *)

RunShape(r) ==
    r = [pc |-> r.pc, skill |-> r.skill, want |-> r.want, uses |-> r.uses, saved |-> r.saved]
Executing(r) == r.pc \in {"rpc", "list", "shell", "script"}

ManagerShape ==
    /\ DOMAIN metas = ManagedSkills /\ DOMAIN clients = ManagedSkills /\ DOMAIN runs = SkillCalls
    /\ \A k \in ManagedSkills :
          /\ metas[k] \in [type : {"none", "mcp", "shell", "script"}, server : Servers \union {"none"}, at : 0..ManagerOps]
          /\ clients[k] \in [server : Servers \union {"none"}, at : 0..ManagerOps, tools : BOOLEAN]
    /\ \A c \in SkillCalls : RunShape(runs[c]) /\ (Executing(runs[c]) => runs[c].skill \in ManagedSkills)

\* A skill names the server its client is for, or none.
ClientsAgree == \A k \in ManagedSkills : metas[k].server \in {clients[k].server, "none"}

\* While no two scripts have run at the same time, the one that runs found the
\* process's own stdout.
OneScript == ~crossed2 =>
    \A c \in SkillCalls : runs[c].pc = "script" =>
        runs[c].saved = "real" /\ \A d \in SkillCalls : runs[d].pc = "script" => d = c

SavedStdouts == \A c \in SkillCalls : runs[c].pc = "script" => runs[c].saved \in SkillCalls \union {"real"}

ManagerInv ==
    /\ ManagerTypeOK /\ ManagerShape /\ ClientsAgree /\ OneScript /\ SavedStdouts
    /\ CalledWhatWasNamed /\ ChildrenHaveParents /\ StdoutComesBack
LEMMA ManagerFacts ==
    ASSUME ManagerInv
    PROVE  /\ ManagerTypeOK /\ ManagerShape /\ ClientsAgree /\ OneScript /\ SavedStdouts
           /\ CalledWhatWasNamed /\ ChildrenHaveParents /\ StdoutComesBack
           /\ mops \in 0..ManagerOps /\ ManagerOps \in Nat
           /\ children \subseteq SkillCalls /\ orphaned \subseteq SkillCalls /\ crossed2 \in BOOLEAN
           /\ stdout \in SkillCalls \union {"real"}
BY ManagerAssumption, SMT DEF ManagerInv, ManagerTypeOK, ManagerAssumption

\* What an execution becomes.
RunBecomes(c, r) ==
    \A d \in SkillCalls : runs'[d] = IF d = c THEN r ELSE runs[d]

\* The tables of the manager are as good as they were.
TablesKept ==
    /\ DOMAIN metas' = ManagedSkills /\ DOMAIN clients' = ManagedSkills
    /\ \A k \in ManagedSkills :
          /\ metas'[k] \in [type : {"none", "mcp", "shell", "script"}, server : Servers \union {"none"}, at : 0..ManagerOps]
          /\ clients'[k] \in [server : Servers \union {"none"}, at : 0..ManagerOps, tools : BOOLEAN]
          /\ metas'[k].server \in {clients'[k].server, "none"}
    /\ mops' \in 0..ManagerOps

LEMMA TablesUnchanged ==
    ASSUME ManagerInv, UNCHANGED <<metas, clients>>, mops' = mops \/ Counted
    PROVE  TablesKept
BY ManagerFacts DEF TablesKept, ManagerShape, ClientsAgree, Counted

LEMMA TablesType ==
    ASSUME TablesKept
    PROVE  \A k \in ManagedSkills :
               /\ metas'[k].type \in {"none", "mcp", "shell", "script"} /\ metas'[k].at \in 0..ManagerOps
               /\ clients'[k].server \in Servers \union {"none"}
BY DEF TablesKept

\* Only the tables change.
LEMMA TablesStep ==
    ASSUME ManagerInv, TablesKept, UNCHANGED <<runs, processVars>>
    PROVE  ManagerInv'
<1>1. /\ runs' = runs /\ children' = children /\ stdout' = stdout /\ orphaned' = orphaned
      /\ crossed2' = crossed2
  BY DEF processVars
<1>2. ManagerTypeOK'
  BY <1>1, TablesType, ManagerFacts DEF ManagerTypeOK, TablesKept
<1>3. ManagerShape' /\ ClientsAgree'
  BY <1>1, ManagerFacts DEF ManagerShape, ClientsAgree, TablesKept
<1>4. OneScript' /\ SavedStdouts' /\ CalledWhatWasNamed' /\ ChildrenHaveParents' /\ StdoutComesBack'
  BY <1>1, ManagerFacts DEF OneScript, SavedStdouts, CalledWhatWasNamed, ChildrenHaveParents, StdoutComesBack
<1> QED BY <1>2, <1>3, <1>4 DEF ManagerInv

\* An execution with or without a child becomes r.
LEMMA RunStep ==
    ASSUME ManagerInv, TablesKept, NEW c \in SkillCalls, NEW r,
           runs[c].pc \in {"idle", "rpc", "list", "shell"}, r.pc \in {"idle", "rpc", "list", "shell"},
           RunShape(r), Executing(r) => r.skill \in ManagedSkills,
           r.pc = "rpc" => r.want \in {r.uses, "none"},
           DOMAIN runs' = SkillCalls, RunBecomes(c, r),
           children' \subseteq children \union {c}, orphaned' \subseteq SkillCalls,
           \A d \in children' : d # c /\ d \in orphaned => d \in orphaned',
           c \in children' => r.pc # "idle" \/ c \in orphaned',
           UNCHANGED <<stdout, crossed2>>
    PROVE  ManagerInv'
<1>1. /\ ManagerShape /\ OneScript /\ SavedStdouts /\ CalledWhatWasNamed /\ ChildrenHaveParents /\ StdoutComesBack
      /\ stdout' = stdout /\ crossed2' = crossed2 /\ stdout \in SkillCalls \union {"real"} /\ crossed2 \in BOOLEAN
  BY ManagerFacts
<1>2. \A d \in SkillCalls : runs'[d] = IF d = c THEN r ELSE runs[d]
  BY DEF RunBecomes
<1>3. \A d \in SkillCalls : /\ runs'[d].pc = "script" <=> runs[d].pc = "script"
                            /\ runs'[d].pc = "script" => runs'[d] = runs[d]
  BY <1>2
<1>4. children' \subseteq SkillCalls
  BY ManagerFacts
<1>5. ManagerTypeOK'
  BY <1>1, <1>4, TablesType DEF ManagerTypeOK, TablesKept
<1>6. ManagerShape' /\ ClientsAgree'
  BY <1>1, <1>2 DEF ManagerShape, ClientsAgree, TablesKept, RunShape, Executing
<1>7. OneScript' /\ SavedStdouts'
  BY <1>1, <1>3 DEF OneScript, SavedStdouts
<1>8. CalledWhatWasNamed'
  BY <1>1, <1>2 DEF CalledWhatWasNamed
<1>9. ChildrenHaveParents'
  <2> SUFFICES ASSUME NEW d \in children'
               PROVE  runs'[d].pc \in {"rpc", "list", "shell"} \/ d \in orphaned'
    BY DEF ChildrenHaveParents
  <2>1. CASE d = c
    BY <1>2, <2>1
  <2>2. CASE d # c
    <3>1. d \in children /\ d \in SkillCalls
      BY <1>4, <2>2
    <3>2. runs[d].pc \in {"rpc", "list", "shell"} \/ d \in orphaned
      BY <1>1, <3>1 DEF ChildrenHaveParents
    <3> QED BY <1>2, <2>2, <3>1, <3>2
  <2> QED BY <2>1, <2>2
<1>10. StdoutComesBack'
  BY <1>1, <1>3 DEF StdoutComesBack
<1> QED BY <1>5, <1>6, <1>7, <1>8, <1>9, <1>10 DEF ManagerInv
\* The record of a begun execution.
Begun(k, pc, uses) == [pc |-> pc, skill |-> k, want |-> metas[k].server, uses |-> uses, saved |-> stdout]

LEMMA StartKeeps ==
    ASSUME ManagerInv, NEW c \in SkillCalls, NEW k \in ManagedSkills,
           NEW pc \in {"rpc", "list", "shell"}, NEW uses, StartRun(c, k, pc, uses),
           pc = "rpc" => metas[k].server \in {uses, "none"},
           children' \subseteq children \union {c}, orphaned' = orphaned \ {c},
           UNCHANGED <<metas, clients, stdout, crossed2>>
    PROVE  ManagerInv'
<1> DEFINE r == Begun(k, pc, uses)
<1>1. runs[c].pc = "idle" /\ Counted /\ runs' = [runs EXCEPT ![c] = r] /\ DOMAIN runs = SkillCalls
  BY ManagerFacts DEF StartRun, ManagerShape, Begun
<1>2. r.pc = pc /\ r.skill = k /\ r.want = metas[k].server /\ r.uses = uses /\ RunShape(r)
  BY DEF Begun, RunShape
<1> HIDE DEF r
<1>3. DOMAIN runs' = SkillCalls /\ RunBecomes(c, r)
  BY <1>1 DEF RunBecomes
<1>4. TablesKept
  BY <1>1, TablesUnchanged
<1>5. orphaned' \subseteq SkillCalls
  BY ManagerFacts
<1>6. \A d \in children' : d # c /\ d \in orphaned => d \in orphaned'
  OBVIOUS
<1>7. /\ runs[c].pc \in {"idle", "rpc", "list", "shell"} /\ r.pc \in {"rpc", "list", "shell"}
      /\ r.pc \in {"idle", "rpc", "list", "shell"} /\ r.pc # "idle"
      /\ (Executing(r) => r.skill \in ManagedSkills) /\ (r.pc = "rpc" => r.want \in {r.uses, "none"})
  BY <1>1, <1>2 DEF Executing
<1> QED BY <1>2, <1>3, <1>4, <1>5, <1>6, <1>7, RunStep

LEMMA McpKeeps ==
    ASSUME ManagerInv, NEW c \in SkillCalls, NEW k \in ManagedSkills, ExecuteMcp(c, k)
    PROVE  ManagerInv'
<1>1. metas[k].server \in {clients[k].server, "none"}
  BY ManagerFacts DEF ClientsAgree
<1>2. /\ StartRun(c, k, "rpc", clients[k].server) /\ orphaned' = orphaned \ {c}
      /\ children' \subseteq children \union {c} /\ UNCHANGED <<metas, clients, stdout, crossed2>>
  BY DEF ExecuteMcp
<1> QED BY <1>1, <1>2, StartKeeps

LEMMA DiscoverKeeps ==
    ASSUME ManagerInv, NEW c \in SkillCalls, NEW k \in ManagedSkills, Discover(c, k)
    PROVE  ManagerInv'
<1>1. /\ StartRun(c, k, "list", clients[k].server) /\ orphaned' = orphaned \ {c}
      /\ children' \subseteq children \union {c} /\ UNCHANGED <<metas, clients, stdout, crossed2>>
  BY DEF Discover
<1> QED BY <1>1, StartKeeps

LEMMA ShellKeeps ==
    ASSUME ManagerInv, NEW c \in SkillCalls, NEW k \in ManagedSkills, ExecuteShell(c, k)
    PROVE  ManagerInv'
<1>1. /\ StartRun(c, k, "shell", "none") /\ orphaned' = orphaned \ {c}
      /\ children' \subseteq children \union {c} /\ UNCHANGED <<metas, clients, stdout, crossed2>>
  BY DEF ExecuteShell
<1> QED BY <1>1, StartKeeps

\* An execution that ends leaves no child behind that nobody waits for, unless it
\* is written down as an orphan.
LEMMA StopKeeps ==
    ASSUME ManagerInv, TablesKept, NEW c \in SkillCalls, runs[c].pc \in {"rpc", "list", "shell"},
           runs' = [runs EXCEPT ![c] = IdleRun],
           children' \subseteq children, orphaned \subseteq orphaned', orphaned' \subseteq SkillCalls,
           c \in children' => c \in orphaned', UNCHANGED <<stdout, crossed2>>
    PROVE  ManagerInv'
<1>1. IdleRun.pc = "idle" /\ RunShape(IdleRun) /\ ~Executing(IdleRun)
  BY DEF IdleRun, RunShape, Executing
<1>2. DOMAIN runs = SkillCalls
  BY ManagerFacts DEF ManagerShape
<1>3. DOMAIN runs' = SkillCalls /\ RunBecomes(c, IdleRun)
  BY <1>2 DEF RunBecomes
<1>4. /\ runs[c].pc \in {"idle", "rpc", "list", "shell"} /\ IdleRun.pc \in {"idle", "rpc", "list", "shell"}
      /\ IdleRun.pc # "rpc" /\ children' \subseteq children \union {c}
      /\ \A d \in children' : d # c /\ d \in orphaned => d \in orphaned'
      /\ c \in children' => IdleRun.pc # "idle" \/ c \in orphaned'
  BY <1>1
<1> QED BY <1>1, <1>3, <1>4, RunStep

LEMMA AnswersKeep ==
    ASSUME ManagerInv, NEW c \in SkillCalls, RunAnswers(c)
    PROVE  ManagerInv'
<1>1. /\ runs[c].pc \in {"rpc", "list", "shell"} /\ runs' = [runs EXCEPT ![c] = IdleRun]
      /\ children' = children \ {c} /\ UNCHANGED <<metas, stdout, mops, orphaned, crossed2>>
      /\ clients' = IF runs[c].pc = "list" /\ clients[runs[c].skill].server = runs[c].uses
                    THEN [clients EXCEPT ![runs[c].skill].tools = TRUE] ELSE clients
  BY DEF RunAnswers
<1>2. runs[c].skill \in ManagedSkills
  BY <1>1, ManagerFacts DEF ManagerShape, Executing
<1>3. TablesKept
  <2>1. CASE clients' = clients
    BY <1>1, <2>1, TablesUnchanged
  <2>2. CASE clients' = [clients EXCEPT ![runs[c].skill].tools = TRUE]
    <3> DEFINE s == runs[c].skill
               x == [clients[s] EXCEPT !.tools = TRUE]
    <3>1. /\ DOMAIN clients = ManagedSkills
          /\ \A k \in ManagedSkills :
                clients[k] \in [server : Servers \union {"none"}, at : 0..ManagerOps, tools : BOOLEAN]
      BY ManagerFacts DEF ManagerShape
    <3>2. /\ x \in [server : Servers \union {"none"}, at : 0..ManagerOps, tools : BOOLEAN]
          /\ x.server = clients[s].server
      BY <1>2, <3>1
    <3>3. clients' = [clients EXCEPT ![s] = x]
      BY <2>2
    <3> HIDE DEF x
    <3>4. DOMAIN clients' = ManagedSkills /\ \A k \in ManagedSkills : clients'[k] = IF k = s THEN x ELSE clients[k]
      BY <1>2, <3>1, <3>3
    <3> QED BY <1>1, <3>1, <3>2, <3>4, ManagerFacts DEF TablesKept, ManagerShape, ClientsAgree
  <2> QED BY <1>1, <2>1, <2>2
<1> QED BY <1>1, <1>3, StopKeeps, ManagerFacts

LEMMA TimesOutKeeps ==
    ASSUME ManagerInv, NEW c \in SkillCalls, RunTimesOut(c)
    PROVE  ManagerInv'
<1>1. /\ runs[c].pc \in {"rpc", "list", "shell"} /\ runs' = [runs EXCEPT ![c] = IdleRun]
      /\ children' = children \ {c} /\ UNCHANGED <<metas, clients, stdout, mops, orphaned, crossed2>>
  BY DEF RunTimesOut
<1>2. TablesKept
  BY <1>1, TablesUnchanged
<1> QED BY <1>1, <1>2, StopKeeps, ManagerFacts

LEMMA CancelledKeeps ==
    ASSUME ManagerInv, NEW c \in SkillCalls, RunCancelled(c)
    PROVE  ManagerInv'
<1>1. /\ runs[c].pc \in {"rpc", "list", "shell"} /\ runs' = [runs EXCEPT ![c] = IdleRun]
      /\ orphaned' = (IF c \in children THEN orphaned \union {c} ELSE orphaned)
      /\ UNCHANGED <<metas, clients, children, stdout, mops, crossed2>>
  BY DEF RunCancelled
<1>2. TablesKept
  BY <1>1, TablesUnchanged
<1>3. /\ children' \subseteq children /\ orphaned \subseteq orphaned' /\ orphaned' \subseteq SkillCalls
      /\ c \in children' => c \in orphaned'
  BY <1>1, ManagerFacts
<1> QED BY <1>1, <1>2, <1>3, StopKeeps

LEMMA OrphanEndsKeeps ==
    ASSUME ManagerInv, NEW c \in SkillCalls, OrphanEnds(c)
    PROVE  ManagerInv'
BY TablesUnchanged, ManagerFacts
   DEF OrphanEnds, ManagerInv, ManagerTypeOK, ManagerShape, ClientsAgree, OneScript, SavedStdouts,
       CalledWhatWasNamed, ChildrenHaveParents, StdoutComesBack, RunShape, Executing
\* A script begins or ends.
LEMMA ScriptStep ==
    ASSUME ManagerInv, TablesKept, NEW c \in SkillCalls, NEW r, RunShape(r),
           runs[c].pc \in {"idle", "script"}, r.pc \in {"idle", "script"}, Executing(r) => r.skill \in ManagedSkills,
           DOMAIN runs' = SkillCalls, RunBecomes(c, r), UNCHANGED <<children, orphaned>>,
           stdout' \in SkillCalls \union {"real"}, crossed2' \in BOOLEAN, OneScript', SavedStdouts', StdoutComesBack'
    PROVE  ManagerInv'
<1>1. /\ ManagerShape /\ CalledWhatWasNamed /\ ChildrenHaveParents
      /\ children' = children /\ orphaned' = orphaned /\ children \subseteq SkillCalls /\ orphaned \subseteq SkillCalls
  BY ManagerFacts
<1>2. \A d \in SkillCalls : runs'[d] = IF d = c THEN r ELSE runs[d]
  BY DEF RunBecomes
<1>3. ManagerTypeOK'
  BY <1>1, TablesType DEF ManagerTypeOK, TablesKept
<1>4. ManagerShape' /\ ClientsAgree'
  BY <1>1, <1>2 DEF ManagerShape, ClientsAgree, TablesKept, RunShape, Executing
<1>5. CalledWhatWasNamed'
  BY <1>1, <1>2 DEF CalledWhatWasNamed
<1>6. ChildrenHaveParents'
  <2> SUFFICES ASSUME NEW d \in children
               PROVE  runs'[d].pc \in {"rpc", "list", "shell"} \/ d \in orphaned
    BY <1>1 DEF ChildrenHaveParents
  <2>1. d \in SkillCalls /\ (runs[d].pc \in {"rpc", "list", "shell"} \/ d \in orphaned)
    BY <1>1 DEF ChildrenHaveParents
  <2> QED BY <1>2, <2>1
<1> QED BY <1>3, <1>4, <1>5, <1>6 DEF ManagerInv

LEMMA ScriptKeeps ==
    ASSUME ManagerInv, NEW c \in SkillCalls, NEW k \in ManagedSkills, ExecuteScript(c, k)
    PROVE  ManagerInv'
<1> DEFINE r == Begun(k, "script", "none")
<1>1. /\ runs[c].pc = "idle" /\ Counted /\ runs' = [runs EXCEPT ![c] = r]
      /\ stdout' = c /\ UNCHANGED <<metas, clients, children, orphaned>>
      /\ crossed2' = (crossed2 \/ \E d \in SkillCalls : runs[d].pc = "script")
  BY DEF ExecuteScript, StartRun, Begun
<1>2. r.pc = "script" /\ r.skill = k /\ r.saved = stdout /\ RunShape(r)
  BY DEF Begun, RunShape
<1> HIDE DEF r
<1>3. DOMAIN runs = SkillCalls
  BY ManagerFacts DEF ManagerShape
<1>4. DOMAIN runs' = SkillCalls /\ \A d \in SkillCalls : runs'[d] = IF d = c THEN r ELSE runs[d]
  BY <1>1, <1>3
<1>5. TablesKept
  BY <1>1, TablesUnchanged
<1>6. stdout' \in SkillCalls \union {"real"} /\ crossed2' \in BOOLEAN
  BY <1>1, ManagerFacts
<1>7. OneScript'
  <2> SUFFICES ASSUME ~crossed2'
               PROVE  \A e \in SkillCalls : runs'[e].pc = "script" =>
                          runs'[e].saved = "real" /\ \A d \in SkillCalls : runs'[d].pc = "script" => d = e
    BY DEF OneScript
  <2>1. ~crossed2 /\ \A d \in SkillCalls : runs[d].pc # "script"
    BY <1>1
  <2>2. stdout = "real"
    BY <2>1, ManagerFacts DEF StdoutComesBack
  <2> QED BY <1>2, <1>4, <2>1, <2>2
<1>8. SavedStdouts'
  BY <1>2, <1>4, ManagerFacts DEF SavedStdouts
<1>9. StdoutComesBack'
  BY <1>2, <1>4 DEF StdoutComesBack
<1>10. RunBecomes(c, r) /\ runs[c].pc \in {"idle", "script"} /\ r.pc \in {"idle", "script"} /\ r.skill \in ManagedSkills
  BY <1>1, <1>2, <1>4 DEF RunBecomes
<1> QED BY <1>1, <1>2, <1>4, <1>5, <1>6, <1>7, <1>8, <1>9, <1>10, ScriptStep

LEMMA ScriptEndsKeeps ==
    ASSUME ManagerInv, NEW c \in SkillCalls, ScriptEnds(c)
    PROVE  ManagerInv'
<1>1. /\ runs[c].pc = "script" /\ stdout' = runs[c].saved /\ runs' = [runs EXCEPT ![c] = IdleRun]
      /\ UNCHANGED <<metas, clients, children, mops, orphaned, crossed2>>
  BY DEF ScriptEnds
<1>2. IdleRun.pc = "idle" /\ RunShape(IdleRun) /\ ~Executing(IdleRun)
  BY DEF IdleRun, RunShape, Executing
<1>3. DOMAIN runs = SkillCalls
  BY ManagerFacts DEF ManagerShape
<1>4. DOMAIN runs' = SkillCalls /\ \A d \in SkillCalls : runs'[d] = IF d = c THEN IdleRun ELSE runs[d]
  BY <1>1, <1>3
<1>5. TablesKept
  BY <1>1, TablesUnchanged
<1>6. stdout' \in SkillCalls \union {"real"} /\ crossed2' \in BOOLEAN
  BY <1>1, ManagerFacts DEF SavedStdouts
<1>7. \A d \in SkillCalls : runs'[d].pc = "script" => d # c /\ runs'[d] = runs[d]
  BY <1>2, <1>4
<1>8. OneScript' /\ SavedStdouts'
  BY <1>1, <1>7, ManagerFacts DEF OneScript, SavedStdouts
<1>9. StdoutComesBack'
  BY <1>1, ManagerFacts DEF StdoutComesBack, OneScript
<1>10. RunBecomes(c, IdleRun) /\ runs[c].pc \in {"idle", "script"} /\ IdleRun.pc \in {"idle", "script"}
  BY <1>1, <1>2, <1>4 DEF RunBecomes
<1> QED BY <1>1, <1>2, <1>4, <1>5, <1>6, <1>8, <1>9, <1>10, ScriptStep

LEMMA RegisterKeeps == ASSUME ManagerInv, RegisterSkill PROVE ManagerInv'
<1>1. PICK k \in ManagedSkills, t \in {"mcp", "shell", "script"}, s \in Servers \union {"none"} :
          /\ t # "mcp" => s = "none"
          /\ Counted
          /\ metas' = [metas EXCEPT ![k] = [type |-> t, server |-> s, at |-> mops + 1]]
          /\ clients' = IF t = "mcp" THEN [clients EXCEPT ![k] = ClientFor(k, s, mops + 1)] ELSE clients
          /\ UNCHANGED <<runs, processVars>>
  BY DEF RegisterSkill
<1> DEFINE m == [type |-> t, server |-> s, at |-> mops + 1]
           x == IF t = "mcp" THEN ClientFor(k, s, mops + 1) ELSE clients[k]
<1>2. /\ DOMAIN metas = ManagedSkills /\ DOMAIN clients = ManagedSkills
      /\ \A j \in ManagedSkills :
            /\ metas[j] \in [type : {"none", "mcp", "shell", "script"}, server : Servers \union {"none"}, at : 0..ManagerOps]
            /\ clients[j] \in [server : Servers \union {"none"}, at : 0..ManagerOps, tools : BOOLEAN]
            /\ metas[j].server \in {clients[j].server, "none"}
  BY ManagerFacts DEF ManagerShape, ClientsAgree
<1>3. mops + 1 \in 0..ManagerOps /\ mops' = mops + 1
  BY <1>1, ManagerFacts DEF Counted
<1>4. m \in [type : {"none", "mcp", "shell", "script"}, server : Servers \union {"none"}, at : 0..ManagerOps] /\ m.server = s
  BY <1>3
<1>5. /\ x \in [server : Servers \union {"none"}, at : 0..ManagerOps, tools : BOOLEAN]
      /\ s \in {x.server, "none"}
  BY <1>1, <1>2, <1>3 DEF ClientFor
<1>6. metas' = [metas EXCEPT ![k] = m]
  BY <1>1
<1>7. /\ DOMAIN clients' = ManagedSkills
      /\ \A j \in ManagedSkills : clients'[j] = IF j = k THEN x ELSE clients[j]
  BY <1>1, <1>2
<1> HIDE DEF m, x
<1>8. DOMAIN metas' = ManagedSkills /\ \A j \in ManagedSkills : metas'[j] = IF j = k THEN m ELSE metas[j]
  BY <1>2, <1>6
<1>9. TablesKept
  BY <1>2, <1>3, <1>4, <1>5, <1>7, <1>8 DEF TablesKept
<1> QED BY <1>1, <1>9, TablesStep

LEMMA UnregisterKeeps == ASSUME ManagerInv, UnregisterSkill PROVE ManagerInv'
<1>1. PICK k \in ManagedSkills : metas' = [metas EXCEPT ![k] = NoMeta] /\ UNCHANGED <<clients, runs, processVars, mops>>
  BY DEF UnregisterSkill
<1>2. /\ NoMeta \in [type : {"none", "mcp", "shell", "script"}, server : Servers \union {"none"}, at : 0..ManagerOps]
      /\ NoMeta.server = "none"
  BY ManagerFacts DEF NoMeta
<1>3. DOMAIN metas = ManagedSkills
  BY ManagerFacts DEF ManagerShape
<1>4. DOMAIN metas' = ManagedSkills /\ \A j \in ManagedSkills : metas'[j] = IF j = k THEN NoMeta ELSE metas[j]
  BY <1>1, <1>3
<1>5. TablesKept
  BY <1>1, <1>2, <1>4, ManagerFacts DEF TablesKept, ManagerShape, ClientsAgree
<1> QED BY <1>1, <1>5, TablesStep

LEMMA ManagerStep == ASSUME ManagerInv, ManagerNext PROVE ManagerInv'
BY RegisterKeeps, UnregisterKeeps, McpKeeps, DiscoverKeeps, ShellKeeps, ScriptKeeps, AnswersKeep, TimesOutKeeps,
   CancelledKeeps, OrphanEndsKeeps, ScriptEndsKeeps DEF ManagerNext

----------------------------------------------------------------------------
(* Both.                                                                   *)

LEMMA SkillsInit == Init => FilesInv /\ ManagerInv
<1> SUFFICES ASSUME StoreInit, ManagerInit PROVE FilesInv /\ ManagerInv
  BY DEF Init
<1>1. files \in Files
  BY SkillConstants DEF StoreInit, Files
<1>2. StoreTypeOK
  BY SkillConstants DEF StoreInit, StoreTypeOK
<1>3. OffIsOwn /\ SavedIsKept
  BY DEF StoreInit, OffIsOwn, SavedIsKept
<1>4. ManagerOps \in Nat
  BY ManagerAssumption DEF ManagerAssumption
<1>5. ManagerTypeOK /\ ManagerShape /\ ClientsAgree
  <2>1. /\ NoMeta \in [type : {"none", "mcp", "shell", "script"}, server : Servers \union {"none"}, at : 0..ManagerOps]
        /\ NoClient \in [server : Servers \union {"none"}, at : 0..ManagerOps, tools : BOOLEAN]
        /\ NoMeta.server = "none" /\ RunShape(IdleRun) /\ ~Executing(IdleRun)
    BY <1>4 DEF NoMeta, NoClient, IdleRun, RunShape, Executing
  <2>2. /\ metas = [k \in ManagedSkills |-> NoMeta] /\ clients = [k \in ManagedSkills |-> NoClient]
        /\ runs = [c \in SkillCalls |-> IdleRun] /\ children = {} /\ stdout = "real" /\ mops = 0
        /\ orphaned = {} /\ crossed2 = FALSE
    BY DEF ManagerInit
  <2>3. 0 \in 0..ManagerOps
    BY <1>4
  <2>4. \A k \in ManagedSkills : metas[k] = NoMeta /\ clients[k] = NoClient
    BY <2>2
  <2>5. ManagerTypeOK
    BY <2>1, <2>2, <2>3, <2>4 DEF ManagerTypeOK
  <2>6. ManagerShape
    BY <2>1, <2>2, <2>4 DEF ManagerShape
  <2> QED BY <2>1, <2>4, <2>5, <2>6 DEF ClientsAgree
<1>6. OneScript /\ SavedStdouts /\ CalledWhatWasNamed /\ ChildrenHaveParents /\ StdoutComesBack
  BY DEF ManagerInit, OneScript, SavedStdouts, CalledWhatWasNamed, ChildrenHaveParents, StdoutComesBack, IdleRun
<1> QED BY <1>1, <1>2, <1>3, <1>5, <1>6 DEF FilesInv, ManagerInv

LEMMA FilesRest == ASSUME FilesInv, UNCHANGED ssVars PROVE FilesInv'
BY DEF FilesInv, ssVars, StoreTypeOK, OffIsOwn, SavedIsKept, Readable

LEMMA ManagerRest == ASSUME ManagerInv, UNCHANGED mgVars PROVE ManagerInv'
BY DEF ManagerInv, mgVars, ManagerTypeOK, ManagerShape, ClientsAgree, OneScript, SavedStdouts,
       CalledWhatWasNamed, ChildrenHaveParents, StdoutComesBack

LEMMA SkillsStep ==
    ASSUME FilesInv, ManagerInv, [Next]_<<part, mmVars, skVars, gwVars, txVars, kbVars>>
    PROVE  FilesInv' /\ ManagerInv'
<1>1. StoreNext \/ UNCHANGED ssVars
  BY DEF Next, skVars
<1>2. ManagerNext \/ UNCHANGED mgVars
  BY DEF Next, skVars
<1> QED BY <1>1, <1>2, StoreStep, FilesRest, ManagerStep, ManagerRest

\* A skill is the one its user saved and left on, unless a write was cut short or a skill
\* named by the file's path went over it, a call goes to the server its registration named, and no execution leaves a child process or a redirected stdout
\* behind, save the cancelled and the overlapping ones, for any users, names, servers and
\* calls (SkillStore, SkillManager.execute_skill).
THEOREM SkillsStaySound == Spec => []SkillsAreSound
<1>1. Init => FilesInv /\ ManagerInv
  BY SkillsInit
<1>2. FilesInv /\ ManagerInv /\ [Next]_<<part, mmVars, skVars, gwVars, txVars, kbVars>> => (FilesInv /\ ManagerInv)'
  BY SkillsStep
<1>3. FilesInv /\ ManagerInv => SkillsAreSound
  BY FilesInvHolds, ManagerFacts DEF SkillsAreSound
<1> QED BY <1>1, <1>2, <1>3, PTL DEF Spec

----------------------------------------------------------------------------
(* Chunks of a text.  Arithmetic first: quotients and multiples.          *)

LEMMA Divide ==
    ASSUME NEW a \in Nat, NEW d \in Nat \ {0}
    PROVE  LET q == a \div d IN q \in Nat /\ q * d <= a /\ a < q * d + d /\ q <= a
<1>1. (a \div d) \in Int
  OBVIOUS
<1>2. a = d * (a \div d) + (a % d) /\ 0 <= a % d /\ a % d < d /\ (a % d) \in Int
  BY SMT
<1> QED BY <1>1, <1>2, SMT

LEMMA Multiples ==
    ASSUME NEW k \in Nat, NEW l \in Nat, NEW d \in Nat \ {0}
    PROVE  /\ k * d \in Nat /\ k <= k * d
           /\ k < l => k * d + d <= l * d
           /\ (k * d = l * d => k = l)
<1>1. k * d \in Nat /\ l * d \in Nat
  BY SMT
<1>2. k < l => k * d + d <= l * d
  <2> SUFFICES ASSUME k < l PROVE k * d + d <= l * d
    OBVIOUS
  <2>1. l * d = (k + 1) * d + (l - k - 1) * d /\ l - k - 1 \in Nat
    BY SMT
  <2>2. (l - k - 1) * d \in Nat /\ (k + 1) * d = k * d + d
    BY <2>1, SMT
  <2> QED BY <1>1, <2>1, <2>2
<1>3. l < k => l * d + d <= k * d
  <2> SUFFICES ASSUME l < k PROVE l * d + d <= k * d
    OBVIOUS
  <2>1. k * d = (l + 1) * d + (k - l - 1) * d /\ k - l - 1 \in Nat
    BY SMT
  <2>2. (k - l - 1) * d \in Nat /\ (l + 1) * d = l * d + d
    BY <2>1, SMT
  <2> QED BY <1>1, <2>1, <2>2
<1>4. k * d = l * d => k = l
  BY <1>1, <1>2, <1>3, SMT
<1>5. k <= k * d
  BY SMT
<1> QED BY <1>1, <1>2, <1>4, <1>5

Advance == ChunkSize - ChunkOverlap

LEMMA ChunkConstants ==
    /\ ChunkSize \in Nat \ {0} /\ ChunkOverlap \in Nat /\ Advance \in Nat \ {0}
    /\ ChunkSize = Advance + ChunkOverlap /\ TextSizes \subseteq Nat \ {0}
BY ChunkAssumption, SMT DEF ChunkAssumption, Advance

LEMMA SimpleChunkIs ==
    ASSUME NEW n \in Nat, NEW k \in 0..n, k * Advance < n
    PROVE  Chunk(k * Advance, n) \in SimpleChunks(n)
<1>1. k * Advance \in 0..(n - 1)
  BY ChunkConstants, Multiples, SMT
<1>2. k * Advance \in {j * Advance : j \in 0..n} \cap 0..(n - 1)
  BY <1>1
<1> QED BY <1>2 DEF SimpleChunks, Advance

LEMMA SplitChunkIs ==
    ASSUME NEW n \in Nat, NEW k \in 0..n, k * Advance < n,
           k * Advance = 0 \/ k * Advance - Advance + ChunkSize < n
    PROVE  Chunk(k * Advance, n) \in SplitText(n)
<1>1. k * Advance \in 0..(n - 1)
  BY ChunkConstants, Multiples, SMT
<1>2. k * Advance \in {x \in {j * Advance : j \in 0..n} \cap 0..(n - 1) : x = 0 \/ x - Advance + ChunkSize < n}
  BY <1>1
<1> QED BY <1>2 DEF SplitText, Advance

LEMMA SplitChunkOnly ==
    ASSUME NEW n \in Nat, NEW c \in SplitText(n)
    PROVE  \E k \in 0..n : /\ c = Chunk(k * Advance, n) /\ k * Advance < n
                           /\ k * Advance = 0 \/ k * Advance - Advance + ChunkSize < n
<1>1. PICK x \in {x \in {j * Advance : j \in 0..n} \cap 0..(n - 1) : x = 0 \/ x - Advance + ChunkSize < n} :
          c = Chunk(x, n)
  BY DEF SplitText, Advance
<1>2. PICK k \in 0..n : x = k * Advance
  BY <1>1
<1>3. x < n /\ (x = 0 \/ x - Advance + ChunkSize < n)
  BY <1>1
<1> QED BY <1>1, <1>2, <1>3

\* A passage of the overlap and one character more lies in the chunk of the advance
\* it starts in, or in the last one.
LEMMA PassageInSimple ==
    ASSUME NEW n \in Nat, NEW i \in 0..(n - 1)
    PROVE  \E c \in SimpleChunks(n) :
               c.from <= i /\ (IF i + ChunkOverlap + 1 < n THEN i + ChunkOverlap + 1 ELSE n) <= c.to
<1> DEFINE k == i \div Advance
           s == k * Advance
           c == Chunk(s, n)
<1>1. i \in Nat /\ i < n
  BY SMT
<1>2. k \in Nat /\ s <= i /\ i < s + Advance /\ k <= i
  BY <1>1, ChunkConstants, Divide
<1>3. k \in 0..n /\ s \in Nat /\ s < n
  BY <1>1, <1>2, ChunkConstants, Multiples
<1>4. c \in SimpleChunks(n)
  BY <1>3, SimpleChunkIs
<1>5. c.from = s /\ c.to = IF s + ChunkSize < n THEN s + ChunkSize ELSE n
  BY DEF Chunk
<1> HIDE DEF c, s, k
<1>6. c.from <= i /\ (IF i + ChunkOverlap + 1 < n THEN i + ChunkOverlap + 1 ELSE n) <= c.to
  BY <1>1, <1>2, <1>3, <1>5, ChunkConstants
<1> QED BY <1>4, <1>6

LEMMA PassageInSplit ==
    ASSUME NEW n \in Nat, NEW i \in 0..(n - 1)
    PROVE  \E c \in SplitText(n) :
               c.from <= i /\ (IF i + ChunkOverlap + 1 < n THEN i + ChunkOverlap + 1 ELSE n) <= c.to
<1> DEFINE k == i \div Advance
           s == k * Advance
<1>1. i \in Nat /\ i < n
  BY SMT
<1>2. k \in Nat /\ s <= i /\ i < s + Advance /\ k <= i
  BY <1>1, ChunkConstants, Divide
<1>3. k \in 0..n /\ s \in Nat /\ s < n
  BY <1>1, <1>2, ChunkConstants, Multiples
<1>4. CASE s = 0 \/ s - Advance + ChunkSize < n
  <2> DEFINE c == Chunk(s, n)
  <2>1. c \in SplitText(n)
    BY <1>3, <1>4, SplitChunkIs
  <2>2. c.from = s /\ c.to = IF s + ChunkSize < n THEN s + ChunkSize ELSE n
    BY DEF Chunk
  <2> HIDE DEF c, s, k
  <2>3. c.from <= i /\ (IF i + ChunkOverlap + 1 < n THEN i + ChunkOverlap + 1 ELSE n) <= c.to
    BY <1>1, <1>2, <1>3, <2>2, ChunkConstants
  <2> QED BY <2>1, <2>3
<1>5. CASE s # 0 /\ n <= s - Advance + ChunkSize
  <2> DEFINE a == IF n <= ChunkSize THEN 0 ELSE n - ChunkSize + Advance - 1
             l == a \div Advance
             t == l * Advance
             c == Chunk(t, n)
  <2>1. a \in Nat
    BY ChunkConstants
  <2>2. l \in Nat /\ t <= a /\ a < t + Advance /\ l <= a /\ t \in Nat /\ l <= t
    BY <2>1, ChunkConstants, Divide, Multiples
  <2>3. n <= ChunkSize => t = 0
    BY <2>2
  <2>4. ChunkSize < n => t - Advance + ChunkSize < n /\ n <= t + ChunkSize
    BY <2>2, ChunkConstants
  <2>5. c.from = t /\ c.to = IF t + ChunkSize < n THEN t + ChunkSize ELSE n
    BY DEF Chunk
  <2> HIDE DEF c, t, l, a, s, k
  <2>6. t < n /\ t <= i /\ n <= t + ChunkSize /\ (t = 0 \/ t - Advance + ChunkSize < n)
    BY <1>1, <1>2, <1>3, <1>5, <2>2, <2>3, <2>4, ChunkConstants
  <2>7. l \in 0..n
    BY <2>2, <2>6
  <2>8. c \in SplitText(n)
    BY <2>6, <2>7, SplitChunkIs DEF c, t
  <2>9. c.from <= i /\ (IF i + ChunkOverlap + 1 < n THEN i + ChunkOverlap + 1 ELSE n) <= c.to
    BY <1>1, <2>2, <2>5, <2>6, ChunkConstants
  <2> QED BY <2>8, <2>9
<1> HIDE DEF s
<1> QED BY <1>3, <1>4, <1>5, ChunkConstants

LEMMA SplitIsTight ==
    ASSUME NEW n \in Nat, NEW c \in SplitText(n), NEW d \in SplitText(n), c.from <= d.from, d.to <= c.to
    PROVE  c = d
<1>1. PICK k \in 0..n : /\ c = Chunk(k * Advance, n) /\ k * Advance < n
                        /\ k * Advance = 0 \/ k * Advance - Advance + ChunkSize < n
  BY SplitChunkOnly
<1>2. PICK l \in 0..n : /\ d = Chunk(l * Advance, n) /\ l * Advance < n
                        /\ l * Advance = 0 \/ l * Advance - Advance + ChunkSize < n
  BY SplitChunkOnly
<1> DEFINE x == k * Advance
           y == l * Advance
<1>3. k \in Nat /\ l \in Nat /\ x \in Nat /\ y \in Nat
  BY ChunkConstants, Multiples
<1>4. (k < l => x + Advance <= y) /\ (l < k => y + Advance <= x)
  BY <1>3, ChunkConstants, Multiples
<1>5. /\ c.from = x /\ c.to = (IF x + ChunkSize < n THEN x + ChunkSize ELSE n)
      /\ d.from = y /\ d.to = (IF y + ChunkSize < n THEN y + ChunkSize ELSE n)
  BY <1>1, <1>2 DEF Chunk
<1>6. y = 0 \/ y - Advance + ChunkSize < n
  BY <1>2
<1> HIDE DEF x, y
<1>7. k = l
  BY <1>3, <1>4, <1>5, <1>6, ChunkConstants
<1> QED BY <1>1, <1>2, <1>7

LEMMA PassagesFit == PassagesAreWhole
<1> SUFFICES ASSUME NEW n \in 1..(4 * ChunkSize)
             PROVE  /\ \A bk \in Kinds : \A i \in 0..(n - 1) :
                          \E c \in ChunksOf(bk, n) :
                              c.from <= i /\ (IF i + ChunkOverlap + 1 < n THEN i + ChunkOverlap + 1 ELSE n) <= c.to
                    /\ \A c, d \in SplitText(n) : c.from <= d.from /\ d.to <= c.to => c = d
  BY DEF PassagesAreWhole
<1>1. n \in Nat
  BY ChunkConstants
<1> QED BY <1>1, PassageInSimple, PassageInSplit, SplitIsTight DEF ChunksOf

----------------------------------------------------------------------------
(* A document's builds.                                                    *)

BuildOK(r) ==
    /\ r = [pc |-> r.pc, kind |-> r.kind, db |-> r.db, size |-> r.size, got |-> r.got,
            seen |-> r.seen, alone |-> r.alone]
    /\ r.pc \in Steps /\ r.kind \in Kinds /\ r.db \in StoresFor(r.kind) /\ r.size \in TextSizes \union {0}
    /\ r.got \subseteq ChunksOf(r.kind, r.size) /\ r.alone \in BOOLEAN
    /\ r.pc \in {"idle", "parse", "embed"} => r.got = {}
    /\ r.pc \in {"clear", "lateclear", "insert", "late"} => r.got # {}
    /\ r.pc = "idle" => ~r.alone
    /\ r.db # "pgvector" => r.seen = {}

RowsOK == /\ DOMAIN ixRows = Stores
          /\ \A db \in Stores : \A r \in ixRows[db] : r.by \in Indexers /\ r.chunk \in ixBuild[r.by].got

\* What a build left alone finds and leaves in its store.
Rowset(b, got) == {[by |-> b, chunk |-> c] : c \in got}
LeftAlone(b, r, tbl) ==
    r.alone /\ r.db # "shared" =>
        /\ r.pc = "insert" => tbl[r.db] \subseteq r.seen
        /\ r.pc \in {"flush", "report", "complete"} => tbl[r.db] = Rowset(b, r.got)

\* Vectors of one of the builder's stores, or a deletion since the last insertion.
Evidence == ixRows["milvus"] # {} \/ ixRows["pgvector"] # {} \/ ixEmptied

DocStatuses == {"pending", "processing", "completed", "error", "none"}
DocInv ==
    /\ DOMAIN ixBuild = Indexers /\ ixDoc \in DocStatuses /\ ixEmptied \in BOOLEAN /\ RowsOK
    /\ \A b \in Indexers :
          /\ BuildOK(ixBuild[b]) /\ LeftAlone(b, ixBuild[b], ixRows)
          /\ ixBuild[b].alone => \A x \in Indexers : x # b => ixBuild[x].pc \in Over
          /\ ixBuild[b].pc \in {"flush", "report"} /\ ixBuild[b].db # "shared" => Evidence
    /\ ixDoc = "completed" => Evidence

LEMMA DocFacts ==
    ASSUME DocInv, NEW b \in Indexers
    PROVE  /\ BuildOK(ixBuild[b]) /\ LeftAlone(b, ixBuild[b], ixRows) /\ RowsOK /\ ixDoc \in DocStatuses
           /\ DOMAIN ixBuild = Indexers /\ DOMAIN ixRows = Stores
           /\ ixBuild[b].alone => \A x \in Indexers : x # b => ixBuild[x].pc \in Over
           /\ ixBuild[b].pc \in {"flush", "report"} /\ ixBuild[b].db # "shared" => Evidence
           /\ ixDoc = "completed" => Evidence
           /\ ixBuild[b].db \in Stores
BY DEF DocInv, RowsOK, BuildOK, StoresFor, Stores

\* A build under way goes on to r.
GoesTo(b, r) ==
    /\ DOMAIN ixBuild' = Indexers /\ \A x \in Indexers : ixBuild'[x] = IF x = b THEN r ELSE ixBuild[x]
    /\ BuildOK(r) /\ LeftAlone(b, r, ixRows') /\ ixEmptied' \in BOOLEAN
    /\ ixBuild[b].pc \notin Over /\ r.alone = ixBuild[b].alone
    /\ r.pc \in {"flush", "report"} /\ r.db # "shared" => Evidence'
    /\ RowsOK'

LEMMA GoingKeeps ==
    ASSUME DocInv, NEW b \in Indexers, NEW r, GoesTo(b, r), Evidence => Evidence',
           ixDoc' \in DocStatuses, ixDoc' = "completed" => Evidence'
    PROVE  DocInv'
<1> SUFFICES ASSUME NEW x \in Indexers
             PROVE  /\ BuildOK(ixBuild'[x]) /\ LeftAlone(x, ixBuild'[x], ixRows')
                    /\ ixBuild'[x].alone => \A y \in Indexers : y # x => ixBuild'[y].pc \in Over
                    /\ ixBuild'[x].pc \in {"flush", "report"} /\ ixBuild'[x].db # "shared" => Evidence'
  BY DEF DocInv, GoesTo, BuildOK, LeftAlone
<1>1. CASE x = b
  <2>1. ixBuild'[x] = r /\ \A y \in Indexers : y # x => ixBuild'[y] = ixBuild[y]
    BY <1>1 DEF GoesTo
  <2> QED BY <1>1, <2>1, DocFacts DEF GoesTo
<1>2. CASE x # b
  <2>1. ixBuild'[x] = ixBuild[x]
    BY <1>2 DEF GoesTo
  <2>2. ~ixBuild[x].alone
    BY <1>2, DocFacts DEF GoesTo
  <2> QED BY <2>1, <2>2, DocFacts DEF LeftAlone
<1> QED BY <1>1, <1>2

\* A step that leaves the vectors alone.
Quietly(b, r) ==
    /\ ixBuild' = [ixBuild EXCEPT ![b] = r] /\ UNCHANGED <<ixRows, ixEmptied>>
    /\ BuildOK(r) /\ LeftAlone(b, r, ixRows) /\ ixBuild[b].pc \notin Over
    /\ r.alone = ixBuild[b].alone /\ r.db = ixBuild[b].db
    /\ ixBuild[b].got \subseteq r.got
    /\ r.pc \in {"flush", "report"} => ixBuild[b].pc \in {"flush", "report"}

LEMMA QuietKeeps ==
    ASSUME DocInv, NEW b \in Indexers, NEW r, Quietly(b, r), ixDoc' \in DocStatuses,
           ixDoc' = "completed" => ixDoc = "completed" \/ (ixBuild[b].pc = "report" /\ ixBuild[b].db # "shared")
    PROVE  DocInv'
<1>1. DOMAIN ixBuild = Indexers /\ RowsOK
  BY DocFacts
<1>2. DOMAIN ixBuild' = Indexers /\ \A x \in Indexers : ixBuild'[x] = IF x = b THEN r ELSE ixBuild[x]
  BY <1>1 DEF Quietly
<1>3. ixRows' = ixRows /\ ixBuild[b].got \subseteq r.got
  BY DEF Quietly
<1>4. RowsOK'
  BY <1>1, <1>2, <1>3 DEF RowsOK
<1>5. Evidence => Evidence'
  <2>1. ixEmptied' = ixEmptied
    BY DEF Quietly
  <2> QED BY <1>3, <2>1 DEF Evidence
<1>6. r.pc \in {"flush", "report"} /\ r.db # "shared" => Evidence'
  BY <1>5, DocFacts DEF Quietly
<1>9. ixEmptied' \in BOOLEAN
  BY DEF Quietly, DocInv
<1>7. GoesTo(b, r)
  BY <1>2, <1>3, <1>4, <1>6, <1>9 DEF GoesTo, Quietly
<1>8. ixDoc' = "completed" => Evidence'
  BY <1>5, DocFacts
<1> QED BY <1>5, <1>7, <1>8, GoingKeeps

\* The build b at its step pc.
Stepping(b, pc) == [ixBuild[b] EXCEPT !.pc = pc]

LEMMA SteppingIs ==
    ASSUME DocInv, NEW b \in Indexers, NEW pc \in Steps,
           pc \in {"idle", "parse", "embed"} => ixBuild[b].got = {},
           pc \in {"clear", "lateclear", "insert", "late"} => ixBuild[b].got # {},
           pc = "idle" => ~ixBuild[b].alone
    PROVE  LET r == Stepping(b, pc) IN
           /\ BuildOK(r) /\ r.pc = pc /\ r.kind = ixBuild[b].kind /\ r.db = ixBuild[b].db /\ r.size = ixBuild[b].size
           /\ r.got = ixBuild[b].got /\ r.seen = ixBuild[b].seen /\ r.alone = ixBuild[b].alone
<1> DEFINE o == ixBuild[b]
           r == Stepping(b, pc)
<1>1. BuildOK(o)
  BY DocFacts
<1>2. o = [pc |-> o.pc, kind |-> o.kind, db |-> o.db, size |-> o.size, got |-> o.got,
           seen |-> o.seen, alone |-> o.alone]
  BY <1>1 DEF BuildOK
<1> HIDE DEF o
<1>3. r = [o EXCEPT !.pc = pc]
  BY DEF Stepping, o
<1> HIDE DEF r
<1>4. r = [pc |-> pc, kind |-> o.kind, db |-> o.db, size |-> o.size, got |-> o.got,
           seen |-> o.seen, alone |-> o.alone]
  BY <1>2, <1>3
<1>5. /\ r.pc = pc /\ r.kind = o.kind /\ r.db = o.db /\ r.size = o.size /\ r.got = o.got
      /\ r.seen = o.seen /\ r.alone = o.alone
  BY <1>4
<1>6. BuildOK(r)
  BY <1>1, <1>4, <1>5 DEF BuildOK, o
<1> QED BY <1>5, <1>6 DEF r, o

\* Only the step changes.
LEMMA GoesKeeps ==
    ASSUME DocInv, NEW b \in Indexers, NEW pc \in Steps, Goes(b, pc), UNCHANGED <<ixRows, ixEmptied>>, ixBuild[b].pc \notin Over,
           pc \in {"error", "failed", "gone"}
           \/ (pc = "late" /\ ixBuild[b].pc = "insert") \/ (pc = "lateclear" /\ ixBuild[b].pc = "clear")
           \/ (pc \in {"report", "complete"} /\ ixBuild[b].pc \in {"flush", "report"}),
           ixDoc' \in DocStatuses,
           ixDoc' = "completed" => ixDoc = "completed" \/ (ixBuild[b].pc = "report" /\ ixBuild[b].db # "shared")
    PROVE  DocInv'
<1> DEFINE r == Stepping(b, pc)
<1>1. /\ BuildOK(ixBuild[b]) /\ LeftAlone(b, ixBuild[b], ixRows) /\ DOMAIN ixBuild = Indexers
  BY DocFacts
<1>2. pc \in {"late", "lateclear"} => ixBuild[b].got # {}
  BY <1>1 DEF BuildOK
<1>3. /\ BuildOK(r) /\ r.pc = pc /\ r.db = ixBuild[b].db
      /\ r.got = ixBuild[b].got /\ r.seen = ixBuild[b].seen /\ r.alone = ixBuild[b].alone
  BY <1>2, SteppingIs
<1>4. ixBuild' = [ixBuild EXCEPT ![b] = r]
  BY DEF Goes, Stepping
<1> HIDE DEF r
<1>5. LeftAlone(b, r, ixRows)
  BY <1>1, <1>3 DEF LeftAlone
<1>6. Quietly(b, r)
  BY <1>3, <1>4, <1>5 DEF Quietly
<1> QED BY <1>6, QuietKeeps

LEMMA ParseKeeps == ASSUME DocInv, NEW b \in Indexers, Parse(b) PROVE DocInv'
<1>1. Is(b, "parse") /\ UNCHANGED <<ixRows, ixEmptied, ixDoc>>
  BY DEF Parse
<1>2. CASE Goes(b, "error")
  BY <1>1, <1>2, GoesKeeps, DocFacts DEF Is, Steps, Over
<1>3. CASE \E n \in TextSizes : ixBuild' = [ixBuild EXCEPT ![b].pc = "embed", ![b].size = n]
  <2>1. PICK n \in TextSizes : ixBuild' = [ixBuild EXCEPT ![b].pc = "embed", ![b].size = n]
    BY <1>3
  <2> DEFINE o == ixBuild[b]
             r == [pc |-> "embed", kind |-> o.kind, db |-> o.db, size |-> n, got |-> o.got,
                   seen |-> o.seen, alone |-> o.alone]
  <2>2. BuildOK(o) /\ DOMAIN ixBuild = Indexers /\ o.pc = "parse"
    BY <1>1, DocFacts DEF Is
  <2>3. o = [pc |-> o.pc, kind |-> o.kind, db |-> o.db, size |-> o.size, got |-> o.got,
             seen |-> o.seen, alone |-> o.alone]
    BY <2>2 DEF BuildOK
  <2>4. ixBuild' = [ixBuild EXCEPT ![b] = [o EXCEPT !.pc = "embed", !.size = n]]
    BY <2>1
  <2> HIDE DEF o
  <2>5. [o EXCEPT !.pc = "embed", !.size = n] = r
    <3> DEFINE p == [o EXCEPT !.pc = "embed"]
    <3>1. [o EXCEPT !.pc = "embed", !.size = n] = [p EXCEPT !.size = n]
      OBVIOUS
    <3>2. p = [pc |-> "embed", kind |-> o.kind, db |-> o.db, size |-> o.size, got |-> o.got,
               seen |-> o.seen, alone |-> o.alone]
      BY <2>3
    <3> HIDE DEF p
    <3> QED BY <3>1, <3>2
  <2>6. BuildOK(r)
    BY <2>2 DEF BuildOK, Steps
  <2>7. LeftAlone(b, r, ixRows)
    BY DEF LeftAlone
  <2>8. Quietly(b, r)
    BY <1>1, <2>2, <2>4, <2>5, <2>6, <2>7 DEF Quietly, Over, o
  <2> HIDE DEF r
  <2> QED BY <1>1, <2>8, QuietKeeps, DocFacts
<1> QED BY <1>2, <1>3 DEF Parse

LEMMA EmbeddingsKeep == ASSUME DocInv, NEW b \in Indexers, ComputeEmbeddings(b) PROVE DocInv'
<1>1. Is(b, "embed") /\ UNCHANGED <<ixRows, ixEmptied, ixDoc>>
  BY DEF ComputeEmbeddings
<1> DEFINE o == ixBuild[b]
           all == ChunksOf(o.kind, o.size)
           next(got) == IF got = {} THEN "error" ELSE IF o.db = "shared" THEN "insert" ELSE "clear"
<1>2. PICK got \in SUBSET all : ixBuild' = [ixBuild EXCEPT ![b].got = got, ![b].pc = next(got)]
  BY DEF ComputeEmbeddings
<1> DEFINE pc == next(got)
           r == [pc |-> pc, kind |-> o.kind, db |-> o.db, size |-> o.size, got |-> got,
                 seen |-> o.seen, alone |-> o.alone]
<1>3. /\ BuildOK(o) /\ DOMAIN ixBuild = Indexers /\ o.pc = "embed"
  BY <1>1, DocFacts DEF Is
<1>4. o = [pc |-> o.pc, kind |-> o.kind, db |-> o.db, size |-> o.size, got |-> o.got,
           seen |-> o.seen, alone |-> o.alone]
  BY <1>3 DEF BuildOK
<1>5. ixBuild' = [ixBuild EXCEPT ![b] = [o EXCEPT !.got = got, !.pc = pc]]
  BY <1>2
<1>6. /\ pc \in {"error", "insert", "clear"} /\ (pc = "error" <=> got = {}) /\ (pc = "insert" => o.db = "shared")
  OBVIOUS
<1> HIDE DEF pc
<1>7. o.got = {}
  BY <1>3 DEF BuildOK
<1> HIDE DEF o
<1>8. [o EXCEPT !.got = got, !.pc = pc] = r
  <2> DEFINE p == [o EXCEPT !.got = got]
  <2>1. [o EXCEPT !.got = got, !.pc = pc] = [p EXCEPT !.pc = pc]
    OBVIOUS
  <2>2. p = [pc |-> o.pc, kind |-> o.kind, db |-> o.db, size |-> o.size, got |-> got,
              seen |-> o.seen, alone |-> o.alone]
    BY <1>4
  <2> HIDE DEF p
  <2> QED BY <2>1, <2>2
<1>9. BuildOK(r)
  BY <1>3, <1>6 DEF BuildOK, Steps
<1>10. LeftAlone(b, r, ixRows)
  BY <1>6 DEF LeftAlone
<1>11. Quietly(b, r)
  BY <1>1, <1>3, <1>5, <1>6, <1>7, <1>8, <1>9, <1>10 DEF Quietly, Over, o
<1> HIDE DEF r
<1> QED BY <1>1, <1>11, QuietKeeps, DocFacts

LEMMA ClearMilvusKeeps == ASSUME DocInv, NEW b \in Indexers, ClearMilvus(b) PROVE DocInv'
<1> DEFINE o == ixBuild[b]
           pc == IF o.pc = "clear" THEN "insert" ELSE "gone"
           r == Stepping(b, pc)
<1>1. /\ o.pc \in {"clear", "lateclear"} /\ o.db = "milvus" /\ ixRows' = [ixRows EXCEPT !["milvus"] = {}]
      /\ ixDoc' = ixDoc /\ ixEmptied' = TRUE /\ ixBuild' = [ixBuild EXCEPT ![b].pc = pc]
  BY DEF ClearMilvus, Goes, Is
<1>2. /\ BuildOK(o) /\ DOMAIN ixBuild = Indexers /\ RowsOK /\ ixDoc \in DocStatuses
  BY DocFacts
<1>3. pc \in {"insert", "gone"} /\ pc \in Steps /\ o.got # {}
  BY <1>1, <1>2 DEF BuildOK, Steps, Over
<1>4. ixBuild' = [ixBuild EXCEPT ![b] = r]
  BY <1>1 DEF Stepping
<1> HIDE DEF pc
<1>5. BuildOK(r) /\ r.pc = pc /\ r.db = o.db /\ r.got = o.got /\ r.seen = o.seen /\ r.alone = o.alone
  BY <1>3, SteppingIs
<1> HIDE DEF o, r
<1>7. "milvus" \in Stores
  BY DEF Stores
<1>8. DOMAIN ixRows' = Stores /\ \A db \in Stores : ixRows'[db] = IF db = "milvus" THEN {} ELSE ixRows[db]
  BY <1>1, <1>2, <1>7 DEF RowsOK
<1>9. DOMAIN ixBuild' = Indexers /\ \A x \in Indexers : ixBuild'[x] = IF x = b THEN r ELSE ixBuild[x]
  BY <1>2, <1>4
<1>10. RowsOK'
  <2>1. \A x \in Indexers : ixBuild'[x].got = ixBuild[x].got
    BY <1>5, <1>9 DEF o
  <2> QED BY <1>2, <1>8, <2>1 DEF RowsOK
<1>11. LeftAlone(b, r, ixRows')
  BY <1>1, <1>3, <1>5, <1>7, <1>8 DEF LeftAlone
<1>12. Evidence'
  BY <1>1 DEF Evidence
<1>13. GoesTo(b, r)
  BY <1>1, <1>5, <1>9, <1>10, <1>11, <1>12 DEF GoesTo, Over, o
<1> QED BY <1>1, <1>2, <1>12, <1>13, GoingKeeps

LEMMA ClearPgKeeps == ASSUME DocInv, NEW b \in Indexers, ClearPg(b) PROVE DocInv'
<1> DEFINE o == ixBuild[b]
           r == [pc |-> "insert", kind |-> o.kind, db |-> o.db, size |-> o.size, got |-> o.got,
                 seen |-> ixRows["pgvector"], alone |-> o.alone]
<1>1. /\ o.pc = "clear" /\ o.db = "pgvector" /\ UNCHANGED <<ixRows, ixEmptied>> /\ ixDoc' = ixDoc
      /\ ixBuild' = [ixBuild EXCEPT ![b].pc = "insert", ![b].seen = ixRows["pgvector"]]
  BY DEF ClearPg, Is
<1>2. BuildOK(o) /\ ixDoc \in DocStatuses
  BY DocFacts
<1>3. o = [pc |-> o.pc, kind |-> o.kind, db |-> o.db, size |-> o.size, got |-> o.got,
           seen |-> o.seen, alone |-> o.alone]
  BY <1>2 DEF BuildOK
<1>4. ixBuild' = [ixBuild EXCEPT ![b] = [o EXCEPT !.pc = "insert", !.seen = ixRows["pgvector"]]]
  BY <1>1
<1> HIDE DEF o
<1>5. [o EXCEPT !.pc = "insert", !.seen = ixRows["pgvector"]] = r
  <2> DEFINE p == [o EXCEPT !.pc = "insert"]
  <2>1. [o EXCEPT !.pc = "insert", !.seen = ixRows["pgvector"]] = [p EXCEPT !.seen = ixRows["pgvector"]]
    OBVIOUS
  <2>2. p = [pc |-> "insert", kind |-> o.kind, db |-> o.db, size |-> o.size, got |-> o.got,
              seen |-> o.seen, alone |-> o.alone]
    BY <1>3
  <2> HIDE DEF p
  <2> QED BY <2>1, <2>2
<1>6. BuildOK(r)
  BY <1>1, <1>2 DEF BuildOK, Steps
<1>7. LeftAlone(b, r, ixRows)
  BY <1>1 DEF LeftAlone
<1>8. Quietly(b, r)
  BY <1>1, <1>4, <1>5, <1>6, <1>7 DEF Quietly, Over, o
<1> HIDE DEF r
<1> QED BY <1>1, <1>2, <1>8, QuietKeeps

LEMMA InsertKeeps == ASSUME DocInv, NEW b \in Indexers, Insert(b) PROVE DocInv'
<1> DEFINE o == ixBuild[b]
           pc == IF o.pc = "late" THEN "gone" ELSE IF o.db = "pgvector" THEN "report" ELSE "flush"
           r == Stepping(b, pc)
           now == (ixRows[o.db] \ o.seen) \union Rowset(b, o.got)
<1>1. /\ o.pc \in {"insert", "late"} /\ ixDoc' = ixDoc /\ ixBuild' = [ixBuild EXCEPT ![b].pc = pc]
      /\ ixRows' = [ixRows EXCEPT ![o.db] = now] /\ ixEmptied' = (ixEmptied /\ o.db # "milvus")
  BY DEF Insert, Goes, Is, RowsOf, Rowset
<1>2. /\ BuildOK(o) /\ LeftAlone(b, o, ixRows) /\ DOMAIN ixBuild = Indexers /\ RowsOK /\ ixDoc \in DocStatuses
      /\ o.db \in Stores
  BY DocFacts
<1>4. ixBuild' = [ixBuild EXCEPT ![b] = r]
  BY <1>1 DEF Stepping
<1>5. pc \in {"gone", "report", "flush"} /\ (pc = "gone" <=> o.pc = "late") /\ pc \in Steps
  BY DEF Steps, Over
<1> HIDE DEF pc
<1>8. /\ BuildOK(r) /\ r.pc = pc /\ r.db = o.db /\ r.got = o.got /\ r.alone = o.alone
  BY <1>5, SteppingIs
<1> HIDE DEF o
<1>9. o.got # {}
  BY <1>1, <1>2 DEF BuildOK
<1> HIDE DEF r, now
<1>10. DOMAIN ixRows' = Stores /\ \A db \in Stores : ixRows'[db] = IF db = o.db THEN now ELSE ixRows[db]
  BY <1>1, <1>2 DEF RowsOK
<1>11. DOMAIN ixBuild' = Indexers /\ \A x \in Indexers : ixBuild'[x] = IF x = b THEN r ELSE ixBuild[x]
  BY <1>2, <1>4
<1>12. \A x \in Rowset(b, o.got) : x.by = b /\ x.chunk \in o.got
  BY DEF Rowset
<1>13. RowsOK'
  <2>1. \A x \in Indexers : ixBuild'[x].got = ixBuild[x].got
    BY <1>8, <1>11 DEF o
  <2>2. \A x \in now : x \in ixRows[o.db] \/ x \in Rowset(b, o.got)
    BY DEF now
  <2>3. ixBuild[b].got = o.got
    BY DEF o
  <2> SUFFICES ASSUME NEW db \in Stores, NEW x \in ixRows'[db]
               PROVE  x.by \in Indexers /\ x.chunk \in ixBuild'[x.by].got
    BY <1>10 DEF RowsOK
  <2>4. CASE x \in ixRows[db]
    BY <1>2, <2>1, <2>4 DEF RowsOK
  <2>5. CASE x \notin ixRows[db]
    <3>1. x \in Rowset(b, o.got)
      BY <1>10, <2>2, <2>5
    <3> QED BY <1>12, <2>1, <2>3, <3>1
  <2> QED BY <2>4, <2>5
<1>14. ixRows'[o.db] # {}
  <2>1. Rowset(b, o.got) # {}
    BY <1>9 DEF Rowset
  <2> QED BY <1>2, <1>10, <2>1 DEF now
<1>15. LeftAlone(b, r, ixRows')
  <2> SUFFICES ASSUME o.alone, o.db # "shared", pc \in {"report", "flush"}
               PROVE  ixRows'[o.db] = Rowset(b, o.got)
    BY <1>5, <1>8 DEF LeftAlone
  <2>1. o.pc = "insert"
    BY <1>1, <1>5
  <2>2. ixRows[o.db] \subseteq o.seen
    BY <1>2, <2>1 DEF LeftAlone
  <2> QED BY <1>2, <1>10, <2>2 DEF now
<1>16. o.db \in {"milvus", "pgvector"} => Evidence'
  BY <1>14 DEF Evidence
<1>17. o.db # "shared" => o.db \in {"milvus", "pgvector"}
  BY <1>2 DEF Stores
<1>18. Evidence => Evidence'
  <2>1. CASE o.db = "shared"
    <3>2. ixEmptied => ixEmptied'
      BY <1>1, <2>1
    <3>3. ixRows'["milvus"] = ixRows["milvus"] /\ ixRows'["pgvector"] = ixRows["pgvector"]
      BY <1>10, <2>1 DEF Stores
    <3> QED BY <3>2, <3>3 DEF Evidence
  <2> QED BY <1>16, <1>17, <2>1
<1>19. GoesTo(b, r)
  BY <1>1, <1>8, <1>11, <1>13, <1>15, <1>16, <1>17 DEF GoesTo, Over, o
<1>20. ixDoc' \in DocStatuses /\ (ixDoc' = "completed" => Evidence')
  BY <1>1, <1>2, <1>18, DocFacts
<1> QED BY <1>18, <1>19, <1>20, GoingKeeps

LEMMA MarksIs ==
    ASSUME DocInv, NEW b \in Indexers, NEW s \in DocStatuses, IF IsTask(b) THEN Marks(s) ELSE UNCHANGED ixDoc
    PROVE  ixDoc' \in DocStatuses /\ (ixDoc' = "completed" => ixDoc = "completed" \/ (s = "completed" /\ IsTask(b)))
BY DocFacts DEF Marks, DocStatuses

LEMMA TasksDb == ASSUME DocInv, NEW b \in Indexers, IsTask(b) PROVE ixBuild[b].db # "shared"
BY DocFacts DEF BuildOK, IsTask, StoresFor

LEMMA EndsKeep ==
    ASSUME DocInv, NEW b \in Indexers, Flush(b) \/ StoreFails(b) \/ Completes(b) \/ Errs(b) \/ Cancelled(b)
    PROVE  DocInv'
<1>1. ixDoc \in DocStatuses
  BY DocFacts
<1>2. CASE Flush(b)
  <2>1. ixBuild[b].pc = "flush" /\ Goes(b, "report") /\ UNCHANGED <<ixRows, ixEmptied>> /\ ixDoc' = ixDoc
    BY <1>2 DEF Flush, Is
  <2>2. "report" \in Steps /\ ixBuild[b].pc \notin Over
    BY <2>1 DEF Steps, Over
  <2> QED BY <1>1, <2>1, <2>2, GoesKeeps
<1>3. CASE StoreFails(b)
  <2>1. ixBuild[b].pc \in {"clear", "insert", "flush"} /\ Goes(b, "error") /\ UNCHANGED <<ixRows, ixEmptied>> /\ ixDoc' = ixDoc
    BY <1>3 DEF StoreFails
  <2>2. "error" \in Steps /\ ixBuild[b].pc \notin Over
    BY <2>1 DEF Steps, Over
  <2> QED BY <1>1, <2>1, <2>2, GoesKeeps
<1>4. CASE Completes(b)
  <2>1. ixBuild[b].pc = "report" /\ Goes(b, "complete") /\ UNCHANGED <<ixRows, ixEmptied>>
    BY <1>4 DEF Completes, Is
  <2>2. "complete" \in Steps /\ ixBuild[b].pc \notin Over
    BY <2>1 DEF Steps, Over
  <2>3. ixDoc' \in DocStatuses /\ (ixDoc' = "completed" => ixDoc = "completed" \/ IsTask(b))
    BY <1>4, MarksIs DEF Completes, DocStatuses
  <2> QED BY <2>1, <2>2, <2>3, TasksDb, GoesKeeps
<1>5. CASE Errs(b)
  <2>1. ixBuild[b].pc = "error" /\ Goes(b, "failed") /\ UNCHANGED <<ixRows, ixEmptied>>
    BY <1>5 DEF Errs, Is
  <2>2. "failed" \in Steps /\ ixBuild[b].pc \notin Over
    BY <2>1 DEF Steps, Over
  <2>3. ixDoc' \in DocStatuses /\ (ixDoc' = "completed" => ixDoc = "completed")
    BY <1>5, MarksIs DEF Errs, DocStatuses
  <2> QED BY <2>1, <2>2, <2>3, GoesKeeps
<1>6. CASE Cancelled(b)
  <2>1. ixBuild[b].pc \notin Over /\ UNCHANGED <<ixRows, ixEmptied>> /\ ixDoc' = ixDoc
    BY <1>6 DEF Cancelled, InFlight
  <2>2. Goes(b, "gone") \/ (ixBuild[b].pc = "insert" /\ Goes(b, "late"))
        \/ (ixBuild[b].pc = "clear" /\ Goes(b, "lateclear"))
    BY <1>6 DEF Cancelled, Is
  <2>3. "gone" \in Steps /\ "late" \in Steps /\ "lateclear" \in Steps
    BY DEF Steps, Over
  <2> QED BY <1>1, <2>1, <2>2, <2>3, GoesKeeps
<1> QED BY <1>2, <1>3, <1>4, <1>5, <1>6
\* A build's record when it begins.
BuildBegun(bk, db, alone, pc) ==
    [pc |-> pc, kind |-> bk, db |-> db, size |-> 0, got |-> {}, seen |-> {}, alone |-> alone]

LEMMA RestWith ==
    ASSUME NEW bk, NEW db, NEW alone, NEW pc
    PROVE  [Rest EXCEPT !.kind = bk, !.db = db, !.alone = alone, !.pc = pc] = BuildBegun(bk, db, alone, pc)
<1> DEFINE no == FALSE
           p == [Rest EXCEPT !.kind = bk]
           q == [p EXCEPT !.db = db]
           s == [q EXCEPT !.alone = alone]
<1>1. [Rest EXCEPT !.kind = bk, !.db = db, !.alone = alone, !.pc = pc] = [s EXCEPT !.pc = pc]
  OBVIOUS
<1>2. Rest = [pc |-> "idle", kind |-> "task", db |-> "milvus", size |-> 0, got |-> {},
              seen |-> {}, alone |-> no]
  BY DEF Rest
<1> HIDE DEF no
<1>3. p = [pc |-> "idle", kind |-> bk, db |-> "milvus", size |-> 0, got |-> {},
           seen |-> {}, alone |-> no]
  BY <1>2
<1> HIDE DEF p
<1>4. q = [pc |-> "idle", kind |-> bk, db |-> db, size |-> 0, got |-> {},
           seen |-> {}, alone |-> no]
  BY <1>3
<1> HIDE DEF q
<1>5. s = [pc |-> "idle", kind |-> bk, db |-> db, size |-> 0, got |-> {},
           seen |-> {}, alone |-> alone]
  BY <1>4
<1> HIDE DEF s
<1>6. [s EXCEPT !.pc = pc] = [pc |-> pc, kind |-> bk, db |-> db, size |-> 0, got |-> {},
                              seen |-> {}, alone |-> alone]
  BY <1>5
<1> QED BY <1>1, <1>6 DEF BuildBegun, no

\* Another build begins: this one is not alone from here on.
LEMMA Disturbed ==
    ASSUME NEW o, BuildOK(o)
    PROVE  LET r == [o EXCEPT !.alone = FALSE] IN
           /\ BuildOK(r) /\ r.pc = o.pc /\ r.kind = o.kind /\ r.db = o.db /\ r.size = o.size
           /\ r.got = o.got /\ r.seen = o.seen /\ ~r.alone
<1> DEFINE no == FALSE
           r == [o EXCEPT !.alone = no]
<1>1. o = [pc |-> o.pc, kind |-> o.kind, db |-> o.db, size |-> o.size, got |-> o.got,
           seen |-> o.seen, alone |-> o.alone]
  BY DEF BuildOK
<1>2. no \in BOOLEAN /\ ~no
  OBVIOUS
<1> HIDE DEF no
<1>3. r = [pc |-> o.pc, kind |-> o.kind, db |-> o.db, size |-> o.size, got |-> o.got,
           seen |-> o.seen, alone |-> no]
  BY <1>1
<1> HIDE DEF r
<1>4. /\ r.pc = o.pc /\ r.kind = o.kind /\ r.db = o.db /\ r.size = o.size
      /\ r.got = o.got /\ r.seen = o.seen /\ r.alone = no
  BY <1>3
<1>5. BuildOK(r)
  BY <1>2, <1>3, <1>4 DEF BuildOK
<1> QED BY <1>2, <1>4, <1>5 DEF r, no

LEMMA BeginKeeps ==
    ASSUME DocInv, NEW b \in Indexers, NEW bk \in Kinds, NEW db \in Stores, BeginBuild(b, bk, db)
    PROVE  DocInv'
<1> DEFINE alone == (InFlight = {})
           pc == IF bk = "task" /\ ixDoc = "none" THEN "failed" ELSE "parse"
           r == BuildBegun(bk, db, alone, pc)
<1>1. /\ ixBuild[b].pc = "idle" /\ db \in StoresFor(bk) /\ UNCHANGED <<ixRows, ixEmptied>>
      /\ ixBuild' = [x \in Indexers |-> IF x = b THEN [Rest EXCEPT !.kind = bk, !.db = db, !.alone = alone, !.pc = pc]
                                                 ELSE [ixBuild[x] EXCEPT !.alone = FALSE]]
      /\ ixDoc' = IF bk = "task" /\ ixDoc # "none" THEN "processing" ELSE ixDoc
  BY DEF BeginBuild, Is
<1>2. pc \in {"failed", "parse"} /\ alone \in BOOLEAN
  OBVIOUS
<1>3. alone => \A x \in Indexers : ixBuild[x].pc \in Over
  BY DEF InFlight
<1> HIDE DEF pc, alone
<1>4. DOMAIN ixBuild' = Indexers /\ ixBuild'[b] = r
  BY <1>1, RestWith
<1>5. \A x \in Indexers : x # b => ixBuild'[x] = [ixBuild[x] EXCEPT !.alone = FALSE]
  BY <1>1
<1>6. \A x \in Indexers : BuildOK(ixBuild[x])
  BY DocFacts
<1>7. \A x \in Indexers : x # b =>
          /\ BuildOK(ixBuild'[x]) /\ ixBuild'[x].pc = ixBuild[x].pc /\ ixBuild'[x].db = ixBuild[x].db
          /\ ixBuild'[x].got = ixBuild[x].got /\ ~ixBuild'[x].alone
  <2> SUFFICES ASSUME NEW x \in Indexers, x # b
               PROVE  /\ BuildOK(ixBuild'[x]) /\ ixBuild'[x].pc = ixBuild[x].pc /\ ixBuild'[x].db = ixBuild[x].db
                      /\ ixBuild'[x].got = ixBuild[x].got
                      /\ ~ixBuild'[x].alone
    OBVIOUS
  <2>1. BuildOK(ixBuild[x]) /\ ixBuild'[x] = [ixBuild[x] EXCEPT !.alone = FALSE]
    BY <1>5, <1>6
  <2> DEFINE o == ixBuild[x]
             d == [o EXCEPT !.alone = FALSE]
  <2>2. BuildOK(o)
    BY <2>1
  <2> HIDE DEF o
  <2>3. /\ BuildOK(d) /\ d.pc = o.pc /\ d.db = o.db /\ d.got = o.got /\ ~d.alone
    BY <2>2, Disturbed
  <2>4. ixBuild'[x] = d
    BY <2>1 DEF o
  <2> HIDE DEF d
  <2> QED BY <2>3, <2>4 DEF o
<1>8. r.pc = pc /\ r.kind = bk /\ r.db = db /\ r.size = 0 /\ r.got = {} /\ r.seen = {} /\ r.alone = alone
  BY DEF BuildBegun
<1>9. BuildOK(r)
  <2>1. r = [pc |-> r.pc, kind |-> r.kind, db |-> r.db, size |-> r.size, got |-> r.got,
             seen |-> r.seen, alone |-> r.alone]
    BY DEF BuildBegun
  <2> HIDE DEF r
  <2> QED BY <1>1, <1>2, <1>8, <2>1 DEF BuildOK, Steps, Over
<1> HIDE DEF r
<1>10. ixBuild[b].got = {}
  BY <1>1, <1>6 DEF BuildOK
<1>11. \A x \in Indexers : ixBuild'[x].got = ixBuild[x].got
  BY <1>4, <1>7, <1>8, <1>10
<1>12. Evidence => Evidence'
  BY <1>1, <1>11 DEF Evidence
<1>13. RowsOK'
  <2>1. RowsOK
    BY DocFacts
  <2> QED BY <1>1, <1>11, <2>1 DEF RowsOK
<1>14. ixDoc' \in DocStatuses /\ (ixDoc' = "completed" => Evidence')
  BY <1>1, <1>12, DocFacts DEF DocStatuses
<1>15. ASSUME NEW x \in Indexers
       PROVE  /\ BuildOK(ixBuild'[x]) /\ LeftAlone(x, ixBuild'[x], ixRows')
              /\ ixBuild'[x].alone => \A y \in Indexers : y # x => ixBuild'[y].pc \in Over
              /\ ixBuild'[x].pc \in {"flush", "report"} /\ ixBuild'[x].db # "shared" => Evidence'
  <2>1. CASE x = b
    <3>1. ixBuild'[x] = r
      BY <1>4, <2>1
    <3>2. LeftAlone(x, r, ixRows') /\ r.pc \notin {"flush", "report"}
      BY <1>2, <1>8 DEF LeftAlone
    <3>3. r.alone => \A y \in Indexers : y # x => ixBuild'[y].pc \in Over
      BY <1>3, <1>7, <1>8, <2>1
    <3> QED BY <1>9, <3>1, <3>2, <3>3
  <2>2. CASE x # b
    <3>1. /\ BuildOK(ixBuild'[x]) /\ ~ixBuild'[x].alone
          /\ ixBuild'[x].pc = ixBuild[x].pc /\ ixBuild'[x].db = ixBuild[x].db
      BY <1>7, <2>2
    <3>2. ixBuild'[x].pc \in {"flush", "report"} /\ ixBuild'[x].db # "shared" => Evidence'
      BY <1>12, <3>1, DocFacts
    <3> QED BY <3>1, <3>2 DEF LeftAlone
  <2> QED BY <2>1, <2>2
<1>16. ixEmptied' \in BOOLEAN
  BY <1>1 DEF DocInv
<1> QED BY <1>4, <1>13, <1>14, <1>15, <1>16 DEF DocInv, BuildOK, LeftAlone

LEMMA RemovalKeeps == ASSUME DocInv, RemoveDoc \/ DeleteDocument PROVE DocInv'
<1>1. UNCHANGED <<ixEmptied, ixBuild>> /\ ixDoc' \in {ixDoc, "none"}
  BY DEF RemoveDoc, DeleteDocument
<1>2. ixRows' = ixRows \/ ixRows' = [ixRows EXCEPT !["shared"] = {}]
  BY DEF RemoveDoc, DeleteDocument
<1>3. RowsOK /\ DOMAIN ixRows = Stores
  BY DEF DocInv, RowsOK
<1>4. /\ DOMAIN ixRows' = Stores /\ \A db \in Stores : ixRows'[db] = ixRows[db] \/ (db = "shared" /\ ixRows'[db] = {})
  BY <1>2, <1>3
<1>5. RowsOK'
  BY <1>1, <1>3, <1>4 DEF RowsOK
<1>6. "milvus" \in Stores /\ "pgvector" \in Stores
  BY DEF Stores
<1>7. ixRows'["milvus"] = ixRows["milvus"] /\ ixRows'["pgvector"] = ixRows["pgvector"]
  BY <1>4, <1>6
<1>8. Evidence' <=> Evidence
  BY <1>1, <1>7 DEF Evidence
<1>9. \A b \in Indexers : LeftAlone(b, ixBuild[b], ixRows')
  BY <1>4, DocFacts DEF LeftAlone
<1>10. ixDoc' \in DocStatuses /\ (ixDoc' = "completed" => ixDoc = "completed")
  BY <1>1 DEF DocInv, DocStatuses
<1> QED BY <1>1, <1>5, <1>8, <1>9, <1>10 DEF DocInv

LEMMA DocStep == ASSUME DocInv, DocNext PROVE DocInv'
BY BeginKeeps, ParseKeeps, EmbeddingsKeep, ClearMilvusKeeps, ClearPgKeeps, InsertKeeps, EndsKeep, RemovalKeeps
   DEF DocNext

LEMMA DocStart == DocInit => DocInv
<1> SUFFICES ASSUME DocInit PROVE DocInv
  OBVIOUS
<1>1. /\ ixRows = [db \in Stores |-> {}] /\ ixBuild = [b \in Indexers |-> Rest] /\ ixDoc = "pending" /\ ixEmptied = FALSE
  BY DEF DocInit
<1>2. RowsOK
  BY <1>1 DEF RowsOK
<1>3. /\ Rest.pc = "idle" /\ Rest.kind = "task" /\ Rest.db = "milvus" /\ Rest.size = 0 /\ Rest.got = {} /\ Rest.seen = {}
      /\ Rest.alone = FALSE
      /\ Rest = [pc |-> Rest.pc, kind |-> Rest.kind, db |-> Rest.db, size |-> Rest.size, got |-> Rest.got,
                 seen |-> Rest.seen, alone |-> Rest.alone]
  BY DEF Rest
<1>4. BuildOK(Rest)
  BY <1>3 DEF BuildOK, Steps, Over, Kinds, StoresFor
<1>5. \A b \in Indexers : ixBuild[b] = Rest
  BY <1>1
<1> QED BY <1>1, <1>2, <1>3, <1>4, <1>5 DEF DocInv, DocStatuses, LeftAlone
LEMMA ChunksAreFinite ==
    ASSUME NEW n \in Nat, NEW bk
    PROVE  IsFiniteSet(ChunksOf(bk, n))
<1> DEFINE f == [s \in 0..(n - 1) |-> Chunk(s, n)]
           T == {f[s] : s \in 0..(n - 1)}
<1>1. f \in Surjection(0..(n - 1), T)
  BY Fun_IsSurj
<1>2. 0 \in Int /\ n - 1 \in Int
  OBVIOUS
<1>3. IsFiniteSet(0..(n - 1))
  BY <1>2, FS_Interval
<1>4. IsFiniteSet(T)
  BY <1>1, <1>3, FS_Surjection
<1>5. ChunksOf(bk, n) \in SUBSET T
  <2>1. \A c \in SimpleChunks(n) : c \in T
    BY DEF SimpleChunks
  <2>2. \A c \in SplitText(n) : c \in T
    BY DEF SplitText
  <2> QED BY <2>1, <2>2 DEF ChunksOf
<1> HIDE DEF T
<1> QED BY <1>4, <1>5, FS_Subset

LEMMA RowsetCounts ==
    ASSUME NEW b, NEW S, IsFiniteSet(S)
    PROVE  Cardinality(Rowset(b, S)) = Cardinality(S) /\ {r.chunk : r \in Rowset(b, S)} = S
<1> DEFINE f == [c \in S |-> [by |-> b, chunk |-> c]]
<1>1. f \in Surjection(S, Rowset(b, S))
  BY Fun_IsSurj DEF Rowset
<1>2. f \in Injection(S, Rowset(b, S))
  <2>1. f \in [S -> Rowset(b, S)]
    BY DEF Rowset
  <2>2. \A x, y \in S : f[x] = f[y] => x = y
    OBVIOUS
  <2> QED BY <2>1, <2>2, Fun_IsInj
<1>3. Cardinality(Rowset(b, S)) = Cardinality(S)
  BY <1>1, <1>2, FS_Surjection
<1>4. {r.chunk : r \in Rowset(b, S)} = S
  <2>1. \A r \in Rowset(b, S) : r.chunk \in S
    BY DEF Rowset
  <2>2. \A c \in S : [by |-> b, chunk |-> c] \in Rowset(b, S)
    BY DEF Rowset
  <2>3. \A c \in S : \E r \in Rowset(b, S) : c = r.chunk
    BY <2>2
  <2> QED BY <2>1, <2>3
<1> QED BY <1>3, <1>4

LEMMA DocInvHolds == DocInv => DocTypeOK /\ RebuiltReplaces /\ CompletedIsFound /\ PassagesAreWhole
<1> SUFFICES ASSUME DocInv PROVE DocTypeOK /\ RebuiltReplaces /\ CompletedIsFound /\ PassagesAreWhole
  OBVIOUS
<1>1. DocTypeOK
  <2>1. ixDoc \in DocStatuses /\ ixEmptied \in BOOLEAN /\ RowsOK
    BY DEF DocInv
  <2>2. \A b \in Indexers : BuildOK(ixBuild[b])
    BY DocFacts
  <2> QED BY <2>1, <2>2 DEF DocTypeOK, DocStatuses, RowsOK, BuildOK
<1>2. RebuiltReplaces
  <2> SUFFICES ASSUME NEW b \in Indexers, ixBuild[b].pc = "complete", ixBuild[b].alone, ixBuild[b].db # "shared"
               PROVE  /\ Found(ixBuild[b].db) = ixBuild[b].got
                      /\ Cardinality(ixRows[ixBuild[b].db]) = Cardinality(ixBuild[b].got)
    BY DEF RebuiltReplaces, Is
  <2>1. ixRows[ixBuild[b].db] = Rowset(b, ixBuild[b].got)
    BY DocFacts DEF LeftAlone
  <2>2. ixBuild[b].size \in Nat /\ ixBuild[b].got \in SUBSET ChunksOf(ixBuild[b].kind, ixBuild[b].size)
    <3>1. /\ ixBuild[b].size \in TextSizes \union {0}
          /\ ixBuild[b].got \subseteq ChunksOf(ixBuild[b].kind, ixBuild[b].size)
      BY DocFacts DEF BuildOK
    <3>2. ixBuild[b].size \in Nat
      <4>1. \A x \in TextSizes : x \in Nat
        BY ChunkConstants, Zenon
      <4>2. 0 \in Nat
        OBVIOUS
      <4> QED BY <3>1, <4>1, <4>2, Zenon
    <3>3. ixBuild[b].got \in SUBSET ChunksOf(ixBuild[b].kind, ixBuild[b].size)
      BY <3>1, Zenon
    <3> QED BY <3>2, <3>3
  <2>3. IsFiniteSet(ixBuild[b].got)
    BY <2>2, ChunksAreFinite, FS_Subset
  <2> QED BY <2>1, <2>3, RowsetCounts DEF Found
<1>3. CompletedIsFound
  BY SMTT(30) DEF DocInv, Evidence, CompletedIsFound, Stores
<1> QED BY <1>1, <1>2, <1>3, PassagesFit

\* The store of pgvector is emptied by no step.
LEMMA PgStep == ASSUME DocInv, DocNext, ixRows["pgvector"] # {} PROVE ixRows'["pgvector"] # {}
<1>1. DOMAIN ixRows = Stores /\ "pgvector" \in Stores
  BY DEF DocInv, RowsOK, Stores
<1>2. CASE \E b \in Indexers : Insert(b)
  <2>1. PICK b \in Indexers : Insert(b)
    BY <1>2
  <2>2. /\ ixRows' = [ixRows EXCEPT ![ixBuild[b].db] = (@ \ ixBuild[b].seen) \union RowsOf(b)]
        /\ ixBuild[b].pc \in {"insert", "late"}
    BY <2>1 DEF Insert
  <2>3. ixBuild[b].got # {}
    BY <2>2, DocFacts DEF BuildOK
  <2>4. RowsOf(b) # {}
    BY <2>3 DEF RowsOf
  <2> QED BY <1>1, <2>2, <2>4
<1>3. CASE \E b \in Indexers : ClearMilvus(b)
  BY <1>1, <1>3 DEF ClearMilvus
<1>4. CASE DeleteDocument
  BY <1>1, <1>4 DEF DeleteDocument
<1>5. CASE ixRows' = ixRows
  BY <1>5
<1> QED BY <1>2, <1>3, <1>4, <1>5
        DEF DocNext, BeginBuild, Parse, ComputeEmbeddings, ClearPg, Flush, StoreFails, Completes, Errs, Cancelled, RemoveDoc
----------------------------------------------------------------------------
(* Summaries.                                                              *)

SumShape(r) == r = [pc |-> r.pc, kind |-> r.kind, text |-> r.text, id |-> r.id, got |-> r.got]

\* What a call carries where it is used.
SumCallOK(r) ==
    /\ SumShape(r)
    /\ r.pc \in {"hash", "insert", "exist"} => r.text \in Texts
    /\ r.pc = "vector" => r.id \in SumIds
    /\ r.pc = "del" => r.kind = "delete"
    /\ r.pc = "keep" => r.got \subseteq SumIds
SumCallsOK == DOMAIN scall = SumCalls /\ \A c \in SumCalls : SumCallOK(scall[c])

\* The ids that were ever given to a row, and the calls that may still need one.
UsedIds == Rows \union sdeleted
Inserters == {c \in SumCalls : scall[c].pc \in {"hash", "insert"}}

\* A vector is of a row there was, and the call that is about to insert one is alone.
VectorsInv ==
    /\ \A i \in SumIds : vectors[i] <= 1 /\ (vectors[i] > 0 => i \in UsedIds)
    /\ \A c \in SumCalls : At(c, "vector") => scall[c].id \in UsedIds /\ vectors[scall[c].id] = 0
    /\ \A c, d \in SumCalls : At(c, "vector") /\ At(d, "vector") /\ scall[c].id = scall[d].id => c = d
\* There is an id for every call that inserts.
IdsInv == Cardinality(UsedIds) + Cardinality(Inserters) <= sops

SumInv == SumTypeOK /\ SumCallsOK /\ VectorsInv /\ IdsInv /\ GoneFromRecall

LEMMA SumConstants == IsFiniteSet(SumCalls) /\ MaxTurns \in Nat /\ SumOps \in Nat
BY SummaryAssumption DEF SummaryAssumption

LEMMA SumTypes ==
    ASSUME SumInv
    PROVE  /\ stored \in 0..MaxTurns /\ meta \in -1..MaxTurns /\ sops \in 0..SumOps
           /\ rows \in [Texts -> SumIds \union {0}] /\ vectors \in [SumIds -> 0..SumOps]
           /\ recalls = NoRecall \/ recalls \subseteq SumIds
           /\ tasks \subseteq {"memory_consolidate", "memory_rollup"}
           /\ sdeleted \subseteq SumIds /\ sreported \subseteq SumIds
           /\ Rows \subseteq SumIds /\ UsedIds \subseteq SumIds
<1>1. SumTypeOK
  BY DEF SumInv
<1>2. rows \in [Texts -> SumIds \union {0}] /\ sdeleted \subseteq SumIds
  BY <1>1 DEF SumTypeOK
<1>3. Rows \subseteq SumIds
  BY <1>2 DEF Rows
<1> QED BY <1>1, <1>2, <1>3 DEF SumTypeOK, UsedIds

LEMMA SumRecord ==
    ASSUME NEW o, SumShape(o), NEW pc, NEW x
    PROVE  /\ [o EXCEPT !.pc = pc] = [pc |-> pc, kind |-> o.kind, text |-> o.text, id |-> o.id, got |-> o.got]
           /\ [o EXCEPT !.pc = pc, !.id = x] = [pc |-> pc, kind |-> o.kind, text |-> o.text, id |-> x, got |-> o.got]
           /\ [o EXCEPT !.pc = pc, !.got = x] = [pc |-> pc, kind |-> o.kind, text |-> o.text, id |-> o.id, got |-> x]
<1> DEFINE p == [o EXCEPT !.pc = pc]
<1>1. /\ [o EXCEPT !.pc = pc, !.id = x] = [p EXCEPT !.id = x]
      /\ [o EXCEPT !.pc = pc, !.got = x] = [p EXCEPT !.got = x]
  OBVIOUS
<1>2. p = [pc |-> pc, kind |-> o.kind, text |-> o.text, id |-> o.id, got |-> o.got]
  BY DEF SumShape
<1> HIDE DEF p
<1>3. /\ [p EXCEPT !.id = x] = [pc |-> pc, kind |-> o.kind, text |-> o.text, id |-> x, got |-> o.got]
      /\ [p EXCEPT !.got = x] = [pc |-> pc, kind |-> o.kind, text |-> o.text, id |-> o.id, got |-> x]
  BY <1>2
<1>4. [o EXCEPT !.pc = pc] = p
  BY DEF p
<1> QED BY <1>1, <1>2, <1>3, <1>4

LEMMA IdleRecord ==
    ASSUME NEW pc, NEW k, NEW x
    PROVE  /\ [IdleSum EXCEPT !.pc = pc, !.kind = k] = [pc |-> pc, kind |-> k, text |-> 0, id |-> 0, got |-> {}]
           /\ [IdleSum EXCEPT !.pc = pc, !.kind = k, !.id = x] = [pc |-> pc, kind |-> k, text |-> 0, id |-> x, got |-> {}]
<1> DEFINE p == [IdleSum EXCEPT !.pc = pc]
           q == [p EXCEPT !.kind = k]
<1>1. /\ [IdleSum EXCEPT !.pc = pc, !.kind = k] = q
      /\ [IdleSum EXCEPT !.pc = pc, !.kind = k, !.id = x] = [q EXCEPT !.id = x]
  OBVIOUS
<1>2. p = [pc |-> pc, kind |-> "none", text |-> 0, id |-> 0, got |-> {}]
  BY DEF IdleSum
<1> HIDE DEF p
<1>3. q = [pc |-> pc, kind |-> k, text |-> 0, id |-> 0, got |-> {}]
  BY <1>2
<1> HIDE DEF q
<1>4. [q EXCEPT !.id = x] = [pc |-> pc, kind |-> k, text |-> 0, id |-> x, got |-> {}]
  BY <1>3
<1> QED BY <1>1, <1>3, <1>4

LEMMA IdleText ==
    ASSUME NEW pc, NEW k, NEW x
    PROVE  [IdleSum EXCEPT !.pc = pc, !.kind = k, !.text = x] = [pc |-> pc, kind |-> k, text |-> x, id |-> 0, got |-> {}]
<1> DEFINE q == [IdleSum EXCEPT !.pc = pc, !.kind = k]
<1>1. [IdleSum EXCEPT !.pc = pc, !.kind = k, !.text = x] = [q EXCEPT !.text = x]
  OBVIOUS
<1>2. q = [pc |-> pc, kind |-> k, text |-> 0, id |-> 0, got |-> {}]
  BY IdleRecord
<1> HIDE DEF q
<1>3. [q EXCEPT !.text = x] = [pc |-> pc, kind |-> k, text |-> x, id |-> 0, got |-> {}]
  BY <1>2
<1> QED BY <1>1, <1>3

\* A call goes on as r.
SumGoes(c, r) == scall' = [scall EXCEPT ![c] = r] /\ SumCallOK(r)

LEMMA SumGoesKeeps ==
    ASSUME SumCallsOK, NEW c \in SumCalls, NEW r, SumGoes(c, r)
    PROVE  /\ SumCallsOK'
           /\ scall'[c] = r /\ \A d \in SumCalls : d # c => scall'[d] = scall[d]
<1>1. DOMAIN scall' = SumCalls /\ \A d \in SumCalls : scall'[d] = IF d = c THEN r ELSE scall[d]
  BY DEF SumCallsOK, SumGoes
<1> QED BY <1>1 DEF SumCallsOK, SumGoes

LEMMA IdleIsOK == SumCallOK(IdleSum) /\ IdleSum.pc = "idle"
BY DEF IdleSum, SumCallOK, SumShape

LEMMA InsertersFinite ==
    ASSUME NEW f
    PROVE  LET a == {c \in SumCalls : f[c].pc \in {"hash", "insert"}} IN IsFiniteSet(a) /\ Cardinality(a) \in Nat
<1> DEFINE a == {c \in SumCalls : f[c].pc \in {"hash", "insert"}}
<1>1. IsFiniteSet(a)
  BY SumConstants, FS_Subset
<1> QED BY <1>1, FS_CardinalityType

\* The calls that need an id, when one call goes on.
LEMMA InsertersChange ==
    ASSUME SumCallsOK, NEW c \in SumCalls, NEW r, SumGoes(c, r)
    PROVE  /\ Cardinality(Inserters) \in Nat /\ Cardinality(Inserters') \in Nat
           /\ Cardinality(Inserters') <= Cardinality(Inserters) + 1
           /\ scall[c].pc \in {"hash", "insert"} \/ r.pc \notin {"hash", "insert"}
                => Cardinality(Inserters') <= Cardinality(Inserters)
           /\ scall[c].pc \in {"hash", "insert"} /\ r.pc \notin {"hash", "insert"}
                => Cardinality(Inserters') = Cardinality(Inserters) - 1
<1>1. IsFiniteSet(Inserters) /\ Cardinality(Inserters) \in Nat
  BY InsertersFinite DEF Inserters
<1>2. IsFiniteSet(Inserters') /\ Cardinality(Inserters') \in Nat
  BY InsertersFinite DEF Inserters
<1>3. scall'[c] = r /\ \A d \in SumCalls : d # c => scall'[d] = scall[d]
  BY SumGoesKeeps
<1>4. Inserters' \subseteq Inserters \union {c}
  BY <1>3 DEF Inserters
<1>5. Cardinality(Inserters \union {c}) <= Cardinality(Inserters) + 1 /\ IsFiniteSet(Inserters \union {c})
  BY SMTT(30), <1>1, FS_AddElement
<1>6. Cardinality(Inserters') <= Cardinality(Inserters \union {c}) /\ Cardinality(Inserters \union {c}) \in Nat
  BY <1>4, <1>5, FS_Subset, FS_CardinalityType
<1>7. scall[c].pc \in {"hash", "insert"} \/ r.pc \notin {"hash", "insert"} => Inserters' \subseteq Inserters
  BY <1>3 DEF Inserters
<1>8. Inserters' \subseteq Inserters => Cardinality(Inserters') <= Cardinality(Inserters)
  BY <1>1, FS_Subset
<1>9. ASSUME scall[c].pc \in {"hash", "insert"}, r.pc \notin {"hash", "insert"}
      PROVE  Cardinality(Inserters') = Cardinality(Inserters) - 1
  <2>1. c \in Inserters /\ Inserters' = Inserters \ {c}
    BY <1>3, <1>9 DEF Inserters
  <2> QED BY <1>1, <2>1, FS_RemoveElement
<1> QED BY <1>1, <1>2, <1>5, <1>6, <1>7, <1>8, <1>9

LEMMA UsedFinite ==
    ASSUME SumInv
    PROVE  /\ IsFiniteSet(SumIds) /\ Cardinality(SumIds) = SumOps
           /\ IsFiniteSet(UsedIds) /\ Cardinality(UsedIds) \in Nat
<1>1. IsFiniteSet(SumIds) /\ Cardinality(SumIds) = SumOps
  BY SumConstants, FS_Interval, SMT DEF SumIds
<1>2. IsFiniteSet(UsedIds)
  BY <1>1, SumTypes, FS_Subset
<1> QED BY <1>1, <1>2, FS_CardinalityType

\* A call that touches neither rows nor vectors, and does not go to insert one.
LEMMA SumQuietKeeps ==
    ASSUME SumInv, NEW c \in SumCalls, NEW r, SumGoes(c, r), UNCHANGED <<rows, vectors, sdeleted>>,
           r.pc # "vector", sops' \in {sops, sops + 1},
           sops' = sops => scall[c].pc \in {"hash", "insert"} \/ r.pc \notin {"hash", "insert"}
    PROVE  SumCallsOK' /\ VectorsInv' /\ IdsInv'
<1>1. SumCallsOK /\ VectorsInv /\ IdsInv
  BY DEF SumInv
<1>2. SumCallsOK' /\ scall'[c] = r /\ \A d \in SumCalls : d # c => scall'[d] = scall[d]
  BY <1>1, SumGoesKeeps
<1>3. UsedIds' = UsedIds
  BY DEF UsedIds, Rows
<1>4. VectorsInv'
  <2>1. \A d \in SumCalls : At(d, "vector")' => d # c /\ At(d, "vector") /\ scall'[d] = scall[d]
    BY <1>2 DEF At
  <2> QED BY <1>1, <1>3, <2>1 DEF VectorsInv
<1>5. IdsInv'
  <2>1. IsFiniteSet(UsedIds) /\ Cardinality(UsedIds) \in Nat
    BY UsedFinite
  <2> QED BY <1>1, <1>3, <2>1, SumTypes, InsertersChange DEF IdsInv
<1> QED BY <1>2, <1>4, <1>5

LEMMA GoneKeeps ==
    ASSUME SumInv, NEW c \in SumCalls, NEW r, SumGoes(c, r), UNCHANGED <<recalls, sexcused>>, scall[c].pc # "drop",
           Rows \subseteq Rows', \A i \in SumIds : vectors[i] > 0 => vectors'[i] > 0
    PROVE  GoneFromRecall'
<1>1. \A d \in SumCalls : d # c => scall'[d] = scall[d]
  BY SumGoesKeeps DEF SumInv
<1>2. ASSUME recalls # NoRecall, NEW i \in recalls
      PROVE  i \in Rows' \/ vectors'[i] > 0 \/ sexcused' \/ \E d \in SumCalls : At(d, "drop")' /\ scall'[d].kind = "delete"
  <2>1. i \in SumIds
    BY <1>2, SumTypes
  <2>2. i \in Rows \/ vectors[i] > 0 \/ sexcused \/ \E d \in SumCalls : At(d, "drop") /\ scall[d].kind = "delete"
    BY <1>2 DEF SumInv, GoneFromRecall
  <2>3. ASSUME NEW d \in SumCalls, At(d, "drop"), scall[d].kind = "delete"
        PROVE  At(d, "drop")' /\ scall'[d].kind = "delete"
    BY <1>1, <2>3 DEF At
  <2> QED BY <2>1, <2>2, <2>3
<1> QED BY <1>2 DEF GoneFromRecall

\* A call that touches no table and no cache.
LEMMA SilentKeeps ==
    ASSUME SumInv, SumTypeOK', NEW c \in SumCalls, NEW r, SumGoes(c, r),
           UNCHANGED <<rows, vectors, sdeleted, recalls, sexcused>>,
           r.pc # "vector", scall[c].pc # "drop", sops' \in {sops, sops + 1},
           sops' = sops => scall[c].pc \in {"hash", "insert"} \/ r.pc \notin {"hash", "insert"}
    PROVE  SumInv'
<1>1. SumCallsOK' /\ VectorsInv' /\ IdsInv'
  BY SumQuietKeeps
<1>2. Rows' = Rows
  BY DEF Rows
<1>3. GoneFromRecall'
  BY <1>2, GoneKeeps
<1> QED BY <1>1, <1>3 DEF SumInv

LEMMA SessionKeeps ==
    ASSUME SumInv, SessionStart \/ TurnComplete \/ StoreMessages \/ SessionEnd \/ MetaExpires \/ AnswerExpires
    PROVE  SumInv'
<1>1. UNCHANGED <<rows, vectors, scall, sops, sdeleted, sreported>>
  BY DEF SessionStart, TurnComplete, StoreMessages, SessionEnd, MetaExpires, AnswerExpires, storeVars, sessionVars
<1>2. (recalls' = recalls /\ sexcused' = sexcused) \/ recalls' = NoRecall
  BY DEF SessionStart, TurnComplete, StoreMessages, SessionEnd, MetaExpires, AnswerExpires, storeVars
<1>3. GoneFromRecall'
  BY <1>1, <1>2 DEF SumInv, GoneFromRecall, Rows, At
<1>4. SumCallsOK' /\ VectorsInv' /\ IdsInv'
  BY <1>1 DEF SumInv, SumCallsOK, VectorsInv, IdsInv, UsedIds, Rows, Inserters, At
<1>5. SumTypeOK'
  <2>1. stored' \in 0..MaxTurns /\ meta' \in -1..MaxTurns
    BY SumTypes, SumConstants
       DEF SessionStart, TurnComplete, StoreMessages, SessionEnd, MetaExpires, AnswerExpires, storeVars, sessionVars
  <2>2. tasks' \subseteq {"memory_consolidate", "memory_rollup"}
    BY SumTypes
       DEF SessionStart, TurnComplete, StoreMessages, SessionEnd, MetaExpires, AnswerExpires, storeVars, sessionVars
  <2> QED BY <1>1, <1>2, <2>1, <2>2, SumTypes DEF SumTypeOK
<1> QED BY <1>3, <1>4, <1>5 DEF SumInv

LEMMA BeginSumKeeps ==
    ASSUME SumInv, NEW c \in SumCalls, HandleTask(c) \/ Recall(c) \/ Delete(c) \/ Save(c)
    PROVE  SumInv'
<1> DEFINE hash == [pc |-> "hash", kind |-> "consolidate", text |-> stored, id |-> 0, got |-> {}]
           look == [pc |-> "look", kind |-> "recall", text |-> 0, id |-> 0, got |-> {}]
           del(i) == [pc |-> "del", kind |-> "delete", text |-> 0, id |-> i, got |-> {}]
           save == [pc |-> "insert", kind |-> "save", text |-> stored, id |-> 0, got |-> {}]
<1>1. /\ scall[c].pc = "idle" /\ sops < SumOps /\ sops' = sops + 1
      /\ UNCHANGED <<sessionVars, quietStore>> /\ tasks' \subseteq tasks
  BY DEF HandleTask, Recall, Delete, Save, Starts
<1>2. /\ [IdleSum EXCEPT !.pc = "hash", !.kind = "consolidate", !.text = stored] = hash
      /\ [IdleSum EXCEPT !.pc = "look", !.kind = "recall"] = look
      /\ \A i : [IdleSum EXCEPT !.pc = "del", !.kind = "delete", !.id = i] = del(i)
      /\ [IdleSum EXCEPT !.pc = "insert", !.kind = "save", !.text = stored] = save
  <2>1. \A x : [IdleSum EXCEPT !.pc = "hash", !.kind = "consolidate", !.text = x]
                 = [pc |-> "hash", kind |-> "consolidate", text |-> x, id |-> 0, got |-> {}]
    <3> DEFINE w(y, z, x) == [IdleSum EXCEPT !.pc = y, !.kind = z, !.text = x]
    <3>1. \A x, y, z : w(y, z, x) = [pc |-> y, kind |-> z, text |-> x, id |-> 0, got |-> {}]
      BY IdleText
    <3>2. \A x : [IdleSum EXCEPT !.pc = "hash", !.kind = "consolidate", !.text = x] = w("hash", "consolidate", x)
      OBVIOUS
    <3> HIDE DEF w
    <3> QED BY <3>1, <3>2
  <2>2. [IdleSum EXCEPT !.pc = "look", !.kind = "recall"] = look
    BY IdleRecord
  <2>3. \A i : [IdleSum EXCEPT !.pc = "del", !.kind = "delete", !.id = i] = del(i)
    BY IdleRecord
  <2>4. \A x : [IdleSum EXCEPT !.pc = "insert", !.kind = "save", !.text = x]
                 = [pc |-> "insert", kind |-> "save", text |-> x, id |-> 0, got |-> {}]
    <3> DEFINE w(y, z, x) == [IdleSum EXCEPT !.pc = y, !.kind = z, !.text = x]
    <3>1. \A x, y, z : w(y, z, x) = [pc |-> y, kind |-> z, text |-> x, id |-> 0, got |-> {}]
      BY IdleText
    <3>2. \A x : [IdleSum EXCEPT !.pc = "insert", !.kind = "save", !.text = x] = w("insert", "save", x)
      OBVIOUS
    <3> HIDE DEF w
    <3> QED BY <3>1, <3>2
  <2> QED BY <2>1, <2>2, <2>3, <2>4
<1>3. stored # 0 => stored \in Texts
  BY SumTypes, SumConstants DEF Texts
<1>4. (stored # 0 => SumCallOK(hash) /\ SumCallOK(save)) /\ SumCallOK(look) /\ \A i : SumCallOK(del(i))
  BY <1>3 DEF SumCallOK, SumShape
<1>5. hash.pc = "hash" /\ look.pc = "look" /\ save.pc = "insert" /\ \A i : del(i).pc = "del"
  OBVIOUS
<1>6. \E r : SumGoes(c, r) /\ r.pc # "vector"
  <2>1. CASE HandleTask(c)
    <3>1. scall' = [scall EXCEPT ![c] = IF stored = 0 THEN IdleSum ELSE hash]
      BY <1>2, <2>1 DEF HandleTask, Starts
    <3> HIDE DEF hash
    <3>2. CASE stored = 0
      BY <3>1, <3>2, IdleIsOK DEF SumGoes
    <3>3. CASE stored # 0
      BY <1>4, <1>5, <3>1, <3>3 DEF SumGoes
    <3> QED BY <3>2, <3>3
  <2>2. CASE Recall(c)
    <3>1. scall' = [scall EXCEPT ![c] = look]
      BY <1>2, <2>2 DEF Recall, Starts
    <3> HIDE DEF look
    <3> QED BY <1>4, <1>5, <3>1 DEF SumGoes
  <2>3. CASE Delete(c)
    <3>1. PICK i \in Rows : Starts(c, [IdleSum EXCEPT !.pc = "del", !.kind = "delete", !.id = i])
      BY <2>3 DEF Delete
    <3>2. scall' = [scall EXCEPT ![c] = del(i)]
      BY <1>2, <3>1 DEF Starts
    <3> HIDE DEF del
    <3> QED BY <1>4, <1>5, <3>2 DEF SumGoes
  <2>4. CASE Save(c)
    <3>1. scall' = [scall EXCEPT ![c] = save] /\ stored > 0
      BY <1>2, <2>4 DEF Save, Starts
    <3>2. stored # 0
      BY <3>1
    <3> HIDE DEF save
    <3> QED BY <1>4, <1>5, <3>1, <3>2 DEF SumGoes
  <2> QED BY <2>1, <2>2, <2>3, <2>4
<1>7. UNCHANGED <<stored, meta, rows, vectors, recalls, sexcused, sdeleted, sreported>>
  BY <1>1 DEF sessionVars, quietStore
<1>8. SumTypeOK' /\ sops' # sops
  BY <1>1, <1>7, SumTypes, SumConstants DEF SumTypeOK
<1> HIDE DEF hash, look, del, save
<1> QED BY <1>1, <1>6, <1>7, <1>8, SilentKeeps

LEMMA ReadsKeep ==
    ASSUME SumInv, NEW c \in SumCalls, LookupHash(c) \/ FindExisting(c) \/ CheckRow(c) \/ Search(c)
    PROVE  SumInv'
<1> DEFINE o == scall[c]
<1>1. SumCallOK(o) /\ SumShape(o) /\ o.pc \in {"hash", "exist", "check", "look"}
  BY DEF SumInv, SumCallsOK, SumCallOK, LookupHash, FindExisting, CheckRow, Search, At
<1>2. UNCHANGED <<sessionVars, tasks, sops, rows, vectors, recalls, sexcused, sdeleted>>
  BY DEF LookupHash, FindExisting, CheckRow, Search, Moves, quietStore
<1>3. SumTypeOK'
  <2>1. sreported' \subseteq SumIds
    <3>1. CASE sreported' = sreported
      BY <3>1, SumTypes
    <3>2. CASE LookupHash(c) /\ rows[o.text] # 0 /\ sreported' = sreported \union {rows[o.text]}
      <4>1. o.text \in Texts
        BY <1>1, <3>2 DEF SumCallOK, LookupHash, At
      <4> QED BY <3>2, <4>1, SumTypes
    <3>3. CASE CheckRow(c) /\ o.id \in Rows /\ sreported' = sreported \union {o.id}
      BY <3>3, SumTypes
    <3> QED BY <3>1, <3>2, <3>3 DEF LookupHash, FindExisting, CheckRow, Search, quietStore
  <2> QED BY <1>2, <2>1, SumTypes DEF SumTypeOK, sessionVars
<1>4. ASSUME NEW r, Moves(c, r), SumCallOK(r), r.pc \notin {"vector", "hash"}, r.pc = "insert" => o.pc = "hash"
      PROVE  SumInv'
  <2>1. SumGoes(c, r) /\ UNCHANGED <<rows, vectors, sdeleted, recalls, sexcused, sops>>
    BY <1>2, <1>4 DEF SumGoes, Moves
  <2>2. r.pc # "vector" /\ o.pc # "drop" /\ (o.pc \in {"hash", "insert"} \/ r.pc \notin {"hash", "insert"})
    BY <1>1, <1>4
  <2> HIDE DEF SumGoes
  <2> QED BY <1>3, <2>1, <2>2, SilentKeeps
<1>5. CASE Moves(c, IdleSum)
  BY <1>4, <1>5, IdleIsOK
<1>6. CASE LookupHash(c) /\ Moves(c, [o EXCEPT !.pc = "insert"])
  <2> DEFINE r == [pc |-> "insert", kind |-> o.kind, text |-> o.text, id |-> o.id, got |-> o.got]
  <2>1. Moves(c, r)
    BY <1>1, <1>6, SumRecord
  <2>2. o.text \in Texts /\ o.pc = "hash"
    BY <1>1, <1>6 DEF SumCallOK, LookupHash, At
  <2>3. SumCallOK(r) /\ r.pc = "insert"
    BY <2>2 DEF SumCallOK, SumShape
  <2> HIDE DEF r
  <2> QED BY <1>4, <2>1, <2>2, <2>3
<1>7. CASE Moves(c, [o EXCEPT !.pc = "check", !.id = rows[o.text]])
  <2> DEFINE r == [pc |-> "check", kind |-> o.kind, text |-> o.text, id |-> rows[o.text], got |-> o.got]
  <2>1. Moves(c, r)
    <3>1. \A x : [o EXCEPT !.pc = "check", !.id = x] = [pc |-> "check", kind |-> o.kind, text |-> o.text, id |-> x, got |-> o.got]
      BY <1>1, SumRecord
    <3> QED BY <1>7, <3>1
  <2>2. SumCallOK(r) /\ r.pc = "check"
    BY DEF SumCallOK, SumShape
  <2> HIDE DEF r
  <2> QED BY <1>4, <2>1, <2>2
<1>8. ASSUME NEW got, got \subseteq SumIds, Moves(c, [o EXCEPT !.pc = "keep", !.got = got])
      PROVE  SumInv'
  <2> DEFINE r == [pc |-> "keep", kind |-> o.kind, text |-> o.text, id |-> o.id, got |-> got]
  <2>1. Moves(c, r)
    <3>1. \A x : [o EXCEPT !.pc = "keep", !.got = x] = [pc |-> "keep", kind |-> o.kind, text |-> o.text, id |-> o.id, got |-> x]
      BY <1>1, SumRecord
    <3> QED BY <1>8, <3>1
  <2>2. SumCallOK(r) /\ r.pc = "keep"
    BY <1>8 DEF SumCallOK, SumShape
  <2> HIDE DEF r
  <2> QED BY <1>4, <2>1, <2>2
<1>9. CASE LookupHash(c)
  BY <1>5, <1>6, <1>9 DEF LookupHash
<1>10. CASE FindExisting(c) \/ CheckRow(c)
  BY <1>5, <1>7, <1>10 DEF FindExisting, CheckRow
<1>11. CASE Search(c)
  <2>1. CASE recalls # NoRecall
    BY <1>5, <1>11, <2>1 DEF Search
  <2>2. CASE ~(recalls # NoRecall)
    <3>1. PICK found \in {Rows, {i \in SumIds : vectors[i] > 0}} : \E got \in SUBSET found :
              Moves(c, IF got = {} THEN IdleSum ELSE [o EXCEPT !.pc = "keep", !.got = got])
      BY <1>11, <2>2 DEF Search
    <3>2. PICK got \in SUBSET found :
              Moves(c, IF got = {} THEN IdleSum ELSE [o EXCEPT !.pc = "keep", !.got = got])
      BY <3>1
    <3>3. got \subseteq SumIds
      BY <3>1, <3>2, SumTypes
    <3> QED BY <1>5, <1>8, <3>2, <3>3
  <2> QED BY <2>1, <2>2
<1> QED BY <1>9, <1>10, <1>11

\* There is an id no row had.
LEMMA FreshId ==
    ASSUME SumInv, NEW c \in SumCalls, At(c, "insert")
    PROVE  \E n \in SumIds : n \notin UsedIds
<1>1. c \in Inserters /\ IsFiniteSet(Inserters) /\ Cardinality(Inserters) \in Nat
  BY InsertersFinite DEF At, Inserters
<1>2. Cardinality(Inserters) # 0
  BY <1>1, FS_EmptySet
<1>3. Cardinality(UsedIds) < SumOps
  BY <1>1, <1>2, UsedFinite, SumTypes, SumConstants DEF SumInv, IdsInv
<1>4. UsedIds # SumIds
  BY <1>3, UsedFinite, SumConstants
<1> QED BY <1>4, SumTypes

LEMMA InsertRowKeeps ==
    ASSUME SumInv, NEW c \in SumCalls, InsertRow(c)
    PROVE  SumInv'
<1> DEFINE o == scall[c]
           i == CHOOSE n \in SumIds : n \notin Rows \union sdeleted
<1>1. SumCallOK(o) /\ SumShape(o) /\ o.pc = "insert" /\ o.text \in Texts
  BY DEF SumInv, SumCallsOK, SumCallOK, InsertRow, At
<1>2. UNCHANGED <<sessionVars, tasks, sops, vectors, recalls, sexcused, sdeleted, sreported>>
  BY DEF InsertRow, Moves
<1>3. CASE rows[o.text] = 0
  <2> DEFINE r == [pc |-> "vector", kind |-> o.kind, text |-> o.text, id |-> i, got |-> o.got]
  <2>1. i \in SumIds /\ i \notin UsedIds
    BY <1>1, FreshId DEF At, UsedIds
  <2> HIDE DEF i
  <2>2. rows' = [rows EXCEPT ![o.text] = i] /\ Moves(c, [o EXCEPT !.pc = "vector", !.id = i])
    BY <1>3 DEF InsertRow, i
  <2>3. Moves(c, r)
    <3>1. \A x : [o EXCEPT !.pc = "vector", !.id = x] = [pc |-> "vector", kind |-> o.kind, text |-> o.text, id |-> x, got |-> o.got]
      BY <1>1, SumRecord
    <3> QED BY <2>2, <3>1
  <2>4. SumCallOK(r) /\ r.pc = "vector" /\ r.id = i
    BY <2>1 DEF SumCallOK, SumShape
  <2> HIDE DEF r
  <2>5. SumGoes(c, r)
    BY <2>3, <2>4 DEF SumGoes, Moves
  <2>6. SumCallsOK' /\ scall'[c] = r /\ \A d \in SumCalls : d # c => scall'[d] = scall[d]
    BY <2>5, SumGoesKeeps DEF SumInv
  <2>7. rows' \in [Texts -> SumIds \union {0}]
    BY <2>1, <2>2, SumTypes
  <2>8. Rows' = Rows \union {i}
    <3>1. 0 \notin SumIds
      BY SumConstants DEF SumIds
    <3>2. \A t \in Texts : rows'[t] = IF t = o.text THEN i ELSE rows[t]
      BY <2>2, SumTypes
    <3> QED BY <1>1, <1>3, <2>1, <3>1, <3>2 DEF Rows
  <2>9. UsedIds' = UsedIds \union {i}
    BY <1>2, <2>8 DEF UsedIds
  <2>10. VectorsInv'
    <3>1. vectors[i] = 0
      BY <2>1, SumTypes, SumConstants DEF SumInv, VectorsInv
    <3>2. \A d \in SumCalls : At(d, "vector")' /\ d # c => At(d, "vector") /\ scall'[d].id = scall[d].id /\ scall[d].id # i
      BY <2>1, <2>6 DEF At, SumInv, VectorsInv
    <3>3. \A j \in SumIds : vectors'[j] <= 1 /\ (vectors'[j] > 0 => j \in UsedIds')
      BY <1>2, <2>9 DEF SumInv, VectorsInv
    <3>4. \A d \in SumCalls : At(d, "vector")' => scall'[d].id \in UsedIds' /\ vectors'[scall'[d].id] = 0
      BY <1>2, <2>4, <2>6, <2>9, <3>1, <3>2 DEF SumInv, VectorsInv
    <3>5. \A d, e \in SumCalls : At(d, "vector")' /\ At(e, "vector")' /\ scall'[d].id = scall'[e].id => d = e
      BY <2>4, <2>6, <3>2 DEF SumInv, VectorsInv
    <3> QED BY <3>3, <3>4, <3>5 DEF VectorsInv
  <2>11. IdsInv'
    <3>1. Cardinality(Inserters') = Cardinality(Inserters) - 1 /\ Cardinality(Inserters) \in Nat
      BY <1>1, <2>4, <2>5, InsertersChange DEF SumInv
    <3>2. Cardinality(UsedIds') = Cardinality(UsedIds) + 1 /\ Cardinality(UsedIds) \in Nat
      BY <2>1, <2>9, UsedFinite, FS_AddElement
    <3> QED BY <1>2, <3>1, <3>2, SumTypes DEF SumInv, IdsInv
  <2>12. GoneFromRecall'
    BY <1>1, <1>2, <2>5, <2>8, GoneKeeps
  <2>13. SumTypeOK'
    BY <1>2, <2>7, SumTypes DEF SumTypeOK, sessionVars
  <2> QED BY <2>6, <2>10, <2>11, <2>12, <2>13 DEF SumInv
<1>4. CASE rows[o.text] # 0
  <2> DEFINE r == [pc |-> "exist", kind |-> o.kind, text |-> o.text, id |-> o.id, got |-> o.got]
  <2>1. rows' = rows /\ Moves(c, r)
    <3>1. [o EXCEPT !.pc = "exist"] = r
      BY <1>1, SumRecord
    <3> HIDE DEF r
    <3> QED BY <1>4, <3>1 DEF InsertRow
  <2>2. SumCallOK(r) /\ r.pc = "exist"
    BY <1>1 DEF SumCallOK, SumShape
  <2> HIDE DEF r
  <2>3. SumGoes(c, r)
    BY <2>1, <2>2 DEF SumGoes, Moves
  <2>4. SumTypeOK'
    BY <1>2, <2>1, SumTypes DEF SumTypeOK, sessionVars
  <2> QED BY <1>1, <1>2, <2>1, <2>2, <2>3, <2>4, SilentKeeps
<1> QED BY <1>3, <1>4

LEMMA InsertVectorKeeps ==
    ASSUME SumInv, NEW c \in SumCalls, InsertVector(c)
    PROVE  SumInv'
<1> DEFINE o == scall[c]
           r == [pc |-> "drop", kind |-> o.kind, text |-> o.text, id |-> o.id, got |-> o.got]
<1>1. SumCallOK(o) /\ SumShape(o) /\ o.pc = "vector" /\ o.id \in SumIds
  BY DEF SumInv, SumCallsOK, SumCallOK, InsertVector, At
<1>2. UNCHANGED <<sessionVars, tasks, sops, rows, recalls, sexcused, sdeleted, sreported>>
  BY DEF InsertVector, Moves
<1>3. Moves(c, r)
  BY <1>1, SumRecord DEF InsertVector
<1>4. SumCallOK(r) /\ r.pc = "drop"
  BY DEF SumCallOK, SumShape
<1> HIDE DEF r
<1>5. SumGoes(c, r)
  BY <1>3, <1>4 DEF SumGoes, Moves
<1>6. SumCallsOK' /\ scall'[c] = r /\ \A d \in SumCalls : d # c => scall'[d] = scall[d]
  BY <1>5, SumGoesKeeps DEF SumInv
<1>7. o.id \in UsedIds /\ vectors[o.id] = 0
  BY <1>1 DEF SumInv, VectorsInv, At
<1>8. \/ vectors' = vectors
      \/ vectors' = [vectors EXCEPT ![o.id] = 1]
  BY <1>1, <1>7, SumTypes DEF InsertVector
<1>9. \A j \in SumIds : vectors'[j] = vectors[j] \/ (j = o.id /\ vectors'[j] = 1)
  BY <1>1, <1>8, SumTypes
<1>10. SumOps >= 1
  BY <1>1, SumConstants DEF SumIds
<1>11. SumTypeOK'
  BY <1>2, <1>8, <1>10, SumTypes, SumConstants DEF SumTypeOK, sessionVars
<1>12. UsedIds' = UsedIds /\ Rows' = Rows
  BY <1>2 DEF UsedIds, Rows
<1>13. VectorsInv'
  <2>1. \A d \in SumCalls : At(d, "vector")' => d # c /\ At(d, "vector") /\ scall'[d].id = scall[d].id
    BY <1>4, <1>6 DEF At
  <2>2. \A d \in SumCalls : At(d, "vector")' => scall[d].id # o.id /\ scall[d].id \in SumIds
    BY <1>1, <2>1, SumTypes DEF SumInv, VectorsInv, At
  <2>3. \A j \in SumIds : vectors'[j] <= 1 /\ (vectors'[j] > 0 => j \in UsedIds')
    BY <1>7, <1>9, <1>12 DEF SumInv, VectorsInv
  <2>4. \A d \in SumCalls : At(d, "vector")' => scall'[d].id \in UsedIds' /\ vectors'[scall'[d].id] = 0
    BY <1>9, <1>12, <2>1, <2>2 DEF SumInv, VectorsInv
  <2>5. \A d, e \in SumCalls : At(d, "vector")' /\ At(e, "vector")' /\ scall'[d].id = scall'[e].id => d = e
    BY <2>1 DEF SumInv, VectorsInv
  <2> QED BY <2>3, <2>4, <2>5 DEF VectorsInv
<1>14. IdsInv'
  BY <1>1, <1>2, <1>4, <1>5, <1>12, UsedFinite, SumTypes, InsertersChange DEF SumInv, IdsInv
<1>15. GoneFromRecall'
  <2>1. \A j \in SumIds : vectors[j] > 0 => vectors'[j] > 0
    BY <1>9
  <2> QED BY <1>1, <1>2, <1>5, <1>12, <2>1, GoneKeeps
<1> QED BY <1>6, <1>11, <1>13, <1>14, <1>15 DEF SumInv

LEMMA CacheChangesKeep ==
    ASSUME SumInv, NEW c \in SumCalls, DropRecalls(c) \/ KeepAnswer(c)
    PROVE  SumInv'
<1> DEFINE o == scall[c]
<1>1. SumCallOK(o) /\ SumShape(o) /\ o.pc \in {"drop", "keep"} /\ (o.pc = "keep" => o.got \subseteq SumIds)
  BY DEF SumInv, SumCallsOK, SumCallOK, DropRecalls, KeepAnswer, At
<1>2. UNCHANGED <<sessionVars, tasks, sops, rows, vectors, sdeleted, sreported>>
  BY DEF DropRecalls, KeepAnswer, Moves
<1>3. PICK r : SumGoes(c, r) /\ r.pc \notin {"vector", "hash", "insert"}
  <2> DEFINE r == [pc |-> "check", kind |-> o.kind, text |-> o.text, id |-> o.id, got |-> o.got]
  <2>1. [o EXCEPT !.pc = "check"] = r
    BY <1>1, SumRecord
  <2>2. SumCallOK(r) /\ r.pc = "check"
    BY DEF SumCallOK, SumShape
  <2> HIDE DEF r
  <2>3. scall' = [scall EXCEPT ![c] = r] \/ scall' = [scall EXCEPT ![c] = IdleSum]
    BY <2>1 DEF DropRecalls, KeepAnswer, Moves
  <2> QED BY <2>2, <2>3, IdleIsOK DEF SumGoes
<1>4. recalls' = NoRecall \/ recalls' \subseteq SumIds
  BY <1>1, SumTypes DEF DropRecalls, KeepAnswer, At
<1>5. SumTypeOK'
  BY <1>2, <1>4, SumTypes DEF SumTypeOK, sessionVars
<1>6. SumCallsOK' /\ VectorsInv' /\ IdsInv'
  BY <1>2, <1>3, SumQuietKeeps
<1>7. GoneFromRecall'
  <2>1. CASE DropRecalls(c)
    BY <2>1 DEF DropRecalls, GoneFromRecall
  <2>2. CASE KeepAnswer(c)
    <3>1. ASSUME NEW i \in recalls' PROVE i \in Rows' \/ vectors'[i] > 0 \/ sexcused'
      <4>1. i \in o.got /\ i \in SumIds /\ Rows' = Rows /\ vectors' = vectors
        BY <1>1, <1>2, <2>2, <3>1 DEF KeepAnswer, Rows, At
      <4>2. vectors[i] > 0 \/ vectors[i] = 0
        BY <4>1, SumTypes, SumConstants
      <4>3. sexcused' = \E j \in o.got : j \notin Rows /\ vectors[j] = 0
        BY <2>2 DEF KeepAnswer
      <4> QED BY <4>1, <4>2, <4>3
    <3> QED BY <3>1 DEF GoneFromRecall
  <2> QED BY <2>1, <2>2
<1> QED BY <1>5, <1>6, <1>7 DEF SumInv

LEMMA DeleteRowKeeps ==
    ASSUME SumInv, NEW c \in SumCalls, DeleteRow(c)
    PROVE  SumInv'
<1> DEFINE o == scall[c]
<1>1. SumCallOK(o) /\ SumShape(o) /\ o.pc = "del" /\ o.kind = "delete"
  BY DEF SumInv, SumCallsOK, SumCallOK, DeleteRow, At
<1>2. UNCHANGED <<sessionVars, tasks, sops, vectors, recalls, sexcused, sreported>>
  BY DEF DeleteRow, Moves
<1>3. CASE o.id \in Rows
  <2> DEFINE r == [pc |-> "drop", kind |-> o.kind, text |-> o.text, id |-> o.id, got |-> o.got]
             t == TextOf(o.id)
  <2>1. rows' = [rows EXCEPT ![t] = 0] /\ sdeleted' = sdeleted \union {o.id} /\ Moves(c, r)
    <3>1. [o EXCEPT !.pc = "drop"] = r
      BY <1>1, SumRecord
    <3> HIDE DEF r
    <3> QED BY <1>3, <3>1 DEF DeleteRow
  <2>2. SumCallOK(r) /\ r.pc = "drop" /\ r.kind = "delete"
    BY <1>1 DEF SumCallOK, SumShape
  <2>3. t \in Texts /\ rows[t] = o.id
    BY <1>3 DEF Rows, TextOf
  <2> HIDE DEF r, t
  <2>4. SumGoes(c, r)
    BY <2>1, <2>2 DEF SumGoes, Moves
  <2>5. SumCallsOK' /\ scall'[c] = r /\ \A d \in SumCalls : d # c => scall'[d] = scall[d]
    BY <2>4, SumGoesKeeps DEF SumInv
  <2>6. rows' \in [Texts -> SumIds \union {0}] /\ sdeleted' \subseteq SumIds
    BY <1>3, <2>1, SumTypes
  <2>7. UsedIds' = UsedIds
    <3>1. \A s \in Texts : rows'[s] = IF s = t THEN 0 ELSE rows[s]
      BY <2>1, SumTypes
    <3>2. Rows' \subseteq Rows /\ Rows \subseteq Rows' \union {o.id}
      BY <2>3, <3>1 DEF Rows
    <3> QED BY <1>3, <2>1, <3>2 DEF UsedIds
  <2>8. VectorsInv'
    <3>1. \A d \in SumCalls : At(d, "vector")' => d # c /\ At(d, "vector") /\ scall'[d] = scall[d]
      BY <2>2, <2>5 DEF At
    <3> QED BY <1>2, <2>7, <3>1 DEF SumInv, VectorsInv
  <2>9. IdsInv'
    BY <1>1, <1>2, <2>2, <2>4, <2>7, UsedFinite, SumTypes, InsertersChange DEF SumInv, IdsInv
  <2>10. GoneFromRecall'
    BY <2>2, <2>5 DEF GoneFromRecall, At
  <2>11. SumTypeOK'
    BY <1>2, <2>6, SumTypes DEF SumTypeOK, sessionVars
  <2> QED BY <2>5, <2>8, <2>9, <2>10, <2>11 DEF SumInv
<1>4. CASE o.id \notin Rows
  <2>1. UNCHANGED <<rows, sdeleted>> /\ Moves(c, IdleSum)
    BY <1>4 DEF DeleteRow
  <2>2. SumGoes(c, IdleSum)
    BY <2>1, IdleIsOK DEF SumGoes, Moves
  <2>3. SumTypeOK'
    BY <1>2, <2>1, SumTypes DEF SumTypeOK, sessionVars
  <2> QED BY <1>1, <1>2, <2>1, <2>2, <2>3, IdleIsOK, SilentKeeps
<1> QED BY <1>3, <1>4

LEMMA SumStep == ASSUME SumInv, SummariesNext PROVE SumInv'
<1>1. CASE SessionStart \/ TurnComplete \/ StoreMessages \/ SessionEnd \/ MetaExpires \/ AnswerExpires
  BY <1>1, SessionKeeps
<1>2. ASSUME NEW c \in SumCalls,
             \/ HandleTask(c) \/ Recall(c) \/ Delete(c) \/ Save(c) \/ LookupHash(c) \/ InsertRow(c) \/ FindExisting(c)
             \/ InsertVector(c) \/ DropRecalls(c) \/ CheckRow(c) \/ DeleteRow(c) \/ Search(c) \/ KeepAnswer(c)
      PROVE  SumInv'
  BY <1>2, BeginSumKeeps, ReadsKeep, InsertRowKeeps, InsertVectorKeeps, CacheChangesKeep, DeleteRowKeeps
<1> QED BY <1>1, <1>2 DEF SummariesNext

LEMMA SumStart == SumInit => SumInv
<1> SUFFICES ASSUME SumInit PROVE SumInv
  OBVIOUS
<1>1. SumTypeOK
  BY SumConstants DEF SumInit, SumTypeOK, NoRecall
<1>2. SumCallsOK
  BY IdleIsOK DEF SumInit, SumCallsOK
<1>3. \A c \in SumCalls : scall[c].pc = "idle"
  BY IdleIsOK DEF SumInit
<1>4. UsedIds = {} /\ Inserters = {}
  BY <1>3 DEF SumInit, UsedIds, Rows, Inserters
<1>5. IdsInv
  BY <1>4, FS_EmptySet DEF SumInit, IdsInv
<1>6. VectorsInv
  BY <1>3 DEF SumInit, VectorsInv, At
<1>7. GoneFromRecall
  BY DEF SumInit, GoneFromRecall
<1> QED BY <1>1, <1>2, <1>5, <1>6, <1>7 DEF SumInv

LEMMA SumInvSuffices == SumInv => SumTypeOK /\ VectorsOnce /\ GoneFromRecall
BY SMTT(30) DEF SumInv, VectorsInv, VectorsOnce

\* What a step adds to the reports has a row.
LEMMA ReportStep == ASSUME SumInv, SummariesNext PROVE sreported' \ sreported \subseteq Rows
<1>1. ASSUME NEW c \in SumCalls, LookupHash(c) PROVE sreported' \ sreported \subseteq Rows
  <2>1. CASE UNCHANGED sreported
    BY <2>1
  <2>2. CASE rows[scall[c].text] # 0 /\ sreported' = sreported \union {rows[scall[c].text]}
    <3>1. scall[c].text \in Texts
      BY <1>1 DEF SumInv, SumCallsOK, SumCallOK, LookupHash, At
    <3>2. rows[scall[c].text] \in Rows
      BY <2>2, <3>1 DEF Rows
    <3> QED BY <2>2, <3>2
  <2> QED BY <1>1, <2>1, <2>2 DEF LookupHash
<1>2. ASSUME NEW c \in SumCalls, CheckRow(c) PROVE sreported' \ sreported \subseteq Rows
  BY <1>2 DEF CheckRow
<1>3. CASE UNCHANGED sreported
  BY <1>3
<1> QED BY <1>1, <1>2, <1>3
        DEF SummariesNext, SessionStart, TurnComplete, StoreMessages, SessionEnd, MetaExpires, AnswerExpires, storeVars,
            quietStore, HandleTask, Recall, Delete, Save, InsertRow, FindExisting, InsertVector, DropRecalls,
            DeleteRow, Search, KeepAnswer

LEMMA SumRest == ASSUME SumInv, UNCHANGED smVars PROVE SumInv'
BY DEF smVars, SumInv, SumTypeOK, SumCallsOK, VectorsInv, IdsInv, GoneFromRecall, UsedIds, Rows, Inserters, At

----------------------------------------------------------------------------
(* The card.                                                               *)

CallShape(r) ==
    r = [pc |-> r.pc, kind |-> r.kind, item |-> r.item, source |-> r.source, low |-> r.low, seen |-> r.seen,
         shown |-> r.shown, todo |-> r.todo, id |-> r.id, fresh |-> r.fresh, old |-> r.old]

\* Fields are set one at a time; the others stay.
SetPc(r, x) == [r EXCEPT !.pc = x]
SetKind(r, x) == [r EXCEPT !.kind = x]
SetItem(r, x) == [r EXCEPT !.item = x]
SetSource(r, x) == [r EXCEPT !.source = x]
SetLow(r, x) == [r EXCEPT !.low = x]
SetSeen(r, x) == [r EXCEPT !.seen = x]
SetShown(r, x) == [r EXCEPT !.shown = x]
SetTodo(r, x) == [r EXCEPT !.todo = x]
SetId(r, x) == [r EXCEPT !.id = x]
SetFresh(r, x) == [r EXCEPT !.fresh = x]
SetOld(r, x) == [r EXCEPT !.old = x]
Keeps(s, r, set) ==
    /\ CallShape(s)
    /\ ("pc" \in set \/ s.pc = r.pc) /\ ("kind" \in set \/ s.kind = r.kind) /\ ("item" \in set \/ s.item = r.item)
    /\ ("source" \in set \/ s.source = r.source) /\ ("low" \in set \/ s.low = r.low) /\ ("seen" \in set \/ s.seen = r.seen)
    /\ ("shown" \in set \/ s.shown = r.shown) /\ ("todo" \in set \/ s.todo = r.todo) /\ ("id" \in set \/ s.id = r.id)
    /\ ("fresh" \in set \/ s.fresh = r.fresh) /\ ("old" \in set \/ s.old = r.old)

LEMMA SetsPc == ASSUME NEW r, CallShape(r), NEW x PROVE Keeps(SetPc(r, x), r, {"pc"}) /\ SetPc(r, x).pc = x
<1> DEFINE s == SetPc(r, x)
<1>1. s = [pc |-> x, kind |-> r.kind, item |-> r.item, source |-> r.source, low |-> r.low, seen |-> r.seen,
           shown |-> r.shown, todo |-> r.todo, id |-> r.id, fresh |-> r.fresh, old |-> r.old]
  BY DEF SetPc, CallShape
<1> HIDE DEF s
<1>2. Keeps(s, r, {"pc"}) /\ s.pc = x
  BY <1>1 DEF CallShape, Keeps
<1> QED BY <1>2 DEF s

LEMMA SetsKind == ASSUME NEW r, CallShape(r), NEW x PROVE Keeps(SetKind(r, x), r, {"kind"}) /\ SetKind(r, x).kind = x
<1> DEFINE s == SetKind(r, x)
<1>1. s = [pc |-> r.pc, kind |-> x, item |-> r.item, source |-> r.source, low |-> r.low, seen |-> r.seen,
           shown |-> r.shown, todo |-> r.todo, id |-> r.id, fresh |-> r.fresh, old |-> r.old]
  BY DEF SetKind, CallShape
<1> HIDE DEF s
<1>2. Keeps(s, r, {"kind"}) /\ s.kind = x
  BY <1>1 DEF CallShape, Keeps
<1> QED BY <1>2 DEF s

LEMMA SetsItem == ASSUME NEW r, CallShape(r), NEW x PROVE Keeps(SetItem(r, x), r, {"item"}) /\ SetItem(r, x).item = x
<1> DEFINE s == SetItem(r, x)
<1>1. s = [pc |-> r.pc, kind |-> r.kind, item |-> x, source |-> r.source, low |-> r.low, seen |-> r.seen,
           shown |-> r.shown, todo |-> r.todo, id |-> r.id, fresh |-> r.fresh, old |-> r.old]
  BY DEF SetItem, CallShape
<1> HIDE DEF s
<1>2. Keeps(s, r, {"item"}) /\ s.item = x
  BY <1>1 DEF CallShape, Keeps
<1> QED BY <1>2 DEF s

LEMMA SetsSource == ASSUME NEW r, CallShape(r), NEW x PROVE Keeps(SetSource(r, x), r, {"source"}) /\ SetSource(r, x).source = x
<1> DEFINE s == SetSource(r, x)
<1>1. s = [pc |-> r.pc, kind |-> r.kind, item |-> r.item, source |-> x, low |-> r.low, seen |-> r.seen,
           shown |-> r.shown, todo |-> r.todo, id |-> r.id, fresh |-> r.fresh, old |-> r.old]
  BY DEF SetSource, CallShape
<1> HIDE DEF s
<1>2. Keeps(s, r, {"source"}) /\ s.source = x
  BY <1>1 DEF CallShape, Keeps
<1> QED BY <1>2 DEF s

LEMMA SetsLow == ASSUME NEW r, CallShape(r), NEW x PROVE Keeps(SetLow(r, x), r, {"low"}) /\ SetLow(r, x).low = x
<1> DEFINE s == SetLow(r, x)
<1>1. s = [pc |-> r.pc, kind |-> r.kind, item |-> r.item, source |-> r.source, low |-> x, seen |-> r.seen,
           shown |-> r.shown, todo |-> r.todo, id |-> r.id, fresh |-> r.fresh, old |-> r.old]
  BY DEF SetLow, CallShape
<1> HIDE DEF s
<1>2. Keeps(s, r, {"low"}) /\ s.low = x
  BY <1>1 DEF CallShape, Keeps
<1> QED BY <1>2 DEF s

LEMMA SetsSeen == ASSUME NEW r, CallShape(r), NEW x PROVE Keeps(SetSeen(r, x), r, {"seen"}) /\ SetSeen(r, x).seen = x
<1> DEFINE s == SetSeen(r, x)
<1>1. s = [pc |-> r.pc, kind |-> r.kind, item |-> r.item, source |-> r.source, low |-> r.low, seen |-> x,
           shown |-> r.shown, todo |-> r.todo, id |-> r.id, fresh |-> r.fresh, old |-> r.old]
  BY DEF SetSeen, CallShape
<1> HIDE DEF s
<1>2. Keeps(s, r, {"seen"}) /\ s.seen = x
  BY <1>1 DEF CallShape, Keeps
<1> QED BY <1>2 DEF s

LEMMA SetsShown == ASSUME NEW r, CallShape(r), NEW x PROVE Keeps(SetShown(r, x), r, {"shown"}) /\ SetShown(r, x).shown = x
<1> DEFINE s == SetShown(r, x)
<1>1. s = [pc |-> r.pc, kind |-> r.kind, item |-> r.item, source |-> r.source, low |-> r.low, seen |-> r.seen,
           shown |-> x, todo |-> r.todo, id |-> r.id, fresh |-> r.fresh, old |-> r.old]
  BY DEF SetShown, CallShape
<1> HIDE DEF s
<1>2. Keeps(s, r, {"shown"}) /\ s.shown = x
  BY <1>1 DEF CallShape, Keeps
<1> QED BY <1>2 DEF s

LEMMA SetsTodo == ASSUME NEW r, CallShape(r), NEW x PROVE Keeps(SetTodo(r, x), r, {"todo"}) /\ SetTodo(r, x).todo = x
<1> DEFINE s == SetTodo(r, x)
<1>1. s = [pc |-> r.pc, kind |-> r.kind, item |-> r.item, source |-> r.source, low |-> r.low, seen |-> r.seen,
           shown |-> r.shown, todo |-> x, id |-> r.id, fresh |-> r.fresh, old |-> r.old]
  BY DEF SetTodo, CallShape
<1> HIDE DEF s
<1>2. Keeps(s, r, {"todo"}) /\ s.todo = x
  BY <1>1 DEF CallShape, Keeps
<1> QED BY <1>2 DEF s

LEMMA SetsId == ASSUME NEW r, CallShape(r), NEW x PROVE Keeps(SetId(r, x), r, {"id"}) /\ SetId(r, x).id = x
<1> DEFINE s == SetId(r, x)
<1>1. s = [pc |-> r.pc, kind |-> r.kind, item |-> r.item, source |-> r.source, low |-> r.low, seen |-> r.seen,
           shown |-> r.shown, todo |-> r.todo, id |-> x, fresh |-> r.fresh, old |-> r.old]
  BY DEF SetId, CallShape
<1> HIDE DEF s
<1>2. Keeps(s, r, {"id"}) /\ s.id = x
  BY <1>1 DEF CallShape, Keeps
<1> QED BY <1>2 DEF s

LEMMA SetsFresh == ASSUME NEW r, CallShape(r), NEW x PROVE Keeps(SetFresh(r, x), r, {"fresh"}) /\ SetFresh(r, x).fresh = x
<1> DEFINE s == SetFresh(r, x)
<1>1. s = [pc |-> r.pc, kind |-> r.kind, item |-> r.item, source |-> r.source, low |-> r.low, seen |-> r.seen,
           shown |-> r.shown, todo |-> r.todo, id |-> r.id, fresh |-> x, old |-> r.old]
  BY DEF SetFresh, CallShape
<1> HIDE DEF s
<1>2. Keeps(s, r, {"fresh"}) /\ s.fresh = x
  BY <1>1 DEF CallShape, Keeps
<1> QED BY <1>2 DEF s

LEMMA SetsOld == ASSUME NEW r, CallShape(r), NEW x PROVE Keeps(SetOld(r, x), r, {"old"}) /\ SetOld(r, x).old = x
<1> DEFINE s == SetOld(r, x)
<1>1. s = [pc |-> r.pc, kind |-> r.kind, item |-> r.item, source |-> r.source, low |-> r.low, seen |-> r.seen,
           shown |-> r.shown, todo |-> r.todo, id |-> r.id, fresh |-> r.fresh, old |-> x]
  BY DEF SetOld, CallShape
<1> HIDE DEF s
<1>2. Keeps(s, r, {"old"}) /\ s.old = x
  BY <1>1 DEF CallShape, Keeps
<1> QED BY <1>2 DEF s

LEMMA KeepsOn ==
    ASSUME NEW r, NEW s, NEW t, NEW f, NEW g, Keeps(s, r, f), Keeps(t, s, g)
    PROVE  Keeps(t, r, f \union g)
BY DEF Keeps

LEMMA KeepsShape == ASSUME NEW s, NEW r, NEW f, Keeps(s, r, f) PROVE CallShape(s)
BY DEF Keeps

\* Several fields, one after the other.
LEMMA SetsPcKind ==
    ASSUME NEW r, CallShape(r), NEW x, NEW y, NEW q, q = SetKind(SetPc(r, x), y)
    PROVE  Keeps(q, r, {"pc", "kind"}) /\ q.pc = x /\ q.kind = y
<1> DEFINE s1 == SetPc(r, x)
<1>1. Keeps(s1, r, {"pc"}) /\ s1.pc = x
  BY SetsPc, KeepsShape
<1> HIDE DEF s1
<1>2. Keeps(q, s1, {"kind"}) /\ q.kind = y
  BY <1>1, SetsKind, KeepsShape DEF s1
<1> QED BY <1>1, <1>2 DEF Keeps
LEMMA SetsPcKindTodo ==
    ASSUME NEW r, CallShape(r), NEW x, NEW y, NEW z, NEW q, q = SetTodo(SetKind(SetPc(r, x), y), z)
    PROVE  Keeps(q, r, {"pc", "kind", "todo"}) /\ q.pc = x /\ q.kind = y /\ q.todo = z
<1> DEFINE s1 == SetPc(r, x)
<1>1. Keeps(s1, r, {"pc"}) /\ s1.pc = x
  BY SetsPc, KeepsShape
<1> HIDE DEF s1
<1> DEFINE s2 == SetKind(s1, y)
<1>2. Keeps(s2, s1, {"kind"}) /\ s2.kind = y
  BY <1>1, SetsKind, KeepsShape
<1> HIDE DEF s2
<1>3. Keeps(q, s2, {"todo"}) /\ q.todo = z
  BY <1>2, SetsTodo, KeepsShape DEF s1, s2
<1> QED BY <1>1, <1>2, <1>3 DEF Keeps
LEMMA SetsPcKindId ==
    ASSUME NEW r, CallShape(r), NEW x, NEW y, NEW z, NEW q, q = SetId(SetKind(SetPc(r, x), y), z)
    PROVE  Keeps(q, r, {"pc", "kind", "id"}) /\ q.pc = x /\ q.kind = y /\ q.id = z
<1> DEFINE s1 == SetPc(r, x)
<1>1. Keeps(s1, r, {"pc"}) /\ s1.pc = x
  BY SetsPc, KeepsShape
<1> HIDE DEF s1
<1> DEFINE s2 == SetKind(s1, y)
<1>2. Keeps(s2, s1, {"kind"}) /\ s2.kind = y
  BY <1>1, SetsKind, KeepsShape
<1> HIDE DEF s2
<1>3. Keeps(q, s2, {"id"}) /\ q.id = z
  BY <1>2, SetsId, KeepsShape DEF s1, s2
<1> QED BY <1>1, <1>2, <1>3 DEF Keeps
LEMMA SetsPcKindItemSource ==
    ASSUME NEW r, CallShape(r), NEW x, NEW y, NEW z, NEW v, NEW q, q = SetSource(SetItem(SetKind(SetPc(r, x), y), z), v)
    PROVE  Keeps(q, r, {"pc", "kind", "item", "source"}) /\ q.pc = x /\ q.kind = y /\ q.item = z /\ q.source = v
<1> DEFINE s1 == SetPc(r, x)
<1>1. Keeps(s1, r, {"pc"}) /\ s1.pc = x
  BY SetsPc, KeepsShape
<1> HIDE DEF s1
<1> DEFINE s2 == SetKind(s1, y)
<1>2. Keeps(s2, s1, {"kind"}) /\ s2.kind = y
  BY <1>1, SetsKind, KeepsShape
<1> HIDE DEF s2
<1> DEFINE s3 == SetItem(s2, z)
<1>3. Keeps(s3, s2, {"item"}) /\ s3.item = z
  BY <1>2, SetsItem, KeepsShape
<1> HIDE DEF s3
<1>4. Keeps(q, s3, {"source"}) /\ q.source = v
  BY <1>3, SetsSource, KeepsShape DEF s1, s2, s3
<1> QED BY <1>1, <1>2, <1>3, <1>4 DEF Keeps
LEMMA SetsPcKindItemSourceLow ==
    ASSUME NEW r, CallShape(r), NEW x, NEW y, NEW z, NEW v, NEW w, NEW q, q = SetLow(SetSource(SetItem(SetKind(SetPc(r, x), y), z), v), w)
    PROVE  Keeps(q, r, {"pc", "kind", "item", "source", "low"}) /\ q.pc = x /\ q.kind = y /\ q.item = z /\ q.source = v /\ q.low = w
<1> DEFINE s1 == SetPc(r, x)
<1>1. Keeps(s1, r, {"pc"}) /\ s1.pc = x
  BY SetsPc, KeepsShape
<1> HIDE DEF s1
<1> DEFINE s2 == SetKind(s1, y)
<1>2. Keeps(s2, s1, {"kind"}) /\ s2.kind = y
  BY <1>1, SetsKind, KeepsShape
<1> HIDE DEF s2
<1> DEFINE s3 == SetItem(s2, z)
<1>3. Keeps(s3, s2, {"item"}) /\ s3.item = z
  BY <1>2, SetsItem, KeepsShape
<1> HIDE DEF s3
<1> DEFINE s4 == SetSource(s3, v)
<1>4. Keeps(s4, s3, {"source"}) /\ s4.source = v
  BY <1>3, SetsSource, KeepsShape
<1> HIDE DEF s4
<1>5. Keeps(q, s4, {"low"}) /\ q.low = w
  BY <1>4, SetsLow, KeepsShape DEF s1, s2, s3, s4
<1> QED BY <1>1, <1>2, <1>3, <1>4, <1>5 DEF Keeps
LEMMA SetsPcItemSourceLow ==
    ASSUME NEW r, CallShape(r), NEW x, NEW y, NEW z, NEW v, NEW q, q = SetLow(SetSource(SetItem(SetPc(r, x), y), z), v)
    PROVE  Keeps(q, r, {"pc", "item", "source", "low"}) /\ q.pc = x /\ q.item = y /\ q.source = z /\ q.low = v
<1> DEFINE s1 == SetPc(r, x)
<1>1. Keeps(s1, r, {"pc"}) /\ s1.pc = x
  BY SetsPc, KeepsShape
<1> HIDE DEF s1
<1> DEFINE s2 == SetItem(s1, y)
<1>2. Keeps(s2, s1, {"item"}) /\ s2.item = y
  BY <1>1, SetsItem, KeepsShape
<1> HIDE DEF s2
<1> DEFINE s3 == SetSource(s2, z)
<1>3. Keeps(s3, s2, {"source"}) /\ s3.source = z
  BY <1>2, SetsSource, KeepsShape
<1> HIDE DEF s3
<1>4. Keeps(q, s3, {"low"}) /\ q.low = v
  BY <1>3, SetsLow, KeepsShape DEF s1, s2, s3
<1> QED BY <1>1, <1>2, <1>3, <1>4 DEF Keeps
LEMMA SetsPcTodo ==
    ASSUME NEW r, CallShape(r), NEW x, NEW y, NEW q, q = SetTodo(SetPc(r, x), y)
    PROVE  Keeps(q, r, {"pc", "todo"}) /\ q.pc = x /\ q.todo = y
<1> DEFINE s1 == SetPc(r, x)
<1>1. Keeps(s1, r, {"pc"}) /\ s1.pc = x
  BY SetsPc, KeepsShape
<1> HIDE DEF s1
<1>2. Keeps(q, s1, {"todo"}) /\ q.todo = y
  BY <1>1, SetsTodo, KeepsShape DEF s1
<1> QED BY <1>1, <1>2 DEF Keeps
LEMMA SetsPcTodoOld ==
    ASSUME NEW r, CallShape(r), NEW x, NEW y, NEW z, NEW q, q = SetOld(SetTodo(SetPc(r, x), y), z)
    PROVE  Keeps(q, r, {"pc", "todo", "old"}) /\ q.pc = x /\ q.todo = y /\ q.old = z
<1> DEFINE s1 == SetPc(r, x)
<1>1. Keeps(s1, r, {"pc"}) /\ s1.pc = x
  BY SetsPc, KeepsShape
<1> HIDE DEF s1
<1> DEFINE s2 == SetTodo(s1, y)
<1>2. Keeps(s2, s1, {"todo"}) /\ s2.todo = y
  BY <1>1, SetsTodo, KeepsShape
<1> HIDE DEF s2
<1>3. Keeps(q, s2, {"old"}) /\ q.old = z
  BY <1>2, SetsOld, KeepsShape DEF s1, s2
<1> QED BY <1>1, <1>2, <1>3 DEF Keeps
LEMMA SetsPcShownFresh ==
    ASSUME NEW r, CallShape(r), NEW x, NEW y, NEW z, NEW q, q = SetFresh(SetShown(SetPc(r, x), y), z)
    PROVE  Keeps(q, r, {"pc", "shown", "fresh"}) /\ q.pc = x /\ q.shown = y /\ q.fresh = z
<1> DEFINE s1 == SetPc(r, x)
<1>1. Keeps(s1, r, {"pc"}) /\ s1.pc = x
  BY SetsPc, KeepsShape
<1> HIDE DEF s1
<1> DEFINE s2 == SetShown(s1, y)
<1>2. Keeps(s2, s1, {"shown"}) /\ s2.shown = y
  BY <1>1, SetsShown, KeepsShape
<1> HIDE DEF s2
<1>3. Keeps(q, s2, {"fresh"}) /\ q.fresh = z
  BY <1>2, SetsFresh, KeepsShape DEF s1, s2
<1> QED BY <1>1, <1>2, <1>3 DEF Keeps
LEMMA SetsPcSeen ==
    ASSUME NEW r, CallShape(r), NEW x, NEW y, NEW q, q = SetSeen(SetPc(r, x), y)
    PROVE  Keeps(q, r, {"pc", "seen"}) /\ q.pc = x /\ q.seen = y
<1> DEFINE s1 == SetPc(r, x)
<1>1. Keeps(s1, r, {"pc"}) /\ s1.pc = x
  BY SetsPc, KeepsShape
<1> HIDE DEF s1
<1>2. Keeps(q, s1, {"seen"}) /\ q.seen = y
  BY <1>1, SetsSeen, KeepsShape DEF s1
<1> QED BY <1>1, <1>2 DEF Keeps
LEMMA SetsPcId ==
    ASSUME NEW r, CallShape(r), NEW x, NEW y, NEW q, q = SetId(SetPc(r, x), y)
    PROVE  Keeps(q, r, {"pc", "id"}) /\ q.pc = x /\ q.id = y
<1> DEFINE s1 == SetPc(r, x)
<1>1. Keeps(s1, r, {"pc"}) /\ s1.pc = x
  BY SetsPc, KeepsShape
<1> HIDE DEF s1
<1>2. Keeps(q, s1, {"id"}) /\ q.id = y
  BY <1>1, SetsId, KeepsShape DEF s1
<1> QED BY <1>1, <1>2 DEF Keeps

\* A writer that saw a confirmed row has a confirmed or a derived value of its own.
MayWrite(r) == r.pc = "write" => r.seen.source # "user_confirmed" \/ r.source \in {"user_confirmed", "derived"}

\* A whole card; what a call carries where it is used.
WholeCard(f) == DOMAIN f = CardItems /\ \A i \in CardItems : f[i] # Missing => f[i].source \in Sources
Fits(r) ==
    /\ CallShape(r) /\ MayWrite(r)
    /\ r.pc \in {"read", "detect", "write"} => r.item \in CardItems /\ r.source \in Sources
    /\ r.pc \in {"store", "list", "close", "unlist"} => r.id \in Conflicts
    /\ r.pc = "fill" => WholeCard(r.shown)
    /\ r.kind = "clear" => r.pc \in {"get", "fill", "del", "inv", "cleared"}
    /\ r.pc = "cleared" => r.kind = "clear" /\ r.todo = {}
CallsFit ==
    /\ DOMAIN call = CardCalls /\ \A c \in CardCalls : Fits(call[c])
    /\ WholeCard(card) /\ (cached = NoCard \/ WholeCard(cached))

ConflictKeys == {Key(d) : d \in Conflicts}
IdsFit ==
    /\ pending \subseteq Conflicts /\ plisted \subseteq ConflictKeys
    /\ raised \subseteq Conflicts /\ told \subseteq Conflicts /\ settled \subseteq Conflicts /\ crossed \subseteq Conflicts
    /\ csecond \in 0..CardSeconds /\ cops \in 0..CardOps /\ evicting.pc \in {"idle", "delete", "inv"}

\* Versions and counts grow once in a call, when it has looked for conflicts; a derived value
\* goes over a confirmed one when it has come up twice.
PreDetect == {"get", "fill", "read", "detect", "close", "unlist"}
Detecters == {c \in CardCalls : call[c].pc \in PreDetect}
Spent == cops - Cardinality(Detecters)
Twice(r, n) == r.seen.source = "user_confirmed" /\ r.source = "derived" => n[r.item] >= 2
RowFits(x, n) == x = Missing \/ x.version \in 1..n
CountsFit ==
    /\ Spent \in 0..cops
    /\ \A i \in CardItems : RowFits(card[i], Spent + 1)
    /\ derivedCount \in [CardItems -> Nat] /\ \A i \in CardItems : derivedCount[i] <= Spent
    /\ \A c \in CardCalls : /\ call[c].pc = "detect" => RowFits(call[c].seen, Spent + 1)
                            /\ call[c].pc = "write" => RowFits(call[c].seen, Spent) /\ Twice(call[c], derivedCount)

\* Records, and the conflicts that are told or decided, were raised; one on its way to the
\* list has its record, or was decided meanwhile, or shares its id.
ListedFits ==
    /\ pending \subseteq raised /\ told \subseteq raised
    /\ \A c \in CardCalls : /\ call[c].pc \in {"list", "close", "unlist"} => call[c].id \in raised
                            /\ call[c].pc = "list" => call[c].id \in pending \union settled \/ SharesKey(call[c].id)

\* What clear_all has still to delete, of a card that was not stale.
Clearing(r, f) ==
    r.kind = "clear" =>
        /\ r.pc = "fill" => \A i \in CardItems : f[i] # Missing => r.shown[i] # Missing \/ i \in r.fresh
        /\ r.pc \in {"del", "inv", "cleared"} =>
              r.old \/ \A i \in CardItems : f[i] # Missing => i \in r.todo \/ i \in r.fresh
ClearsAll == \A c \in CardCalls : Clearing(call[c], card)

CardInv ==
    /\ CallsFit /\ IdsFit /\ CountsFit /\ StaleCardIsExplained /\ ToldConflictsWait /\ ListedFits /\ ClearsAll

LEMMA CardConstants == IsFiniteSet(CardCalls) /\ CardStart \subseteq CardItems /\ CardOps \in Nat /\ CardSeconds \in Nat
BY CardAssumption DEF CardAssumption

LEMMA IdleFits == Fits(IdleCall) /\ CallShape(IdleCall) /\ IdleCall.pc = "idle" /\ IdleCall.kind = "none"
<1>1. CallShape(IdleCall) /\ IdleCall.pc = "idle" /\ IdleCall.kind = "none"
  BY DEF IdleCall, CallShape
<1> QED BY <1>1 DEF Fits, MayWrite

\* One call goes on as q.
Turns(c, q) == DOMAIN call' = CardCalls /\ call'[c] = q /\ \A d \in CardCalls : d # c => call'[d] = call[d]

LEMMA TurnIs ==
    ASSUME CallsFit, NEW c \in CardCalls, NEW q, call' = [call EXCEPT ![c] = q]
    PROVE  Turns(c, q)
BY DEF CallsFit, Turns

LEMMA TurnFits ==
    ASSUME CallsFit, NEW c \in CardCalls, NEW q, Turns(c, q), Fits(q),
           WholeCard(card'), cached' = NoCard \/ WholeCard(cached')
    PROVE  CallsFit'
<1>1. \A d \in CardCalls : Fits(call'[d])
  BY DEF CallsFit, Turns
<1>2. \A d \in CardCalls : Fits(call[d])'
  BY <1>1 DEF Fits, CallShape, MayWrite, WholeCard
<1> QED BY <1>2 DEF CallsFit, Turns, WholeCard

LEMMA OneMoreAtMost ==
    ASSUME NEW S, IsFiniteSet(S), NEW x, NEW T, T \subseteq S \union {x}
    PROVE  Cardinality(T) <= Cardinality(S) + 1
<1>1. IsFiniteSet(S \union {x}) /\ Cardinality(S \union {x}) <= Cardinality(S) + 1 /\ Cardinality(S) \in Nat
  BY FS_AddElement, FS_CardinalityType
<1>2. Cardinality(T) <= Cardinality(S \union {x}) /\ Cardinality(T) \in Nat /\ Cardinality(S \union {x}) \in Nat
  BY <1>1, FS_Subset, FS_CardinalityType
<1> QED BY <1>1, <1>2

LEMMA DetectersFinite ==
    ASSUME NEW f
    PROVE  LET a == {c \in CardCalls : f[c].pc \in PreDetect} IN IsFiniteSet(a) /\ Cardinality(a) \in Nat
<1> DEFINE a == {c \in CardCalls : f[c].pc \in PreDetect}
<1>1. IsFiniteSet(a)
  BY CardConstants, FS_Subset
<1> QED BY <1>1, FS_CardinalityType

\* What a turn does to the number of calls that are spent.
LEMMA TurnSpends ==
    ASSUME CardInv, NEW c \in CardCalls, NEW q, Turns(c, q), cops' \in {cops, cops + 1},
           cops' = cops => call[c].pc \in PreDetect \/ q.pc \notin PreDetect
    PROVE  /\ Spent \in Nat /\ Spent' \in Nat /\ Spent' >= Spent /\ Spent' <= cops'
           /\ cops' = cops /\ call[c].pc \in PreDetect /\ q.pc \notin PreDetect => Spent' = Spent + 1
<1>0. cops \in Nat /\ Spent \in Nat
  BY CardConstants DEF CardInv, IdsFit, CountsFit
<1>1. IsFiniteSet(Detecters) /\ Cardinality(Detecters) \in Nat
  BY DetectersFinite DEF Detecters
<1>2. IsFiniteSet(Detecters') /\ Cardinality(Detecters') \in Nat
  BY DetectersFinite DEF Detecters
<1>3. Detecters' \subseteq Detecters \union {c}
  BY DEF Detecters, Turns
<1>4. Cardinality(Detecters') <= Cardinality(Detecters) + 1
  BY <1>1, <1>3, OneMoreAtMost
<1>5. call[c].pc \in PreDetect \/ q.pc \notin PreDetect => Cardinality(Detecters') <= Cardinality(Detecters)
  <2>1. call[c].pc \in PreDetect \/ q.pc \notin PreDetect => Detecters' \subseteq Detecters
    BY DEF Detecters, Turns
  <2> QED BY <1>1, <2>1, FS_Subset
<1>6. ASSUME call[c].pc \in PreDetect, q.pc \notin PreDetect
      PROVE  Cardinality(Detecters') = Cardinality(Detecters) - 1
  <2>1. c \in Detecters /\ Detecters' = Detecters \ {c}
    BY <1>6 DEF Detecters, Turns
  <2> QED BY <1>1, <2>1, FS_RemoveElement
<1>7. Spent' = cops' - Cardinality(Detecters') /\ Spent = cops - Cardinality(Detecters)
  BY DEF Spent
<1>8. Spent' \in Int /\ Spent' >= Spent /\ Spent' <= cops'
  BY <1>0, <1>1, <1>2, <1>4, <1>5, <1>7
<1>9. cops' = cops /\ call[c].pc \in PreDetect /\ q.pc \notin PreDetect => Spent' = Spent + 1
  BY <1>0, <1>1, <1>2, <1>6, <1>7
<1> QED BY <1>0, <1>8, <1>9

LEMMA RowsGrow == ASSUME NEW x, NEW m \in Nat, NEW n \in Nat, m <= n, RowFits(x, m) PROVE RowFits(x, n)
BY DEF RowFits

\* A turn that neither writes nor counts.
LEMMA TurnCounts ==
    ASSUME CardInv, NEW c \in CardCalls, NEW q, Turns(c, q), cops' \in {cops, cops + 1}, cops' \in 0..CardOps,
           cops' = cops => call[c].pc \in PreDetect \/ q.pc \notin PreDetect,
           \A i \in CardItems : card'[i] = card[i] \/ card'[i] = Missing, derivedCount' = derivedCount,
           q.pc # "write", q.pc = "detect" => RowFits(q.seen, Spent + 1)
    PROVE  CountsFit'
<1>1. Spent \in Nat /\ Spent' \in Nat /\ Spent' >= Spent /\ Spent' <= cops' /\ cops' \in Nat
  BY TurnSpends, CardConstants
<1>2. CountsFit
  BY DEF CardInv
<1>3. \A i \in CardItems : RowFits(card'[i], Spent' + 1)
  BY <1>1, <1>2, RowsGrow DEF CountsFit, RowFits
<1>4. \A i \in CardItems : derivedCount'[i] <= Spent'
  BY <1>1, <1>2 DEF CountsFit
<1>5. ASSUME NEW d \in CardCalls
      PROVE  /\ call'[d].pc = "detect" => RowFits(call'[d].seen, Spent' + 1)
             /\ call'[d].pc = "write" => RowFits(call'[d].seen, Spent') /\ Twice(call'[d], derivedCount')
  <2>1. CASE d = c
    BY <1>1, <2>1, RowsGrow DEF Turns
  <2>2. CASE d # c
    BY <1>1, <1>2, <2>2, RowsGrow DEF Turns, CountsFit
  <2> QED BY <2>1, <2>2
<1> QED BY <1>1, <1>2, <1>3, <1>4, <1>5 DEF CountsFit, RowFits

\* A turn by which no row appears and no conflict is decided.
LEMMA TurnClears ==
    ASSUME CardInv, NEW c \in CardCalls, NEW q, Turns(c, q), Clearing(q, card'),
           \A i \in CardItems : card'[i] = card[i] \/ card'[i] = Missing
    PROVE  ClearsAll'
<1>1. ASSUME NEW d \in CardCalls PROVE Clearing(call'[d], card')
  <2>1. CASE d = c
    BY <2>1 DEF Turns
  <2>2. CASE d # c
    BY <2>2 DEF Turns, CardInv, ClearsAll, Clearing
  <2> QED BY <2>1, <2>2
<1> QED BY <1>1 DEF ClearsAll, Clearing

LEMMA TurnTells ==
    ASSUME CardInv, NEW c \in CardCalls, NEW q, Turns(c, q), q.pc \in {"list", "close", "unlist"} => q.pc = "close" /\ q.id \in raised,
           UNCHANGED <<pending, plisted, raised, told, settled, crossed>>
    PROVE  ToldConflictsWait' /\ ListedFits'
<1>1. ToldConflictsWait'
  BY DEF CardInv, ToldConflictsWait, SharesKey
<1>2. ASSUME NEW d \in CardCalls
      PROVE  /\ call'[d].pc \in {"list", "close", "unlist"} => call'[d].id \in raised
             /\ call'[d].pc = "list" => call'[d].id \in pending \union settled \/ SharesKey(call'[d].id)
  <2>1. CASE d = c
    BY <2>1 DEF Turns
  <2>2. CASE d # c
    BY <2>2 DEF Turns, CardInv, ListedFits
  <2> QED BY <2>1, <2>2
<1> QED BY <1>1, <1>2 DEF CardInv, ListedFits, SharesKey

\* A call goes on that writes nothing.
LEMMA QuietTurn ==
    ASSUME CardInv, NEW c \in CardCalls, NEW q, Turns(c, q), Fits(q), Clearing(q, card),
           UNCHANGED <<card, cached, conflictVars, csecond, evicting>>,
           cops' \in {cops, cops + 1}, cops' \in 0..CardOps,
           cops' = cops => call[c].pc \in PreDetect \/ q.pc \notin PreDetect,
           q.pc \notin {"write", "list", "unlist"}, q.pc = "close" => q.id \in raised, q.pc = "detect" => RowFits(q.seen, Spent + 1),
           call[c].pc = "inv" /\ cached # NoCard => cexcused', cexcused => cexcused'
    PROVE  CardInv'
<1>1. UNCHANGED <<pending, plisted, derivedCount, raised, told, settled, crossed>>
  BY DEF conflictVars
<1>2. CallsFit'
  BY TurnFits DEF CardInv, CallsFit, WholeCard
<1>3. IdsFit'
  BY <1>1 DEF CardInv, IdsFit
<1>4. CountsFit'
  BY <1>1, TurnCounts
<1>5. StaleCardIsExplained'
  BY DEF Turns, CardInv, StaleCardIsExplained
<1>6. ToldConflictsWait' /\ ListedFits'
  BY <1>1, TurnTells
<1>7. ClearsAll'
  BY TurnClears
<1> QED BY <1>2, <1>3, <1>4, <1>5, <1>6, <1>7 DEF CardInv

LEMMA BeginTurn ==
    ASSUME CardInv, NEW c \in CardCalls, NEW q, Begins(c, q), Fits(q), q.pc \in {"read", "del", "get", "close"},
           q.kind = "clear" => q.pc = "get", q.pc = "close" => q.id \in raised
    PROVE  CardInv'
<1>1. Turns(c, q)
  BY TurnIs DEF Begins, CardInv
<1>2. /\ call[c].pc = "idle" /\ UNCHANGED <<card, cached, conflictVars, csecond, evicting>> /\ cexcused' = cexcused
      /\ cops' = cops + 1 /\ cops' # cops /\ cops' \in 0..CardOps
  BY CardConstants DEF Begins, CardInv, IdsFit
<1>3. Clearing(q, card)
  BY DEF Clearing
<1> QED BY <1>1, <1>2, <1>3, QuietTurn

LEMMA StartsKeep ==
    ASSUME CardInv, NEW c \in CardCalls, Remember(c) \/ Forget(c) \/ ReadCard(c) \/ Decide(c)
    PROVE  CardInv'
<1>1. CASE Remember(c)
  <2>1. PICK i \in CardItems, s \in Sources, l \in BOOLEAN :
            Begins(c, [IdleCall EXCEPT !.pc = "read", !.kind = "upsert", !.item = i, !.source = s, !.low = l])
    BY <1>1 DEF Remember
  <2> DEFINE q == SetLow(SetSource(SetItem(SetKind(SetPc(IdleCall, "read"), "upsert"), i), s), l)
  <2>2. Begins(c, q)
    BY <2>1 DEF SetLow, SetSource, SetItem, SetKind, SetPc
  <2>3. CallShape(q) /\ q.pc = "read" /\ q.kind = "upsert" /\ q.item = i /\ q.source = s
    BY IdleFits, SetsPcKindItemSourceLow, KeepsShape
  <2> HIDE DEF q
  <2>4. Fits(q)
    BY <2>3 DEF Fits, MayWrite
  <2> QED BY <2>2, <2>3, <2>4, BeginTurn
<1>2. CASE Forget(c)
  <2>1. PICK i \in CardItems : Begins(c, [IdleCall EXCEPT !.pc = "del", !.kind = "forget", !.todo = {i}])
    BY <1>2 DEF Forget
  <2> DEFINE q == SetTodo(SetKind(SetPc(IdleCall, "del"), "forget"), {i})
  <2>2. Begins(c, q)
    BY <2>1 DEF SetTodo, SetKind, SetPc
  <2>3. CallShape(q) /\ q.pc = "del" /\ q.kind = "forget"
    BY IdleFits, SetsPcKindTodo, KeepsShape
  <2> HIDE DEF q
  <2>4. Fits(q)
    BY <2>3 DEF Fits, MayWrite
  <2> QED BY <2>2, <2>3, <2>4, BeginTurn
<1>3. CASE ReadCard(c)
  <2>1. PICK k \in {"show", "edit", "erase", "clear"} : Begins(c, [IdleCall EXCEPT !.pc = "get", !.kind = k])
    BY <1>3 DEF ReadCard
  <2> DEFINE q == SetKind(SetPc(IdleCall, "get"), k)
  <2>2. Begins(c, q)
    BY <2>1 DEF SetKind, SetPc
  <2>3. CallShape(q) /\ q.pc = "get" /\ q.kind = k
    BY IdleFits, SetsPcKind, KeepsShape
  <2> HIDE DEF q
  <2>4. Fits(q)
    BY <2>3 DEF Fits, MayWrite
  <2> QED BY <2>2, <2>3, <2>4, BeginTurn
<1>4. CASE Decide(c)
  <2>1. PICK d \in pending, k \in {"keep_old", "use_new", "deny"} :
            Begins(c, [IdleCall EXCEPT !.pc = "close", !.kind = k, !.id = d])
    BY <1>4 DEF Decide
  <2> DEFINE q == SetId(SetKind(SetPc(IdleCall, "close"), k), d)
  <2>2. Begins(c, q)
    BY <2>1 DEF SetId, SetKind, SetPc
  <2>3. CallShape(q) /\ q.pc = "close" /\ q.kind = k /\ q.id = d
    BY IdleFits, SetsPcKindId, KeepsShape
  <2>4. d \in Conflicts /\ d \in raised
    BY DEF CardInv, IdsFit, ListedFits
  <2> HIDE DEF q
  <2>5. Fits(q)
    BY <2>3, <2>4 DEF Fits, MayWrite
  <2> QED BY SMTT(30), <2>2, <2>3, <2>4, <2>5, BeginTurn
<1> QED BY <1>1, <1>2, <1>3, <1>4

\* Where a reader goes with the card it was given.
LEMMA ShownFits ==
    ASSUME NEW r, CallShape(r), NEW shown, WholeCard(shown), NEW stale, NEW q \in Shown(r, shown, stale)
    PROVE  /\ Fits(q) /\ q.pc \in {"cleared", "del", "read", "idle"}
           /\ q.kind = "clear" => /\ r.kind = "clear" /\ q.pc \in {"cleared", "del"} /\ q.fresh = r.fresh /\ q.old = stale
                                  /\ \A i \in CardItems : shown[i] # Missing => i \in q.todo
<1> DEFINE items == {i \in DOMAIN shown : shown[i] # Missing}
           after == IF items = {} THEN "cleared" ELSE "del"
<1>0. DOMAIN shown = CardItems
  BY DEF WholeCard
<1>1. CASE r.kind = "clear"
  <2>1. q = [r EXCEPT !.pc = after, !.todo = items, !.old = stale]
    BY <1>1 DEF Shown
  <2>2. after \in {"cleared", "del"} /\ (after = "cleared" => items = {})
    OBVIOUS
  <2>3. \A i \in CardItems : shown[i] # Missing => i \in items
    BY <1>0
  <2> HIDE DEF items, after
  <2>4. q = SetOld(SetTodo(SetPc(r, after), items), stale)
    BY <2>1 DEF SetPc, SetTodo, SetOld
  <2>5. Keeps(q, r, {"pc", "todo", "old"}) /\ q.pc = after /\ q.todo = items /\ q.old = stale
    BY <2>4, SetsPcTodoOld
  <2>6. CallShape(q) /\ q.fresh = r.fresh /\ q.kind = "clear"
    BY <1>1, <2>5 DEF Keeps
  <2>7. Fits(q)
    BY <2>2, <2>5, <2>6 DEF Fits, MayWrite
  <2> QED BY <1>1, <2>2, <2>3, <2>5, <2>6, <2>7
<1>2. CASE r.kind = "erase" /\ items # {}
  <2>1. PICK i \in items : q = [r EXCEPT !.pc = "del", !.todo = {i}]
    BY <1>2 DEF Shown
  <2> HIDE DEF items
  <2>2. q = SetTodo(SetPc(r, "del"), {i})
    BY <2>1 DEF SetPc, SetTodo
  <2>3. Keeps(q, r, {"pc", "todo"}) /\ q.pc = "del"
    BY <2>2, SetsPcTodo
  <2>4. CallShape(q) /\ q.kind = "erase"
    BY <1>2, <2>3 DEF Keeps
  <2>5. Fits(q)
    BY <2>3, <2>4 DEF Fits, MayWrite
  <2> QED BY <2>3, <2>4, <2>5
<1>3. CASE r.kind = "edit" /\ items # {}
  <2>1. q \in UNION {{[r EXCEPT !.pc = "read", !.item = e[1], !.source = e[2], !.low = shown[i].low] :
                          e \in CardItems \X {"user_confirmed", shown[i].source}} : i \in items}
    BY <1>3 DEF Shown
  <2>2. PICK i \in items : q \in {[r EXCEPT !.pc = "read", !.item = e[1], !.source = e[2], !.low = shown[i].low] :
                          e \in CardItems \X {"user_confirmed", shown[i].source}}
    BY <2>1
  <2>3. PICK e \in CardItems \X {"user_confirmed", shown[i].source} :
            q = [r EXCEPT !.pc = "read", !.item = e[1], !.source = e[2], !.low = shown[i].low]
    BY <2>2
  <2>4. e[1] \in CardItems /\ e[2] \in Sources
    BY <1>0, <2>2, <2>3 DEF WholeCard, Sources
  <2> HIDE DEF items
  <2>5. \A s, j : SetLow(SetSource(SetItem(SetPc(r, "read"), j), s), shown[i].low)
                      = [r EXCEPT !.pc = "read", !.item = j, !.source = s, !.low = shown[i].low]
    BY DEF SetPc, SetItem, SetSource, SetLow
  <2>6. PICK j \in CardItems, s \in Sources : q = SetLow(SetSource(SetItem(SetPc(r, "read"), j), s), shown[i].low)
    BY <2>3, <2>4, <2>5
  <2>7. Keeps(q, r, {"pc", "item", "source", "low"}) /\ q.pc = "read" /\ q.item = j /\ q.source = s
    BY <2>6, SetsPcItemSourceLow
  <2>8. CallShape(q) /\ q.kind = "edit"
    BY <1>3, <2>7 DEF Keeps
  <2>9. Fits(q)
    BY <2>7, <2>8 DEF Fits, MayWrite
  <2> QED BY <2>7, <2>8, <2>9
<1>4. CASE r.kind # "clear" /\ ~(r.kind = "erase" /\ items # {}) /\ ~(r.kind = "edit" /\ items # {})
  <2>1. q \in {IdleCall}
    BY <1>4 DEF Shown
  <2> QED BY <2>1, IdleFits
<1> QED BY <1>1, <1>2, <1>3, <1>4

\* get_profile.
LEMMA GetProfileKeeps == ASSUME CardInv, NEW c \in CardCalls, GetProfile(c) PROVE CardInv'
<1> DEFINE r == call[c]
<1>1. /\ r.pc = "get" /\ CallShape(r) /\ CallsFit
      /\ UNCHANGED <<card, cached, conflictVars, csecond, cops, evicting, cexcused>> /\ cops' \in 0..CardOps
  BY DEF GetProfile, CardInv, CallsFit, Fits, clockVars, IdsFit
<1>2. CASE cached # NoCard
  <2> DEFINE stale == cexcused \/ cached # card
  <2>1. PICK q \in Shown(r, cached, stale) : call' = [call EXCEPT ![c] = q]
    BY <1>2 DEF GetProfile
  <2>2. WholeCard(cached)
    BY <1>1, <1>2 DEF CallsFit
  <2>3. ~stale => cached = card
    OBVIOUS
  <2> HIDE DEF stale
  <2>4. /\ Fits(q) /\ q.pc \in {"cleared", "del", "read", "idle"}
        /\ q.kind = "clear" => /\ q.pc \in {"cleared", "del"} /\ q.old = stale
                               /\ \A i \in CardItems : cached[i] # Missing => i \in q.todo
    BY <1>1, <2>1, <2>2, ShownFits
  <2>5. Turns(c, q)
    BY <1>1, <2>1, TurnIs
  <2>6. Clearing(q, card)
    BY <2>3, <2>4 DEF Clearing
  <2>7. r.pc \in PreDetect
    BY <1>1 DEF PreDetect
  <2> QED BY <1>1, <2>4, <2>5, <2>6, <2>7, QuietTurn
<1>3. CASE ~(cached # NoCard)
  <2> DEFINE q == SetFresh(SetShown(SetPc(r, "fill"), card), {})
  <2>1. call' = [call EXCEPT ![c] = q]
    BY <1>1, <1>3 DEF GetProfile, SetFresh, SetShown, SetPc, CallsFit
  <2>2. Keeps(q, r, {"pc", "shown", "fresh"}) /\ q.pc = "fill" /\ q.shown = card
    BY <1>1, SetsPcShownFresh
  <2> HIDE DEF q
  <2>3. Fits(q)
    BY <1>1, <2>2, KeepsShape DEF Fits, MayWrite, CallsFit
  <2>4. Turns(c, q)
    BY <1>1, <2>1, TurnIs
  <2>5. Clearing(q, card)
    BY <2>2 DEF Clearing
  <2>6. r.pc \in PreDetect
    BY <1>1 DEF PreDetect
  <2> QED BY <1>1, <2>2, <2>3, <2>4, <2>5, <2>6, QuietTurn
<1> QED BY <1>2, <1>3

LEMMA FillCacheKeeps == ASSUME CardInv, NEW c \in CardCalls, FillCache(c) PROVE CardInv'
<1> DEFINE r == call[c]
           shown == r.shown
           stale == FALSE
<1>1. /\ r.pc = "fill" /\ CallShape(r) /\ CallsFit /\ WholeCard(shown) /\ r.pc \in PreDetect
      /\ UNCHANGED <<card, conflictVars, csecond, cops, evicting>> /\ cops' \in 0..CardOps
  BY DEF FillCache, CardInv, CallsFit, Fits, clockVars, PreDetect, IdsFit
<1>2. PICK q \in Shown(r, shown, stale) : call' = [call EXCEPT ![c] = q]
  BY DEF FillCache
<1> HIDE DEF stale
<1>3. /\ Fits(q) /\ q.pc \in {"cleared", "del", "read", "idle"}
      /\ q.kind = "clear" => /\ r.kind = "clear" /\ q.pc \in {"cleared", "del"} /\ q.fresh = r.fresh
                             /\ \A i \in CardItems : shown[i] # Missing => i \in q.todo
  BY <1>1, <1>2, ShownFits
<1>4. Turns(c, q)
  BY <1>1, <1>2, TurnIs
<1>5. \/ cached' = cached /\ cexcused' = cexcused
      \/ cached' = shown /\ cexcused' = (shown # card)
  BY DEF FillCache
<1>6. CallsFit'
  BY <1>1, <1>3, <1>4, <1>5, TurnFits DEF CallsFit, WholeCard
<1>7. UNCHANGED <<pending, plisted, derivedCount, raised, told, settled, crossed>>
  BY <1>1 DEF conflictVars
<1>8. IdsFit'
  BY <1>1, <1>7 DEF CardInv, IdsFit
<1>9. CountsFit'
  BY <1>1, <1>3, <1>4, <1>7, TurnCounts
<1>10. StaleCardIsExplained'
  BY <1>1, <1>4, <1>5 DEF Turns, CardInv, StaleCardIsExplained
<1>11. ToldConflictsWait' /\ ListedFits'
  BY <1>3, <1>4, <1>7, TurnTells
<1>12. Clearing(q, card')
  <2>1. Clearing(r, card)
    BY DEF CardInv, ClearsAll
  <2> QED BY <1>1, <1>3, <2>1 DEF Clearing
<1>13. ClearsAll'
  BY <1>1, <1>4, <1>12, TurnClears
<1> QED BY <1>6, <1>8, <1>9, <1>10, <1>11, <1>13 DEF CardInv

LEMMA ReadItemKeeps == ASSUME CardInv, NEW c \in CardCalls, ReadItem(c) PROVE CardInv'
<1> DEFINE r == call[c]
           row == card[r.item]
           q == SetSeen(SetPc(r, "detect"), row)
<1>1. /\ r.pc = "read" /\ CallShape(r) /\ CallsFit /\ r.pc \in PreDetect /\ Fits(r)
      /\ UNCHANGED <<card, cached, conflictVars, csecond, cops, evicting, cexcused>> /\ cops' \in 0..CardOps
  BY DEF ReadItem, CardInv, CallsFit, Fits, clockVars, PreDetect, IdsFit
<1>2. call' = [call EXCEPT ![c] = q]
  BY DEF ReadItem, SetSeen, SetPc
<1>3. r.item \in CardItems /\ r.source \in Sources /\ r.kind # "clear"
  BY <1>1 DEF Fits
<1>4. RowFits(row, Spent + 1)
  BY <1>3 DEF CardInv, CountsFit
<1> HIDE DEF row
<1>5. Keeps(q, r, {"pc", "seen"}) /\ q.pc = "detect" /\ q.seen = row
  BY <1>1, SetsPcSeen
<1> HIDE DEF q
<1>6. CallShape(q) /\ q.item = r.item /\ q.source = r.source /\ q.kind = r.kind
  BY <1>5 DEF Keeps
<1>7. Fits(q)
  BY <1>3, <1>5, <1>6 DEF Fits, MayWrite
<1>8. Turns(c, q) /\ Clearing(q, card)
  BY <1>1, <1>2, <1>3, <1>6, TurnIs DEF Clearing
<1> QED BY <1>1, <1>4, <1>5, <1>7, <1>8, QuietTurn

LEMMA CardEndsKeep == ASSUME CardInv, NEW c \in CardCalls, Cleared(c) \/ CallFails(c) PROVE CardInv'
<1>1. UNCHANGED <<card, cached, conflictVars, csecond, cops, evicting>> /\ cops' \in 0..CardOps
  BY DEF Cleared, CallFails, clockVars, CardInv, IdsFit
<1>2. Turns(c, IdleCall)
  BY TurnIs DEF Cleared, CallFails, CardInv
<1>3. (call[c].pc = "inv" /\ cached # NoCard => cexcused') /\ (cexcused => cexcused')
  <2>1. CASE Cleared(c)
    <3>1. call[c].pc # "inv"
      BY <2>1 DEF Cleared
    <3>2. cexcused' = cexcused
      BY <2>1 DEF Cleared
    <3> QED BY <3>1, <3>2, Zenon
  <2>2. CASE CallFails(c)
    <3>1. cexcused' = (cexcused \/ (call[c].pc = "inv" /\ cached # NoCard))
      BY <2>2 DEF CallFails
    <3> QED BY <3>1, Zenon
  <2> QED BY <2>1, <2>2
<1>4. Clearing(IdleCall, card) /\ IdleCall.pc \notin PreDetect
  BY IdleFits DEF Clearing, PreDetect
<1> QED BY <1>1, <1>2, <1>3, <1>4, IdleFits, QuietTurn

\* A turn that may write or count.
LEMMA TurnSpendsOn ==
    ASSUME CardInv, NEW c \in CardCalls, NEW q, Turns(c, q), cops' = cops, call[c].pc \in PreDetect \/ q.pc \notin PreDetect,
           \A i \in CardItems : RowFits(card'[i], Spent' + 1),
           derivedCount' \in [CardItems -> Nat], \A i \in CardItems : derivedCount'[i] <= Spent',
           \A i \in CardItems : derivedCount'[i] >= derivedCount[i], q.pc = "detect" => RowFits(q.seen, Spent' + 1),
           q.pc = "write" => RowFits(q.seen, Spent') /\ Twice(q, derivedCount')
    PROVE  CountsFit'
<1>1. Spent \in Nat /\ Spent' \in Nat /\ Spent' >= Spent /\ Spent' <= cops'
  BY TurnSpends
<1>2. CountsFit /\ cops' \in Nat
  BY CardConstants DEF CardInv, IdsFit
<1>3. ASSUME NEW d \in CardCalls
      PROVE  /\ call'[d].pc = "detect" => RowFits(call'[d].seen, Spent' + 1)
             /\ call'[d].pc = "write" => RowFits(call'[d].seen, Spent') /\ Twice(call'[d], derivedCount')
  <2>1. CASE d = c
    BY <2>1 DEF Turns
  <2>2. CASE d # c
    <3>1. call'[d] = call[d] /\ Fits(call[d])
      BY <2>2 DEF Turns, CardInv, CallsFit
    <3>2. call[d].pc = "write" => call[d].item \in CardItems
      BY <3>1 DEF Fits
    <3>3. call[d].pc = "write" => Twice(call[d], derivedCount')
      BY <1>2, <3>2 DEF CountsFit, Twice
    <3> QED BY <1>1, <1>2, <3>1, <3>3, RowsGrow DEF CountsFit
  <2> QED BY <2>1, <2>2
<1> QED BY <1>1, <1>2, <1>3 DEF CountsFit, RowFits

\* detect_and_handle_conflict.
LEMMA DetectKeeps == ASSUME CardInv, NEW c \in CardCalls, DetectConflict(c) PROVE CardInv'
<1> DEFINE r == call[c]
           counts == Contested(r) /\ r.source = "derived"
           asks == Contested(r) /\ ~(counts /\ derivedCount[r.item] + 1 >= 2)
           d == <<csecond, r.item, "own">>
           q == IF asks THEN SetId(SetPc(r, "store"), d) ELSE SetPc(r, "write")
<1>1. /\ r.pc = "detect" /\ CallShape(r) /\ CallsFit /\ r.pc \in PreDetect /\ Fits(r)
      /\ UNCHANGED <<card, cached, pending, plisted, raised, told, settled, crossed, csecond, cops, evicting>> /\ cexcused' = cexcused
  BY DEF DetectConflict, CardInv, CallsFit, Fits, clockVars, PreDetect
<1>2. derivedCount' = IF counts THEN [derivedCount EXCEPT ![r.item] = derivedCount[r.item] + 1] ELSE derivedCount
  BY DEF DetectConflict
<1>3. call' = [call EXCEPT ![c] = q]
  <2>1. CASE asks
    BY <2>1 DEF DetectConflict, SetId, SetPc
  <2>2. CASE ~asks
    BY <2>2 DEF DetectConflict, SetPc
  <2> QED BY <2>1, <2>2
<1>4. r.item \in CardItems /\ r.source \in Sources /\ r.kind # "clear" /\ d \in Conflicts
  BY <1>1 DEF Fits, CardInv, IdsFit, Conflicts, Owners
<1>5. ~asks => r.seen.source # "user_confirmed" \/ r.source \in {"user_confirmed", "derived"}
  BY DEF Contested
<1>51. ~asks /\ r.seen.source = "user_confirmed" /\ r.source = "derived" => counts /\ derivedCount[r.item] + 1 >= 2
  BY DEF Contested
<1> HIDE DEF counts
<1>6. /\ CallShape(q) /\ q.kind = r.kind /\ q.pc \in {"store", "write"} /\ q.seen = r.seen
      /\ q.pc = "write" => ~asks /\ q.source = r.source /\ q.item = r.item
      /\ q.pc = "store" => q.id = d
  <2> HIDE DEF d, asks
  <2>1. CASE asks
    <3>1. q = SetId(SetPc(r, "store"), d)
      BY <2>1
    <3> HIDE DEF q
    <3>2. Keeps(q, r, {"pc", "id"}) /\ q.pc = "store" /\ q.id = d
      BY <1>1, <3>1, SetsPcId
    <3> QED BY <3>2 DEF Keeps
  <2>2. CASE ~asks
    <3>1. q = SetPc(r, "write")
      BY <2>2
    <3>2. Keeps(SetPc(r, "write"), r, {"pc"}) /\ SetPc(r, "write").pc = "write"
      BY <1>1, SetsPc
    <3> HIDE DEF q
    <3>3. Keeps(q, r, {"pc"}) /\ q.pc = "write"
      BY <3>1, <3>2
    <3> QED BY <2>2, <3>3 DEF Keeps
  <2> QED BY <2>1, <2>2
<1> HIDE DEF asks, d, q
<1>7. Fits(q)
  BY <1>4, <1>5, <1>6 DEF Fits, MayWrite
<1>8. Turns(c, q) /\ q.pc \notin PreDetect
  BY <1>1, <1>3, <1>6, TurnIs DEF PreDetect
<1>9. CallsFit'
  BY <1>1, <1>7, <1>8, TurnFits DEF CallsFit, WholeCard
<1>10. IdsFit'
  BY <1>1 DEF CardInv, IdsFit
<1>11. Spent \in Nat /\ Spent' = Spent + 1
  BY <1>1, <1>8, TurnSpends
<1>12. CountsFit'
  <2>1. \A i \in CardItems : RowFits(card'[i], Spent' + 1)
    BY <1>1, <1>11, RowsGrow DEF CardInv, CountsFit
  <2>2. /\ derivedCount \in [CardItems -> Nat] /\ \A i \in CardItems : derivedCount[i] <= Spent
        /\ RowFits(r.seen, Spent + 1)
    BY <1>1 DEF CardInv, CountsFit
  <2>3. /\ derivedCount' \in [CardItems -> Nat]
        /\ \A i \in CardItems : derivedCount'[i] <= Spent' /\ derivedCount'[i] >= derivedCount[i]
        /\ counts => derivedCount'[r.item] = derivedCount[r.item] + 1
    <3>1. CASE counts
      <4> DEFINE n == derivedCount[r.item] + 1
      <4>1. derivedCount' = [derivedCount EXCEPT ![r.item] = n]
        BY <1>2, <3>1
      <4>2. n \in Nat /\ n <= Spent + 1 /\ n >= derivedCount[r.item] /\ derivedCount'[r.item] = n
        BY <1>4, <1>11, <2>2, <4>1
      <4>5. n = derivedCount[r.item] + 1
        OBVIOUS
      <4> HIDE DEF n
      <4>3. derivedCount' \in [CardItems -> Nat]
        BY <2>2, <4>1, <4>2
      <4>4. \A i \in CardItems : derivedCount'[i] = derivedCount[i] \/ (i = r.item /\ derivedCount'[i] = n)
        BY <2>2, <4>1
      <4> QED BY <1>11, <2>2, <4>2, <4>3, <4>4, <4>5
    <3>2. CASE ~counts
      BY <1>2, <1>11, <2>2, <3>2
    <3> QED BY <3>1, <3>2
  <2>4. q.pc = "write" => Twice(q, derivedCount')
    BY <1>6, <1>51, <2>3 DEF Twice
  <2> QED BY <1>1, <1>6, <1>8, <1>11, <2>1, <2>2, <2>3, <2>4, TurnSpendsOn
<1>13. StaleCardIsExplained'
  BY <1>1, <1>6, <1>8 DEF Turns, CardInv, StaleCardIsExplained
<1>14. ToldConflictsWait' /\ ListedFits'
  BY <1>1, <1>6, <1>8, TurnTells
<1>15. ClearsAll'
  BY <1>1, <1>4, <1>6, <1>8, TurnClears DEF Clearing
<1> QED BY <1>9, <1>10, <1>12, <1>13, <1>14, <1>15 DEF CardInv

\* A call that touches conflicts only goes on.
LEMMA ConflictTurn ==
    ASSUME CardInv, NEW c \in CardCalls, NEW q, Turns(c, q), Fits(q), q.kind # "clear",
           UNCHANGED <<card, cached, derivedCount, csecond, cops, evicting, cexcused>>,
           call[c].pc \in PreDetect \/ q.pc \notin PreDetect, call[c].pc # "inv",
           q.pc \notin {"write", "detect"},
           pending' \subseteq Conflicts, plisted' \subseteq ConflictKeys, raised' \subseteq Conflicts, told' \subseteq Conflicts, settled' \subseteq Conflicts, crossed' \subseteq Conflicts,
           ToldConflictsWait', ListedFits'
    PROVE  CardInv'
<1>1. CallsFit'
  BY TurnFits DEF CardInv, CallsFit, WholeCard
<1>2. IdsFit'
  BY DEF CardInv, IdsFit
<1>3. CountsFit'
  BY TurnCounts DEF CardInv, IdsFit
<1>4. StaleCardIsExplained'
  BY DEF Turns, CardInv, StaleCardIsExplained
<1>5. ClearsAll'
  BY TurnClears DEF Clearing
<1> QED BY <1>1, <1>2, <1>3, <1>4, <1>5 DEF CardInv

LEMMA StorePendingKeeps == ASSUME CardInv, NEW c \in CardCalls, StorePending(c) PROVE CardInv'
<1> DEFINE r == call[c]
           q == SetPc(r, "list")
<1>1. /\ r.pc = "store" /\ CallShape(r) /\ CallsFit /\ Fits(r)
      /\ UNCHANGED <<card, cached, plisted, derivedCount, told, settled, crossed, csecond, cops, evicting>> /\ cexcused' = cexcused
      /\ pending' = (pending \ SameKey(r.id)) \union {r.id} /\ raised' = raised \union {r.id}
  BY DEF StorePending, PutRecord, CardInv, CallsFit, Fits, clockVars
<1>2. call' = [call EXCEPT ![c] = q]
  BY DEF StorePending, SetPc
<1>3. r.id \in Conflicts /\ r.kind # "clear"
  BY <1>1 DEF Fits
<1>4. Keeps(q, r, {"pc"}) /\ q.pc = "list"
  BY <1>1, SetsPc
<1> HIDE DEF q
<1>5. CallShape(q) /\ q.id = r.id /\ q.kind = r.kind
  BY <1>4 DEF Keeps
<1>6. Fits(q) /\ q.pc \notin PreDetect
  BY <1>3, <1>4, <1>5 DEF Fits, MayWrite, PreDetect
<1>7. Turns(c, q)
  BY <1>1, <1>2, TurnIs
<1>80. /\ raised \subseteq raised' /\ \A d \in pending : d \in pending' \/ SharesKey(d)'
       /\ \A d : SharesKey(d) => SharesKey(d)'
  BY <1>1 DEF SharesKey, SameKey
<1>8. ToldConflictsWait'
  BY <1>1, <1>80 DEF CardInv, ToldConflictsWait
<1>9. ListedFits'
  <2>1. pending' \subseteq raised' /\ told' \subseteq raised'
    BY <1>1 DEF CardInv, ListedFits
  <2>2. ASSUME NEW d \in CardCalls
        PROVE  /\ call'[d].pc \in {"list", "close", "unlist"} => call'[d].id \in raised'
               /\ call'[d].pc = "list" => call'[d].id \in pending' \union settled' \/ \E e \in raised' : e # call'[d].id /\ Key(e) = Key(call'[d].id)
    <3>1. CASE d = c
      BY <1>1, <1>5, <1>7, <3>1 DEF Turns
    <3>2. CASE d # c
      BY <1>1, <1>7, <1>80, <3>2 DEF CardInv, ListedFits, Turns, SharesKey
    <3> QED BY <3>1, <3>2
  <2> QED BY <2>1, <2>2 DEF ListedFits, SharesKey
<1>10. pending' \subseteq Conflicts /\ plisted' \subseteq ConflictKeys /\ raised' \subseteq Conflicts /\ told' \subseteq Conflicts /\ settled' \subseteq Conflicts /\ crossed' \subseteq Conflicts
  BY <1>1, <1>3 DEF CardInv, IdsFit
<1> QED BY <1>1, <1>3, <1>4, <1>5, <1>6, <1>7, <1>8, <1>9, <1>10, ConflictTurn

LEMMA ListPendingKeeps == ASSUME CardInv, NEW c \in CardCalls, ListPending(c) PROVE CardInv'
<1> DEFINE d == call[c].id
<1>1. /\ call[c].pc = "list" /\ CallsFit /\ Fits(call[c])
      /\ UNCHANGED <<card, cached, pending, derivedCount, raised, crossed, csecond, cops, evicting>> /\ cexcused' = cexcused
      /\ plisted' = plisted \union {Key(d)} /\ told' = told \union {d}
      /\ settled' = IF d \in pending THEN settled \ {d} ELSE settled
      /\ call' = [call EXCEPT ![c] = IdleCall]
  BY DEF ListPending, CardInv, CallsFit, clockVars
<1>2. d \in Conflicts /\ Key(d) \in ConflictKeys
  BY <1>1 DEF Fits, ConflictKeys
<1>3. Turns(c, IdleCall) /\ IdleCall.pc \notin PreDetect
  BY <1>1, IdleFits, TurnIs DEF PreDetect
<1>4. (d \in pending \union settled \/ SharesKey(d)) /\ d \in raised
  BY <1>1 DEF CardInv, ListedFits
<1>40. \A e : SharesKey(e)' <=> SharesKey(e)
  BY <1>1 DEF SharesKey
<1>5. ToldConflictsWait'
  BY <1>1, <1>4, <1>40 DEF CardInv, ToldConflictsWait
<1>6. ListedFits'
  <2>1. ASSUME NEW e \in CardCalls
        PROVE  /\ call'[e].pc \in {"list", "close", "unlist"} => call'[e].id \in raised
               /\ call'[e].pc = "list" => call'[e].id \in pending \union settled' \/ SharesKey(call'[e].id)
    <3>1. CASE e = c
      BY <1>3, <3>1, IdleFits DEF Turns
    <3>2. CASE e # c
      BY <1>1, <1>3, <3>2 DEF CardInv, ListedFits, Turns
    <3> QED BY <3>1, <3>2
  <2> QED BY <1>1, <1>4, <2>1 DEF CardInv, ListedFits, SharesKey
<1>7. pending' \subseteq Conflicts /\ plisted' \subseteq ConflictKeys /\ raised' \subseteq Conflicts /\ told' \subseteq Conflicts /\ settled' \subseteq Conflicts /\ crossed' \subseteq Conflicts
  BY <1>1, <1>2 DEF CardInv, IdsFit
<1> QED BY <1>1, <1>3, <1>5, <1>6, <1>7, IdleFits, ConflictTurn

LEMMA CloseConflictKeeps == ASSUME CardInv, NEW c \in CardCalls, CloseConflict(c) PROVE CardInv'
<1> DEFINE r == call[c]
           q == SetPc(r, "unlist")
<1>1. /\ r.pc = "close" /\ CallShape(r) /\ CallsFit /\ Fits(r)
      /\ UNCHANGED <<card, cached, plisted, derivedCount, raised, told, crossed, csecond, cops, evicting>> /\ cexcused' = cexcused
      /\ pending' = pending \ SameKey(r.id) /\ settled' = settled \union {r.id}
  BY DEF CloseConflict, CardInv, CallsFit, Fits, clockVars
<1>2. call' = [call EXCEPT ![c] = q]
  BY DEF CloseConflict, SetPc
<1>3. r.id \in Conflicts /\ r.kind # "clear" /\ r.pc \in PreDetect
  BY <1>1 DEF Fits, PreDetect
<1>4. Keeps(q, r, {"pc"}) /\ q.pc = "unlist"
  BY <1>1, SetsPc
<1> HIDE DEF q
<1>5. CallShape(q) /\ q.id = r.id /\ q.kind = r.kind
  BY <1>4 DEF Keeps
<1>6. Fits(q)
  BY <1>3, <1>4, <1>5 DEF Fits, MayWrite
<1>7. Turns(c, q)
  BY <1>1, <1>2, TurnIs
<1>80. r.id \in raised /\ \A e : SharesKey(e)' <=> SharesKey(e)
  BY <1>1 DEF CardInv, ListedFits, SharesKey
<1>81. \A e \in pending : e \in pending' \/ e = r.id \/ SharesKey(e)
  BY <1>1, <1>80 DEF SharesKey, SameKey
<1>8. ToldConflictsWait'
  BY <1>1, <1>80, <1>81 DEF CardInv, ToldConflictsWait
<1>9. ListedFits'
  <2>1. ASSUME NEW e \in CardCalls
        PROVE  /\ call'[e].pc \in {"list", "close", "unlist"} => call'[e].id \in raised
               /\ call'[e].pc = "list" => call'[e].id \in pending' \union settled' \/ SharesKey(call'[e].id)
    <3>1. CASE e = c
      BY <1>4, <1>5, <1>7, <1>80, <3>1 DEF Turns
    <3>2. CASE e # c
      BY <1>1, <1>7, <1>81, <3>2 DEF CardInv, ListedFits, Turns
    <3> QED BY <3>1, <3>2
  <2> QED BY <1>1, <2>1 DEF CardInv, ListedFits, SharesKey
<1>10. pending' \subseteq Conflicts /\ plisted' \subseteq ConflictKeys /\ raised' \subseteq Conflicts /\ told' \subseteq Conflicts /\ settled' \subseteq Conflicts /\ crossed' \subseteq Conflicts
  BY <1>1, <1>3 DEF CardInv, IdsFit
<1> QED BY <1>1, <1>3, <1>4, <1>5, <1>6, <1>7, <1>8, <1>9, <1>10, ConflictTurn

LEMMA UnlistConflictKeeps == ASSUME CardInv, NEW c \in CardCalls, UnlistConflict(c) PROVE CardInv'
<1> DEFINE r == call[c]
           d == r.id
           item == d[2]
           w == SetSource(SetItem(SetKind(SetPc(IdleCall, "read"), "upsert"), item), "user_confirmed")
<1>1. /\ r.pc = "unlist" /\ CallsFit /\ Fits(r)
      /\ UNCHANGED <<card, cached, pending, derivedCount, raised, told, settled, csecond, cops, evicting>> /\ cexcused' = cexcused
      /\ plisted' \in {plisted, plisted \ {Key(d)}} /\ crossed' = crossed \union SameKey(d)
  BY DEF UnlistConflict, CardInv, CallsFit, clockVars
<1>2. d \in Conflicts /\ item \in CardItems /\ r.pc \in PreDetect
  BY <1>1 DEF Fits, Conflicts, PreDetect
<1>3. call' = [call EXCEPT ![c] = w] \/ call' = [call EXCEPT ![c] = IdleCall]
  <2>1. w = [IdleCall EXCEPT !.pc = "read", !.kind = "upsert", !.item = item, !.source = "user_confirmed"]
    BY DEF SetPc, SetKind, SetItem, SetSource
  <2> HIDE DEF w
  <2> QED BY <2>1 DEF UnlistConflict
<1> HIDE DEF item
<1>4. CallShape(w) /\ w.pc = "read" /\ w.kind = "upsert" /\ w.item = item /\ w.source = "user_confirmed"
  BY IdleFits, SetsPcKindItemSource, KeepsShape
<1> HIDE DEF w
<1>5. Fits(w)
  BY <1>2, <1>4 DEF Fits, MayWrite, Sources
<1>6. PICK q \in {w, IdleCall} : call' = [call EXCEPT ![c] = q]
  BY <1>3
<1>7. Turns(c, q) /\ Fits(q) /\ q.kind # "clear" /\ q.pc \in {"read", "idle"}
  BY <1>1, <1>4, <1>5, <1>6, IdleFits, TurnIs
<1>80. \A e : SharesKey(e)' <=> SharesKey(e)
  BY <1>1 DEF SharesKey
<1>8. ToldConflictsWait'
  <2>1. \A e \in pending : Key(e) \in plisted => Key(e) \in plisted' \/ e \in crossed'
    BY <1>1 DEF SameKey
  <2> QED BY <1>1, <1>80, <2>1 DEF CardInv, ToldConflictsWait
<1>9. ListedFits'
  <2>1. ASSUME NEW e \in CardCalls
        PROVE  /\ call'[e].pc \in {"list", "close", "unlist"} => call'[e].id \in raised
               /\ call'[e].pc = "list" => call'[e].id \in pending \union settled \/ SharesKey(call'[e].id)
    <3>1. CASE e = c
      BY <1>7, <3>1 DEF Turns
    <3>2. CASE e # c
      BY <1>7, <3>2 DEF CardInv, ListedFits, Turns
    <3> QED BY <3>1, <3>2
  <2> QED BY <1>1, <2>1 DEF CardInv, ListedFits, SharesKey
<1>10. pending' \subseteq Conflicts /\ plisted' \subseteq ConflictKeys /\ raised' \subseteq Conflicts /\ told' \subseteq Conflicts /\ settled' \subseteq Conflicts /\ crossed' \subseteq Conflicts
  BY <1>1, <1>2 DEF CardInv, IdsFit, SameKey
<1> QED BY <1>1, <1>2, <1>7, <1>8, <1>9, <1>10, ConflictTurn

\* upsert_item's statement.
LEMMA WriteItemKeeps == ASSUME CardInv, NEW c \in CardCalls, WriteItem(c) PROVE CardInv'
<1> DEFINE r == call[c]
           i == r.item
           row == [source |-> r.source, low |-> r.low, version |-> r.seen.version + 1]
           on == SetPc(r, "inv")
<1>1. /\ r.pc = "write" /\ CallShape(r) /\ CallsFit /\ Fits(r) /\ cops \in 0..CardOps
      /\ UNCHANGED <<cached, conflictVars, csecond, cops, evicting>> /\ cexcused' = cexcused
  BY DEF WriteItem, CardInv, CallsFit, Fits, clockVars, IdsFit
<1>2. i \in CardItems /\ r.source \in Sources /\ r.kind # "clear" /\ r.pc \notin PreDetect
  BY <1>1 DEF Fits, PreDetect
<1>3. CASE card' = card /\ call' = [call EXCEPT ![c] = IdleCall]
  <2>1. Turns(c, IdleCall) /\ Clearing(IdleCall, card) /\ IdleCall.pc \notin PreDetect
    BY <1>1, <1>3, IdleFits, TurnIs DEF Clearing, PreDetect
  <2> QED BY <1>1, <1>3, <2>1, IdleFits, QuietTurn
<1>4. CASE /\ card' = card \/ card' = [card EXCEPT ![i] = row]
           /\ call' = Noticed([call EXCEPT ![c].pc = "inv"], {i})
  <2>1. Keeps(on, r, {"pc"}) /\ on.pc = "inv"
    BY <1>1, SetsPc
  <2> DEFINE q == SetFresh(on, on.fresh \union {i})
             calls == [call EXCEPT ![c] = on]
  <2>2. calls = [call EXCEPT ![c].pc = "inv"]
    BY DEF SetPc
  <2> HIDE DEF on
  <2>3. \A d \in CardCalls : calls[d] = IF d = c THEN on ELSE call[d]
    BY <1>1 DEF CallsFit
  <2>4. call' = Noticed(calls, {i})
    BY <1>4, <2>2
  <2> HIDE DEF calls
  <2>5. DOMAIN call' = CardCalls /\ \A d \in CardCalls :
            call'[d] = IF calls[d].kind = "clear" THEN SetFresh(calls[d], calls[d].fresh \union {i}) ELSE calls[d]
    BY <2>4 DEF Noticed, SetFresh
  <2>6. ASSUME NEW d \in CardCalls
        PROVE  /\ Keeps(call'[d], call[d], {"pc", "fresh"})
               /\ call'[d].pc = IF d = c THEN "inv" ELSE call[d].pc
               /\ call[d].fresh = call'[d].fresh \/ call'[d].fresh = call[d].fresh \union {i}
               /\ call[d].kind = "clear" => call'[d].fresh = call[d].fresh \union {i}
    <3> DEFINE s == calls[d]
    <3>1. Keeps(s, call[d], {"pc"}) /\ s.pc = (IF d = c THEN "inv" ELSE call[d].pc)
      <4>1. CASE d = c
        BY <2>1, <2>3, <4>1
      <4>2. CASE d # c
        <5>1. s = call[d] /\ CallShape(call[d])
          BY <1>1, <2>3, <4>2 DEF CallsFit, Fits
        <5> QED BY <4>2, <5>1 DEF Keeps
      <4> QED BY <4>1, <4>2
    <3>2. call'[d] = IF s.kind = "clear" THEN SetFresh(s, s.fresh \union {i}) ELSE s
      BY <2>5
    <3> HIDE DEF s
    <3>3. CallShape(s) /\ s.kind = call[d].kind /\ s.fresh = call[d].fresh
      BY <3>1 DEF Keeps
    <3>4. CASE s.kind = "clear"
      <4> DEFINE t == SetFresh(s, s.fresh \union {i})
      <4>1. Keeps(t, s, {"fresh"}) /\ t.fresh = s.fresh \union {i}
        BY <3>3, SetsFresh
      <4> HIDE DEF t
      <4>2. call'[d] = t
        BY <3>2, <3>4 DEF t
      <4>3. Keeps(t, call[d], {"pc", "fresh"}) /\ t.pc = s.pc
        BY <3>1, <4>1 DEF Keeps
      <4> QED BY <3>1, <3>3, <4>1, <4>2, <4>3
    <3>5. CASE s.kind # "clear"
      <4>1. call'[d] = s
        BY <3>2, <3>5
      <4>2. Keeps(s, call[d], {"pc", "fresh"})
        BY <3>1 DEF Keeps
      <4> QED BY <3>1, <3>3, <3>5, <4>1, <4>2
    <3> QED BY <3>4, <3>5
  <2>7. /\ WholeCard(card) /\ (cached = NoCard \/ WholeCard(cached))
        /\ \A d \in CardCalls : Fits(call[d])
    BY <1>1 DEF CallsFit
  <2>8. /\ row.source = r.source /\ row.version = r.seen.version + 1
    OBVIOUS
  <2> HIDE DEF row
  <2>9. DOMAIN card' = CardItems /\ \A j \in CardItems : card'[j] = card[j] \/ (j = i /\ card'[j] = row)
    BY <1>2, <1>4, <2>7 DEF WholeCard
  <2>10. WholeCard(card') /\ (cached' = NoCard \/ WholeCard(cached'))
    BY <1>1, <1>2, <2>7, <2>8, <2>9 DEF WholeCard
  <2>11. CallsFit'
    <3>1. ASSUME NEW d \in CardCalls PROVE Fits(call'[d])
      <4> DEFINE s == call'[d]
                 o == call[d]
      <4>1. /\ CallShape(s) /\ s.kind = o.kind /\ s.item = o.item /\ s.source = o.source /\ s.seen = o.seen
            /\ s.shown = o.shown /\ s.todo = o.todo /\ s.id = o.id /\ (s.pc = "inv" \/ s.pc = o.pc)
        BY <2>6 DEF Keeps
      <4>2. Fits(o)
        BY <2>7
      <4> HIDE DEF s, o
      <4>3. Fits(s)
        BY <4>1, <4>2 DEF Fits, MayWrite
      <4> QED BY <4>3 DEF s
    <3>2. \A d \in CardCalls : Fits(call[d])'
      BY <3>1 DEF Fits, CallShape, MayWrite, WholeCard
    <3> QED BY <2>5, <2>10, <3>2 DEF CallsFit, WholeCard
  <2>12. UNCHANGED <<pending, plisted, derivedCount, raised, told, settled, crossed>>
    BY <1>1 DEF conflictVars
  <2>13. IdsFit'
    BY <1>1, <2>12 DEF CardInv, IdsFit
  <2>14. Spent' = Spent /\ CountsFit
    <3>1. \A d \in CardCalls : call'[d].pc \in PreDetect <=> call[d].pc \in PreDetect
      BY <1>2, <2>6 DEF PreDetect
    <3>2. Detecters' = Detecters
      BY <3>1 DEF Detecters
    <3> QED BY <1>1, <3>2 DEF Spent, CardInv
  <2>15. RowFits(row, Spent + 1)
    <3>1. RowFits(r.seen, Spent) /\ Spent \in Nat
      BY <1>1, <2>14 DEF CountsFit
    <3>2. r.seen.version \in 0..Spent
      <4>1. CASE r.seen = Missing
        BY <3>1, <4>1 DEF Missing
      <4>2. CASE r.seen # Missing
        BY <3>1, <4>2 DEF RowFits
      <4> QED BY <4>1, <4>2
    <3> QED BY <2>8, <3>1, <3>2 DEF RowFits
  <2>16. CountsFit'
    <3>1. \A j \in CardItems : RowFits(card'[j], Spent' + 1)
      BY <2>9, <2>14, <2>15 DEF CountsFit
    <3>2. \A d \in CardCalls : /\ call'[d].seen = call[d].seen /\ call'[d].item = call[d].item
                               /\ call'[d].source = call[d].source /\ (call'[d].pc = "inv" \/ call'[d].pc = call[d].pc)
      BY <2>6 DEF Keeps
    <3>3. \A d \in CardCalls : /\ call'[d].pc = "detect" => RowFits(call'[d].seen, Spent' + 1)
                               /\ call'[d].pc = "write" => RowFits(call'[d].seen, Spent') /\ Twice(call'[d], derivedCount')
      BY <2>12, <2>14, <3>2 DEF CountsFit, Twice
    <3> QED BY <1>1, <2>12, <2>14, <3>1, <3>3 DEF CountsFit, RowFits
  <2>17. StaleCardIsExplained'
    BY <2>6 DEF StaleCardIsExplained
  <2>18. ToldConflictsWait' /\ ListedFits'
    <3>1. \A d \in CardCalls : call'[d].id = call[d].id /\ (call'[d].pc = "inv" \/ call'[d].pc = call[d].pc)
      BY <2>6 DEF Keeps
    <3> QED BY <2>12, <3>1 DEF CardInv, ToldConflictsWait, ListedFits, SharesKey
  <2>19. ClearsAll'
    <3>1. ASSUME NEW d \in CardCalls PROVE Clearing(call'[d], card')
      <4> DEFINE s == call'[d]
                 o == call[d]
      <4>1. /\ s.kind = o.kind /\ s.shown = o.shown /\ s.todo = o.todo /\ s.old = o.old
            /\ o.kind = "clear" => s.pc = o.pc /\ s.fresh = o.fresh \union {i}
        BY <1>2, <2>6 DEF Keeps
      <4>2. Clearing(o, card)
        BY DEF CardInv, ClearsAll
      <4> HIDE DEF s, o
      <4>3. Clearing(s, card')
        BY <2>9, <4>1, <4>2 DEF Clearing
      <4> QED BY <4>3 DEF s
    <3> QED BY <3>1 DEF ClearsAll, Clearing
  <2> QED BY <2>11, <2>13, <2>16, <2>17, <2>18, <2>19 DEF CardInv
<1>5. \/ card' = card /\ call' = [call EXCEPT ![c] = IdleCall]
      \/ /\ card' = card \/ card' = [card EXCEPT ![i] = row]
         /\ call' = Noticed([call EXCEPT ![c].pc = "inv"], {i})
  BY DEF WriteItem
<1> QED BY <1>3, <1>4, <1>5

\* delete_item's statement.
LEMMA DeleteItemKeeps == ASSUME CardInv, NEW c \in CardCalls, DeleteItem(c) PROVE CardInv'
<1> DEFINE r == call[c]
<1>1. /\ r.pc = "del" /\ CallShape(r) /\ CallsFit /\ Fits(r) /\ cops' \in 0..CardOps
      /\ UNCHANGED <<cached, conflictVars, csecond, cops, evicting>> /\ cexcused' = cexcused
  BY DEF DeleteItem, CardInv, CallsFit, Fits, clockVars, IdsFit
<1>2. PICK i \in r.todo : /\ card' = [card EXCEPT ![i] = Missing]
                          /\ call' = [call EXCEPT ![c].pc = "inv", ![c].todo = @ \ {i}]
  BY DEF DeleteItem
<1> DEFINE left == r.todo \ {i}
           q == SetTodo(SetPc(r, "inv"), left)
<1>3. call' = [call EXCEPT ![c] = q]
  BY <1>1, <1>2 DEF SetTodo, SetPc, CallsFit
<1>4. Keeps(q, r, {"pc", "todo"}) /\ q.pc = "inv" /\ q.todo = left
  BY <1>1, SetsPcTodo
<1> HIDE DEF q
<1>5. CallShape(q) /\ q.kind = r.kind /\ q.fresh = r.fresh /\ q.old = r.old
  BY <1>4 DEF Keeps
<1>6. Fits(q) /\ q.pc \notin PreDetect
  BY <1>4, <1>5 DEF Fits, MayWrite, PreDetect
<1>7. Turns(c, q)
  BY <1>1, <1>3, TurnIs
<1>8. DOMAIN card = CardItems /\ DOMAIN card' = CardItems
      /\ \A j \in CardItems : card'[j] = IF j = i THEN Missing ELSE card[j]
  BY <1>1, <1>2 DEF CallsFit, WholeCard
<1>9. WholeCard(card') /\ (cached' = NoCard \/ WholeCard(cached'))
  BY <1>1, <1>8 DEF CallsFit, WholeCard
<1>10. CallsFit'
  BY <1>1, <1>6, <1>7, <1>9, TurnFits
<1>11. UNCHANGED <<pending, plisted, derivedCount, raised, told, settled, crossed>>
  BY <1>1 DEF conflictVars
<1>12. IdsFit'
  BY <1>1, <1>11 DEF CardInv, IdsFit
<1>13. CountsFit'
  BY <1>1, <1>4, <1>6, <1>7, <1>8, <1>11, TurnCounts
<1>14. StaleCardIsExplained'
  BY <1>4, <1>7 DEF Turns, StaleCardIsExplained
<1>15. ToldConflictsWait' /\ ListedFits'
  BY <1>4, <1>7, <1>11, TurnTells
<1>16. Clearing(q, card')
  <2>1. Clearing(r, card)
    BY DEF CardInv, ClearsAll
  <2> QED BY <1>1, <1>4, <1>5, <1>8, <2>1 DEF Clearing
<1>17. ClearsAll'
  BY <1>7, <1>8, <1>16, TurnClears
<1> QED BY <1>10, <1>12, <1>13, <1>14, <1>15, <1>17 DEF CardInv

\* _invalidate_cache.
LEMMA InvalidateKeeps == ASSUME CardInv, NEW c \in CardCalls, Invalidate(c) PROVE CardInv'
<1> DEFINE r == call[c]
           q == AfterInvalidate(r)
<1>1. /\ r.pc = "inv" /\ CallShape(r) /\ CallsFit /\ Fits(r) /\ cops' \in 0..CardOps
      /\ UNCHANGED <<card, conflictVars, csecond, cops, evicting>> /\ cached' = NoCard
      /\ call' = [call EXCEPT ![c] = q]
  BY DEF Invalidate, CardInv, CallsFit, Fits, clockVars, IdsFit
<1>2. \/ q = SetPc(r, "del") /\ r.todo # {}
      \/ q = SetPc(r, "cleared") /\ r.todo = {} /\ r.kind = "clear"
      \/ q = IdleCall
  BY DEF AfterInvalidate, SetPc
<1> HIDE DEF q
<1>3. /\ CallShape(q) /\ q.pc \in {"del", "cleared", "idle"} /\ (q.pc = "cleared" => q.kind = "clear" /\ q.todo = {})
      /\ q.kind = "clear" => /\ r.kind = "clear" /\ q.pc # "idle" /\ q.fresh = r.fresh /\ q.old = r.old /\ q.todo = r.todo
  <2>1. \A x : Keeps(SetPc(r, x), r, {"pc"}) /\ SetPc(r, x).pc = x
    BY <1>1, SetsPc
  <2>2. CASE q = IdleCall
    BY <2>2, IdleFits
  <2>3. CASE q = SetPc(r, "del")
    <3>1. Keeps(q, r, {"pc"}) /\ q.pc = "del"
      BY <2>1, <2>3
    <3> QED BY <3>1 DEF Keeps
  <2>4. CASE q = SetPc(r, "cleared") /\ r.todo = {} /\ r.kind = "clear"
    <3>1. Keeps(q, r, {"pc"}) /\ q.pc = "cleared"
      BY <2>1, <2>4
    <3> QED BY <2>4, <3>1 DEF Keeps
  <2> QED BY <1>2, <2>2, <2>3, <2>4
<1>4. Fits(q) /\ q.pc \notin PreDetect
  BY <1>3 DEF Fits, MayWrite, PreDetect
<1>5. Turns(c, q)
  BY <1>1, TurnIs
<1>6. CallsFit'
  BY <1>1, <1>4, <1>5, TurnFits DEF CallsFit, WholeCard
<1>7. UNCHANGED <<pending, plisted, derivedCount, raised, told, settled, crossed>>
  BY <1>1 DEF conflictVars
<1>8. IdsFit'
  BY <1>1, <1>7 DEF CardInv, IdsFit
<1>9. CountsFit'
  BY <1>1, <1>3, <1>4, <1>5, <1>7, TurnCounts
<1>10. StaleCardIsExplained'
  BY <1>1 DEF StaleCardIsExplained
<1>11. ToldConflictsWait' /\ ListedFits'
  BY <1>3, <1>5, <1>7, TurnTells
<1>12. Clearing(q, card')
  <2>1. Clearing(r, card)
    BY DEF CardInv, ClearsAll
  <2> QED BY <1>1, <1>3, <2>1 DEF Clearing
<1>13. ClearsAll'
  BY <1>1, <1>5, <1>12, TurnClears
<1> QED BY <1>6, <1>8, <1>9, <1>10, <1>11, <1>13 DEF CardInv

\* Steps that are nobody's call: rows may go, keys of Redis expire or are overwritten.
LEMMA HousekeepingKeeps ==
    ASSUME CardInv, UNCHANGED <<call, cops, plisted, told, crossed>>, csecond' \in 0..CardSeconds,
           evicting'.pc \in {"idle", "delete", "inv"},
           DOMAIN card' = CardItems, \A i \in CardItems : card'[i] = card[i] \/ card'[i] = Missing,
           cached' \in {cached, NoCard}, StaleCardIsExplained',
           derivedCount' \in [CardItems -> Nat], \A i \in CardItems : derivedCount'[i] <= derivedCount[i],
           \A c \in CardCalls : call[c].pc = "write" => derivedCount'[call[c].item] = derivedCount[call[c].item],
           raised \subseteq raised', raised' \subseteq Conflicts, pending' \subseteq raised',
           settled \subseteq settled', settled' \subseteq Conflicts,
           \A d \in pending \ pending' : d \in settled' \/ SharesKey(d)'
    PROVE  CardInv'
<1>1. CallsFit'
  <2>1. WholeCard(card') /\ (cached' = NoCard \/ WholeCard(cached'))
    BY DEF CardInv, CallsFit, WholeCard
  <2>2. \A c \in CardCalls : Fits(call[c])'
    BY DEF CardInv, CallsFit, Fits, CallShape, MayWrite, WholeCard
  <2> QED BY <2>1, <2>2 DEF CardInv, CallsFit, WholeCard
<1>2. IdsFit'
  BY DEF CardInv, IdsFit
<1>3. Spent' = Spent /\ Spent \in Nat /\ CountsFit
  BY CardConstants DEF Spent, Detecters, CardInv, CountsFit, IdsFit
<1>4. CountsFit'
  <2>1. \A i \in CardItems : RowFits(card'[i], Spent + 1)
    BY <1>3 DEF CountsFit, RowFits
  <2>2. \A i \in CardItems : derivedCount'[i] <= Spent
    BY <1>3 DEF CountsFit
  <2>3. \A c \in CardCalls : call[c].pc = "write" => Twice(call[c], derivedCount')
    BY <1>3 DEF CountsFit, Twice
  <2> QED BY <1>3, <2>1, <2>2, <2>3 DEF CountsFit, RowFits
<1>5. \A d : SharesKey(d) => SharesKey(d)'
  BY DEF SharesKey
<1>6. ToldConflictsWait'
  BY <1>5 DEF CardInv, ToldConflictsWait
<1>7. ListedFits'
  <2>1. ASSUME NEW c \in CardCalls
        PROVE  /\ call[c].pc \in {"list", "close", "unlist"} => call[c].id \in raised'
               /\ call[c].pc = "list" => call[c].id \in pending' \union settled' \/ \E e \in raised' : e # call[c].id /\ Key(e) = Key(call[c].id)
    BY <1>5 DEF CardInv, ListedFits, SharesKey
  <2> QED BY <2>1 DEF CardInv, ListedFits, SharesKey
<1>8. ClearsAll'
  BY DEF CardInv, ClearsAll, Clearing
<1> QED BY <1>1, <1>2, <1>4, <1>6, <1>7, <1>8 DEF CardInv

\* Of these, the ones that leave conflicts and counts alone.
LEMMA RowsGoKeeps ==
    ASSUME CardInv, UNCHANGED <<call, cops, conflictVars>>, csecond' \in 0..CardSeconds,
           evicting'.pc \in {"idle", "delete", "inv"},
           DOMAIN card' = CardItems, \A i \in CardItems : card'[i] = card[i] \/ card'[i] = Missing,
           cached' \in {cached, NoCard}, StaleCardIsExplained'
    PROVE  CardInv'
<1>1. UNCHANGED <<pending, plisted, derivedCount, raised, told, settled, crossed>>
  BY DEF conflictVars
<1>2. /\ derivedCount' \in [CardItems -> Nat] /\ \A i \in CardItems : derivedCount'[i] <= derivedCount[i]
      /\ raised' \subseteq Conflicts /\ pending' \subseteq raised' /\ settled' \subseteq Conflicts
  BY <1>1 DEF CardInv, IdsFit, CountsFit, ListedFits
<1> QED BY <1>1, <1>2, HousekeepingKeeps

LEMMA ArchiveLowKeeps == ASSUME CardInv, ArchiveLow PROVE CardInv'
<1>1. /\ UNCHANGED <<call, cops, csecond, evicting, conflictVars, cached>> /\ csecond' \in 0..CardSeconds
      /\ evicting'.pc \in {"idle", "delete", "inv"} /\ cexcused' = (cexcused \/ cached # NoCard)
  BY DEF ArchiveLow, clockVars, CardInv, IdsFit
<1>2. DOMAIN card' = CardItems /\ \A i \in CardItems : card'[i] = card[i] \/ card'[i] = Missing
  BY DEF ArchiveLow
<1>3. cached # NoCard => cexcused'
  BY <1>1, Zenon
<1>4. StaleCardIsExplained'
  BY <1>1, <1>3 DEF StaleCardIsExplained
<1> QED BY <1>1, <1>2, <1>4, RowsGoKeeps

\* evict_over_limit's three steps.
LEMMA EvictionKeeps == ASSUME CardInv, CountOverLimit \/ EvictOverLimit \/ DropEvicted \/ EvictFails PROVE CardInv'
<1>1. /\ UNCHANGED <<call, cops, csecond, conflictVars>> /\ csecond' \in 0..CardSeconds
      /\ DOMAIN card = CardItems
  BY DEF CountOverLimit, EvictOverLimit, DropEvicted, EvictFails, Evicts, CardInv, IdsFit, CallsFit, WholeCard
<1>2. CASE CountOverLimit
  <2>1. evicting'.pc = "delete" /\ evicting.pc = "idle" /\ UNCHANGED <<card, cached, cexcused>>
    BY <1>2 DEF CountOverLimit, Evicts
  <2>2. StaleCardIsExplained'
    BY <1>1, <2>1 DEF CardInv, StaleCardIsExplained
  <2> QED BY <1>1, <2>1, <2>2, RowsGoKeeps
<1>3. CASE EvictOverLimit
  <2>1. evicting'.pc = "inv" /\ UNCHANGED <<cached, cexcused>>
    BY <1>3 DEF EvictOverLimit, Evicts
  <2>2. PICK gone : card' = [i \in CardItems |-> IF i \in gone THEN Missing ELSE card[i]]
    BY <1>3 DEF EvictOverLimit
  <2>3. DOMAIN card' = CardItems /\ \A i \in CardItems : card'[i] = card[i] \/ card'[i] = Missing
    BY <2>2
  <2>4. StaleCardIsExplained'
    BY <2>1 DEF StaleCardIsExplained
  <2> QED BY <1>1, <2>1, <2>3, <2>4, RowsGoKeeps
<1>4. CASE DropEvicted
  <2>1. evicting'.pc = "idle" /\ cached' = NoCard /\ UNCHANGED card
    BY <1>4 DEF DropEvicted, Evicts, NoEviction
  <2>2. StaleCardIsExplained'
    BY <2>1 DEF StaleCardIsExplained
  <2> QED BY <1>1, <2>1, <2>2, RowsGoKeeps
<1>5. CASE EvictFails
  <2>1. /\ evicting'.pc = "idle" /\ UNCHANGED <<card, cached>>
        /\ cexcused' = (cexcused \/ (evicting.pc = "inv" /\ cached # NoCard))
    BY <1>5 DEF EvictFails, Evicts, NoEviction
  <2>2. (cexcused => cexcused') /\ (evicting.pc = "inv" /\ cached # NoCard => cexcused')
    BY <2>1, Zenon
  <2>3. StaleCardIsExplained'
    BY <1>1, <2>1, <2>2 DEF CardInv, StaleCardIsExplained
  <2> QED BY <1>1, <2>1, <2>3, RowsGoKeeps
<1> QED BY <1>2, <1>3, <1>4, <1>5

\* Another user's record goes over one of this user's.
LEMMA OthersConflictKeeps == ASSUME CardInv, OthersConflict PROVE CardInv'
<1>1. /\ UNCHANGED <<card, cached, plisted, derivedCount, call, told, settled, crossed, csecond, cops, evicting>>
      /\ cexcused' = cexcused /\ DOMAIN card = CardItems /\ csecond' \in 0..CardSeconds
      /\ evicting'.pc \in {"idle", "delete", "inv"} /\ settled' \subseteq Conflicts
  BY DEF OthersConflict, clockVars, CardInv, CallsFit, WholeCard, IdsFit
<1>2. PICK i \in CardItems : PutRecord(<<csecond, i, "other">>)
  BY DEF OthersConflict
<1> DEFINE d == <<csecond, i, "other">>
<1>3. d \in Conflicts
  BY DEF CardInv, IdsFit, Conflicts, Owners
<1> HIDE DEF d
<1>4. pending' = (pending \ SameKey(d)) \union {d} /\ raised' = raised \union {d}
  BY <1>2 DEF PutRecord, d
<1>5. raised' \subseteq Conflicts /\ pending' \subseteq raised'
  BY <1>3, <1>4 DEF CardInv, IdsFit, ListedFits
<1>6. \A e \in pending \ pending' : SharesKey(e)'
  BY <1>4 DEF SharesKey, SameKey
<1>7. StaleCardIsExplained'
  BY <1>1 DEF CardInv, StaleCardIsExplained
<1>8. derivedCount' \in [CardItems -> Nat] /\ \A j \in CardItems : derivedCount'[j] <= derivedCount[j]
  BY <1>1 DEF CardInv, CountsFit
<1> QED BY <1>1, <1>4, <1>5, <1>6, <1>7, <1>8, HousekeepingKeeps

LEMMA ExpiresKeeps == ASSUME CardInv, Expires PROVE CardInv'
<1>1. /\ UNCHANGED <<call, cops, csecond, evicting, plisted, raised, told, crossed, card>> /\ csecond' \in 0..CardSeconds
      /\ CallsFit /\ settled \subseteq Conflicts /\ pending \subseteq raised /\ raised' \subseteq Conflicts
      /\ evicting'.pc \in {"idle", "delete", "inv"}
  BY DEF Expires, clockVars, CardInv, IdsFit, ListedFits
<1>2. derivedCount \in [CardItems -> Nat] /\ \A i \in CardItems : derivedCount[i] <= derivedCount[i]
  BY DEF CardInv, CountsFit
<1>3. DOMAIN card' = CardItems /\ \A i \in CardItems : card'[i] = card[i] \/ card'[i] = Missing
  BY <1>1 DEF CallsFit, WholeCard
<1>4. CASE cached' = NoCard /\ UNCHANGED <<pending, settled, derivedCount>>
  <2>1. StaleCardIsExplained'
    BY <1>4 DEF StaleCardIsExplained
  <2> QED BY <1>1, <1>2, <1>3, <1>4, <2>1, HousekeepingKeeps
<1>5. ASSUME UNCHANGED <<cached, cexcused>> PROVE StaleCardIsExplained'
  BY <1>1, <1>5 DEF CardInv, StaleCardIsExplained
<1>6. ASSUME NEW d \in pending, pending' = pending \ {d}, settled' = settled \union {d},
             UNCHANGED <<cached, cexcused, derivedCount>>
      PROVE  CardInv'
  <2>1. settled' \subseteq Conflicts /\ settled \subseteq settled' /\ pending' \subseteq pending
        /\ \A e \in pending \ pending' : e \in settled'
    BY <1>1, <1>6
  <2> QED BY <1>1, <1>2, <1>3, <1>5, <1>6, <2>1, HousekeepingKeeps
<1>7. ASSUME NEW i \in CardItems, \A c \in CardCalls : ~(call[c].pc = "write" /\ call[c].item = i),
             derivedCount' = [derivedCount EXCEPT ![i] = 0],
             UNCHANGED <<cached, cexcused, pending, settled>>
      PROVE  CardInv'
  <2>1. /\ derivedCount' \in [CardItems -> Nat] /\ \A j \in CardItems : derivedCount'[j] <= derivedCount[j]
        /\ \A c \in CardCalls : call[c].pc = "write" => derivedCount'[call[c].item] = derivedCount[call[c].item]
    BY <1>2, <1>7
  <2> QED BY <1>1, <1>3, <1>5, <1>7, <2>1, HousekeepingKeeps
<1>8. \/ cached' = NoCard /\ UNCHANGED <<pending, settled, derivedCount>>
      \/ \E d \in pending : /\ pending' = pending \ {d} /\ settled' = settled \union {d}
                            /\ UNCHANGED <<cached, cexcused, derivedCount>>
      \/ \E i \in CardItems : /\ \A c \in CardCalls : ~(call[c].pc = "write" /\ call[c].item = i)
                              /\ derivedCount' = [derivedCount EXCEPT ![i] = 0] /\ UNCHANGED <<cached, cexcused, pending, settled>>
  BY DEF Expires
<1> QED BY <1>4, <1>6, <1>7, <1>8

LEMMA SecondPassesKeeps == ASSUME CardInv, SecondPasses PROVE CardInv'
<1>1. UNCHANGED <<call, cops, evicting, conflictVars, card, cached, cexcused>>
  BY DEF SecondPasses
<1>2. csecond' \in 0..CardSeconds /\ evicting'.pc \in {"idle", "delete", "inv"}
  BY CardConstants DEF SecondPasses, CardInv, IdsFit
<1>3. DOMAIN card' = CardItems /\ \A i \in CardItems : card'[i] = card[i] \/ card'[i] = Missing
  BY <1>1 DEF CardInv, CallsFit, WholeCard
<1>4. StaleCardIsExplained'
  BY <1>1 DEF CardInv, StaleCardIsExplained
<1> QED BY <1>1, <1>2, <1>3, <1>4, RowsGoKeeps

LEMMA CardStarts == ASSUME CardInit PROVE CardInv
<1>1. /\ call = [c \in CardCalls |-> IdleCall] /\ cached = NoCard /\ csecond = 0 /\ cops = 0
      /\ pending = {} /\ plisted = {} /\ raised = {} /\ told = {} /\ settled = {} /\ crossed = {}
      /\ derivedCount = [i \in CardItems |-> 0] /\ evicting.pc = "idle"
  BY DEF CardInit, NoEviction
<1>2. DOMAIN card = CardItems /\ \A i \in CardItems : card[i] = Missing \/ (card[i].version = 1 /\ card[i].source \in Sources)
  BY DEF CardInit, Sources
<1>3. CallsFit
  BY <1>1, <1>2, IdleFits DEF CallsFit, WholeCard
<1>4. IdsFit
  BY <1>1, CardConstants DEF IdsFit
<1>5. Spent = 0
  <2>1. Detecters = {}
    BY <1>1, IdleFits DEF Detecters, PreDetect
  <2> QED BY <1>1, <2>1, FS_EmptySet DEF Spent
<1>6. CountsFit
  BY <1>1, <1>2, <1>5, IdleFits DEF CountsFit, RowFits
<1>7. StaleCardIsExplained /\ ToldConflictsWait
  BY <1>1 DEF StaleCardIsExplained, ToldConflictsWait
<1>8. ListedFits /\ ClearsAll
  BY <1>1, IdleFits DEF ListedFits, ClearsAll, Clearing
<1> QED BY <1>3, <1>4, <1>6, <1>7, <1>8 DEF CardInv

LEMMA CardStep == ASSUME CardInv, CardNext PROVE CardInv'
<1>1. ASSUME NEW c \in CardCalls,
             \/ Remember(c) \/ Forget(c) \/ ReadCard(c) \/ Decide(c) \/ GetProfile(c) \/ FillCache(c) \/ ReadItem(c)
             \/ DetectConflict(c) \/ StorePending(c) \/ ListPending(c) \/ WriteItem(c) \/ DeleteItem(c) \/ Invalidate(c)
             \/ Cleared(c) \/ CallFails(c) \/ CloseConflict(c) \/ UnlistConflict(c)
      PROVE  CardInv'
  BY <1>1, StartsKeep, GetProfileKeeps, FillCacheKeeps, ReadItemKeeps, DetectKeeps, StorePendingKeeps, ListPendingKeeps,
     WriteItemKeeps, DeleteItemKeeps, InvalidateKeeps, CardEndsKeep, CloseConflictKeeps, UnlistConflictKeeps
<1> QED BY <1>1, ArchiveLowKeeps, EvictionKeeps, OthersConflictKeeps, ExpiresKeeps, SecondPassesKeeps DEF CardNext

LEMMA CardRest == ASSUME CardInv, UNCHANGED mcVars PROVE CardInv'
<1>1. /\ UNCHANGED <<call, cops, csecond, evicting, conflictVars, card, cached, cexcused>>
      /\ csecond' \in 0..CardSeconds /\ evicting'.pc \in {"idle", "delete", "inv"}
  BY DEF mcVars, conflictVars, CardInv, IdsFit
<1>2. DOMAIN card' = CardItems /\ \A i \in CardItems : card'[i] = card[i] \/ card'[i] = Missing
  BY <1>1 DEF CardInv, CallsFit, WholeCard
<1>3. StaleCardIsExplained'
  BY <1>1 DEF CardInv, StaleCardIsExplained
<1> QED BY <1>1, <1>2, <1>3, RowsGoKeeps

\* What the model checks of the card.
LEMMA CardInvSuffices == ASSUME CardInv PROVE CardTypeOK /\ StaleCardIsExplained /\ ToldConflictsWait /\ ClearAllClears
<1>1. CallsFit /\ IdsFit /\ CountsFit /\ ClearsAll /\ StaleCardIsExplained /\ ToldConflictsWait
  BY DEF CardInv
<1>2. Spent \in Nat /\ Spent <= CardOps
  BY <1>1, CardConstants DEF CountsFit, IdsFit
<1>3. \A i \in CardItems : card[i] = Missing \/ (card[i].source \in Sources /\ card[i].version \in 1..(CardOps + 1))
  BY <1>1, <1>2, CardConstants DEF CallsFit, WholeCard, CountsFit, RowFits
<1>4. derivedCount \in [CardItems -> 0..CardOps]
  BY <1>1, <1>2, CardConstants DEF CountsFit
<1>5. CardTypeOK
  BY <1>1, <1>3, <1>4 DEF CardTypeOK, CallsFit, IdsFit, ConflictKeys, WholeCard
<1>6. ClearAllClears
  <2> SUFFICES ASSUME NEW c \in CardCalls, call[c].pc = "cleared", ~call[c].old,
                      NEW i \in CardItems, card[i] # Missing
               PROVE  i \in call[c].fresh
    BY DEF ClearAllClears
  <2>1. Clearing(call[c], card) /\ Fits(call[c])
    BY <1>1 DEF ClearsAll, CallsFit
  <2>2. call[c].kind = "clear" /\ call[c].todo = {}
    BY SMTT(30), <2>1 DEF Fits
  <2> QED BY <2>1, <2>2 DEF Clearing
<1> QED BY <1>1, <1>5, <1>6

\* Only a write puts in an unconfirmed row, and a writer of one that saw a confirmed row
\* has a derived value that came up twice.
LEMMA ConfirmedStep ==
    ASSUME CardInv, CardNext, NEW i \in CardItems,
           card[i].source = "user_confirmed", card'[i].source \in {"derived", "tool_written"}
    PROVE  \E c \in CardCalls : /\ call[c].pc = "write" /\ call[c].item = i
                                /\ call[c].seen.source # "user_confirmed" \/ (call[c].source = "derived" /\ derivedCount[i] >= 2)
<1>0. DOMAIN card = CardItems
  BY DEF CardInv, CallsFit, WholeCard
<1>1. card' # card
  OBVIOUS
<1>2. ASSUME NEW c \in CardCalls, WriteItem(c)
      PROVE  /\ call[c].pc = "write" /\ call[c].item = i
             /\ call[c].seen.source # "user_confirmed" \/ (call[c].source = "derived" /\ derivedCount[i] >= 2)
  <2> DEFINE r == call[c]
             v == r.seen.version + 1
             row == [source |-> r.source, low |-> r.low, version |-> v]
  <2>1. r.pc = "write" /\ card' = [card EXCEPT ![r.item] = row]
    BY <1>1, <1>2 DEF WriteItem
  <2>2. row.source = r.source
    OBVIOUS
  <2> HIDE DEF row
  <2>3. r.item = i /\ card'[i] = row
    BY <1>0, <2>1
  <2>4. MayWrite(r)
    BY DEF CardInv, CallsFit, Fits
  <2>5. Twice(r, derivedCount)
    BY <2>1 DEF CardInv, CountsFit
  <2> QED BY <2>1, <2>2, <2>3, <2>4, <2>5 DEF MayWrite, Twice
<1>3. ASSUME NEW c \in CardCalls, DeleteItem(c) PROVE FALSE
  <2>1. PICK j : card' = [card EXCEPT ![j] = Missing]
    BY <1>3 DEF DeleteItem
  <2>2. card'[i] = card[i] \/ card'[i] = Missing
    BY <1>0, <2>1
  <2> QED BY <2>2 DEF Missing
<1>4. CASE ArchiveLow \/ EvictOverLimit
  <2>1. PICK gone : card' = [j \in CardItems |-> IF j \in gone THEN Missing ELSE card[j]]
    BY <1>4 DEF ArchiveLow, EvictOverLimit
  <2>2. card'[i] = card[i] \/ card'[i] = Missing
    BY <2>1
  <2> QED BY <2>2 DEF Missing
<1>5. CASE \E c \in CardCalls : WriteItem(c)
  BY <1>2, <1>5
<1>6. CASE \E c \in CardCalls : DeleteItem(c)
  BY <1>3, <1>6
<1> QED BY <1>1, <1>4, <1>5, <1>6
        DEF CardNext, Remember, Forget, ReadCard, Decide, Begins, GetProfile, FillCache, ReadItem, DetectConflict,
            StorePending, ListPending, Invalidate, Cleared, CallFails, CloseConflict, UnlistConflict, Expires, SecondPasses, CountOverLimit,
            DropEvicted, EvictFails, OthersConflict

----------------------------------------------------------------------------
(* The context window.                                                     *)

LEMMA WindowConstants ==
    /\ WindowTokens \in Nat /\ MaxMessages \in Nat /\ SummaryTokens \subseteq Nat /\ \A k \in MessageKinds : k.tokens \in Nat
BY WindowAssumption DEF WindowAssumption

Messages == [role : {k.role : k \in MessageKinds} \union {"system"}, tokens : Nat, id : Nat]

\* A conversation before message n: at most the system message, a summary behind it, and
\* the newest messages.
Ordered(m, n) ==
    /\ m \in Seq(Messages) /\ n \in Nat \ {0} /\ (n = 1 => Len(m) = 0)
    /\ \A i \in 1..Len(m) : m[i].id \in 0..(n - 1)
    /\ \A i \in 1..Len(m) : m[i].role = "system" => i = 1 \/ (i = 2 /\ m[1].role = "system" /\ m[2].id = 0)
    /\ \A i \in 1..Len(m) : m[i].role # "system" => m[i].id = n - 1 - (Len(m) - i)
    /\ n <= 2 \/ (Len(m) >= 1 /\ m[Len(m)].role # "system")

Compressing == {"first", "second", "extract"}
CallIs(r) == r = [pc |-> r.pc, lost |-> r.lost, last |-> r.last, middle |-> r.middle]

WindowInv ==
    /\ Ordered(cwMsgs, cwNext) /\ cwNext \in 1..(MaxMessages + 1)
    /\ cwCall.pc \in {"idle", "first", "second", "extract", "done"} /\ cwOpen \in BOOLEAN /\ CallIs(cwCall)
    /\ \A ids \in cwTasks : ids \subseteq 0..(cwNext - 1)
    /\ cwCall.pc \in Compressing => cwCall.last = cwMsgs /\ cwCall.middle = Middle(cwMsgs) /\ cwCall.middle # <<>>
    /\ FitsOrIsOneMessage /\ MiddleIsSomewhere

LEMMA NewestIs ==
    ASSUME NEW S, NEW s \in Seq(S), NEW n \in 0..Len(s)
    PROVE  /\ Newest(s, n) \in Seq(S) /\ Len(Newest(s, n)) = n
           /\ \A j \in 1..n : Newest(s, n)[j] = s[Len(s) - n + j]
<1> DEFINE k == Len(s)
           t == SubSeq(s, k - n + 1, k)
<1>1. k \in Nat /\ n \in Nat /\ n <= k
  BY LenProperties
<1>2. \A i \in (k - n + 1)..k : s[i] \in S
  BY <1>1, ElementOfSeq
<1>3. /\ t \in Seq(S) /\ Len(t) = IF k - n + 1 <= k THEN k - (k - n + 1) + 1 ELSE 0
      /\ \A j \in 1..(k - (k - n + 1) + 1) : t[j] = s[k - n + 1 + j - 1]
  BY <1>1, <1>2, SubSeqProperties
<1> HIDE DEF t
<1>4. Len(t) = n
  BY <1>1, <1>3
<1>5. ASSUME NEW j \in 1..n PROVE t[j] = s[k - n + j]
  <2>1. j \in 1..(k - (k - n + 1) + 1) /\ k - n + 1 + j - 1 = k - n + j
    BY <1>1
  <2> QED BY <1>3, <2>1
<1>6. Newest(s, n) = t
  BY DEF Newest, t
<1> QED BY <1>3, <1>4, <1>5, <1>6

\* Where the others begin.
LEMMA OthersAre ==
    ASSUME NEW m, NEW n, Ordered(m, n)
    PROVE  \/ /\ SystemAt(m) # {} /\ Len(m) >= 1 /\ m[1].role = "system" /\ System(m) = <<m[1]>> /\ m[1] \in Messages
              /\ Others(m) \in Seq(Messages) /\ Len(Others(m)) = Len(m) - 1
              /\ \A j \in 1..Len(Others(m)) : Others(m)[j] = m[j + 1]
           \/ /\ SystemAt(m) = {} /\ System(m) = <<>> /\ Others(m) = m /\ \A i \in 1..Len(m) : m[i].role # "system"
<1>1. m \in Seq(Messages) /\ Len(m) \in Nat /\ DOMAIN m = 1..Len(m) /\ \A i \in 1..Len(m) : m[i] \in Messages
  BY SMTT(30), LenProperties, ElementOfSeq DEF Ordered
<1>2. CASE SystemAt(m) = {}
  BY <1>1, <1>2 DEF System, Others, SystemAt
<1>3. CASE SystemAt(m) # {}
  <2>1. PICK i \in 1..Len(m) : m[i].role = "system"
    BY <1>1, <1>3 DEF SystemAt
  <2>2. Len(m) >= 1 /\ m[1].role = "system" /\ 1 \in 1..Len(m)
    BY <1>1, <2>1 DEF Ordered
  <2>3. 1 \in SystemAt(m) /\ \A j \in SystemAt(m) : j \in Int /\ 1 <= j
    BY <1>1, <2>2 DEF SystemAt
  <2>4. Min(SystemAt(m)) = 1
    <3>1. \E x \in SystemAt(m) : \A y \in SystemAt(m) : x =< y
      BY <2>3
    <3>2. Min(SystemAt(m)) \in SystemAt(m) /\ \A y \in SystemAt(m) : Min(SystemAt(m)) =< y
      BY <3>1 DEF Min
    <3> QED BY <2>3, <3>2
  <2>5. System(m) = <<m[1]>> /\ Others(m) = RemoveAt(m, 1)
    BY SMTT(30), <1>3, <2>4 DEF System, Others
  <2>6. /\ RemoveAt(m, 1) \in Seq(Messages) /\ Len(RemoveAt(m, 1)) = Len(m) - 1
        /\ \A j \in 1..Len(RemoveAt(m, 1)) : RemoveAt(m, 1)[j] = IF j < 1 THEN m[j] ELSE m[j + 1]
    BY <1>1, <2>2, RemoveAtSeq
  <2>7. \A j \in 1..Len(RemoveAt(m, 1)) : RemoveAt(m, 1)[j] = m[j + 1]
    BY <1>1, <2>6
  <2> QED BY <1>1, <1>3, <2>2, <2>5, <2>6, <2>7
<1> QED BY <1>2, <1>3

----------------------------------------------------------------------------
(* Tokens.                                                                 *)

LEMMA TokensAre ==
    ASSUME NEW s \in Seq(Messages), NEW w, w = [i \in 1..Len(s) |-> s[i].tokens]
    PROVE  /\ w \in [1..Len(s) -> Nat] /\ IsFiniteSet(1..Len(s))
           /\ Tokens(s) = Tally(1..Len(s), w) /\ Tokens(s) \in Nat
<1>1. Len(s) \in Nat /\ DOMAIN s = 1..Len(s) /\ \A i \in 1..Len(s) : s[i] \in Messages
  BY LenProperties, ElementOfSeq
<1>2. \A i \in 1..Len(s) : s[i].tokens \in Nat
  BY <1>1 DEF Messages
<1>3. w \in [1..Len(s) -> Nat] /\ \A i \in 1..Len(s) : w[i] = s[i].tokens
  BY <1>2
<1>4. IsFiniteSet(1..Len(s))
  BY <1>1, UpTo
<1>5. Tokens(s) = Tally(1..Len(s), w)
  BY <1>1, <1>3 DEF Tokens, Tally, TallyMarks
<1> QED BY <1>3, <1>4, <1>5, TallyType

LEMMA TallyParts ==
    ASSUME NEW A, NEW B, NEW C, C = A \union B, A \cap B = {}, IsFiniteSet(A), IsFiniteSet(B), NEW w \in [C -> Nat]
    PROVE  Tally(C, w) = Tally(A, w) + Tally(B, w)
<1>1. w \in [A \union B -> Nat]
  OBVIOUS
<1>2. Tally(A \union B, w) = Tally(A, w) + Tally(B, w)
  BY <1>1, TallyUnion
<1> QED BY <1>2

\* Tallies of consecutive numbers.
LEMMA TallyJoin ==
    ASSUME NEW k \in Nat, NEW l \in Nat, NEW w \in [1..(k + l) -> Nat], NEW v \in [1..k -> Nat], NEW x \in [1..l -> Nat],
           \A i \in 1..k : v[i] = w[i], \A i \in 1..l : x[i] = w[k + i]
    PROVE  Tally(1..(k + l), w) = Tally(1..k, v) + Tally(1..l, x)
<1> DEFINE A == 1..k
           B == (k + 1)..(k + l)
           C == 1..(k + l)
           y == [i \in B |-> w[i]]
<1>1. C = A \union B /\ A \cap B = {}
  OBVIOUS
<1>2. IsFiniteSet(A) /\ IsFiniteSet(C)
  BY UpTo
<1>3. IsFiniteSet(B)
  BY <1>1, <1>2, FS_Subset
<1>4. y \in [B -> Nat] /\ \A i \in B : y[i] = w[i]
  BY <1>1
<1>5. Tally(B, y) = Tally(1..l, x)
  <2>1. \A i \in B : i - k \in 1..l /\ k + (i - k) = i
    OBVIOUS
  <2>2. \A j \in 1..l : k + j \in B
    OBVIOUS
  <2>3. B \subseteq Int
    OBVIOUS
  <2> HIDE DEF B, y
  <2>4. \A i \in B : x[i - k] = y[i]
    BY <1>4, <2>1
  <2>5. Renumbered(B, y, 1..l, x, k)
    BY <1>3, <1>4, <2>1, <2>2, <2>3, <2>4 DEF Renumbered
  <2> QED BY <2>5, TallyShift
<1>6. Tally(C, w) = Tally(A, w) + Tally(B, w)
  <2>1. w \in [C -> Nat]
    OBVIOUS
  <2> HIDE DEF A, B, C
  <2> QED BY SMTT(30), <1>1, <1>2, <1>3, <2>1, TallyParts
<1>7. Tally(A, w) = Tally(A, v) /\ Tally(B, w) = Tally(B, y)
  BY <1>4, TallySame
<1> QED BY <1>5, <1>6, <1>7

LEMMA TokensAdd ==
    ASSUME NEW s \in Seq(Messages), NEW t \in Seq(Messages)
    PROVE  Tokens(s \o t) = Tokens(s) + Tokens(t)
<1> DEFINE z == s \o t
           k == Len(s)
           l == Len(t)
           w == [i \in 1..Len(z) |-> z[i].tokens]
           v == [i \in 1..k |-> s[i].tokens]
           x == [i \in 1..l |-> t[i].tokens]
<1>1. k \in Nat /\ l \in Nat /\ z \in Seq(Messages) /\ Len(z) = k + l
      /\ \A i \in 1..(k + l) : z[i] = IF i <= k THEN s[i] ELSE t[i - k]
  BY LenProperties, ConcatProperties
<1>2. v \in [1..k -> Nat] /\ Tokens(s) = Tally(1..k, v)
  BY TokensAre
<1>3. x \in [1..l -> Nat] /\ Tokens(t) = Tally(1..l, x)
  BY TokensAre
<1> HIDE DEF z, k, l
<1>4. w \in [1..(k + l) -> Nat] /\ Tokens(z) = Tally(1..(k + l), w)
  BY <1>1, TokensAre
<1>5. /\ \A i \in 1..k : v[i] = w[i]
      /\ \A i \in 1..l : x[i] = w[k + i]
  BY <1>1
<1> HIDE DEF w, v, x
<1>6. Tally(1..(k + l), w) = Tally(1..k, v) + Tally(1..l, x)
  BY ZenonT(60), <1>1, <1>2, <1>3, <1>4, <1>5, TallyJoin
<1> QED BY <1>2, <1>3, <1>4, <1>6 DEF z

LEMMA CallFields ==
    ASSUME NEW p, NEW a, NEW b, NEW d, NEW r, r = [pc |-> p, lost |-> a, last |-> b, middle |-> d]
    PROVE  CallIs(r) /\ r.pc = p /\ r.lost = a /\ r.last = b /\ r.middle = d
<1>1. r.pc = p /\ r.lost = a /\ r.last = b /\ r.middle = d
  OBVIOUS
<1> QED BY <1>1 DEF CallIs

LEMMA NoWindowIs == CallIs(NoWindow) /\ NoWindow.pc = "idle"
BY CallFields DEF NoWindow

\* What is checked of the conversation and of its numbers follows from its order.
LEMMA WindowInvSuffices ==
    ASSUME WindowInv
    PROVE  WindowTypeOK /\ NewestAreKept /\ FitsOrIsOneMessage /\ MiddleIsSomewhere
<1> DEFINE m == cwMsgs
           n == cwNext
           o == Others(m)
<1>1. Ordered(m, n) /\ m \in Seq(Messages) /\ Len(m) \in Nat /\ DOMAIN m = 1..Len(m) /\ n \in Nat \ {0}
  BY LenProperties DEF WindowInv, Ordered
<1>2. Numbers(m) \subseteq 0..(n - 1)
  BY <1>1 DEF Numbers, ToSet, Ordered
<1>3. WindowTypeOK
  BY <1>2 DEF WindowInv, WindowTypeOK
<1> HIDE DEF m, n
<1> DEFINE Kept == /\ (\A i \in DOMAIN o : o[i].id = 0) => n <= 2
                   /\ \A i \in DOMAIN o : (i = 1 /\ o[i].id = 0) \/ o[i].id = n - 1 - (Len(o) - i)
<1>4. ASSUME /\ Len(m) >= 1 /\ m[1].role = "system" /\ o \in Seq(Messages) /\ Len(o) = Len(m) - 1
             /\ \A j \in 1..Len(o) : o[j] = m[j + 1]
      PROVE  Kept
  <2> HIDE DEF o
  <2>1. DOMAIN o = 1..Len(o) /\ Len(o) \in Nat
    BY <1>4, LenProperties
  <2>2. ASSUME NEW i \in 1..Len(o) PROVE (i = 1 /\ o[i].id = 0) \/ o[i].id = n - 1 - (Len(o) - i)
    <3>1. o[i] = m[i + 1] /\ i + 1 \in 1..Len(m)
      BY <1>1, <1>4, <2>2
    <3>2. CASE m[i + 1].role = "system"
      <4>1. i + 1 = 2 /\ m[2].id = 0
        BY <1>1, <2>1, <3>1, <3>2 DEF Ordered
      <4> QED BY <3>1, <4>1
    <3>3. CASE m[i + 1].role # "system"
      <4>1. m[i + 1].id = n - 1 - (Len(m) - (i + 1))
        BY <1>1, <3>1, <3>3 DEF Ordered
      <4> QED BY <1>1, <1>4, <2>1, <3>1, <4>1
    <3> QED BY <3>2, <3>3
  <2>3. ASSUME \A i \in 1..Len(o) : o[i].id = 0 PROVE n <= 2
    <3>1. CASE m[Len(m)].role = "system"
      BY <1>1, <3>1 DEF Ordered
    <3>2. CASE m[Len(m)].role # "system"
      <4>1. Len(m) # 1 /\ Len(m) \in 1..Len(m)
        BY <1>1, <1>4, <3>2
      <4>2. Len(o) \in 1..Len(o) /\ o[Len(o)] = m[Len(m)]
        BY <1>1, <1>4, <4>1
      <4>3. m[Len(m)].id = n - 1 - (Len(m) - Len(m))
        BY <1>1, <3>2, <4>1 DEF Ordered
      <4> QED BY <1>1, <2>3, <4>2, <4>3
    <3> QED BY <3>1, <3>2
  <2> QED BY <2>1, <2>2, <2>3
<1>5. ASSUME o = m, \A i \in 1..Len(m) : m[i].role # "system" PROVE Kept
  <2>1. \A i \in 1..Len(m) : m[i].id = n - 1 - (Len(m) - i)
    BY <1>1, <1>5 DEF Ordered
  <2>2. ASSUME \A i \in 1..Len(m) : m[i].id = 0 PROVE n <= 2
    <3>1. CASE Len(m) >= 1
      <4>1. Len(m) \in 1..Len(m)
        BY <1>1, <3>1
      <4>2. m[Len(m)].id = n - 1 - (Len(m) - Len(m)) /\ m[Len(m)].id = 0
        BY <2>1, <2>2, <4>1
      <4> QED BY <1>1, <4>2
    <3>2. CASE ~(Len(m) >= 1)
      BY SMTT(30), <1>1, <3>2 DEF Ordered
    <3> QED BY <3>1, <3>2
  <2> QED BY <1>1, <1>5, <2>1, <2>2
<1>6. Kept
  <2> HIDE DEF o, Kept
  <2> QED BY <1>1, <1>4, <1>5, OthersAre DEF o
<1>7. NewestAreKept
  BY <1>6 DEF NewestAreKept, m, n
<1> QED BY <1>3, <1>7 DEF WindowInv

LEMMA Greatest ==
    ASSUME NEW N \in Nat, NEW S \in SUBSET (0..N), S # {}
    PROVE  Max(S) \in S /\ \A y \in S : y <= Max(S)
<1> DEFINE T == {N - x : x \in S}
<1>0. \A x \in S : x \in Nat /\ N - x \in Nat
  OBVIOUS
<1>1. T \in SUBSET Nat /\ T # {}
  BY <1>0
<1>2. PICK y \in T : \A z \in T : y <= z
  <2> HIDE DEF T
  <2> QED BY <1>1, Least
<1>3. PICK x \in S : y = N - x
  BY <1>2
<1>4. \A z \in S : N - z \in T
  OBVIOUS
<1> HIDE DEF T
<1>5. \A z \in S : x >= z
  BY <1>0, <1>2, <1>3, <1>4
<1>6. Max(S) \in S /\ \A z \in S : Max(S) >= z
  BY <1>5 DEF Max
<1> QED BY <1>6

\* A system message, perhaps a summary, and the newest messages.
Heads(h, n) ==
    /\ h \in Seq(Messages) /\ Len(h) \in 1..2
    /\ \A i \in 1..Len(h) : h[i].id \in 0..(n - 1) /\ h[i].role = "system"
    /\ Len(h) = 2 => h[2].id = 0
Tails(s, n) ==
    /\ n \in Nat \ {0, 1} /\ s \in Seq(Messages) /\ Len(s) >= 1
    /\ \A j \in 1..Len(s) : s[j].role # "system" /\ s[j].id = n - 1 - (Len(s) - j) /\ s[j].id \in 0..(n - 1)

LEMMA Glued ==
    ASSUME NEW n, NEW h, NEW s, Heads(h, n), Tails(s, n)
    PROVE  Ordered(h \o s, n) /\ Len(h \o s) = Len(h) + Len(s) /\ \A i \in 1..Len(h) : (h \o s)[i] = h[i]
<1> DEFINE t == h \o s
           k == Len(h)
           l == Len(s)
<1>1. k \in Nat /\ l \in Nat /\ t \in Seq(Messages) /\ Len(t) = k + l
      /\ \A i \in 1..(k + l) : t[i] = IF i <= k THEN h[i] ELSE s[i - k]
  BY LenProperties, ConcatProperties DEF Heads, Tails
<1> HIDE DEF k, l, t
<1>2. k \in 1..2 /\ l >= 1 /\ n \in Nat \ {0, 1}
  BY DEF k, l, Heads, Tails
<1>3. \A i \in 1..k : t[i] = h[i] /\ t[i].id \in 0..(n - 1) /\ t[i].role = "system"
  <2>1. \A i \in 1..k : h[i].id \in 0..(n - 1) /\ h[i].role = "system"
    BY DEF k, Heads
  <2> QED BY <1>1, <2>1
<1>4. \A i \in (k + 1)..(k + l) : /\ t[i].role # "system" /\ t[i].id = n - 1 - ((k + l) - i) /\ t[i].id \in 0..(n - 1)
  <2> TAKE i \in (k + 1)..(k + l)
  <2>1. i - k \in 1..l /\ t[i] = s[i - k]
    BY <1>1
  <2>2. s[i - k].id = n - 1 - (l - (i - k))
    BY <2>1 DEF l, Tails
  <2>3. s[i - k].role # "system" /\ s[i - k].id \in 0..(n - 1)
    BY <2>1 DEF l, Tails
  <2> QED BY <1>1, <1>2, <2>1, <2>2, <2>3
<1>5. \A i \in 1..(k + l) : i \in 1..k \/ i \in (k + 1)..(k + l)
  BY <1>1
<1>6. k = 2 => t[2].id = 0
  BY <1>1, <1>3 DEF k, Heads
<1>7. \A i \in 1..(k + l) : t[i].role = "system" => i = 1 \/ (i = 2 /\ t[1].role = "system" /\ t[2].id = 0)
  <2> TAKE i \in 1..(k + l)
  <2>1. CASE i \in 1..k
    <3>0. 1 \in 1..k
      BY <1>1, <1>2
    <3>1. t[1].role = "system"
      BY <1>3, <3>0
    <3>2. i = 1 \/ (i = 2 /\ k = 2)
      BY <1>2, <2>1
    <3> QED BY <1>6, <3>1, <3>2
  <2>2. CASE i \in (k + 1)..(k + l)
    BY <1>4, <2>2
  <2> QED BY <1>5, <2>1, <2>2
<1>8. t[k + l].role # "system" /\ k + l >= 1
  BY <1>1, <1>2, <1>4
<1>9. \A i \in 1..(k + l) : t[i].id \in 0..(n - 1) /\ (t[i].role # "system" => t[i].id = n - 1 - ((k + l) - i))
  BY <1>3, <1>4, <1>5
<1>10. Ordered(t, n)
  BY <1>1, <1>2, <1>7, <1>8, <1>9 DEF Ordered
<1> QED BY <1>1, <1>3, <1>10 DEF k, l, t

\* The tail that a compression keeps.
LEMMA KeptTail ==
    ASSUME NEW m, NEW n, Ordered(m, n), Middle(m) # <<>>, NEW s, s = Newest(Others(m), KeepTail(m))
    PROVE  Tails(s, n)
<1> DEFINE o == Others(m)
           K == KeepTail(m)
           L == Len(o)
<1>1. m \in Seq(Messages) /\ Len(m) \in Nat /\ n \in Nat \ {0} /\ (n = 1 => Len(m) = 0)
  BY LenProperties DEF Ordered
<1>2. o \in Seq(Messages) /\ L \in Nat
  BY <1>1, OthersAre, LenProperties
<1>3. K \in Nat /\ K >= 4
  BY <1>2 DEF KeepTail, Larger
<1>4. K < L
  <2>1. SUFFICES ASSUME ~(K < L) PROVE FALSE
    OBVIOUS
  <2>2. SubSeq(o, 1, L - K) = <<>>
    BY <1>2, <1>3, <2>1, SubSeqEmpty
  <2> QED BY <2>2 DEF Middle
<1> HIDE DEF K, L
<1>5. s \in Seq(Messages) /\ Len(s) = K /\ \A j \in 1..K : s[j] = o[L - K + j]
  <2>1. K \in 0..L
    BY <1>2, <1>3, <1>4
  <2> QED BY <1>2, <2>1, NewestIs DEF K, L
<1>6. ASSUME NEW j \in 1..K PROVE s[j].role # "system" /\ s[j].id = n - 1 - (K - j) /\ s[j].id \in 0..(n - 1)
  <2> DEFINE p == L - K + j
  <2>1. p \in 2..L /\ s[j] = o[p]
    BY <1>2, <1>3, <1>4, <1>5
  <2>4. p = L - K + j
    OBVIOUS
  <2> HIDE DEF p
  <2>2. CASE Len(m) >= 1 /\ m[1].role = "system" /\ L = Len(m) - 1 /\ \A i \in 1..L : o[i] = m[i + 1]
    <3>1. p + 1 \in 1..Len(m) /\ p + 1 >= 3 /\ o[p] = m[p + 1]
      BY <1>1, <1>2, <2>1, <2>2
    <3>2. m[p + 1].role # "system" /\ m[p + 1].id \in 0..(n - 1)
      BY <3>1 DEF Ordered
    <3>3. m[p + 1].id = n - 1 - (Len(m) - (p + 1))
      BY <3>1, <3>2 DEF Ordered
    <3>4. Len(m) - (p + 1) = K - j
      BY <1>1, <1>2, <1>3, <2>2, <2>4
    <3> QED BY <2>1, <3>1, <3>2, <3>3, <3>4
  <2>3. CASE o = m /\ L = Len(m) /\ \A i \in 1..Len(m) : m[i].role # "system"
    <3>1. p \in 1..Len(m)
      BY <1>1, <1>2, <2>1, <2>3
    <3>2. m[p].role # "system" /\ m[p].id \in 0..(n - 1)
      BY <2>3, <3>1 DEF Ordered
    <3>3. m[p].id = n - 1 - (Len(m) - p)
      BY <3>1, <3>2 DEF Ordered
    <3>4. Len(m) - p = K - j
      BY <1>1, <1>2, <1>3, <2>3, <2>4
    <3> QED BY <2>1, <2>3, <3>2, <3>3, <3>4
  <2> QED BY <2>2, <2>3, OthersAre DEF L
<1>7. Len(m) >= 1
  BY <1>1, <1>2, <1>3, <1>4, OthersAre DEF L
<1> QED BY <1>1, <1>3, <1>5, <1>6, <1>7 DEF Tails

\* What a compression makes, before the trim.
MadeOf(m, size) ==
    System(m) \o <<[role |-> "system", tokens |-> size, id |-> 0]>> \o Newest(Others(m), KeepTail(m))
LEMMA MadeIs ==
    ASSUME NEW m, NEW n, Ordered(m, n), Middle(m) # <<>>, NEW size \in Nat
    PROVE  /\ Ordered(MadeOf(m, size), n) /\ Len(MadeOf(m, size)) >= 2 /\ MadeOf(m, size)[1].role = "system"
           /\ Len(System(m)) + 1 \in 1..Len(MadeOf(m, size)) /\ MadeOf(m, size)[Len(System(m)) + 1].id = 0
<1> DEFINE made == MadeOf(m, size)
           summary == [role |-> "system", tokens |-> size, id |-> 0]
           s == Newest(Others(m), KeepTail(m))
           h == System(m) \o <<summary>>
<1>1. Tails(s, n)
  BY KeptTail
<1>0. n \in Nat \ {0, 1} /\ Len(s) >= 1 /\ Len(s) \in Nat
  BY <1>1, LenProperties DEF Tails
<1>2. summary \in Messages /\ summary.role = "system" /\ summary.id = 0
  BY DEF Messages
<1> HIDE DEF summary
<1>3. <<summary>> \in Seq(Messages) /\ Len(<<summary>>) = 1 /\ <<summary>>[1] = summary
  BY <1>2
<1>4. \/ System(m) = <<>> /\ Len(System(m)) = 0
      \/ /\ System(m) = <<m[1]>> /\ Len(System(m)) = 1 /\ System(m)[1] = m[1] /\ m[1] \in Messages /\ m[1].role = "system"
         /\ m[1].id \in 0..(n - 1)
  <2>1. Len(m) \in Nat /\ Len(m) >= 1 => m[1].id \in 0..(n - 1)
    BY DEF Ordered
  <2>2. Len(m) \in Nat
    BY LenProperties DEF Ordered
  <2>3. SystemAt(m) # {} \/ SystemAt(m) = {}
    OBVIOUS
  <2> QED BY <2>1, <2>2, OthersAre
<1>5. System(m) \in Seq(Messages)
  <2>1. CASE System(m) = <<>>
    BY <2>1
  <2>2. CASE System(m) = <<m[1]>> /\ m[1] \in Messages
    <3> DEFINE x == m[1]
    <3>1. x \in Messages
      BY <2>2
    <3> HIDE DEF x
    <3>2. <<x>> \in Seq(Messages)
      BY <3>1
    <3> QED BY <2>2, <3>2 DEF x
  <2> QED BY <1>4, <2>1, <2>2
<1>6. Heads(h, n) /\ Len(h) = Len(System(m)) + 1 /\ h[Len(System(m)) + 1].id = 0
  <2> DEFINE y == System(m)
             z == <<summary>>
  <2>1. y \in Seq(Messages) /\ z \in Seq(Messages) /\ Len(z) = 1 /\ z[1] = summary /\ Len(y) \in 0..1
    BY <1>3, <1>4, <1>5
  <2>2. Len(y) = 1 => y[1].role = "system" /\ y[1].id \in 0..(n - 1)
    BY <1>4
  <2> HIDE DEF y, z
  <2> DEFINE q == y \o z
  <2>3. /\ q \in Seq(Messages) /\ Len(q) = Len(y) + Len(z)
        /\ \A i \in 1..(Len(y) + Len(z)) : q[i] = IF i <= Len(y) THEN y[i] ELSE z[i - Len(y)]
    BY <2>1, ConcatProperties
  <2> HIDE DEF q
  <2>4. Len(q) = Len(y) + 1 /\ q[Len(y) + 1] = summary
    BY <2>1, <2>3
  <2>5. Len(y) = 1 => q[1] = y[1]
    BY <2>1, <2>3
  <2>6. Heads(q, n)
    <3>1. CASE Len(y) = 0
      <4>1. Len(q) = 1 /\ q[1] = summary
        BY <2>4, <3>1
      <4>2. 0 \in 0..(n - 1) /\ 1 \in 1..2 /\ 1 # 2
        BY <1>0
      <4>3. \A i \in 1..Len(q) : q[i].id \in 0..(n - 1) /\ q[i].role = "system"
        <5>1. \A i \in 1..1 : i = 1
          OBVIOUS
        <5> QED BY <1>2, <4>1, <4>2, <5>1
      <4> QED BY <2>3, <4>1, <4>2, <4>3 DEF Heads
    <3>2. CASE Len(y) = 1
      <4>1. Len(q) = 2 /\ q[1].role = "system" /\ q[1].id \in 0..(n - 1) /\ q[2] = summary
        BY <2>2, <2>4, <2>5, <3>2
      <4>2. \A i \in 1..2 : q[i].id \in 0..(n - 1) /\ q[i].role = "system"
        <5>1. \A i \in 1..2 : i = 1 \/ i = 2
          OBVIOUS
        <5> QED BY <1>0, <1>2, <4>1, <5>1
      <4>3. \A i \in 1..Len(q) : q[i].id \in 0..(n - 1) /\ q[i].role = "system"
        BY <4>1, <4>2
      <4>4. Len(q) \in 1..2 /\ (Len(q) = 2 => q[2].id = 0)
        BY <1>2, <4>1
      <4> QED BY <2>3, <4>3, <4>4 DEF Heads
    <3> QED BY <2>1, <3>1, <3>2
  <2> QED BY <1>2, <2>4, <2>6 DEF q, y, z
<1>7. made = h \o s
  BY DEF summary, MadeOf
<1> HIDE DEF h, s, made
<1>8. Ordered(made, n) /\ Len(made) = Len(h) + Len(s) /\ \A i \in 1..Len(h) : made[i] = h[i]
  <2>1. Heads(h, n)
    BY <1>6
  <2>2. Tails(s, n)
    BY <1>1
  <2>3. Ordered(h \o s, n) /\ Len(h \o s) = Len(h) + Len(s) /\ \A i \in 1..Len(h) : (h \o s)[i] = h[i]
    BY <2>1, <2>2, Glued
  <2> QED BY <1>7, <2>3
<1>9. Len(System(m)) + 1 \in 1..Len(h) /\ Len(h) \in 1..2 /\ h[1].role = "system"
  <2>1. Len(System(m)) \in Nat
    BY <1>5, LenProperties
  <2>2. Len(h) \in 1..2 /\ \A i \in 1..Len(h) : h[i].role = "system"
    BY <1>6 DEF Heads
  <2> QED BY <1>6, <2>1, <2>2
<1> QED BY <1>0, <1>6, <1>8, <1>9 DEF made

\* The system message and the newest of the others.
LEMMA TrimmedIs ==
    ASSUME NEW m, NEW n, Ordered(m, n), Len(m) >= 2, m[1].role = "system", NEW k \in 1..(Len(m) - 1),
           NEW t, t = System(m) \o Newest(Others(m), k)
    PROVE  /\ Ordered(t, n) /\ Len(Others(t)) = k
           /\ Tokens(t) = Tokens(System(m)) + Tokens(Newest(Others(m), k))
           /\ Tokens(System(m)) \in Nat /\ Tokens(Newest(Others(m), k)) \in Nat
<1> DEFINE o == Others(m)
           s == Newest(o, k)
           h == System(m)
           N == Len(m)
<1>1. m \in Seq(Messages) /\ N \in Nat /\ n \in Nat \ {0} /\ DOMAIN m = 1..N /\ N >= 2
  BY LenProperties DEF Ordered
<1>2. SystemAt(m) # {}
  <2>1. 1 \in 1..N
    BY <1>1
  <2> QED BY <1>1, <2>1 DEF SystemAt
<1>3. h = <<m[1]>> /\ m[1] \in Messages /\ o \in Seq(Messages) /\ Len(o) = N - 1 /\ \A j \in 1..Len(o) : o[j] = m[j + 1]
  BY <1>2, OthersAre
<1>4. h \in Seq(Messages) /\ Len(h) = 1 /\ h[1] = m[1]
  <2> DEFINE x == m[1]
  <2>1. x \in Messages /\ h = <<x>>
    BY <1>3
  <2> HIDE DEF x
  <2>2. <<x>> \in Seq(Messages) /\ Len(<<x>>) = 1 /\ <<x>>[1] = x
    BY <2>1
  <2> QED BY <2>1, <2>2 DEF x
<1>6. k \in Nat /\ k >= 1 /\ k <= N - 1
  BY <1>1
<1> HIDE DEF o, h, N
<1>5. s \in Seq(Messages) /\ Len(s) = k /\ \A j \in 1..k : s[j] = m[N - k + j]
  <2>1. k \in 0..Len(o)
    BY <1>1, <1>3 DEF N
  <2>2. s \in Seq(Messages) /\ Len(s) = k /\ \A j \in 1..k : s[j] = o[Len(o) - k + j]
    BY <1>3, <2>1, NewestIs
  <2>3. \A j \in 1..k : Len(o) - k + j \in 1..Len(o) /\ (Len(o) - k + j) + 1 = N - k + j
    BY SMTT(30), <1>1, <1>3, <2>1
  <2> QED BY <1>3, <2>2, <2>3
<1> HIDE DEF s
<1>7. /\ t = h \o s /\ t \in Seq(Messages) /\ Len(t) = 1 + k /\ t[1] = m[1]
      /\ \A i \in 2..(1 + k) : t[i] = m[N - (1 + k) + i]
  <2>1. t = h \o s
    BY DEF h, s, o
  <2>2. /\ h \o s \in Seq(Messages) /\ Len(h \o s) = 1 + k
        /\ \A i \in 1..(1 + k) : (h \o s)[i] = IF i <= 1 THEN h[i] ELSE s[i - 1]
    <3>1. /\ h \o s \in Seq(Messages) /\ Len(h \o s) = Len(h) + Len(s)
          /\ \A i \in 1..(Len(h) + Len(s)) : (h \o s)[i] = IF i <= Len(h) THEN h[i] ELSE s[i - Len(h)]
      BY <1>4, <1>5, ConcatProperties
    <3>2. Len(h) = 1 /\ Len(s) = k
      BY <1>4, <1>5
    <3> QED BY <3>1, <3>2
  <2>3. ASSUME NEW i \in 2..(1 + k)
        PROVE  i \in 1..(1 + k) /\ ~(i <= 1) /\ i - 1 \in 1..k /\ N - k + (i - 1) = N - (1 + k) + i
    <3>1. N \in Int /\ k \in Int /\ i \in Int /\ i >= 2 /\ i <= 1 + k
      BY <1>1, <1>6
    <3> QED BY <3>1
  <2>4. 1 \in 1..(1 + k)
    BY <1>6
  <2> QED BY <1>4, <1>5, <2>1, <2>2, <2>3, <2>4
<1>8. ASSUME NEW i \in 2..(1 + k)
      PROVE  /\ t[i].id \in 0..(n - 1)
             /\ t[i].role = "system" => i = 2 /\ t[i].id = 0
             /\ t[i].role # "system" => t[i].id = n - 1 - ((1 + k) - i)
  <2> DEFINE p == N - (1 + k) + i
  <2>1. p \in 2..N /\ p >= i /\ t[i] = m[p] /\ N - p = (1 + k) - i
    <3>1. N \in Int /\ k \in Int /\ i \in Int /\ i >= 2 /\ i <= 1 + k /\ k <= N - 1
      BY <1>1, <1>6
    <3>2. p \in 2..N /\ p >= i /\ N - p = (1 + k) - i
      BY <3>1
    <3> QED BY <1>7, <3>2
  <2> HIDE DEF p
  <2>2. m[p].id \in 0..(n - 1)
    BY <1>1, <2>1 DEF Ordered, N
  <2>3. m[p].role = "system" => p = 2 /\ m[p].id = 0
    BY <1>1, <2>1 DEF Ordered, N
  <2>4. m[p].role # "system" => m[p].id = n - 1 - (N - p)
    BY <1>1, <2>1 DEF Ordered, N
  <2>5. t[i].role = "system" => i = 2
    <3>1. p = 2 /\ i >= 2 /\ i <= p /\ i \in Int => i = 2
      OBVIOUS
    <3> QED BY <1>6, <2>1, <2>3, <3>1
  <2> QED BY <2>1, <2>2, <2>3, <2>4, <2>5
<1>9. t[1].id \in 0..(n - 1) /\ t[1].role = "system"
  BY <1>1, <1>7 DEF Ordered, N
<1>10. n <= 2 \/ (Len(t) >= 1 /\ t[Len(t)].role # "system")
  <2>1. t[1 + k] = m[N]
    BY <1>1, <1>6, <1>7
  <2> QED BY <1>1, <1>6, <1>7, <2>1 DEF Ordered, N
<1>11. Ordered(t, n)
  <2>1. n # 1
    BY <1>1 DEF Ordered, N
  <2>2. \A i \in 1..Len(t) : i = 1 \/ i \in 2..(1 + k)
    BY <1>6, <1>7
  <2>3. \A i \in 1..Len(t) : t[i].id \in 0..(n - 1)
    BY <1>8, <1>9, <2>2
  <2>4. \A i \in 1..Len(t) : t[i].role = "system" => i = 1 \/ (i = 2 /\ t[1].role = "system" /\ t[2].id = 0)
    BY <1>8, <1>9, <2>2
  <2>5. \A i \in 1..Len(t) : t[i].role # "system" => t[i].id = n - 1 - (Len(t) - i)
    BY <1>7, <1>8, <1>9, <2>2
  <2> QED BY <1>1, <1>7, <1>10, <2>1, <2>3, <2>4, <2>5 DEF Ordered
<1>12. Len(Others(t)) = k
  <2>1. 1 \in 1..Len(t) /\ Len(t) = 1 + k
    BY <1>6, <1>7
  <2>2. DOMAIN t = 1..Len(t)
    BY <1>7, LenProperties
  <2>3. SystemAt(t) # {}
    BY <1>9, <2>1, <2>2 DEF SystemAt
  <2>4. Len(Others(t)) = Len(t) - 1
    BY <1>11, <2>3, OthersAre
  <2> QED BY <1>6, <2>1, <2>4
<1>13. Tokens(h \o s) = Tokens(h) + Tokens(s) /\ Tokens(h) \in Nat /\ Tokens(s) \in Nat
  BY <1>4, <1>5, TokensAdd, TokensAre
<1> QED BY <1>7, <1>11, <1>12, <1>13 DEF h, s, o

LEMMA TrimFits ==
    ASSUME NEW m, NEW n, Ordered(m, n), Len(m) >= 2, m[1].role = "system"
    PROVE  /\ Ordered(TrimToFit(m), n)
           /\ Tokens(TrimToFit(m)) <= WindowTokens \/ Len(Others(TrimToFit(m))) = 1
           /\ Tokens(m) <= WindowTokens => TrimToFit(m) = m
<1> DEFINE rest == Others(m)
           room == WindowTokens - Tokens(System(m))
           fits == {i \in 1..Len(rest) : Tokens(Newest(rest, i)) <= room}
           k == Larger(Max(fits \union {0}), IF rest = <<>> THEN 0 ELSE 1)
           t == System(m) \o Newest(rest, k)
<1>1. m \in Seq(Messages) /\ Len(m) \in Nat /\ DOMAIN m = 1..Len(m)
  BY LenProperties DEF Ordered
<1>2. SystemAt(m) # {}
  <2>1. 1 \in 1..Len(m)
    BY <1>1
  <2> QED BY <1>1, <2>1 DEF SystemAt
<1>3. Len(rest) = Len(m) - 1 /\ rest # <<>> /\ Len(rest) \in Nat
  <2>1. Len(rest) = Len(m) - 1
    BY <1>2, OthersAre
  <2>2. Len(rest) # 0
    BY <1>1, <2>1
  <2> QED BY <1>1, <2>1, <2>2
<1>4. CASE Tokens(m) <= WindowTokens
  BY <1>4 DEF TrimToFit
<1>5. CASE ~(Tokens(m) <= WindowTokens)
  <2>1. TrimToFit(m) = t
    BY <1>5 DEF TrimToFit
  <2>2. fits \union {0} \in SUBSET (0..Len(rest)) /\ fits \union {0} # {}
    BY <1>3
  <2>3. \A i \in fits : Tokens(Newest(rest, i)) <= room
    OBVIOUS
  <2> HIDE DEF fits, room
  <2>4. Max(fits \union {0}) \in fits \union {0}
    BY <1>3, <2>2, Greatest
  <2>5. k \in 1..Len(rest) /\ (k \in fits \/ k = 1)
    BY <1>1, <1>3, <2>2, <2>4 DEF Larger
  <2>6. k \in 1..(Len(m) - 1)
    BY <1>3, <2>5
  <2> HIDE DEF k
  <2>7. /\ Ordered(t, n) /\ Len(Others(t)) = k
        /\ Tokens(t) = Tokens(System(m)) + Tokens(Newest(rest, k))
        /\ Tokens(System(m)) \in Nat /\ Tokens(Newest(rest, k)) \in Nat
    BY <2>6, TrimmedIs
  <2>8. k \in fits => Tokens(t) <= WindowTokens
    BY <2>3, <2>7, WindowConstants DEF room
  <2> HIDE DEF t, rest
  <2> QED BY <1>5, <2>1, <2>5, <2>7, <2>8
<1> QED BY <1>4, <1>5

LEMMA AddMessageKeeps == ASSUME WindowInv, NEW k \in MessageKinds, AddMessage(k) PROVE WindowInv'
<1> DEFINE m == cwMsgs
           n == cwNext
           e == [role |-> k.role, tokens |-> k.tokens, id |-> n]
           t == Append(m, e)
           L == Len(m)
<1>1. /\ cwCall.pc = "idle" /\ n <= MaxMessages /\ (k.role = "system" => n = 1)
      /\ cwMsgs' = t /\ cwNext' = n + 1 /\ UNCHANGED <<cwCall, cwTasks, cwOpen>>
  BY DEF AddMessage
<1>2. /\ Ordered(m, n) /\ m \in Seq(Messages) /\ L \in Nat /\ n \in Nat \ {0} /\ MaxMessages \in Nat
      /\ n \in 1..(MaxMessages + 1)
  BY LenProperties, WindowConstants DEF WindowInv, Ordered
<1>3. e \in Messages /\ e.role = k.role /\ e.id = n
  BY <1>2, WindowConstants DEF Messages
<1> HIDE DEF e
<1>4. /\ t \in Seq(Messages) /\ Len(t) = L + 1 /\ t[L + 1] = e
      /\ \A i \in 1..L : t[i] = m[i]
  BY <1>2, <1>3, AppendProperties
<1> HIDE DEF m, n, t, L
<1>5. \A i \in 1..(L + 1) : i \in 1..L \/ i = L + 1
  BY <1>2
<1>6. n = 1 => L = 0
  BY <1>2 DEF Ordered, L
<1>7. \A i \in 1..(L + 1) : t[i].id \in 0..n
  <2>1. \A i \in 1..L : m[i].id \in 0..(n - 1)
    BY <1>2 DEF Ordered, L
  <2> QED BY <1>2, <1>3, <1>4, <1>5, <2>1
<1>8. \A i \in 1..(L + 1) : t[i].role = "system" => i = 1 \/ (i = 2 /\ t[1].role = "system" /\ t[2].id = 0)
  <2> TAKE i \in 1..(L + 1)
  <2>1. CASE i \in 1..L
    <3>1. m[i].role = "system" => i = 1 \/ (i = 2 /\ m[1].role = "system" /\ m[2].id = 0)
      BY <1>2, <2>1 DEF Ordered, L
    <3>2. i = 2 => 1 \in 1..L /\ 2 \in 1..L
      BY <1>2, <2>1
    <3> QED BY <1>4, <2>1, <3>1, <3>2
  <2>2. CASE i = L + 1
    BY <1>1, <1>2, <1>3, <1>4, <1>6, <2>2
  <2> QED BY <1>5, <2>1, <2>2
<1>9. \A i \in 1..(L + 1) : t[i].role # "system" => t[i].id = (n + 1) - 1 - ((L + 1) - i)
  <2> TAKE i \in 1..(L + 1)
  <2>1. CASE i \in 1..L
    <3>1. m[i].role # "system" => m[i].id = n - 1 - (L - i)
      BY <1>2, <2>1 DEF Ordered, L
    <3>2. n - 1 - (L - i) = (n + 1) - 1 - ((L + 1) - i)
      BY <1>2
    <3> QED BY <1>4, <2>1, <3>1, <3>2
  <2>2. CASE i = L + 1
    BY <1>2, <1>3, <1>4, <2>2
  <2> QED BY <1>5, <2>1, <2>2
<1>10. n + 1 <= 2 \/ (L + 1 >= 1 /\ t[L + 1].role # "system")
  BY <1>1, <1>2, <1>3, <1>4
<1>11. Ordered(t, n + 1)
  <2>1. n + 1 \in Nat \ {0} /\ n + 1 # 1 /\ (n + 1) - 1 = n
    BY <1>2
  <2> QED BY <1>4, <1>7, <1>8, <1>9, <1>10, <2>1 DEF Ordered
<1>12. n + 1 \in 1..(MaxMessages + 1)
  BY <1>1, <1>2 DEF n
<1>13. \A ids \in cwTasks : ids \subseteq 0..((n + 1) - 1)
  <2>1. 0..(n - 1) \subseteq 0..((n + 1) - 1)
    BY <1>2
  <2> QED BY <2>1 DEF WindowInv, n
<1>14. cwCall' = cwCall /\ cwCall.pc = "idle" /\ CallIs(cwCall) /\ cwOpen' \in BOOLEAN
  BY <1>1 DEF WindowInv
<1> QED BY <1>1, <1>11, <1>12, <1>13, <1>14 DEF WindowInv, FitsOrIsOneMessage, MiddleIsSomewhere, CallIs, Compressing

LEMMA BeginCompressKeeps == ASSUME WindowInv, BeginCompress PROVE WindowInv'
<1>1. PICK step \in {"first", "extract"} : cwCall' = [pc |-> step, lost |-> FALSE, last |-> cwMsgs, middle |-> Middle(cwMsgs)]
  BY DEF BeginCompress
<1>2. CallIs(cwCall') /\ cwCall'.pc = step /\ cwCall'.last = cwMsgs /\ cwCall'.middle = Middle(cwMsgs)
  <2> DEFINE no == FALSE
  <2>1. cwCall' = [pc |-> step, lost |-> no, last |-> cwMsgs, middle |-> Middle(cwMsgs)]
    BY <1>1
  <2> HIDE DEF no
  <2> QED BY <2>1, CallFields
<1>3. UNCHANGED <<cwMsgs, cwNext, cwTasks, cwOpen>> /\ Middle(cwMsgs) # <<>>
  BY DEF BeginCompress
<1>4. Middle(cwMsgs)' = Middle(cwMsgs) /\ step # "done" /\ step \in {"idle", "first", "second", "extract", "done"}
  BY <1>1, <1>3
<1> HIDE DEF Middle
<1>5. WindowInv
  OBVIOUS
<1>6. Ordered(cwMsgs, cwNext)' /\ (cwNext \in 1..(MaxMessages + 1))' /\ (\A ids \in cwTasks : ids \subseteq 0..(cwNext - 1))' /\ cwOpen' \in BOOLEAN
  BY <1>3, <1>5 DEF WindowInv, Ordered
<1>7. CallIs(cwCall)'
  BY <1>2 DEF CallIs
<1>8. FitsOrIsOneMessage' /\ MiddleIsSomewhere'
  BY <1>2, <1>4 DEF FitsOrIsOneMessage, MiddleIsSomewhere
<1> QED BY <1>2, <1>3, <1>4, <1>6, <1>7, <1>8 DEF WindowInv

LEMMA SummariseFailsKeeps == ASSUME WindowInv, SummariseFails PROVE WindowInv'
<1> DEFINE step == IF cwCall.pc = "first" THEN "second" ELSE "extract"
           r == cwCall
<1>1. /\ r.pc \in Compressing /\ CallIs(r) /\ r.last = cwMsgs /\ r.middle = Middle(cwMsgs) /\ r.middle # <<>>
      /\ UNCHANGED <<cwMsgs, cwNext, cwTasks, cwOpen>> /\ cwCall' = [r EXCEPT !.pc = step]
  BY DEF SummariseFails, WindowInv, Compressing
<1>2. step \in {"second", "extract"}
  OBVIOUS
<1> HIDE DEF step
<1>3. cwCall' = [pc |-> step, lost |-> r.lost, last |-> r.last, middle |-> r.middle]
  BY <1>1 DEF CallIs
<1>4. CallIs(cwCall') /\ cwCall'.pc = step /\ cwCall'.last = r.last /\ cwCall'.middle = r.middle
  BY <1>3, CallFields
<1>5. Middle(cwMsgs)' = Middle(cwMsgs)
  BY <1>1
<1>6. Ordered(cwMsgs, cwNext)' /\ (cwNext \in 1..(MaxMessages + 1))' /\ (\A ids \in cwTasks : ids \subseteq 0..(cwNext - 1))' /\ cwOpen' \in BOOLEAN
  BY <1>1 DEF WindowInv, Ordered
<1>7. CallIs(cwCall)'
  BY <1>4 DEF CallIs
<1>8. FitsOrIsOneMessage' /\ MiddleIsSomewhere'
  BY <1>2, <1>4 DEF FitsOrIsOneMessage, MiddleIsSomewhere
<1> QED BY <1>1, <1>2, <1>4, <1>5, <1>6, <1>7, <1>8 DEF WindowInv

LEMMA MiddleNumbers ==
    ASSUME NEW m, NEW n, Ordered(m, n)
    PROVE  Numbers(Middle(m)) \subseteq 0..(n - 1)
<1> DEFINE o == Others(m)
           L == Len(o) - KeepTail(m)
           s == SubSeq(o, 1, L)
<1>1. m \in Seq(Messages) /\ Len(m) \in Nat
  BY LenProperties DEF Ordered
<1>2. o \in Seq(Messages) /\ Len(o) \in Nat
  BY <1>1, OthersAre, LenProperties
<1>3. KeepTail(m) \in Nat
  BY <1>2 DEF KeepTail, Larger
<1>4. \A i \in 1..Len(o) : o[i] \in Messages /\ o[i].id \in 0..(n - 1)
  <2>1. \A i \in 1..Len(m) : m[i].id \in 0..(n - 1)
    BY DEF Ordered
  <2>2. CASE o = m
    BY <1>1, <2>1, <2>2, ElementOfSeq
  <2>3. CASE Len(o) = Len(m) - 1 /\ \A j \in 1..Len(o) : o[j] = m[j + 1]
    <3>1. \A j \in 1..Len(o) : j + 1 \in 1..Len(m)
      BY <1>1, <1>2, <2>3
    <3> QED BY <1>2, <2>1, <2>3, <3>1, ElementOfSeq
  <2> QED BY <2>2, <2>3, OthersAre
<1> HIDE DEF o
<1>5. L \in Int /\ L <= Len(o)
  BY <1>2, <1>3
<1> HIDE DEF L
<1>6. /\ s \in Seq(Messages) /\ Len(s) = (IF 1 <= L THEN L - 1 + 1 ELSE 0)
      /\ \A i \in 1..(L - 1 + 1) : s[i] = o[1 + i - 1]
  <2>1. \A i \in 1..L : o[i] \in Messages
    BY <1>2, <1>4, <1>5
  <2> QED BY <1>5, <2>1, SubSeqProperties
<1>7. DOMAIN s = 1..Len(s)
  BY <1>6, LenProperties
<1> HIDE DEF s
<1>8. \A i \in 1..Len(s) : s[i].id \in 0..(n - 1)
  <2> TAKE i \in 1..Len(s)
  <2>1. i \in 1..L /\ i \in 1..(L - 1 + 1) /\ 1 + i - 1 = i /\ i \in 1..Len(o)
    BY <1>2, <1>5, <1>6
  <2> QED BY <1>4, <1>6, <2>1
<1>9. Numbers(s) \subseteq 0..(n - 1)
  BY <1>7, <1>8 DEF Numbers, ToSet
<1> QED BY <1>9 DEF s, L, o, Middle

LEMMA EndCompressKeeps == ASSUME WindowInv, NEW hasMemory \in BOOLEAN, EndCompress(hasMemory) PROVE WindowInv'
<1> DEFINE r == cwCall
           m == cwMsgs
           n == cwNext
<1>1. /\ r.pc \in Compressing /\ CallIs(r) /\ r.last = m /\ r.middle = Middle(m) /\ r.middle # <<>>
      /\ Ordered(m, n) /\ UNCHANGED <<cwNext, cwOpen>>
  BY DEF EndCompress, WindowInv, Compressing
<1>2. PICK size \in SummaryTokens :
         LET summary == [role |-> "system", tokens |-> size, id |-> 0]
             made == System(r.last) \o <<summary>> \o Newest(Others(r.last), KeepTail(r.last))
             degraded == Degraded(r.pc = "extract", made)
         IN /\ cwMsgs' = TrimToFit(made)
            /\ cwTasks' = IF degraded /\ hasMemory THEN cwTasks \union {Numbers(r.middle)} ELSE cwTasks
            /\ cwCall' = [r EXCEPT !.pc = "done", !.lost = degraded /\ ~hasMemory]
  BY DEF EndCompress
<1> DEFINE made == MadeOf(m, size)
           degraded == Degraded(r.pc = "extract", made)
           lost == degraded /\ ~hasMemory
<1> HIDE DEF m, n
<1>3. /\ cwMsgs' = TrimToFit(made)
      /\ cwTasks' = IF degraded /\ hasMemory THEN cwTasks \union {Numbers(r.middle)} ELSE cwTasks
      /\ cwCall' = [r EXCEPT !.pc = "done", !.lost = lost]
  BY <1>1, <1>2 DEF MadeOf
<1>0. size \in Nat /\ Middle(m) # <<>>
  BY <1>1, WindowConstants
<1>4. ~degraded => Tokens(made) <= WindowTokens
  <2>1. Tokens(made) <= WindowTokens \/ Tokens(made) > WindowTokens
    <3>1. Ordered(made, n)
      BY <1>1, <1>0, MadeIs
    <3>2. Tokens(made) \in Nat
      <4> HIDE DEF made
      <4>1. made \in Seq(Messages)
        BY <3>1 DEF Ordered
      <4> QED BY <4>1, TokensAre
    <3> HIDE DEF made
    <3> QED BY <3>2, WindowConstants
  <2> HIDE DEF made
  <2> QED BY <2>1 DEF Degraded
<1>5. degraded /\ ~hasMemory => lost
  OBVIOUS
<1>6. degraded /\ hasMemory => Numbers(r.middle) \in cwTasks'
  BY <1>3
<1>7. /\ Ordered(made, n) /\ Len(made) >= 2 /\ made[1].role = "system"
      /\ Len(System(m)) + 1 \in 1..Len(made) /\ made[Len(System(m)) + 1].id = 0
  BY <1>1, <1>0, MadeIs
<1> HIDE DEF made, degraded
<1>8. /\ Ordered(TrimToFit(made), n)
      /\ Tokens(TrimToFit(made)) <= WindowTokens \/ Len(Others(TrimToFit(made))) = 1
      /\ Tokens(made) <= WindowTokens => TrimToFit(made) = made
  BY <1>7, TrimFits
<1>9. cwTasks' \subseteq cwTasks \union {Numbers(r.middle)}
  BY <1>3
<1>10. Numbers(r.middle) \subseteq 0..(n - 1)
  BY <1>1, MiddleNumbers
<1> HIDE DEF lost
<1>11. cwCall' = [pc |-> "done", lost |-> lost, last |-> r.last, middle |-> r.middle]
  BY <1>1, <1>3 DEF CallIs
<1>12. CallIs(cwCall') /\ cwCall'.pc = "done" /\ cwCall'.lost = lost /\ cwCall'.last = m /\ cwCall'.middle = r.middle
  BY <1>1, <1>11, CallFields
<1>13. Ordered(cwMsgs, cwNext)'
  BY <1>1, <1>3, <1>8 DEF Ordered, n
<1>14. (\A ids \in cwTasks : ids \subseteq 0..(cwNext - 1))' /\ cwOpen' \in BOOLEAN /\ (cwNext \in 1..(MaxMessages + 1))'
  BY <1>1, <1>9, <1>10 DEF WindowInv, n
<1>15. FitsOrIsOneMessage'
  BY <1>3, <1>8 DEF FitsOrIsOneMessage
<1>16. MiddleIsSomewhere'
  <2>1. CASE degraded /\ hasMemory
    BY <1>6, <1>12, <2>1 DEF MiddleIsSomewhere
  <2>2. CASE degraded /\ ~hasMemory
    <3>1. cwCall'.lost
      BY <1>5, <1>12, <2>2
    <3> QED BY <3>1 DEF MiddleIsSomewhere
  <2>3. CASE ~degraded
    <3>1. cwMsgs' = made
      BY <1>3, <1>4, <1>8, <2>3
    <3>2. DOMAIN made = 1..Len(made)
      BY <1>7, LenProperties DEF Ordered
    <3>3. Len(System(cwCall'.last)) + 1 \in DOMAIN cwMsgs' /\ cwMsgs'[Len(System(cwCall'.last)) + 1].id = 0
      BY <1>7, <1>12, <3>1, <3>2
    <3> QED BY <3>3 DEF MiddleIsSomewhere, System, SystemAt
  <2> QED BY <2>1, <2>2, <2>3
<1>17. CallIs(cwCall)'
  BY <1>12 DEF CallIs
<1> QED BY <1>12, <1>13, <1>14, <1>15, <1>16, <1>17 DEF WindowInv, Compressing

LEMMA WindowEndsKeep == ASSUME WindowInv, Resume \/ TaskEnds \/ ShutDown \/ UNCHANGED cwVars PROVE WindowInv'
<1>1. UNCHANGED <<cwMsgs, cwNext>> /\ cwTasks' \subseteq cwTasks /\ cwOpen' \in BOOLEAN
  BY DEF Resume, TaskEnds, ShutDown, cwVars, WindowInv
<1>2. Ordered(cwMsgs, cwNext)' /\ (cwNext \in 1..(MaxMessages + 1))' /\ (\A ids \in cwTasks : ids \subseteq 0..(cwNext - 1))'
  BY <1>1 DEF WindowInv, Ordered
<1>3. Middle(cwMsgs)' = Middle(cwMsgs)
  BY <1>1
<1>4. CASE cwCall' = NoWindow
  <2>1. CallIs(cwCall') /\ cwCall'.pc = "idle"
    BY <1>4, NoWindowIs
  <2>2. CallIs(cwCall)'
    BY <2>1 DEF CallIs
  <2> QED BY <1>1, <1>2, <2>1, <2>2 DEF WindowInv, Compressing, FitsOrIsOneMessage, MiddleIsSomewhere
<1>5. CASE cwCall' = cwCall /\ (cwCall.pc # "done" \/ cwTasks' = cwTasks)
  <2>1. CallIs(cwCall)'
    BY <1>5 DEF WindowInv, CallIs
  <2>2. FitsOrIsOneMessage'
    BY <1>1, <1>5 DEF WindowInv, FitsOrIsOneMessage
  <2>3. MiddleIsSomewhere'
    BY <1>1, <1>5 DEF WindowInv, MiddleIsSomewhere
  <2> QED BY <1>1, <1>2, <1>3, <1>5, <2>1, <2>2, <2>3 DEF WindowInv
<1>6. cwCall' = NoWindow \/ (cwCall' = cwCall /\ (cwCall.pc # "done" \/ cwTasks' = cwTasks))
  BY DEF Resume, TaskEnds, ShutDown, cwVars
<1> QED BY <1>4, <1>5, <1>6

LEMMA WindowStarts == ASSUME WindowInit PROVE WindowInv
<1>1. cwMsgs = <<>> /\ cwNext = 1 /\ cwCall = NoWindow /\ cwTasks = {} /\ cwOpen = TRUE
  BY DEF WindowInit
<1>2. CallIs(cwCall) /\ cwCall.pc = "idle"
  BY <1>1, NoWindowIs
<1>3. <<>> \in Seq(Messages) /\ Len(<<>>) = 0
  OBVIOUS
<1>4. Ordered(cwMsgs, cwNext)
  BY <1>1, <1>3 DEF Ordered
<1> QED BY <1>1, <1>2, <1>4, WindowConstants DEF WindowInv, Compressing, FitsOrIsOneMessage, MiddleIsSomewhere

LEMMA WindowStep == ASSUME WindowInv, WindowNext \/ UNCHANGED cwVars PROVE WindowInv'
BY AddMessageKeeps, BeginCompressKeeps, SummariseFailsKeeps, EndCompressKeeps, WindowEndsKeep DEF WindowNext

----------------------------------------------------------------------------
(* The theorems about the documents and the histories.                     *)

LEMMA DocRest == ASSUME DocInv, UNCHANGED ixVars PROVE DocInv'
BY DEF ixVars, DocInv, RowsOK, BuildOK, Evidence, LeftAlone
LEMMA StoresStart == Init => DocInv /\ SumInv /\ CardInv /\ WindowInv
BY DocStart, SumStart, CardStarts, WindowStarts DEF Init

LEMMA StoresStep ==
    ASSUME [Next]_<<part, mmVars, skVars, gwVars, txVars, kbVars>>
    PROVE  /\ DocNext \/ UNCHANGED ixVars
           /\ SummariesNext \/ UNCHANGED smVars
           /\ CardNext \/ UNCHANGED mcVars
           /\ WindowNext \/ UNCHANGED cwVars
BY DEF Next, mmVars, txVars

\* The chunks of a text cover it and none is too long, a rebuilt document is in its store
\* once, and a completed one has vectors unless a deletion came last at Milvus, for any
\* builds, texts and chunk sizes (_chunk_text, RAGBuilder.build_document).
THEOREM IndexStaysSound == Spec => []IndexIsSound
<1>1. Init => DocInv
  BY StoresStart
<1>2. DocInv /\ [Next]_<<part, mmVars, skVars, gwVars, txVars, kbVars>> => DocInv'
  BY StoresStep, DocStep, DocRest
<1>3. DocInv => IndexIsSound
  BY DocInvHolds DEF IndexIsSound
<1> QED BY <1>1, <1>2, <1>3, PTL DEF Spec

\* A stale card or recall is explained by an opening the comments name, a reported conflict
\* waits unless another one shares its id, a new row has one vector, and a compressed
\* conversation keeps its newest messages and fits its window or is one message, for any
\* calls, items, texts and sizes (get_profile, delete_summary, compress).
THEOREM MemoryStaysSound == Spec => []MemoryIsSound
<1>1. Init => SumInv /\ CardInv /\ WindowInv
  BY StoresStart
<1>2. SumInv /\ CardInv /\ WindowInv /\ [Next]_<<part, mmVars, skVars, gwVars, txVars, kbVars>>
        => (SumInv /\ CardInv /\ WindowInv)'
  BY StoresStep, SumStep, SumRest, CardStep, CardRest, WindowStep
<1>3. SumInv /\ CardInv /\ WindowInv => MemoryIsSound
  BY SumInvSuffices, CardInvSuffices, WindowInvSuffices DEF MemoryIsSound
<1> QED BY <1>1, <1>2, <1>3, PTL DEF Spec

\* A confirmed value gives way only to a writer that read before or to a derived one that
\* came up twice, a reported summary has its row, and the rows of a document in pgvector
\* stay until the new ones commit, for any calls, items and texts (upsert_item,
\* detect_and_handle_conflict, SummaryStore.insert, _store_pgvector).
THEOREM NothingIsEverTakenBack == Spec => NothingIsTakenBack
<1> DEFINE Kept == \A i \in CardItems :
                        card[i].source = "user_confirmed" /\ card'[i].source \in {"derived", "tool_written"}
                          => \E c \in CardCalls : /\ call[c].pc = "write" /\ call[c].item = i
                                                  /\ call[c].seen.source # "user_confirmed"
                                                     \/ (call[c].source = "derived" /\ derivedCount[i] >= 2)
<1>1. Init => DocInv /\ SumInv /\ CardInv
  BY StoresStart
<1>2. DocInv /\ SumInv /\ CardInv /\ [Next]_<<part, mmVars, skVars, gwVars, txVars, kbVars>>
        => (DocInv /\ SumInv /\ CardInv)'
  BY StoresStep, DocStep, DocRest, SumStep, SumRest, CardStep, CardRest
<1>3. CardInv /\ [Next]_<<part, mmVars, skVars, gwVars, txVars, kbVars>> => [Kept]_mcVars
  BY StoresStep, ConfirmedStep
<1>4. SumInv /\ [Next]_<<part, mmVars, skVars, gwVars, txVars, kbVars>> => [sreported' \ sreported \subseteq Rows]_smVars
  BY StoresStep, ReportStep
<1>5. DocInv /\ [Next]_<<part, mmVars, skVars, gwVars, txVars, kbVars>>
        => [ixRows["pgvector"] # {} => ixRows'["pgvector"] # {}]_ixVars
  BY StoresStep, PgStep
<1> QED BY <1>1, <1>2, <1>3, <1>4, <1>5, PTL DEF Spec, NothingIsTakenBack, ConfirmedStays, ReportedWasThere, PgKeepsDocuments

----------------------------------------------------------------------------
(* Building knowledge bases.                                               *)

\* Who works on a base has one.
ReqState(c) == c \in Request /\ (c.pc # "idle" => c.base \in Bases)
BuildState(j) == j \in Build /\ (j.pc # "none" => j.base \in Bases)

KbShape ==
    /\ KbTypeOK
    /\ \A q \in Requests : ReqState(req[q])
    /\ \A t \in Builds : BuildState(task[t])

----------------------------------------------------------------------------
(* The claim.                                                              *)

\* A request has a base between its claim and the end of its last statement, a
\* task until it is acknowledged or dead-lettered.
Has(c, b) == c.base = b /\ c.pc \in {"enqueue", "rollback", "wiki"}
Indexes(j, b) == j.base = b /\ j.pc \in {"queued", "docs", "txn"}

Alone(b) ==
    /\ \A p, q \in Requests : Has(req[p], b) /\ Has(req[q], b) => p = q
    /\ \A s, t \in Builds : Indexes(task[s], b) /\ Indexes(task[t], b) => s = t
    /\ \A q \in Requests, t \in Builds : ~(Has(req[q], b) /\ Indexes(task[t], b))
Marked(b) ==
    \/ kbStatus[b] \in {"building", "deleted"}
    \/ /\ \A q \in Requests : ~Has(req[q], b)
       /\ \A t \in Builds : ~Indexes(task[t], b)
ClaimInv == lostReplies = 0 => \A b \in Bases : Alone(b) /\ Marked(b)

----------------------------------------------------------------------------
(* Payments.                                                               *)

\* Requests and tasks that may still be paid for a base.
Paying(c, b) == c.base = b /\ c.pc \in {"enqueue", "wiki"}
RequestsDue(b, r) == Tally(Requests, [q \in Requests |-> Bit(Paying(r[q], b))])
TasksDue(b, j) == Tally(Builds, [t \in Builds |-> Bit(Indexes(j[t], b))])

PaidInv ==
    \A b \in Bases : charges[b] + RequestsDue(b, req) + TasksDue(b, task) <= claims[b] + lostReplies

WikisOnly == \A q \in Requests : req[q].pc = "wiki" => kind[req[q].base] = "wiki"

KbInv == KbShape /\ ClaimInv /\ PaidInv /\ WikisOnly /\ NeverOverdrawn /\ BuildingHasABuilder

----------------------------------------------------------------------------
(* What is due.                                                            *)

LEMMA DueTypes ==
    ASSUME NEW b, NEW r, NEW j
    PROVE  /\ [q \in Requests |-> Bit(Paying(r[q], b))] \in [Requests -> Nat]
           /\ [t \in Builds |-> Bit(Indexes(j[t], b))] \in [Builds -> Nat]
           /\ RequestsDue(b, r) \in Nat /\ TasksDue(b, j) \in Nat
<1>1. /\ [q \in Requests |-> Bit(Paying(r[q], b))] \in [Requests -> Nat]
      /\ [t \in Builds |-> Bit(Indexes(j[t], b))] \in [Builds -> Nat]
  BY DEF Bit
<1> QED BY <1>1, TallyType, BuildersAssumption DEF RequestsDue, TasksDue

SameBut(r, s, I, i) == \A x \in I \ {i} : s[x] = r[x]

LEMMA RequestsDueChange ==
    ASSUME NEW b, NEW r, NEW s, NEW q \in Requests, SameBut(r, s, Requests, q)
    PROVE  RequestsDue(b, s) = RequestsDue(b, r) - Bit(Paying(r[q], b)) + Bit(Paying(s[q], b))
<1> DEFINE w == [x \in Requests |-> Bit(Paying(r[x], b))]
           v == [x \in Requests |-> Bit(Paying(s[x], b))]
<1>1. /\ w \in [Requests -> Nat] /\ v \in [Requests -> Nat] /\ IsFiniteSet(Requests)
      /\ w[q] = Bit(Paying(r[q], b)) /\ v[q] = Bit(Paying(s[q], b))
      /\ \A x \in Requests \ {q} : v[x] = w[x]
  BY DueTypes, BuildersAssumption DEF SameBut
<1>2. RequestsDue(b, s) = Tally(Requests, v) /\ RequestsDue(b, r) = Tally(Requests, w)
  BY DEF RequestsDue
<1> HIDE DEF w, v
<1>3. Tally(Requests, v) = Tally(Requests, w) - w[q] + v[q]
  BY <1>1, TallyChange
<1> QED BY <1>1, <1>2, <1>3

LEMMA TasksDueChange ==
    ASSUME NEW b, NEW i, NEW j, NEW t \in Builds, SameBut(i, j, Builds, t)
    PROVE  TasksDue(b, j) = TasksDue(b, i) - Bit(Indexes(i[t], b)) + Bit(Indexes(j[t], b))
<1> DEFINE w == [x \in Builds |-> Bit(Indexes(i[x], b))]
           v == [x \in Builds |-> Bit(Indexes(j[x], b))]
<1>1. /\ w \in [Builds -> Nat] /\ v \in [Builds -> Nat] /\ IsFiniteSet(Builds)
      /\ w[t] = Bit(Indexes(i[t], b)) /\ v[t] = Bit(Indexes(j[t], b))
      /\ \A x \in Builds \ {t} : v[x] = w[x]
  BY DueTypes, BuildersAssumption DEF SameBut
<1>2. TasksDue(b, j) = Tally(Builds, v) /\ TasksDue(b, i) = Tally(Builds, w)
  BY DEF TasksDue
<1> HIDE DEF w, v
<1>3. Tally(Builds, v) = Tally(Builds, w) - w[t] + v[t]
  BY <1>1, TallyChange
<1> QED BY <1>1, <1>2, <1>3

----------------------------------------------------------------------------
(* A request, and a task, that becomes another.                            *)

RequestBecomes(q, c) ==
    /\ req' \in [Requests -> Request] /\ \A x \in Requests : ReqState(req'[x])
    /\ \A x \in Requests : req'[x] = IF x = q THEN c ELSE req[x]
    /\ \A b \in Bases :
           /\ RequestsDue(b, req) \in Nat
           /\ RequestsDue(b, req') = RequestsDue(b, req) - Bit(Paying(req[q], b)) + Bit(Paying(c, b))

LEMMA ReqTurns ==
    ASSUME KbShape, NEW q \in Requests, NEW c, ReqState(c), req' = [req EXCEPT ![q] = c]
    PROVE  RequestBecomes(q, c)
<1>1. \A x \in Requests : req'[x] = IF x = q THEN c ELSE req[x]
  BY DEF KbShape, KbTypeOK
<1>2. req' \in [Requests -> Request] /\ \A x \in Requests : ReqState(req'[x])
  BY <1>1 DEF KbShape, KbTypeOK, ReqState
<1>3. SameBut(req, req', Requests, q) /\ req'[q] = c
  BY <1>1 DEF SameBut
<1>4. \A b \in Bases :
          RequestsDue(b, req') = RequestsDue(b, req) - Bit(Paying(req[q], b)) + Bit(Paying(req'[q], b))
  <2> TAKE b \in Bases
  <2> QED BY <1>3, RequestsDueChange
<1>5. \A b \in Bases : RequestsDue(b, req) \in Nat
  BY DueTypes
<1> QED BY <1>1, <1>2, <1>3, <1>4, <1>5 DEF RequestBecomes

TaskBecomes(t, j) ==
    /\ task' \in [Builds -> Build] /\ \A x \in Builds : BuildState(task'[x])
    /\ \A x \in Builds : task'[x] = IF x = t THEN j ELSE task[x]
    /\ \A b \in Bases :
           /\ TasksDue(b, task) \in Nat
           /\ TasksDue(b, task') = TasksDue(b, task) - Bit(Indexes(task[t], b)) + Bit(Indexes(j, b))

LEMMA TaskTurns ==
    ASSUME KbShape, NEW t \in Builds, NEW j, BuildState(j), task' = [task EXCEPT ![t] = j]
    PROVE  TaskBecomes(t, j)
<1>1. \A x \in Builds : task'[x] = IF x = t THEN j ELSE task[x]
  BY DEF KbShape, KbTypeOK
<1>2. task' \in [Builds -> Build] /\ \A x \in Builds : BuildState(task'[x])
  BY <1>1 DEF KbShape, KbTypeOK, BuildState
<1>3. SameBut(task, task', Builds, t) /\ task'[t] = j
  BY <1>1 DEF SameBut
<1>4. \A b \in Bases :
          TasksDue(b, task') = TasksDue(b, task) - Bit(Indexes(task[t], b)) + Bit(Indexes(task'[t], b))
  <2> TAKE b \in Bases
  <2> QED BY <1>3, TasksDueChange
<1>5. \A b \in Bases : TasksDue(b, task) \in Nat
  BY DueTypes
<1> QED BY <1>1, <1>2, <1>3, <1>4, <1>5 DEF TaskBecomes

----------------------------------------------------------------------------
(* Requests before a claim, or that die.                                   *)

Calm == {"idle", "insert", "count", "recount", "credits", "claim"}

\* A step of a request that has no claim, or that loses it to a fault.
CalmStep(q, c) ==
    /\ ReqState(c) /\ req' = [req EXCEPT ![q] = c]
    /\ c.pc \in Calm /\ (req[q].pc \in Calm \/ kbFaults' > 0)
    /\ UNCHANGED <<kind, kbStatus, task, credits, claims, charges, spends, lostReplies>>
    /\ count' \in [Bases -> Nat] /\ docs' \in [Bases -> Nat]
    /\ kbFaults' \in Nat /\ kbFaults' >= kbFaults

LEMMA CalmKeeps ==
    ASSUME KbInv, NEW q \in Requests, NEW c, CalmStep(q, c)
    PROVE  KbInv'
<1>1. RequestBecomes(q, c)
  BY ReqTurns DEF KbInv, CalmStep
<1>2. \A x \in Requests : req'[x] = IF x = q THEN c ELSE req[x]
  BY <1>1 DEF RequestBecomes
<1>3. \A x \in Requests, b \in Bases : Has(req'[x], b) => Has(req[x], b)
  BY <1>2 DEF CalmStep, Calm, Has
<1>4. KbShape'
  BY <1>1 DEF KbInv, KbShape, KbTypeOK, CalmStep, RequestBecomes
<1>5. ClaimInv'
  <2> SUFFICES ASSUME lostReplies = 0, NEW b \in Bases PROVE Alone(b)' /\ Marked(b)'
    BY DEF ClaimInv, CalmStep
  <2>1. Alone(b) /\ Marked(b)
    BY DEF KbInv, ClaimInv
  <2>2. Alone(b)'
    BY <1>3, <2>1 DEF Alone, CalmStep
  <2>3. Marked(b)'
    BY <1>3, <2>1 DEF Marked, CalmStep
  <2> QED BY <2>2, <2>3
<1>6. PaidInv'
  <2> SUFFICES ASSUME NEW b \in Bases
               PROVE  charges[b] + RequestsDue(b, req') + TasksDue(b, task) <= claims[b] + lostReplies
    BY DEF PaidInv, CalmStep
  <2>1. charges[b] + RequestsDue(b, req) + TasksDue(b, task) <= claims[b] + lostReplies
    BY DEF KbInv, PaidInv
  <2>2. ~Paying(c, b)
    BY DEF Paying, CalmStep, Calm
  <2>3. /\ RequestsDue(b, req) \in Nat
        /\ RequestsDue(b, req') = RequestsDue(b, req) - Bit(Paying(req[q], b)) + Bit(Paying(c, b))
    BY <1>1 DEF RequestBecomes
  <2>5. Bit(Paying(c, b)) = 0 /\ Bit(Paying(req[q], b)) \in {0, 1}
    BY <2>2 DEF Bit
  <2>4. charges[b] \in Nat /\ claims[b] \in Nat /\ lostReplies \in Nat /\ TasksDue(b, task) \in Nat
    BY DueTypes DEF KbInv, KbShape, KbTypeOK
  <2> QED BY <2>1, <2>3, <2>4, <2>5
<1>7. WikisOnly'
  BY <1>2 DEF KbInv, WikisOnly, CalmStep, Calm
<1>8. NeverOverdrawn'
  BY DEF KbInv, NeverOverdrawn, CalmStep
<1>9. BuildingHasABuilder'
  <2> SUFFICES ASSUME NEW b \in Bases, kbStatus[b] = "building", kbFaults' = 0
               PROVE  \/ \E x \in Requests : Has(req'[x], b)
                      \/ \E t \in Builds : task[t].base = b /\ (Pending(t) \/ task[t].pc = "dead")
    BY DEF BuildingHasABuilder, CalmStep, Has, Pending
  <2>1. kbFaults = 0 /\ req[q].pc \in Calm
    BY DEF CalmStep, KbInv, KbShape, KbTypeOK
  <2>2. \/ \E x \in Requests : Has(req[x], b)
        \/ \E t \in Builds : task[t].base = b /\ (Pending(t) \/ task[t].pc = "dead")
    BY <2>1 DEF KbInv, BuildingHasABuilder, Has
  <2>3. \A x \in Requests : Has(req[x], b) => Has(req'[x], b)
    BY <1>2, <2>1 DEF Has, Calm
  <2> QED BY <2>2, <2>3
<1> QED BY <1>4, <1>5, <1>6, <1>7, <1>8, <1>9 DEF KbInv

LEMMA RequestFields ==
    ASSUME KbInv, NEW q \in Requests
    PROVE  /\ req[q] \in Request /\ req[q].cost \in Nat /\ req[q].pc \in ReqSteps
           /\ req[q].pc # "idle" => req[q].base \in Bases
BY DEF KbInv, KbShape, ReqState, Request

LEMMA ComesTo ==
    ASSUME NEW s \in ReqSteps, NEW b \in Bases, NEW n \in Nat, NEW c,
           c = [pc |-> s, base |-> b, cost |-> n]
    PROVE  ReqState(c) /\ c.pc = s /\ c.base = b
BY DEF ReqState, Request

LEMMA QuietState == ReqState(Quiet) /\ Quiet.pc = "idle" /\ \A b \in Bases : Quiet.base # b
BY NoBaseAssumption DEF Quiet, ReqState, Request, ReqSteps

\* Everything but documents, and who handles the request next.
Aside(q) ==
    /\ UNCHANGED <<kind, kbStatus, task, credits, claims, charges, spends, lostReplies>>
    /\ count' \in [Bases -> Nat] /\ docs' \in [Bases -> Nat]
    /\ kbFaults' \in Nat /\ kbFaults' >= kbFaults

LEMMA CalmGoes ==
    ASSUME KbInv, NEW q \in Requests, NEW s \in Calm, NEW b \in Bases, NEW n \in Nat,
           req[q].pc \in Calm, ReqGoes(q, s, b, n), Aside(q)
    PROVE  KbInv'
<1> DEFINE c == [pc |-> s, base |-> b, cost |-> n]
<1>1. s \in ReqSteps
  BY DEF Calm, ReqSteps
<1>2. req' = [req EXCEPT ![q] = c]
  BY DEF ReqGoes
<1>3. ReqState(c) /\ c.pc = s
  BY <1>1, ComesTo
<1> HIDE DEF c
<1>4. CalmStep(q, c)
  BY <1>2, <1>3 DEF CalmStep, Aside
<1> QED BY <1>4, CalmKeeps

LEMMA CalmEnds ==
    ASSUME KbInv, NEW q \in Requests, req[q].pc \in Calm \/ kbFaults' > 0, Ends(q), Aside(q)
    PROVE  KbInv'
<1>1. CalmStep(q, Quiet)
  BY QuietState DEF CalmStep, Aside, Ends, Calm
<1> QED BY <1>1, CalmKeeps

LEMMA DocumentSteps ==
    ASSUME KbInv, NEW q \in Requests,
           \/ InsertDocument(q) \/ CountDocument(q) \/ Recount(q) \/ CheckCredits(q) \/ RequestDies(q)
           \/ \E b \in Bases : UploadDocument(q, b) \/ DeleteDoc(q, b) \/ BuildKnowledgeBase(q, b)
    PROVE  KbInv'
<1>1. /\ count \in [Bases -> Nat] /\ docs \in [Bases -> Nat] /\ kbFaults \in Nat
      /\ CostPerDoc \in Nat /\ 0 \in Nat /\ \A b \in Bases : CostPerDoc * count[b] \in Nat
  BY CostAssumption DEF KbInv, KbShape, KbTypeOK
<1>2. ASSUME NEW b \in Bases, UploadDocument(q, b) PROVE KbInv'
  <2>1. req[q].pc = "idle" /\ ReqGoes(q, "insert", b, 0) /\ Aside(q)
    BY <1>1, <1>2 DEF UploadDocument, Aside
  <2>2. "idle" \in Calm /\ "insert" \in Calm
    BY DEF Calm
  <2> QED BY <1>1, <2>1, <2>2, CalmGoes
<1>3. CASE InsertDocument(q)
  <2>1. req[q].pc = "insert" /\ req[q].base \in Bases /\ "insert" \in Calm /\ "count" \in Calm
    BY <1>3, RequestFields DEF InsertDocument, Calm
  <2>2. Aside(q)
    BY <1>1, <1>3, <2>1 DEF InsertDocument, Aside
  <2>3. Ends(q) \/ ReqGoes(q, "count", req[q].base, 0)
    BY <1>3 DEF InsertDocument
  <2> QED BY <1>1, <2>1, <2>2, <2>3, CalmGoes, CalmEnds
<1>4. CASE CountDocument(q) \/ Recount(q)
  <2>1. req[q].pc \in Calm /\ req[q].base \in Bases /\ Ends(q)
    BY <1>4, RequestFields DEF CountDocument, Recount, Calm
  <2>2. count' \in [Bases -> Nat]
    BY <1>1, <1>4, <2>1 DEF CountDocument, Recount
  <2>3. Aside(q)
    BY <1>1, <1>4, <2>2 DEF CountDocument, Recount, Aside
  <2> QED BY <2>1, <2>3, CalmEnds
<1>5. ASSUME NEW b \in Bases, DeleteDoc(q, b) PROVE KbInv'
  <2>1. docs' \in [Bases -> Nat]
    BY <1>1, <1>5 DEF DeleteDoc
  <2>2. req[q].pc = "idle" /\ ReqGoes(q, "recount", b, 0) /\ Aside(q)
    BY <1>1, <1>5, <2>1 DEF DeleteDoc, Aside
  <2>3. "idle" \in Calm /\ "recount" \in Calm
    BY DEF Calm
  <2> QED BY <1>1, <2>2, <2>3, CalmGoes
<1>6. ASSUME NEW b \in Bases, BuildKnowledgeBase(q, b) PROVE KbInv'
  <2>1. req[q].pc = "idle" /\ ReqGoes(q, "credits", b, CostPerDoc * count[b]) /\ Aside(q)
    BY <1>1, <1>6 DEF BuildKnowledgeBase, Aside
  <2>2. "idle" \in Calm /\ "credits" \in Calm /\ CostPerDoc * count[b] \in Nat
    BY <1>1 DEF Calm
  <2> QED BY <2>1, <2>2, CalmGoes
<1>7. CASE CheckCredits(q)
  <2>1. req[q].pc \in Calm /\ req[q].base \in Bases /\ req[q].cost \in Nat /\ "claim" \in Calm
    BY <1>7, RequestFields DEF CheckCredits, Calm
  <2>2. Aside(q) /\ (Ends(q) \/ ReqGoes(q, "claim", req[q].base, req[q].cost))
    BY <1>1, <1>7 DEF CheckCredits, Aside
  <2> QED BY <2>1, <2>2, CalmGoes, CalmEnds
<1>8. CASE RequestDies(q)
  <2>1. Aside(q) /\ Ends(q) /\ kbFaults' > 0
    BY <1>1, <1>8 DEF RequestDies, KbFault, Aside
  <2> QED BY <2>1, CalmEnds
<1> QED BY <1>2, <1>3, <1>4, <1>5, <1>6, <1>7, <1>8

----------------------------------------------------------------------------
(* Claims, and what ends them.                                             *)

LEMMA KbTypes ==
    ASSUME KbInv
    PROVE  /\ kbStatus \in [Bases -> Statuses] /\ claims \in [Bases -> Nat] /\ charges \in [Bases -> Nat]
           /\ credits \in [Users -> Int] /\ lostReplies \in Nat /\ kbFaults \in Nat /\ spends \in Nat
           /\ \A b \in Bases :
                  /\ claims[b] \in Nat /\ charges[b] \in Nat
                  /\ RequestsDue(b, req) \in Nat /\ TasksDue(b, task) \in Nat
                  /\ charges[b] + RequestsDue(b, req) + TasksDue(b, task) <= claims[b] + lostReplies
BY DueTypes DEF KbInv, KbShape, KbTypeOK, PaidInv

LEMMA Bits == ASSUME NEW x \in BOOLEAN PROVE (x => Bit(x) = 1) /\ (~x => Bit(x) = 0) /\ Bit(x) \in {0, 1}
BY DEF Bit

LEMMA NobodyHas ==
    ASSUME KbInv, lostReplies = 0, NEW b \in Bases, kbStatus[b] \notin {"building", "deleted"}
    PROVE  (\A q \in Requests : ~Has(req[q], b)) /\ (\A t \in Builds : ~Indexes(task[t], b))
BY DEF KbInv, ClaimInv, Marked

LEMMA ClaimKeeps ==
    ASSUME KbInv, NEW q \in Requests, ClaimBuild(q)
    PROVE  KbInv'
<1> DEFINE b == req[q].base
           c == [pc |-> IF kind[b] = "rag" THEN "enqueue" ELSE "wiki", base |-> b, cost |-> req[q].cost]
<1>1. req[q].pc = "claim" /\ b \in Bases /\ req[q].cost \in Nat
  BY RequestFields DEF ClaimBuild
<1>2. CASE kbStatus[b] \in {"building", "deleted"}
  <2>1. Ends(q) /\ Aside(q) /\ req[q].pc \in Calm
    BY <1>1, <1>2 DEF ClaimBuild, Aside, KbInv, KbShape, KbTypeOK, Calm
  <2> QED BY <2>1, CalmEnds
<1>3. CASE kbStatus[b] \notin {"building", "deleted"}
  <2>1. /\ kbStatus' = [kbStatus EXCEPT ![b] = "building"] /\ claims' = [claims EXCEPT ![b] = @ + 1]
        /\ req' = [req EXCEPT ![q] = c]
        /\ UNCHANGED <<kind, count, docs, credits, task, charges, spends, kbFaults, lostReplies>>
    BY <1>3 DEF ClaimBuild, ReqGoes
  <2>2. ReqState(c) /\ c.base = b /\ c.pc \in {"enqueue", "wiki"} /\ (c.pc = "wiki" => kind[b] # "rag")
    BY <1>1 DEF ReqState, Request, ReqSteps
  <2>3. kind \in [Bases -> {"rag", "wiki"}]
    BY DEF KbInv, KbShape, KbTypeOK
  <2>4. c.pc = "wiki" => kind[b] = "wiki"
    BY <1>1, <2>2, <2>3
  <2> HIDE DEF c
  <2>5. RequestBecomes(q, c)
    BY <2>1, <2>2, ReqTurns DEF KbInv
  <2> HIDE DEF b
  <2>6. \A x \in Requests : req'[x] = IF x = q THEN c ELSE req[x]
    BY <2>5 DEF RequestBecomes
  <2>7. /\ \A x \in Bases : kbStatus'[x] = IF x = b THEN "building" ELSE kbStatus[x]
        /\ \A x \in Bases : claims'[x] = IF x = b THEN claims[x] + 1 ELSE claims[x]
        /\ kbStatus' \in [Bases -> Statuses] /\ claims' \in [Bases -> Nat]
    BY <1>1, <2>1, KbTypes DEF Statuses
  <2>8. \A x \in Requests, y \in Bases : Has(req'[x], y) <=> Has(req[x], y) \/ (x = q /\ y = b)
    BY <1>1, <2>2, <2>6 DEF Has
  <2>9. KbShape'
    BY <2>1, <2>5, <2>7 DEF KbInv, KbShape, KbTypeOK, RequestBecomes
  <2>10. ClaimInv'
    <3> SUFFICES ASSUME lostReplies = 0, NEW y \in Bases PROVE Alone(y)' /\ Marked(y)'
      BY <2>1 DEF ClaimInv
    <3>1. Alone(y) /\ Marked(y)
      BY DEF KbInv, ClaimInv
    <3>2. CASE y = b
      <4>1. (\A x \in Requests : ~Has(req[x], y)) /\ (\A t \in Builds : ~Indexes(task[t], y))
        BY <1>3, <3>2, NobodyHas
      <4>2. Alone(y)'
        BY <2>1, <2>8, <4>1 DEF Alone
      <4>3. Marked(y)'
        BY <2>7, <3>2 DEF Marked
      <4> QED BY <4>2, <4>3
    <3>3. CASE y # b
      BY <2>1, <2>7, <2>8, <3>1, <3>3 DEF Alone, Marked
    <3> QED BY <3>2, <3>3
  <2>11. PaidInv'
    <3> SUFFICES ASSUME NEW y \in Bases
                 PROVE  charges[y] + RequestsDue(y, req') + TasksDue(y, task) <= claims'[y] + lostReplies
      BY <2>1 DEF PaidInv
    <3>1. RequestsDue(y, req') = RequestsDue(y, req) - Bit(Paying(req[q], y)) + Bit(Paying(c, y))
      BY <2>5 DEF RequestBecomes
    <3>2. Bit(Paying(req[q], y)) = 0 /\ Bit(Paying(c, y)) = IF y = b THEN 1 ELSE 0
      BY <1>1, <2>2 DEF Bit, Paying
    <3>3. claims'[y] = claims[y] + IF y = b THEN 1 ELSE 0
      BY <2>7, KbTypes
    <3> QED BY <3>1, <3>2, <3>3, KbTypes
  <2>12. WikisOnly'
    BY <2>1, <2>2, <2>4, <2>6 DEF KbInv, WikisOnly
  <2>13. NeverOverdrawn'
    BY <2>1 DEF KbInv, NeverOverdrawn
  <2>14. BuildingHasABuilder'
    <3> SUFFICES ASSUME NEW y \in Bases, kbStatus'[y] = "building", kbFaults = 0
                 PROVE  \/ \E x \in Requests : Has(req'[x], y)
                        \/ \E t \in Builds : task[t].base = y /\ (Pending(t) \/ task[t].pc = "dead")
      BY <2>1 DEF BuildingHasABuilder, Has, Pending
    <3>1. y = b \/ kbStatus[y] = "building"
      BY <2>7
    <3>2. kbStatus[y] = "building" =>
              \/ \E x \in Requests : Has(req[x], y)
              \/ \E t \in Builds : task[t].base = y /\ (Pending(t) \/ task[t].pc = "dead")
      BY DEF KbInv, BuildingHasABuilder, Has
    <3> QED BY <2>8, <3>1, <3>2
  <2> QED BY <2>9, <2>10, <2>11, <2>12, <2>13, <2>14 DEF KbInv
<1> QED BY <1>2, <1>3

LEMMA StatusSet ==
    ASSUME KbInv, NEW b \in Bases, NEW s \in Statuses, SetStatus(b, s)
    PROVE  /\ kbStatus' \in [Bases -> Statuses]
           /\ \A x \in Bases : x # b => kbStatus'[x] = kbStatus[x]
           /\ kbStatus'[b] = IF kbStatus[b] = "deleted" THEN "deleted" ELSE s
BY KbTypes DEF SetStatus

\* A request that holds the claim gives the base a status and ends.
LEMMA LeavingKeeps ==
    ASSUME KbInv, NEW q \in Requests, req[q].pc \in {"rollback", "wiki"}, Ends(q),
           NEW s \in {"draft", "active"}, SetStatus(req[q].base, s),
           UNCHANGED <<kind, count, docs, task, claims, spends, kbFaults, lostReplies>>,
           credits' \in [Users -> Int], charges' \in [Bases -> Nat], NeverOverdrawn',
           \A y \in Bases : charges'[y] <= charges[y] + Bit(Paying(req[q], y))
    PROVE  KbInv'
<1> DEFINE b == req[q].base
<1>1. b \in Bases
  BY RequestFields
<1>2. RequestBecomes(q, Quiet) /\ \A x \in Requests : req'[x] = IF x = q THEN Quiet ELSE req[x]
  BY ReqTurns, QuietState DEF KbInv, Ends, RequestBecomes
<1>3. Has(req[q], b)
  BY DEF Has
<1> HIDE DEF b
<1>4. /\ kbStatus' \in [Bases -> Statuses] /\ kbStatus'[b] # "building"
      /\ \A x \in Bases : x # b => kbStatus'[x] = kbStatus[x]
  <2>1. s \in Statuses
    BY DEF Statuses
  <2> QED BY <1>1, <2>1, StatusSet DEF b
<1>5. \A x \in Requests, y \in Bases : Has(req'[x], y) <=> Has(req[x], y) /\ x # q
  BY <1>2, QuietState DEF Has
<1>6. \A y \in Bases : y # b => ~Has(req[q], y)
  BY <1>3 DEF Has
<1>7. KbShape'
  BY <1>2, <1>4 DEF KbInv, KbShape, KbTypeOK, RequestBecomes
<1>8. ClaimInv'
  <2> SUFFICES ASSUME lostReplies = 0, NEW y \in Bases PROVE Alone(y)' /\ Marked(y)'
    BY DEF ClaimInv
  <2>1. Alone(y) /\ Marked(y)
    BY DEF KbInv, ClaimInv
  <2>2. Alone(y)'
    BY <1>5, <2>1 DEF Alone
  <2>3. CASE y = b
    <3>1. (\A x \in Requests : ~Has(req'[x], y)) /\ \A t \in Builds : ~Indexes(task[t], y)
      BY <1>3, <1>5, <2>1, <2>3 DEF Alone
    <3> QED BY <2>2, <3>1 DEF Marked
  <2>4. CASE y # b
    BY <1>4, <1>5, <2>1, <2>2, <2>4 DEF Marked
  <2> QED BY <2>3, <2>4
<1>9. PaidInv'
  <2> SUFFICES ASSUME NEW y \in Bases
               PROVE  charges'[y] + RequestsDue(y, req') + TasksDue(y, task) <= claims[y] + lostReplies
    BY DEF PaidInv
  <2>1. RequestsDue(y, req') = RequestsDue(y, req) - Bit(Paying(req[q], y)) + Bit(Paying(Quiet, y))
    BY <1>2 DEF RequestBecomes
  <2>2. Bit(Paying(Quiet, y)) = 0 /\ Bit(Paying(req[q], y)) \in {0, 1}
    BY QuietState DEF Bit, Paying
  <2>3. charges'[y] \in Nat /\ charges'[y] <= charges[y] + Bit(Paying(req[q], y))
    OBVIOUS
  <2> QED BY <2>1, <2>2, <2>3, KbTypes
<1>10. WikisOnly'
  BY <1>2, QuietState DEF KbInv, WikisOnly
<1>11. BuildingHasABuilder'
  <2> SUFFICES ASSUME NEW y \in Bases, kbStatus'[y] = "building", kbFaults = 0
               PROVE  \/ \E x \in Requests : Has(req'[x], y)
                      \/ \E t \in Builds : task[t].base = y /\ (Pending(t) \/ task[t].pc = "dead")
    BY DEF BuildingHasABuilder, Has, Pending
  <2>1. y # b /\ kbStatus[y] = "building" /\ ~Has(req[q], y)
    BY <1>4, <1>6
  <2>2. \/ \E x \in Requests : Has(req[x], y)
        \/ \E t \in Builds : task[t].base = y /\ (Pending(t) \/ task[t].pc = "dead")
    BY <2>1 DEF KbInv, BuildingHasABuilder, Has
  <2> QED BY <1>5, <2>1, <2>2
<1> QED BY <1>7, <1>8, <1>9, <1>10, <1>11 DEF KbInv

LEMMA RollbackKeeps == ASSUME KbInv, NEW q \in Requests, Rollback(q) PROVE KbInv'
<1>1. /\ req[q].pc = "rollback" /\ Ends(q) /\ SetStatus(req[q].base, "draft")
      /\ UNCHANGED <<kind, count, docs, credits, task, claims, charges, spends, kbFaults, lostReplies>>
  BY DEF Rollback
<1>2. NeverOverdrawn' /\ credits' \in [Users -> Int] /\ charges' \in [Bases -> Nat]
  BY <1>1, KbTypes DEF KbInv, NeverOverdrawn
<1>3. \A y \in Bases : charges'[y] <= charges[y] + Bit(Paying(req[q], y))
  <2> TAKE y \in Bases
  <2>1. charges[y] \in Nat /\ Bit(Paying(req[q], y)) \in {0, 1} /\ charges'[y] = charges[y]
    BY <1>1, KbTypes DEF Bit
  <2> QED BY <2>1
<1> QED BY <1>1, <1>2, <1>3, LeavingKeeps

LEMMA WikiKeeps == ASSUME KbInv, NEW q \in Requests, BuildWiki(q) PROVE KbInv'
<1> DEFINE b == req[q].base
           n == req[q].cost
<1>1. /\ req[q].pc = "wiki" /\ Ends(q) /\ SetStatus(b, "active") /\ b \in Bases /\ n \in Nat
      /\ UNCHANGED <<kind, count, docs, task, claims, spends, kbFaults, lostReplies>>
      /\ credits' = [credits EXCEPT ![OwnerOf[b]] = @ - n]
      /\ charges' = [charges EXCEPT ![b] = @ + 1]
  BY RequestFields DEF BuildWiki, Charge
<1>2. kind[b] = "wiki"
  BY <1>1 DEF KbInv, WikisOnly
<1>3. \A y \in Bases : Bit(Paying(req[q], y)) = IF y = b THEN 1 ELSE 0
  BY <1>1 DEF Bit, Paying
<1>4. OwnerOf[b] \in Users
  BY <1>1, BaseAssumption
<1> HIDE DEF b, n
<1>5. /\ credits' \in [Users -> Int] /\ charges' \in [Bases -> Nat]
      /\ \A usr \in Users : usr # OwnerOf[b] => credits'[usr] = credits[usr]
      /\ \A y \in Bases : charges'[y] = IF y = b THEN charges[y] + 1 ELSE charges[y]
  BY <1>1, <1>4, KbTypes
<1>6. NeverOverdrawn'
  BY <1>1, <1>2, <1>5 DEF KbInv, NeverOverdrawn
<1>7. \A y \in Bases : charges'[y] <= charges[y] + Bit(Paying(req[q], y))
  <2> TAKE y \in Bases
  <2>1. charges[y] \in Nat
    BY KbTypes
  <2> QED BY <1>3, <1>5, <2>1
<1>8. SetStatus(req[q].base, "active")
  BY <1>1 DEF b
<1> QED BY <1>1, <1>5, <1>6, <1>7, <1>8, LeavingKeeps

----------------------------------------------------------------------------
(* Handing the build to the queue.                                         *)

LEMMA EnqueueFailsKeeps == ASSUME KbInv, NEW q \in Requests, EnqueueFails(q) PROVE KbInv'
<1> DEFINE b == req[q].base
           c == [pc |-> "rollback", base |-> b, cost |-> req[q].cost]
<1>1. /\ req[q].pc = "enqueue" /\ b \in Bases /\ req[q].cost \in Nat /\ kbFaults' = kbFaults + 1
      /\ req' = [req EXCEPT ![q] = c]
      /\ UNCHANGED <<kind, kbStatus, count, docs, credits, task, claims, charges, spends, lostReplies>>
  BY RequestFields DEF EnqueueFails, KbFault, ReqGoes
<1>2. ReqState(c) /\ c.pc = "rollback" /\ c.base = req[q].base
  BY <1>1 DEF ReqState, Request, ReqSteps
<1> HIDE DEF b, c
<1>3. RequestBecomes(q, c) /\ \A x \in Requests : req'[x] = IF x = q THEN c ELSE req[x]
  BY <1>1, <1>2, ReqTurns DEF KbInv, RequestBecomes
<1>4. \A x \in Requests, y \in Bases : Has(req'[x], y) <=> Has(req[x], y)
  BY <1>1, <1>2, <1>3 DEF Has
<1>5. kbFaults' \in Nat /\ kbFaults' # 0
  BY <1>1, KbTypes
<1>6. KbShape'
  BY <1>1, <1>3, <1>5 DEF KbInv, KbShape, KbTypeOK, RequestBecomes
<1>7. ClaimInv'
  <2> SUFFICES ASSUME lostReplies = 0, NEW y \in Bases PROVE Alone(y)' /\ Marked(y)'
    BY <1>1 DEF ClaimInv
  <2>1. Alone(y) /\ Marked(y)
    BY DEF KbInv, ClaimInv
  <2> QED BY <1>1, <1>4, <2>1 DEF Alone, Marked
<1>8. PaidInv'
  <2> SUFFICES ASSUME NEW y \in Bases
               PROVE  charges[y] + RequestsDue(y, req') + TasksDue(y, task) <= claims[y] + lostReplies
    BY <1>1 DEF PaidInv
  <2>1. RequestsDue(y, req') = RequestsDue(y, req) - Bit(Paying(req[q], y)) + Bit(Paying(c, y))
    BY <1>3 DEF RequestBecomes
  <2>2. Bit(Paying(c, y)) = 0 /\ Bit(Paying(req[q], y)) \in {0, 1}
    BY <1>2 DEF Bit, Paying
  <2> QED BY <2>1, <2>2, KbTypes
<1>9. WikisOnly' /\ NeverOverdrawn'
  BY <1>1, <1>2, <1>3 DEF KbInv, WikisOnly, NeverOverdrawn
<1>10. BuildingHasABuilder'
  BY <1>5 DEF BuildingHasABuilder
<1> QED BY <1>6, <1>7, <1>8, <1>9, <1>10 DEF KbInv

\* The task carries on for the request, which ends or, its reply lost, gives the
\* claim back.
Submitted(q, t, c, j) ==
    /\ req[q].pc = "enqueue" /\ task[t].pc = "none"
    /\ ReqState(c) /\ req' = [req EXCEPT ![q] = c]
    /\ BuildState(j) /\ task' = [task EXCEPT ![t] = j] /\ j.base = req[q].base /\ j.pc = "queued"
    /\ UNCHANGED <<kind, kbStatus, count, docs, credits, claims, charges, spends, kbFaults>>
    /\ \/ c = Quiet /\ lostReplies' = lostReplies
       \/ c.pc = "rollback" /\ c.base = req[q].base /\ lostReplies' = lostReplies + 1

LEMMA SubmittedKeeps ==
    ASSUME KbInv, NEW q \in Requests, NEW t \in Builds, NEW c, NEW j, Submitted(q, t, c, j)
    PROVE  KbInv'
<1> DEFINE b == req[q].base
<1>1. /\ b \in Bases /\ req[q].pc = "enqueue" /\ task[t].pc = "none" /\ j.base = b /\ j.pc = "queued"
      /\ UNCHANGED <<kind, kbStatus, count, docs, credits, claims, charges, spends, kbFaults>>
      /\ c.pc \in {"idle", "rollback"}
  BY RequestFields, QuietState DEF Submitted
<1>2. RequestBecomes(q, c) /\ \A x \in Requests : req'[x] = IF x = q THEN c ELSE req[x]
  BY ReqTurns DEF KbInv, Submitted, RequestBecomes
<1>3. TaskBecomes(t, j) /\ \A x \in Builds : task'[x] = IF x = t THEN j ELSE task[x]
  BY TaskTurns DEF KbInv, Submitted, TaskBecomes
<1>4. Has(req[q], b) /\ ~\E y \in Bases : y # b /\ Has(req[q], y)
  BY <1>1 DEF Has
<1> HIDE DEF b
<1>5. \A x \in Builds, y \in Bases : Indexes(task'[x], y) <=> Indexes(task[x], y) \/ (x = t /\ y = b)
  BY <1>1, <1>3 DEF Indexes
<1>6. lostReplies' \in Nat /\ lostReplies \in Nat /\ lostReplies' >= lostReplies
  BY KbTypes DEF Submitted
<1>7. KbShape'
  BY <1>1, <1>2, <1>3, <1>6 DEF KbInv, KbShape, KbTypeOK, RequestBecomes, TaskBecomes
<1>8. ClaimInv'
  <2> SUFFICES ASSUME lostReplies' = 0, NEW y \in Bases PROVE Alone(y)' /\ Marked(y)'
    BY DEF ClaimInv
  <2>1. lostReplies = 0 /\ c = Quiet
    BY <1>6 DEF Submitted
  <2>2. Alone(y) /\ Marked(y)
    BY <2>1 DEF KbInv, ClaimInv
  <2>3. \A x \in Requests : Has(req'[x], y) <=> Has(req[x], y) /\ x # q
    BY <1>2, <2>1, QuietState DEF Has
  <2>4. CASE y = b
    <3>1. (\A x \in Requests : ~Has(req'[x], y)) /\ (\A x \in Builds : ~Indexes(task[x], y))
      BY <1>4, <2>2, <2>3, <2>4 DEF Alone
    <3>2. kbStatus[y] \in {"building", "deleted"}
      BY <1>4, <2>2, <2>4 DEF Marked
    <3> QED BY <1>1, <1>5, <3>1, <3>2 DEF Alone, Marked
  <2>5. CASE y # b
    <3>1. \A x \in Builds : Indexes(task'[x], y) <=> Indexes(task[x], y)
      BY <1>5, <2>5
    <3>2. Alone(y)'
      BY <2>2, <2>3, <3>1 DEF Alone
    <3> QED BY <1>1, <2>2, <2>3, <3>1, <3>2 DEF Marked
  <2> QED BY <2>4, <2>5
<1>9. PaidInv'
  <2> SUFFICES ASSUME NEW y \in Bases
               PROVE  charges[y] + RequestsDue(y, req') + TasksDue(y, task') <= claims[y] + lostReplies'
    BY <1>1 DEF PaidInv
  <2>1. RequestsDue(y, req') = RequestsDue(y, req) - Bit(Paying(req[q], y)) + Bit(Paying(c, y))
    BY <1>2 DEF RequestBecomes
  <2>2. TasksDue(y, task') = TasksDue(y, task) - Bit(Indexes(task[t], y)) + Bit(Indexes(j, y))
    BY <1>3 DEF TaskBecomes
  <2>3. Bit(Paying(c, y)) = 0 /\ Bit(Indexes(task[t], y)) = 0
    BY <1>1 DEF Bit, Paying, Indexes
  <2>4. Bit(Paying(req[q], y)) = Bit(Indexes(j, y)) /\ Bit(Indexes(j, y)) \in {0, 1}
    BY <1>1 DEF Bit, Paying, Indexes, b
  <2> QED BY <1>6, <2>1, <2>2, <2>3, <2>4, KbTypes
<1>10. WikisOnly' /\ NeverOverdrawn'
  BY <1>1, <1>2 DEF KbInv, WikisOnly, NeverOverdrawn
<1>11. BuildingHasABuilder'
  <2> SUFFICES ASSUME NEW y \in Bases, kbStatus[y] = "building", kbFaults = 0
               PROVE  \/ \E x \in Requests : Has(req'[x], y)
                      \/ \E x \in Builds : task'[x].base = y /\ task'[x].pc \in {"queued", "docs", "txn", "dead"}
    BY <1>1 DEF BuildingHasABuilder, Has, Pending
  <2>1. \/ \E x \in Requests : Has(req[x], y)
        \/ \E x \in Builds : task[x].base = y /\ task[x].pc \in {"queued", "docs", "txn", "dead"}
    BY DEF KbInv, BuildingHasABuilder, Has, Pending
  <2>2. CASE y = b
    BY <1>1, <1>3, <2>2
  <2>3. CASE y # b
    BY <1>1, <1>2, <1>3, <1>4, <2>1, <2>3
  <2> QED BY <2>2, <2>3
<1> QED BY <1>7, <1>8, <1>9, <1>10, <1>11 DEF KbInv

LEMMA EnqueueKeeps ==
    ASSUME KbInv, NEW q \in Requests, NEW t \in Builds, EnqueueRagBuild(q, t) \/ EnqueueReplyLost(q, t)
    PROVE  KbInv'
<1> DEFINE b == req[q].base
           n == req[q].cost
           c == [pc |-> "rollback", base |-> b, cost |-> n]
           j == [pc |-> "queued", base |-> b, cost |-> n, docs |-> docs[b], retry |-> 0, failed |-> FALSE]
<1>1. req[q].pc = "enqueue" /\ b \in Bases /\ n \in Nat /\ docs[b] \in Nat
  BY RequestFields DEF EnqueueRagBuild, EnqueueReplyLost, KbInv, KbShape, KbTypeOK
<1>2. ReqState(c) /\ c.pc = "rollback" /\ c.base = req[q].base
  BY <1>1 DEF ReqState, Request, ReqSteps
<1>3. BuildState(j) /\ j.pc = "queued" /\ j.base = req[q].base
  BY <1>1 DEF BuildState, Build, TaskSteps
<1>4. /\ task[t].pc = "none" /\ task' = [task EXCEPT ![t] = j]
      /\ UNCHANGED <<kind, kbStatus, count, docs, credits, claims, charges, spends, kbFaults>>
      /\ \/ req' = [req EXCEPT ![q] = Quiet] /\ lostReplies' = lostReplies
         \/ req' = [req EXCEPT ![q] = c] /\ lostReplies' = lostReplies + 1
  BY DEF EnqueueRagBuild, EnqueueReplyLost, Submits, Ends, ReqGoes, LosesReply
<1> HIDE DEF b, n, c, j
<1>5. Submitted(q, t, Quiet, j) \/ Submitted(q, t, c, j)
  BY <1>1, <1>2, <1>3, <1>4, QuietState DEF Submitted
<1> QED BY <1>5, SubmittedKeeps

----------------------------------------------------------------------------
(* The worker.                                                             *)

LEMMA BuildFields ==
    ASSUME KbInv, NEW t \in Builds
    PROVE  /\ task[t] \in Build /\ task[t].pc \in TaskSteps /\ task[t].cost \in Nat /\ task[t].docs \in Nat
           /\ task[t].retry \in Nat /\ task[t].base \in Bases \union {NoBase}
           /\ task[t].pc # "none" => task[t].base \in Bases
BY DEF KbInv, KbShape, BuildState, Build

Waiting == {"queued", "docs", "txn", "dead"}

\* A step of a task that leaves its base as it is.  What is done stays done unless
\* the acknowledgement was lost, and a base that is building keeps its task.
Passing(t, j) ==
    /\ task[t].base \in Bases /\ j.base = task[t].base
    /\ BuildState(j) /\ task' = [task EXCEPT ![t] = j]
    /\ UNCHANGED <<kind, kbStatus, count, docs, credits, req, claims, charges, spends>>
    /\ kbFaults' \in Nat /\ kbFaults' >= kbFaults /\ lostReplies' \in Nat
    /\ \/ lostReplies' = lostReplies /\ (j.pc \in {"queued", "docs", "txn"} => task[t].pc \in {"queued", "docs", "txn"})
       \/ lostReplies' = lostReplies + 1
    /\ task[t].pc \in Waiting => j.pc \in Waiting \/ kbStatus[task[t].base] = "active" \/ kbFaults' > 0

LEMMA PassingKeeps ==
    ASSUME KbInv, NEW t \in Builds, NEW j, Passing(t, j)
    PROVE  KbInv'
<1>1. TaskBecomes(t, j) /\ \A x \in Builds : task'[x] = IF x = t THEN j ELSE task[x]
  BY TaskTurns DEF KbInv, Passing, TaskBecomes
<1>2. KbShape'
  BY <1>1 DEF KbInv, KbShape, KbTypeOK, Passing, TaskBecomes
<1>3. ClaimInv'
  <2> SUFFICES ASSUME lostReplies' = 0, NEW y \in Bases PROVE Alone(y)' /\ Marked(y)'
    BY DEF ClaimInv
  <2>1. lostReplies = 0 /\ (j.pc \in {"queued", "docs", "txn"} => task[t].pc \in {"queued", "docs", "txn"})
    BY KbTypes DEF Passing
  <2>2. Alone(y) /\ Marked(y)
    BY <2>1 DEF KbInv, ClaimInv
  <2>3. \A x \in Builds : Indexes(task'[x], y) => Indexes(task[x], y)
    BY <1>1, <2>1 DEF Indexes, Passing
  <2>4. UNCHANGED <<req, kbStatus>>
    BY DEF Passing
  <2>5. Alone(y)'
    BY <2>2, <2>3, <2>4 DEF Alone
  <2>6. Marked(y)'
    BY <2>2, <2>3, <2>4 DEF Marked
  <2> QED BY <2>5, <2>6
<1>4. PaidInv'
  <2> SUFFICES ASSUME NEW y \in Bases
               PROVE  charges[y] + RequestsDue(y, req) + TasksDue(y, task') <= claims[y] + lostReplies'
    BY DEF PaidInv, Passing
  <2>1. TasksDue(y, task') = TasksDue(y, task) - Bit(Indexes(task[t], y)) + Bit(Indexes(j, y))
    BY <1>1 DEF TaskBecomes
  <2>2. Bit(Indexes(task[t], y)) \in {0, 1} /\ Bit(Indexes(j, y)) \in {0, 1}
    BY DEF Bit
  <2>3. CASE lostReplies' = lostReplies + 1
    BY <2>1, <2>2, <2>3, KbTypes
  <2>4. CASE lostReplies' = lostReplies /\ (j.pc \in {"queued", "docs", "txn"} => task[t].pc \in {"queued", "docs", "txn"})
    <3>1. Bit(Indexes(j, y)) <= Bit(Indexes(task[t], y))
      BY <2>4 DEF Bit, Indexes, Passing
    <3> QED BY <2>1, <2>2, <2>4, <3>1, KbTypes
  <2> QED BY <2>3, <2>4 DEF Passing
<1>5. WikisOnly' /\ NeverOverdrawn'
  BY DEF KbInv, WikisOnly, NeverOverdrawn, Passing
<1>6. BuildingHasABuilder'
  <2> SUFFICES ASSUME NEW y \in Bases, kbStatus[y] = "building", kbFaults' = 0
               PROVE  \/ \E x \in Requests : Has(req[x], y)
                      \/ \E x \in Builds : task'[x].base = y /\ task'[x].pc \in Waiting
    BY DEF BuildingHasABuilder, Has, Pending, Passing, Waiting
  <2>1. kbFaults = 0
    BY KbTypes DEF Passing
  <2>2. \/ \E x \in Requests : Has(req[x], y)
        \/ \E x \in Builds : task[x].base = y /\ task[x].pc \in Waiting
    BY <2>1 DEF KbInv, BuildingHasABuilder, Has, Pending, Waiting
  <2>3. task[t].base = y /\ task[t].pc \in Waiting => j.base = y /\ j.pc \in Waiting
    BY DEF Passing
  <2> QED BY <1>1, <2>2, <2>3
<1> QED BY <1>2, <1>3, <1>4, <1>5, <1>6 DEF KbInv

\* The last transaction marks the base, paid for or not, and leaves the
\* acknowledgement.
Marking(t, j) ==
    /\ task[t].pc = "txn" /\ task[t].base \in Bases /\ j.base = task[t].base /\ j.pc = "ack"
    /\ BuildState(j) /\ task' = [task EXCEPT ![t] = j]
    /\ UNCHANGED <<kind, count, docs, req, claims, spends, kbFaults, lostReplies>>
    /\ \E s \in {"error", "active"} : SetStatus(task[t].base, s)
    /\ credits' \in [Users -> Int] /\ charges' \in [Bases -> Nat] /\ NeverOverdrawn'
    /\ \A y \in Bases : charges'[y] <= charges[y] + IF y = task[t].base THEN 1 ELSE 0

LEMMA MarkingKeeps ==
    ASSUME KbInv, NEW t \in Builds, NEW j, Marking(t, j)
    PROVE  KbInv'
<1> DEFINE b == task[t].base
<1>0. b \in Bases /\ j.base = b
  BY DEF Marking
<1>1. TaskBecomes(t, j) /\ \A x \in Builds : task'[x] = IF x = t THEN j ELSE task[x]
  BY TaskTurns DEF KbInv, Marking, TaskBecomes
<1>2. Indexes(task[t], b) /\ \A y \in Bases : y # b => ~Indexes(task[t], y)
  BY DEF Indexes, Marking
<1>3. /\ kbStatus' \in [Bases -> Statuses] /\ kbStatus'[b] # "building"
      /\ \A x \in Bases : x # b => kbStatus'[x] = kbStatus[x]
  <2>1. {"error", "active"} \subseteq Statuses
    BY DEF Statuses
  <2>2. PICK s \in {"error", "active"} : SetStatus(b, s)
    BY DEF Marking
  <2> QED BY <1>0, <2>1, <2>2, StatusSet
<1>4. \A y \in Bases : charges'[y] \in Nat /\ charges'[y] <= charges[y] + IF y = b THEN 1 ELSE 0
  BY DEF Marking
<1> HIDE DEF b
<1>5. \A x \in Builds, y \in Bases : Indexes(task'[x], y) <=> Indexes(task[x], y) /\ x # t
  BY <1>1 DEF Indexes, Marking
<1>6. KbShape'
  BY <1>1, <1>3 DEF KbInv, KbShape, KbTypeOK, Marking, TaskBecomes
<1>7. ClaimInv'
  <2> SUFFICES ASSUME lostReplies = 0, NEW y \in Bases PROVE Alone(y)' /\ Marked(y)'
    BY DEF ClaimInv, Marking
  <2>1. Alone(y) /\ Marked(y) /\ req' = req
    BY DEF KbInv, ClaimInv, Marking
  <2>2. Alone(y)'
    BY <1>5, <2>1 DEF Alone
  <2>3. CASE y = b
    <3>1. (\A x \in Requests : ~Has(req[x], y)) /\ \A x \in Builds : ~Indexes(task'[x], y)
      BY <1>2, <1>5, <2>1, <2>3 DEF Alone
    <3> QED BY <2>1, <2>2, <3>1 DEF Marked
  <2>4. CASE y # b
    BY <1>3, <1>5, <2>1, <2>2, <2>4 DEF Marked
  <2> QED BY <2>3, <2>4
<1>8. PaidInv'
  <2> SUFFICES ASSUME NEW y \in Bases
               PROVE  charges'[y] + RequestsDue(y, req) + TasksDue(y, task') <= claims[y] + lostReplies
    BY DEF PaidInv, Marking
  <2>1. TasksDue(y, task') = TasksDue(y, task) - Bit(Indexes(task[t], y)) + Bit(Indexes(j, y))
    BY <1>1 DEF TaskBecomes
  <2>2. Bit(Indexes(j, y)) = 0 /\ Bit(Indexes(task[t], y)) = IF y = b THEN 1 ELSE 0
    BY <1>2 DEF Bit, Indexes, Marking
  <2> QED BY <1>4, <2>1, <2>2, KbTypes
<1>9. WikisOnly' /\ NeverOverdrawn'
  BY DEF KbInv, WikisOnly, Marking
<1>10. BuildingHasABuilder'
  <2> SUFFICES ASSUME NEW y \in Bases, kbStatus'[y] = "building", kbFaults = 0
               PROVE  \/ \E x \in Requests : Has(req[x], y)
                      \/ \E x \in Builds : task'[x].base = y /\ task'[x].pc \in Waiting
    BY DEF BuildingHasABuilder, Has, Pending, Marking, Waiting
  <2>1. y # b /\ kbStatus[y] = "building"
    BY <1>3
  <2>2. \/ \E x \in Requests : Has(req[x], y)
        \/ \E x \in Builds : task[x].base = y /\ task[x].pc \in Waiting
    BY <2>1 DEF KbInv, BuildingHasABuilder, Has, Pending, Waiting
  <2>3. task[t].base # y
    BY <2>1 DEF b
  <2> QED BY <1>1, <2>2, <2>3
<1> QED BY <1>6, <1>7, <1>8, <1>9, <1>10 DEF KbInv

----------------------------------------------------------------------------
(* The actions of a task.                                                  *)

Untouched ==
    UNCHANGED <<kind, kbStatus, count, docs, credits, req, claims, charges, spends>>

\* A step that passes, whatever it counts.
Passed(t, j) ==
    /\ task[t].pc \in {"queued", "docs", "txn", "ack"}
    /\ BuildState(j) /\ j.base = task[t].base /\ task' = [task EXCEPT ![t] = j]
    /\ j.pc \in Waiting \/ task[t].pc \notin Waiting \/ kbStatus[task[t].base] = "active" \/ kbFaults' > 0
    /\ Untouched
    /\ \/ lostReplies' = lostReplies /\ (task[t].pc = "ack" => j.pc \notin {"queued", "docs", "txn"})
       \/ lostReplies' = lostReplies + 1
    /\ kbFaults' \in {kbFaults, kbFaults + 1}

LEMMA PassedKeeps ==
    ASSUME KbInv, NEW t \in Builds, NEW j, Passed(t, j)
    PROVE  KbInv'
<1>1. task[t].base \in Bases /\ kbFaults \in Nat /\ lostReplies \in Nat
  BY BuildFields, KbTypes DEF Passed
<1>2. Passing(t, j)
  BY <1>1 DEF Passing, Passed, Untouched, Waiting
<1> QED BY <1>2, PassingKeeps

LEMMA EndedTask ==
    ASSUME KbInv, NEW t \in Builds, NEW step \in TaskSteps, task[t].pc # "none", QueueTaskEnds(t, step)
    PROVE  \E j : BuildState(j) /\ j.base = task[t].base /\ j.pc = step /\ task' = [task EXCEPT ![t] = j]
<1> DEFINE j == [NoBuild EXCEPT !.pc = step, !.base = task[t].base]
<1>1. task[t].base \in Bases
  BY BuildFields
<1>2. BuildState(j) /\ j.base = task[t].base /\ j.pc = step
  BY <1>1 DEF BuildState, Build, NoBuild
<1>3. task' = [task EXCEPT ![t] = j]
  BY DEF QueueTaskEnds
<1> HIDE DEF j
<1> QED BY <1>2, <1>3

LEMMA MovedTask ==
    ASSUME KbInv, NEW t \in Builds, NEW step \in TaskSteps, task[t].pc # "none", TaskMoves(t, step)
    PROVE  \E j : BuildState(j) /\ j.base = task[t].base /\ j.pc = step /\ task' = [task EXCEPT ![t] = j]
<1> DEFINE j == [task[t] EXCEPT !.pc = step]
<1>1. task[t].base \in Bases /\ task[t] \in Build
  BY BuildFields
<1>2. BuildState(j) /\ j.base = task[t].base /\ j.pc = step
  BY <1>1 DEF BuildState, Build
<1>3. task' = [task EXCEPT ![t] = j]
  BY DEF TaskMoves
<1> HIDE DEF j
<1> QED BY <1>2, <1>3

LEMMA RaisedTask ==
    ASSUME KbInv, NEW t \in Builds, task[t].pc # "none", Raise(t)
    PROVE  \E j : /\ BuildState(j) /\ j.base = task[t].base /\ j.pc \in {"queued", "dead"}
                  /\ task' = [task EXCEPT ![t] = j]
<1>1. CASE QueueTaskEnds(t, "dead")
  <2>1. "dead" \in TaskSteps
    BY DEF TaskSteps
  <2> QED BY <1>1, <2>1, EndedTask
<1>2. CASE task' = [task EXCEPT ![t] = [@ EXCEPT !.pc = "queued", !.retry = task[t].retry + 1]]
  <2> DEFINE j == [task[t] EXCEPT !.pc = "queued", !.retry = task[t].retry + 1]
  <2>1. task[t].base \in Bases /\ task[t] \in Build /\ task[t].retry + 1 \in Nat
    BY BuildFields
  <2>2. BuildState(j) /\ j.base = task[t].base /\ j.pc = "queued"
    BY <2>1 DEF BuildState, Build, TaskSteps
  <2>3. task' = [task EXCEPT ![t] = j]
    BY <1>2, <2>1 DEF KbInv, KbShape, KbTypeOK
  <2> HIDE DEF j
  <2> QED BY <2>2, <2>3
<1> QED BY <1>1, <1>2 DEF Raise

LEMMA RaiseKeeps ==
    ASSUME KbInv, NEW t \in Builds, task[t].pc \in {"queued", "docs", "txn", "ack"}, Raise(t), Untouched,
           kbFaults' \in {kbFaults, kbFaults + 1},
           \/ lostReplies' = lostReplies /\ task[t].pc # "ack"
           \/ lostReplies' = lostReplies + 1
    PROVE  KbInv'
<1>1. PICK j : /\ BuildState(j) /\ j.base = task[t].base /\ j.pc \in {"queued", "dead"}
               /\ task' = [task EXCEPT ![t] = j]
  BY RaisedTask
<1>2. Passed(t, j)
  BY <1>1 DEF Passed, Waiting
<1> QED BY <1>2, PassedKeeps

LEMMA WorkerKeeps ==
    ASSUME KbInv, NEW t \in Builds,
           StartIndex(t) \/ BuildDocuments(t) \/ AckTask(t) \/ AckReplyLost(t) \/ IndexFails(t) \/ WorkerDies(t)
    PROVE  KbInv'
<1>1. /\ {"queued", "docs", "txn", "ack", "done", "gone"} \subseteq TaskSteps /\ kbFaults \in Nat
  BY KbTypes DEF TaskSteps
<1>2. CASE StartIndex(t)
  <2>1. task[t].pc = "queued" /\ Untouched /\ UNCHANGED <<kbFaults, lostReplies>>
    BY <1>2 DEF StartIndex, Untouched
  <2>2. CASE Raise(t)
    BY <2>1, <2>2, RaiseKeeps
  <2>3. CASE \/ TaskMoves(t, "docs")
             \/ kbStatus[task[t].base] = "active" /\ TaskMoves(t, "ack")
    <3>1. PICK j : /\ BuildState(j) /\ j.base = task[t].base /\ task' = [task EXCEPT ![t] = j]
                   /\ j.pc = "docs" \/ (kbStatus[task[t].base] = "active" /\ j.pc = "ack")
      BY <1>1, <2>1, <2>3, MovedTask
    <3>2. Passed(t, j)
      BY <2>1, <3>1 DEF Passed, Waiting
    <3> QED BY <3>2, PassedKeeps
  <2> QED BY <1>2, <2>2, <2>3 DEF StartIndex
<1>3. CASE BuildDocuments(t)
  <2>1. PICK bad \in BOOLEAN : task' = [task EXCEPT ![t].pc = "txn", ![t].failed = bad]
    BY <1>3 DEF BuildDocuments
  <2> DEFINE j == [task[t] EXCEPT !.pc = "txn", !.failed = bad]
  <2>2. task[t].pc = "docs" /\ Untouched /\ UNCHANGED <<kbFaults, lostReplies>>
    BY <1>3 DEF BuildDocuments, Untouched
  <2>3. task[t] \in Build /\ task[t].base \in Bases
    BY <2>2, BuildFields
  <2>4. BuildState(j) /\ j.base = task[t].base /\ j.pc = "txn"
    BY <1>1, <2>3 DEF BuildState, Build
  <2>5. task' = [task EXCEPT ![t] = j]
    BY <2>1 DEF KbInv, KbShape, KbTypeOK
  <2> HIDE DEF j
  <2>6. Passed(t, j)
    BY <2>2, <2>4, <2>5 DEF Passed, Waiting
  <2> QED BY <2>6, PassedKeeps
<1>4. CASE AckTask(t) \/ WorkerDies(t)
  <2>1. /\ task[t].pc \in {"docs", "txn", "ack"} /\ Untouched /\ lostReplies' = lostReplies
        /\ \/ task[t].pc = "ack" /\ kbFaults' = kbFaults
           \/ kbFaults' = kbFaults + 1
    BY <1>4 DEF AckTask, WorkerDies, KbFault, Untouched
  <2>2. QueueTaskEnds(t, "done") \/ QueueTaskEnds(t, "gone")
    BY <1>4 DEF AckTask, WorkerDies
  <2>3. PICK j : /\ BuildState(j) /\ j.base = task[t].base /\ task' = [task EXCEPT ![t] = j]
                 /\ j.pc \in {"done", "gone"}
    BY <1>1, <2>1, <2>2, EndedTask
  <2>4. Passed(t, j)
    BY <1>1, <2>1, <2>3 DEF Passed, Waiting
  <2> QED BY <2>4, PassedKeeps
<1>5. CASE AckReplyLost(t) \/ IndexFails(t)
  <2>1. /\ task[t].pc \in {"docs", "txn", "ack"} /\ Untouched /\ Raise(t)
        /\ kbFaults' \in {kbFaults, kbFaults + 1}
        /\ \/ lostReplies' = lostReplies /\ task[t].pc # "ack"
           \/ lostReplies' = lostReplies + 1
    BY <1>5 DEF AckReplyLost, IndexFails, KbFault, LosesReply, Untouched
  <2> QED BY <2>1, RaiseKeeps
<1> QED BY <1>2, <1>3, <1>4, <1>5

LEMMA FinishKeeps ==
    ASSUME KbInv, NEW t \in Builds, FinishIndex(t)
    PROVE  KbInv'
<1> DEFINE b == task[t].base
           n == task[t].cost
<1>1. /\ task[t].pc = "txn" /\ b \in Bases /\ n \in Nat /\ OwnerOf[b] \in Users
      /\ UNCHANGED <<kind, count, docs, req, claims, spends, kbFaults, lostReplies>>
  BY BuildFields, BaseAssumption DEF FinishIndex
<1>2. CASE Raise(t) /\ UNCHANGED <<kbStatus, credits, charges>>
  <2>1. Untouched
    BY <1>1, <1>2 DEF Untouched
  <2> QED BY <1>1, <1>2, <2>1, RaiseKeeps
<1>3. CASE /\ TaskMoves(t, "ack") /\ SetStatus(b, "error") /\ UNCHANGED <<credits, charges>>
  <2>1. "ack" \in TaskSteps
    BY DEF TaskSteps
  <2>2. PICK j : BuildState(j) /\ j.base = task[t].base /\ j.pc = "ack" /\ task' = [task EXCEPT ![t] = j]
    BY <1>1, <1>3, <2>1, MovedTask
  <2>3. NeverOverdrawn' /\ credits' \in [Users -> Int] /\ charges' \in [Bases -> Nat]
    BY <1>1, <1>3, KbTypes DEF KbInv, NeverOverdrawn
  <2>4. \A y \in Bases : charges'[y] <= charges[y] + IF y = task[t].base THEN 1 ELSE 0
    BY <1>3, KbTypes
  <2>5. Marking(t, j)
    BY <1>1, <1>3, <2>2, <2>3, <2>4 DEF Marking
  <2> QED BY <2>5, MarkingKeeps
<1>4. CASE /\ TaskMoves(t, "ack") /\ Charge(b, n) /\ credits[OwnerOf[b]] >= n
  <2>1. "ack" \in TaskSteps
    BY DEF TaskSteps
  <2>2. PICK j : BuildState(j) /\ j.base = task[t].base /\ j.pc = "ack" /\ task' = [task EXCEPT ![t] = j]
    BY <1>1, <1>4, <2>1, MovedTask
  <2>3. /\ credits' = [credits EXCEPT ![OwnerOf[b]] = @ - n] /\ charges' = [charges EXCEPT ![b] = @ + 1]
        /\ SetStatus(b, "active")
    BY <1>4 DEF Charge
  <2> DEFINE o == OwnerOf[b]
  <2>4. o \in Users /\ credits[o] >= n
    BY <1>1, <1>4
  <2>5. SetStatus(task[t].base, "active")
    BY <2>3
  <2> HIDE DEF n, o
  <2>6. /\ credits' \in [Users -> Int]
        /\ \A usr \in Users : credits'[usr] = IF usr = o THEN credits[usr] - n ELSE credits[usr]
    BY <1>1, <2>3, <2>4, KbTypes DEF o
  <2>7. /\ charges' \in [Bases -> Nat]
        /\ \A y \in Bases : charges'[y] <= charges[y] + IF y = task[t].base THEN 1 ELSE 0
    BY <1>1, <2>3, KbTypes
  <2> HIDE DEF b
  <2>8. \A usr \in Users : credits[usr] \in Int /\ (credits[usr] >= 0 => credits'[usr] >= 0)
    BY <1>1, <2>4, <2>6, KbTypes
  <2>9. NeverOverdrawn'
    BY <1>1, <2>8 DEF KbInv, NeverOverdrawn
  <2>10. Marking(t, j)
    BY <1>1, <2>2, <2>5, <2>6, <2>7, <2>9 DEF Marking, b
  <2> QED BY <2>10, MarkingKeeps
<1> QED BY <1>2, <1>3, <1>4 DEF FinishIndex

----------------------------------------------------------------------------
(* Deleting a base and spending elsewhere.                                 *)

LEMMA DeleteBaseKeeps ==
    ASSUME KbInv, NEW q \in Requests, NEW b \in Bases, DeleteKnowledgeBase(q, b)
    PROVE  KbInv'
<1>1. /\ kbStatus' = [kbStatus EXCEPT ![b] = "deleted"] /\ docs' = [docs EXCEPT ![b] = 0]
      /\ UNCHANGED <<kind, count, credits, req, task, claims, charges, spends, kbFaults, lostReplies>>
  BY DEF DeleteKnowledgeBase
<1>2. /\ kbStatus' \in [Bases -> Statuses] /\ docs' \in [Bases -> Nat]
      /\ \A x \in Bases : kbStatus'[x] = IF x = b THEN "deleted" ELSE kbStatus[x]
  BY <1>1 DEF KbInv, KbShape, KbTypeOK, Statuses
<1>3. KbShape'
  BY <1>1, <1>2 DEF KbInv, KbShape, KbTypeOK
<1>4. ClaimInv'
  BY <1>1, <1>2 DEF KbInv, ClaimInv, Alone, Marked
<1>5. PaidInv' /\ WikisOnly' /\ NeverOverdrawn'
  BY <1>1 DEF KbInv, PaidInv, WikisOnly, NeverOverdrawn
<1>6. BuildingHasABuilder'
  BY <1>1, <1>2 DEF KbInv, BuildingHasABuilder, Pending
<1> QED BY <1>3, <1>4, <1>5, <1>6 DEF KbInv

LEMMA SpendKeeps == ASSUME KbInv, NEW usr \in Users, Spend(usr) PROVE KbInv'
<1>1. /\ spends' = spends + 1 /\ credits' = [credits EXCEPT ![usr] = @ - 1] /\ credits[usr] >= 1
      /\ UNCHANGED <<kind, kbStatus, count, docs, req, task, claims, charges, kbFaults, lostReplies>>
  BY DEF Spend
<1>2. /\ spends' \in Nat /\ credits' \in [Users -> Int]
      /\ \A x \in Users : credits'[x] = IF x = usr THEN credits[x] - 1 ELSE credits[x]
  BY <1>1, KbTypes
<1>3. \A x \in Users : credits[x] >= 0 => credits'[x] >= 0
  BY <1>1, <1>2, KbTypes
<1>4. KbShape'
  BY <1>1, <1>2 DEF KbInv, KbShape, KbTypeOK
<1>5. NeverOverdrawn'
  BY <1>1, <1>3 DEF KbInv, NeverOverdrawn
<1>6. ClaimInv' /\ PaidInv' /\ WikisOnly' /\ BuildingHasABuilder'
  BY <1>1 DEF KbInv, ClaimInv, Alone, Marked, PaidInv, WikisOnly, BuildingHasABuilder, Pending
<1> QED BY <1>4, <1>5, <1>6 DEF KbInv

----------------------------------------------------------------------------
LEMMA KbStep == ASSUME KbInv, [KbNext]_kbVars PROVE KbInv'
<1>1. CASE UNCHANGED kbVars
  BY <1>1 DEF kbVars, KbInv, KbShape, KbTypeOK, ClaimInv, Alone, Marked, PaidInv, WikisOnly,
              NeverOverdrawn, BuildingHasABuilder, Pending
<1>2. ASSUME NEW q \in Requests, Proceed(q) PROVE KbInv'
  BY <1>2, DocumentSteps, ClaimKeeps, RollbackKeeps, WikiKeeps, EnqueueKeeps DEF Proceed
<1>3. ASSUME NEW q \in Requests, NEW b \in Bases,
             \/ UploadDocument(q, b) \/ DeleteDoc(q, b) \/ DeleteKnowledgeBase(q, b) \/ BuildKnowledgeBase(q, b)
      PROVE  KbInv'
  BY <1>3, DocumentSteps, DeleteBaseKeeps
<1>4. ASSUME NEW q \in Requests, \/ EnqueueFails(q) \/ RequestDies(q)
                                 \/ \E t \in Builds : EnqueueReplyLost(q, t)
      PROVE  KbInv'
  BY <1>4, DocumentSteps, EnqueueFailsKeeps, EnqueueKeeps
<1>5. ASSUME NEW t \in Builds, Work(t) \/ AckReplyLost(t) \/ IndexFails(t) \/ WorkerDies(t) PROVE KbInv'
  BY <1>5, WorkerKeeps, FinishKeeps DEF Work
<1> QED BY <1>1, <1>2, <1>3, <1>4, <1>5, SpendKeeps DEF KbNext

LEMMA KbInitInv == ASSUME KbInit PROVE KbInv
<1>1. \A q \in Requests : req[q] = Quiet
  BY DEF KbInit
<1>2. \A t \in Builds : task[t] = NoBuild
  BY DEF KbInit
<1>3. ReqState(Quiet) /\ Quiet.pc = "idle"
  BY QuietState
<1>4. BuildState(NoBuild) /\ NoBuild.pc = "none"
  BY DEF NoBuild, BuildState, Build, TaskSteps
<1>5. KbShape
  <2>1. req \in [Requests -> Request] /\ task \in [Builds -> Build]
    BY <1>1, <1>2, <1>3, <1>4 DEF KbInit, ReqState, BuildState
  <2>2. "active" \in Statuses
    BY DEF Statuses
  <2>3. kbStatus \in [Bases -> Statuses] /\ credits \in [Users -> Int]
    BY <2>2, CostAssumption DEF KbInit
  <2> QED BY <1>1, <1>2, <1>3, <1>4, <2>1, <2>3 DEF KbInit, KbShape, KbTypeOK
<1>6. ClaimInv
  BY <1>1, <1>2, <1>3, <1>4 DEF ClaimInv, Alone, Marked, Has, Indexes
<1>7. PaidInv
  <2> SUFFICES ASSUME NEW b \in Bases
               PROVE  charges[b] + RequestsDue(b, req) + TasksDue(b, task) <= claims[b] + lostReplies
    BY DEF PaidInv
  <2> DEFINE w == [q \in Requests |-> Bit(Paying(req[q], b))]
             v == [t \in Builds |-> Bit(Indexes(task[t], b))]
  <2>1. w \in [Requests -> Nat] /\ v \in [Builds -> Nat]
    BY DueTypes
  <2>2. \A q \in Requests : w[q] = 0
    BY <1>1, <1>3 DEF Bit, Paying
  <2>3. \A t \in Builds : v[t] = 0
    BY <1>2, <1>4 DEF Bit, Indexes
  <2>4. RequestsDue(b, req) = Tally(Requests, w) /\ TasksDue(b, task) = Tally(Builds, v)
    BY DEF RequestsDue, TasksDue
  <2> HIDE DEF w, v
  <2>5. Tally(Requests, w) = 0 /\ Tally(Builds, v) = 0
    BY <2>1, <2>2, <2>3, TallyNone
  <2> QED BY <2>4, <2>5 DEF KbInit
<1>8. WikisOnly /\ NeverOverdrawn /\ BuildingHasABuilder
  BY <1>1, <1>3, CostAssumption DEF KbInit, WikisOnly, NeverOverdrawn, BuildingHasABuilder
<1> QED BY <1>5, <1>6, <1>7, <1>8 DEF KbInv

LEMMA AtMostOne == ASSUME NEW S, \A x, y \in S : x = y PROVE Cardinality(S) \in {0, 1} /\ (S = {} => Cardinality(S) = 0)
<1>1. CASE S = {}
  BY <1>1, FS_EmptySet
<1>2. CASE S # {}
  <2>1. PICK x \in S : S = {x}
    BY <1>2
  <2> QED BY <1>2, <2>1, One
<1> QED BY <1>1, <1>2

LEMMA KbInvImplies == ASSUME KbInv PROVE BuildsAreSafe
<1>1. ClaimIsExclusive
  <2> SUFFICES ASSUME lostReplies = 0, NEW b \in Bases
               PROVE  LET Holders == {q \in Requests : req[q].base = b /\ req[q].pc \in {"enqueue", "rollback", "wiki"}}
                          Running == {t \in Builds : task[t].base = b /\ Pending(t)}
                      IN /\ Cardinality(Holders) + Cardinality(Running) <= 1
                         /\ Holders # {} \/ Running # {} => kbStatus[b] \in {"building", "deleted"}
    BY DEF ClaimIsExclusive
  <2> DEFINE Holders == {q \in Requests : req[q].base = b /\ req[q].pc \in {"enqueue", "rollback", "wiki"}}
             Running == {t \in Builds : task[t].base = b /\ Pending(t)}
  <2>1. Alone(b) /\ Marked(b)
    BY DEF KbInv, ClaimInv
  <2>2. (\A x, y \in Holders : x = y) /\ (\A x, y \in Running : x = y) /\ (Holders = {} \/ Running = {})
    BY <2>1 DEF Alone, Has, Indexes, Pending
  <2>3. Holders # {} \/ Running # {} => kbStatus[b] \in {"building", "deleted"}
    BY <2>1 DEF Marked, Has, Indexes, Pending
  <2> HIDE DEF Holders, Running
  <2>4. Cardinality(Holders) \in {0, 1} /\ Cardinality(Running) \in {0, 1}
        /\ (Cardinality(Holders) = 0 \/ Cardinality(Running) = 0)
    BY <2>2, AtMostOne
  <2>5. Cardinality(Holders) + Cardinality(Running) <= 1
    BY <2>4
  <2> QED BY <2>3, <2>5 DEF Holders, Running
<1>2. ChargedOncePerBuild
  <2> SUFFICES ASSUME NEW b \in Bases PROVE charges[b] <= claims[b] + lostReplies
    BY DEF ChargedOncePerBuild
  <2> QED BY KbTypes
<1>3. KbTypeOK /\ NeverOverdrawn /\ BuildingHasABuilder
  BY DEF KbInv, KbShape
<1> QED BY <1>1, <1>2, <1>3 DEF BuildsAreSafe

\* Builds are exclusive while no reply is lost, paid for at most once, affordable and
\* never stranded by an order of uploads, deletions, spending and retries, for any
\* number of requests, tasks and bases (build_knowledge_base, _handle_rag_index).
THEOREM BuildsStaySafe == KbSpec => []BuildsAreSafe
<1>1. KbInit => KbInv
  BY KbInitInv
<1>2. KbInv /\ [KbNext]_kbVars => KbInv'
  BY KbStep
<1>3. KbInv => BuildsAreSafe
  BY KbInvImplies
<1> QED BY <1>1, <1>2, <1>3, PTL DEF KbSpec
----------------------------------------------------------------------------
(* The rate windows.                                                       *)

Span(w, t) == {v \in Times : v <= t /\ v > t - WindowLength[w]}

\* A request that passed its count of window w and will be added to it, and one
\* that may still count it, both with a score in the span.
WillAdd(o, w, t) == o.now \in Span(w, t) /\ o.pc = "add" /\ o.w = w
MayCount(o, w, t) ==
    /\ o.now \in Span(w, t)
    /\ (o.pc = "count" /\ o.w <= w) \/ (o.pc = "add" /\ o.w < w)
Adding(sl, w, t) == {s \in RateSlots : WillAdd(sl[s], w, t)}
Counting(sl, w, t) == {s \in RateSlots : MayCount(sl[s], w, t)}

\* While nobody younger than the span has trimmed it, the requests counted bound what
\* is added; afterwards no request arrives in the span, and those on their way are few.
Whole(w, t) ==
    /\ \A x \in Span(w, t) : window[w][x] = entered[w][x]
    /\ SizeOf(entered[w], Span(w, t)) + Cardinality(Adding(slot, w, t)) <= WindowLimit[w] + Cardinality(RateSlots) - 1
Closing(w, t) ==
    /\ clock > t
    /\ SizeOf(entered[w], Span(w, t)) + Cardinality(Adding(slot, w, t)) + Cardinality(Counting(slot, w, t))
           <= WindowLimit[w] + 2 * (Cardinality(RateSlots) - 1)

RateInv ==
    /\ RateTypeOK
    /\ \A s \in RateSlots : slot[s].now <= clock
    /\ \A w \in Windows, t \in Times : Whole(w, t) \/ Closing(w, t)

LEMMA RateConstants ==
    /\ Windows = 1..2 /\ MaxRateTime \in Nat /\ IsFiniteSet(RateSlots) /\ RateSlots # {}
    /\ Cardinality(RateSlots) \in Nat /\ Cardinality(RateSlots) >= 1
    /\ WindowLength \in [Windows -> Nat \ {0}] /\ WindowLimit \in [Windows -> Nat \ {0}]
    /\ Times = 0..MaxRateTime /\ IsFiniteSet(Times)
<1>1. IsFiniteSet(RateSlots) /\ RateSlots # {} /\ MaxRateTime \in Nat
  BY RateAssumption DEF RateAssumption
<1>2. Cardinality(RateSlots) \in Nat /\ Cardinality(RateSlots) # 0
  BY <1>1, FS_CardinalityType, FS_EmptySet
<1>3. IsFiniteSet(0..MaxRateTime)
  BY <1>1, FS_Interval
<1> QED BY <1>1, <1>2, <1>3, RateAssumption DEF RateAssumption, Times

LEMMA SpanIs ==
    ASSUME NEW w \in Windows, NEW t \in Times
    PROVE  IsFiniteSet(Span(w, t)) /\ Span(w, t) \subseteq Times
<1>1. Span(w, t) \subseteq Times
  BY DEF Span
<1> QED BY <1>1, RateConstants, FS_Subset

\* Sizes are tallies.
LEMMA SizeIs ==
    ASSUME NEW f \in [Times -> Nat], NEW T \in SUBSET Times
    PROVE  SizeOf(f, T) = Tally(T, [x \in T |-> f[x]]) /\ SizeOf(f, T) \in Nat
<1> DEFINE g == [x \in T |-> f[x]]
<1>1. g \in [T -> Nat] /\ \A x \in T : f[x] = g[x]
  OBVIOUS
<1>2. IsFiniteSet(T)
  BY RateConstants, FS_Subset
<1> HIDE DEF g
<1>3. Tally(T, g) \in Nat /\ Tally(T, f) = Tally(T, g)
  BY <1>1, <1>2, TallyType, TallySame
<1>4. SizeOf(f, T) = Tally(T, f)
  BY DEF SizeOf, Tally, TallyMarks
<1> QED BY <1>3, <1>4 DEF g

LEMMA SizeOfPart ==
    ASSUME NEW f \in [Times -> Nat], NEW g \in [Times -> Nat], NEW T \in SUBSET Times,
           \A x \in T : g[x] = f[x]
    PROVE  SizeOf(f, T) <= SizeOf(g, Times)
<1>1. IsFiniteSet(Times) /\ IsFiniteSet(T)
  BY RateConstants, FS_Subset
<1> DEFINE h == [x \in Times |-> IF x \in T THEN f[x] ELSE 0]
           rest == [x \in Times |-> g[x]]
<1>2. /\ h \in [Times -> Nat] /\ rest \in [Times -> Nat] /\ rest = g
      /\ \A x \in Times : h[x] <= rest[x]
  OBVIOUS
<1>3. TallyMarks(T, f) = TallyMarks(Times, h)
  BY DEF TallyMarks
<1> HIDE DEF h, rest
<1>4. Tally(Times, h) <= Tally(Times, rest)
  BY <1>1, <1>2, TallyMonotone
<1> QED BY <1>2, <1>3, <1>4 DEF SizeOf, Tally, TallyMarks

LEMMA SizeSame ==
    ASSUME NEW f, NEW g, NEW T, \A x \in T : g[x] = f[x]
    PROVE  SizeOf(g, T) = SizeOf(f, T)
BY DEF SizeOf

LEMMA SizeGrows ==
    ASSUME NEW f \in [Times -> Nat], NEW T \in SUBSET Times, NEW v \in T
    PROVE  SizeOf([f EXCEPT ![v] = @ + 1], T) = SizeOf(f, T) + 1
<1> DEFINE g == [f EXCEPT ![v] = @ + 1]
           p == [x \in T |-> f[x]]
           q == [x \in T |-> g[x]]
<1>1. IsFiniteSet(T)
  BY RateConstants, FS_Subset
<1>2. /\ g \in [Times -> Nat] /\ p \in [T -> Nat] /\ q \in [T -> Nat]
      /\ \A x \in T \ {v} : q[x] = p[x]
      /\ q[v] = p[v] + 1
  OBVIOUS
<1>3. SizeOf(f, T) = Tally(T, p) /\ SizeOf(g, T) = Tally(T, q) /\ SizeOf(f, T) \in Nat
  <2> HIDE DEF g
  <2> QED BY <1>2, SizeIs
<1> HIDE DEF p, q, g
<1>4. Tally(T, q) = Tally(T, p) - p[v] + q[v]
  BY <1>1, <1>2, TallyChange
<1>5. p[v] \in Nat
  BY <1>2
<1> QED BY <1>2, <1>3, <1>4, <1>5 DEF g

\* The requests on their way fit beside each other, and beside one that is not in the span.
LEMMA RequestsFit ==
    ASSUME NEW sl, NEW w \in Windows, NEW t
    PROVE  /\ Cardinality(Adding(sl, w, t)) \in Nat /\ Cardinality(Counting(sl, w, t)) \in Nat
           /\ Cardinality(Adding(sl, w, t)) <= Cardinality(RateSlots)
           /\ \A s \in RateSlots : sl[s].now \notin Span(w, t) =>
                  Cardinality(Adding(sl, w, t)) + Cardinality(Counting(sl, w, t)) <= Cardinality(RateSlots) - 1
<1> DEFINE A == Adding(sl, w, t)
           C == Counting(sl, w, t)
<1>1. A \subseteq RateSlots /\ C \subseteq RateSlots /\ A \cap C = {}
  <2>1. \A o : ~(WillAdd(o, w, t) /\ MayCount(o, w, t))
    <3> SUFFICES ASSUME NEW o, WillAdd(o, w, t), MayCount(o, w, t) PROVE FALSE
      OBVIOUS
    <3>1. o.pc = "add" /\ o.w = w /\ o.w < w
      BY DEF WillAdd, MayCount
    <3>2. w \in 1..2
      BY RateConstants
    <3> QED BY <3>1, <3>2
  <2> QED BY <2>1 DEF Adding, Counting
<1>2. IsFiniteSet(A) /\ IsFiniteSet(C) /\ IsFiniteSet(RateSlots)
  BY <1>1, RateConstants, FS_Subset
<1>3. Cardinality(A) \in Nat /\ Cardinality(C) \in Nat /\ Cardinality(A) <= Cardinality(RateSlots)
  BY <1>1, <1>2, FS_CardinalityType, FS_Subset
<1>4. ASSUME NEW s \in RateSlots, sl[s].now \notin Span(w, t)
      PROVE  Cardinality(A) + Cardinality(C) <= Cardinality(RateSlots) - 1
  <2>1. s \notin A /\ s \notin C
    BY <1>4 DEF Adding, Counting, WillAdd, MayCount
  <2>2. IsFiniteSet(RateSlots \ {s}) /\ Cardinality(RateSlots \ {s}) = Cardinality(RateSlots) - 1
    BY <1>2, FS_RemoveElement
  <2>3. A \union C \subseteq RateSlots \ {s}
    BY <1>1, <2>1
  <2> HIDE DEF A, C
  <2>4. Cardinality(A \union C) <= Cardinality(RateSlots \ {s})
    BY <2>2, <2>3, FS_Subset
  <2>5. Cardinality(A \union C) = Cardinality(A) + Cardinality(C) - Cardinality(A \cap C)
    BY <1>2, FS_Union
  <2>6. Cardinality(A \cap C) = 0
    BY <1>1, FS_EmptySet
  <2> QED BY <1>3, <2>2, <2>4, <2>5, <2>6
<1> QED BY <1>3, <1>4

\* One request becomes r.
SlotBecomes(sl, s, r, new) == new = [sl EXCEPT ![s] = r]

LEMMA RequestsChange ==
    ASSUME NEW sl \in [RateSlots -> Slot], NEW s \in RateSlots, NEW r \in Slot, NEW w, NEW t,
           NEW new, SlotBecomes(sl, s, r, new)
    PROVE  /\ Cardinality(Adding(new, w, t)) =
                  Cardinality(Adding(sl, w, t)) - Bit(WillAdd(sl[s], w, t)) + Bit(WillAdd(r, w, t))
           /\ Cardinality(Counting(new, w, t)) =
                  Cardinality(Counting(sl, w, t)) - Bit(MayCount(sl[s], w, t)) + Bit(MayCount(r, w, t))
<1> DEFINE p == Adding(sl, w, t)
           q == Adding(new, w, t)
           m == Counting(sl, w, t)
           n == Counting(new, w, t)
<1>1. new[s] = r /\ \A x \in RateSlots \ {s} : new[x] = sl[x]
  BY DEF SlotBecomes
<1>2. /\ p \in SUBSET RateSlots /\ q \in SUBSET RateSlots /\ p \ {s} = q \ {s}
      /\ s \in p <=> WillAdd(sl[s], w, t)
      /\ s \in q <=> WillAdd(r, w, t)
  BY <1>1 DEF Adding, WillAdd
<1>3. /\ m \in SUBSET RateSlots /\ n \in SUBSET RateSlots /\ m \ {s} = n \ {s}
      /\ s \in m <=> MayCount(sl[s], w, t)
      /\ s \in n <=> MayCount(r, w, t)
  BY <1>1 DEF Counting, MayCount
<1> HIDE DEF p, q, m, n
<1>4. Cardinality(q) = Cardinality(p) - Bit(s \in p) + Bit(s \in q)
  BY <1>2, OneMember, RateConstants
<1>5. Cardinality(n) = Cardinality(m) - Bit(s \in m) + Bit(s \in n)
  BY <1>3, OneMember, RateConstants
<1>6. /\ Bit(s \in p) = Bit(WillAdd(sl[s], w, t)) /\ Bit(s \in q) = Bit(WillAdd(r, w, t))
      /\ Bit(s \in m) = Bit(MayCount(sl[s], w, t)) /\ Bit(s \in n) = Bit(MayCount(r, w, t))
  BY <1>2, <1>3 DEF Bit
<1> QED BY <1>4, <1>5, <1>6 DEF p, q, m, n

LEMMA RateFacts ==
    ASSUME RateInv
    PROVE  /\ clock \in Nat /\ clock \in Times /\ slot \in [RateSlots -> Slot]
           /\ window \in [Windows -> [Times -> Nat]] /\ entered \in [Windows -> [Times -> Nat]]
           /\ \A s \in RateSlots : /\ slot[s].pc \in {"idle", "count", "add", "refused"} /\ slot[s].w \in 1..2
                                   /\ slot[s].now \in Times /\ slot[s].now \in Nat /\ slot[s].now <= clock
           /\ \A w \in Windows : /\ w \in 1..2 /\ WindowLimit[w] \in Nat /\ WindowLimit[w] >= 1 /\ WindowLength[w] \in Nat
                                 /\ \A t \in Times : t \in Nat /\ SizeOf(entered[w], Span(w, t)) \in Nat
<1>1. RateTypeOK /\ \A s \in RateSlots : slot[s].now <= clock
  BY DEF RateInv
<1>2. ASSUME NEW w \in Windows, NEW t \in Times PROVE SizeOf(entered[w], Span(w, t)) \in Nat
  BY <1>1, SizeIs, SpanIs DEF RateTypeOK
<1>3. Times \subseteq Nat
  BY RateConstants
<1>4. ASSUME NEW s \in RateSlots
      PROVE  /\ slot[s].pc \in {"idle", "count", "add", "refused"} /\ slot[s].w \in 1..2
             /\ slot[s].now \in Times
  BY <1>1, RateConstants DEF RateTypeOK, Slot
<1> QED BY <1>1, <1>2, <1>3, <1>4, RateConstants DEF RateTypeOK

\* No request is added and none arrives in the span.
LEMMA BoundStays ==
    ASSUME RateInv, NEW w \in Windows, NEW t \in Times,
           clock' \in Nat, clock' >= clock, UNCHANGED entered, \A x \in Span(w, t) : window'[w][x] = window[w][x],
           NEW A, A = Cardinality(Adding(slot', w, t)), NEW C, C = Cardinality(Counting(slot', w, t)),
           A <= Cardinality(Adding(slot, w, t)),
           clock > t => C <= Cardinality(Counting(slot, w, t))
    PROVE  (Whole(w, t) \/ Closing(w, t))'
<1> DEFINE B == Cardinality(Adding(slot, w, t))
           D == Cardinality(Counting(slot, w, t))
           E == SizeOf(entered[w], Span(w, t))
           S == Cardinality(RateSlots)
           N == WindowLimit[w]
<1>1. /\ A \in Nat /\ B \in Nat /\ C \in Nat /\ D \in Nat /\ E \in Nat /\ S \in Nat /\ N \in Nat
      /\ t \in Nat /\ clock \in Nat
  BY RequestsFit, RateFacts, RateConstants
<1>2. Span(w, t)' = Span(w, t) /\ SizeOf(entered'[w], Span(w, t)) = E
  BY DEF Span, Times
<1>3. A <= B /\ (clock > t => C <= D)
  OBVIOUS
<1>4. CASE Whole(w, t)
  <2>1. (\A x \in Span(w, t) : window[w][x] = entered[w][x]) /\ E + B <= N + S - 1
    BY <1>4 DEF Whole
  <2> HIDE DEF B, D, E, S, N
  <2>2. E + A <= N + S - 1
    BY <1>1, <1>3, <2>1
  <2>3. \A x \in Span(w, t) : window'[w][x] = entered'[w][x]
    BY <2>1
  <2>4. Whole(w, t)'
    BY <1>2, <2>2, <2>3 DEF Whole, N, S, E
  <2> QED BY <2>4
<1>5. CASE Closing(w, t)
  <2>1. clock > t /\ E + B + D <= N + 2 * (S - 1)
    BY <1>5 DEF Closing
  <2> HIDE DEF B, D, E, S, N
  <2>2. E + A + C <= N + 2 * (S - 1) /\ clock' > t
    BY <1>1, <1>3, <2>1
  <2>3. Closing(w, t)'
    BY <1>2, <2>2 DEF Closing, N, S, E
  <2> QED BY <2>3
<1> QED BY <1>4, <1>5 DEF RateInv

LEMMA TicksKeep == ASSUME RateInv, ClockTicks PROVE RateInv'
<1>1. clock' = clock + 1 /\ clock' \in Times /\ UNCHANGED <<window, slot, entered>> /\ clock' >= clock /\ clock' \in Nat
  <2>1. clock < MaxRateTime /\ clock' = clock + 1 /\ UNCHANGED <<window, slot, entered>>
    BY DEF ClockTicks
  <2>2. clock \in Nat /\ Times = 0..MaxRateTime /\ MaxRateTime \in Nat
    BY RateFacts, RateConstants
  <2> QED BY <2>1, <2>2
<1>2. RateTypeOK' /\ \A s \in RateSlots : slot'[s].now <= clock'
  <2>1. \A s \in RateSlots : slot'[s].now <= clock'
    BY <1>1, RateFacts
  <2> QED BY <1>1, <2>1 DEF RateInv, RateTypeOK
<1>3. ASSUME NEW w \in Windows, NEW t \in Times PROVE (Whole(w, t) \/ Closing(w, t))'
  <2>1. Cardinality(Adding(slot', w, t)) <= Cardinality(Adding(slot, w, t)) /\ Cardinality(Counting(slot', w, t)) <= Cardinality(Counting(slot, w, t))
    <3>1. Cardinality(Adding(slot, w, t)) \in Nat /\ Cardinality(Counting(slot, w, t)) \in Nat
      BY RequestsFit
    <3> QED BY <1>1, <3>1
  <2> QED BY <1>1, <2>1, BoundStays
<1> QED BY <1>2, <1>3 DEF RateInv

\* A request becomes r and is not in the way of any bound.
LEMMA SlotTypes ==
    ASSUME RateInv, NEW s \in RateSlots, NEW r \in Slot, slot' = [slot EXCEPT ![s] = r], UNCHANGED clock, r.now <= clock
    PROVE  /\ slot' \in [RateSlots -> Slot] /\ clock' \in Times
           /\ \A x \in RateSlots : slot'[x].now <= clock'
<1>1. slot \in [RateSlots -> Slot] /\ clock \in Times /\ \A x \in RateSlots : slot[x].now <= clock
  BY RateFacts
<1> QED BY <1>1

LEMMA SlotIs ==
    ASSUME NEW p \in {"idle", "count", "add", "refused"}, NEW w \in 1..2, NEW t \in Times
    PROVE  LET r == [pc |-> p, w |-> w, now |-> t] IN r \in Slot /\ r.pc = p /\ r.w = w /\ r.now = t
BY RateConstants DEF Slot

LEMMA ArrivesKeeps == ASSUME RateInv, NEW s \in RateSlots, RequestArrives(s) PROVE RateInv'
<1> DEFINE r == [pc |-> "count", w |-> 1, now |-> clock]
<1>1. clock \in Times /\ slot \in [RateSlots -> Slot] /\ r \in Slot /\ r.pc = "count" /\ r.w = 1 /\ r.now = clock
  <2>1. clock \in Times /\ slot \in [RateSlots -> Slot]
    BY RateFacts
  <2> QED BY <2>1, SlotIs
<1>2. slot[s].pc = "idle" /\ slot' = [slot EXCEPT ![s] = r] /\ UNCHANGED <<clock, window, entered>>
  BY DEF RequestArrives
<1> HIDE DEF r
<1>3. slot' \in [RateSlots -> Slot] /\ clock' \in Times /\ \A x \in RateSlots : slot'[x].now <= clock'
  BY <1>1, <1>2, SlotTypes, RateFacts
<1>4. RateTypeOK'
  BY <1>2, <1>3 DEF RateInv, RateTypeOK
<1>5. ASSUME NEW w \in Windows, NEW t \in Times PROVE (Whole(w, t) \/ Closing(w, t))'
  <2>1. /\ Cardinality(Adding(slot', w, t)) =
                  Cardinality(Adding(slot, w, t)) - Bit(WillAdd(slot[s], w, t)) + Bit(WillAdd(r, w, t))
        /\ Cardinality(Counting(slot', w, t)) =
                  Cardinality(Counting(slot, w, t)) - Bit(MayCount(slot[s], w, t)) + Bit(MayCount(r, w, t))
    <3>1. SlotBecomes(slot, s, r, slot')
      BY <1>2 DEF SlotBecomes
    <3> QED BY <1>1, <3>1, RequestsChange
  <2>2. /\ Cardinality(Adding(slot, w, t)) \in Nat /\ Cardinality(Counting(slot, w, t)) \in Nat
        /\ t \in Nat /\ clock \in Nat
    BY RequestsFit, RateFacts
  <2>3. ~WillAdd(slot[s], w, t) /\ ~WillAdd(r, w, t) /\ ~MayCount(slot[s], w, t)
    BY <1>1, <1>2 DEF WillAdd, MayCount
  <2>4. clock > t => ~MayCount(r, w, t)
    BY <1>1, <2>2 DEF MayCount, Span
  <2>5. /\ Bit(WillAdd(slot[s], w, t)) = 0 /\ Bit(WillAdd(r, w, t)) = 0 /\ Bit(MayCount(slot[s], w, t)) = 0
        /\ clock > t => Bit(MayCount(r, w, t)) = 0
    BY <2>3, <2>4 DEF Bit
  <2>6. /\ Cardinality(Adding(slot', w, t)) <= Cardinality(Adding(slot, w, t))
        /\ clock > t => Cardinality(Counting(slot', w, t)) <= Cardinality(Counting(slot, w, t))
    BY <2>1, <2>2, <2>5
  <2>7. clock' \in Nat /\ clock' >= clock /\ UNCHANGED entered /\ \A x \in Span(w, t) : window'[w][x] = window[w][x]
    BY <1>2, <2>2
  <2> QED BY <2>6, <2>7, BoundStays
<1> QED BY <1>3, <1>4, <1>5 DEF RateInv

LEMMA RefusesKeeps == ASSUME RateInv, NEW s \in RateSlots, Refuses(s) PROVE RateInv'
<1> DEFINE r == [pc |-> "idle", w |-> 1, now |-> 0]
<1>1. clock \in Nat /\ slot \in [RateSlots -> Slot] /\ r \in Slot /\ r.pc = "idle" /\ r.now = 0
  <2>1. clock \in Nat /\ slot \in [RateSlots -> Slot] /\ 0 \in Times
    BY RateFacts, RateConstants
  <2> QED BY <2>1, SlotIs
<1>2. slot[s].pc = "refused" /\ slot' = [slot EXCEPT ![s] = r] /\ UNCHANGED <<clock, window, entered>>
  BY DEF Refuses
<1> HIDE DEF r
<1>3. slot' \in [RateSlots -> Slot] /\ clock' \in Times /\ \A x \in RateSlots : slot'[x].now <= clock'
  <2>1. r.now <= clock
    BY <1>1
  <2> QED BY <1>1, <1>2, <2>1, SlotTypes
<1>4. RateTypeOK'
  BY <1>2, <1>3 DEF RateInv, RateTypeOK
<1>5. ASSUME NEW w \in Windows, NEW t \in Times PROVE (Whole(w, t) \/ Closing(w, t))'
  <2>1. /\ Cardinality(Adding(slot', w, t)) =
                  Cardinality(Adding(slot, w, t)) - Bit(WillAdd(slot[s], w, t)) + Bit(WillAdd(r, w, t))
        /\ Cardinality(Counting(slot', w, t)) =
                  Cardinality(Counting(slot, w, t)) - Bit(MayCount(slot[s], w, t)) + Bit(MayCount(r, w, t))
    <3>1. SlotBecomes(slot, s, r, slot')
      BY <1>2 DEF SlotBecomes
    <3> QED BY <1>1, <3>1, RequestsChange
  <2>2. /\ Cardinality(Adding(slot, w, t)) \in Nat /\ Cardinality(Counting(slot, w, t)) \in Nat
    BY RequestsFit
  <2>3. ~WillAdd(slot[s], w, t) /\ ~WillAdd(r, w, t) /\ ~MayCount(slot[s], w, t) /\ ~MayCount(r, w, t)
    BY <1>1, <1>2 DEF WillAdd, MayCount
  <2>4. /\ Bit(WillAdd(slot[s], w, t)) = 0 /\ Bit(WillAdd(r, w, t)) = 0
        /\ Bit(MayCount(slot[s], w, t)) = 0 /\ Bit(MayCount(r, w, t)) = 0
    BY <2>3 DEF Bit
  <2>5. /\ Cardinality(Adding(slot', w, t)) <= Cardinality(Adding(slot, w, t))
        /\ Cardinality(Counting(slot', w, t)) <= Cardinality(Counting(slot, w, t))
    BY <2>1, <2>2, <2>4
  <2>6. clock' \in Nat /\ clock' >= clock /\ UNCHANGED entered /\ \A x \in Span(w, t) : window'[w][x] = window[w][x]
    BY <1>1, <1>2
  <2> QED BY <2>5, <2>6, BoundStays
<1> QED BY <1>3, <1>4, <1>5 DEF RateInv

\* What becomes of one request's place in the counts.
LEMMA RequestMoves ==
    ASSUME RateInv, NEW s \in RateSlots, NEW r \in Slot, SlotBecomes(slot, s, r, slot'), NEW w \in Windows, NEW t \in Times
    PROVE  /\ Cardinality(Adding(slot', w, t)) =
                  Cardinality(Adding(slot, w, t)) - Bit(WillAdd(slot[s], w, t)) + Bit(WillAdd(r, w, t))
           /\ Cardinality(Counting(slot', w, t)) =
                  Cardinality(Counting(slot, w, t)) - Bit(MayCount(slot[s], w, t)) + Bit(MayCount(r, w, t))
           /\ Cardinality(Adding(slot, w, t)) \in Nat /\ Cardinality(Counting(slot, w, t)) \in Nat
           /\ Cardinality(Adding(slot', w, t)) \in Nat /\ Cardinality(Counting(slot', w, t)) \in Nat
<1>1. /\ Cardinality(Adding(slot', w, t)) =
               Cardinality(Adding(slot, w, t)) - Bit(WillAdd(slot[s], w, t)) + Bit(WillAdd(r, w, t))
      /\ Cardinality(Counting(slot', w, t)) =
               Cardinality(Counting(slot, w, t)) - Bit(MayCount(slot[s], w, t)) + Bit(MayCount(r, w, t))
  BY RequestsChange, RateFacts
<1>2. /\ Cardinality(Adding(slot, w, t)) \in Nat /\ Cardinality(Counting(slot, w, t)) \in Nat
      /\ Cardinality(Adding(slot', w, t)) \in Nat /\ Cardinality(Counting(slot', w, t)) \in Nat
  BY RequestsFit
<1> QED BY <1>1, <1>2

\* The count of a window.
LEMMA CountKeeps == ASSUME RateInv, NEW s \in RateSlots, CountWindow(s) PROVE RateInv'
<1> DEFINE w0 == slot[s].w
           now == slot[s].now
           kept == Trimmed(w0, now)
           p == IF Full(SizeOf(kept, Times), w0) THEN "refused" ELSE "add"
           r == [pc |-> p, w |-> w0, now |-> now]
<1>1. /\ slot[s].pc = "count" /\ w0 \in Windows /\ w0 \in 1..2 /\ now \in Times /\ now \in Nat /\ now <= clock
      /\ clock \in Nat /\ slot \in [RateSlots -> Slot] /\ clock \in Times
      /\ window \in [Windows -> [Times -> Nat]] /\ entered \in [Windows -> [Times -> Nat]]
      /\ WindowLength[w0] \in Nat /\ WindowLimit[w0] \in Nat
  BY RateFacts, RateConstants DEF CountWindow
<1>2. p \in {"refused", "add"} /\ (p = "add" => ~(SizeOf(kept, Times) >= WindowLimit[w0]))
  BY DEF Full
<1>3. r \in Slot /\ r.pc = p /\ r.w = w0 /\ r.now = now
  <2> HIDE DEF p, w0, now
  <2> QED BY <1>1, <1>2, SlotIs
<1>4. /\ UNCHANGED <<clock, entered>> /\ window' = [window EXCEPT ![w0] = kept]
      /\ SlotBecomes(slot, s, r, slot')
  <2>1. slot' = [slot EXCEPT ![s].pc = p] /\ UNCHANGED <<clock, entered>> /\ window' = [window EXCEPT ![w0] = kept]
    BY DEF CountWindow
  <2>2. [slot[s] EXCEPT !.pc = p] = r
    <3> HIDE DEF p
    <3> QED BY <1>1 DEF Slot
  <2> QED BY <2>1, <2>2 DEF SlotBecomes
<1>5. /\ kept \in [Times -> Nat]
      /\ \A x \in Times : kept[x] = IF x <= now - WindowLength[w0] THEN 0 ELSE window[w0][x]
  BY <1>1 DEF Trimmed
<1> HIDE DEF w0, now, kept, p, r
<1>6. slot' \in [RateSlots -> Slot] /\ clock' \in Times /\ \A x \in RateSlots : slot'[x].now <= clock'
  BY <1>1, <1>3, <1>4, SlotTypes DEF SlotBecomes
<1>7. RateTypeOK'
  <2>1. window' \in [Windows -> [Times -> Nat]]
    BY <1>1, <1>4, <1>5
  <2>2. \A w \in Windows, t \in Times : window[w][t] <= entered[w][t] /\ entered[w][t] \in Nat
    BY <1>1 DEF RateInv, RateTypeOK
  <2>3. \A w \in Windows, t \in Times : window'[w][t] <= entered[w][t]
    BY <1>1, <1>4, <1>5, <2>2
  <2> QED BY <1>1, <1>4, <1>6, <2>1, <2>3 DEF RateTypeOK
<1>8. ASSUME NEW w \in Windows, NEW t \in Times PROVE (Whole(w, t) \/ Closing(w, t))'
  <2> DEFINE a == Bit(WillAdd(slot[s], w, t))
             b == Bit(WillAdd(r, w, t))
             c == Bit(MayCount(slot[s], w, t))
             d == Bit(MayCount(r, w, t))
             A == Cardinality(Adding(slot, w, t))
             B == Cardinality(Adding(slot', w, t))
             C == Cardinality(Counting(slot, w, t))
             D == Cardinality(Counting(slot', w, t))
             E == SizeOf(entered[w], Span(w, t))
             S == Cardinality(RateSlots)
             N == WindowLimit[w]
  <2>1. /\ B = A - a + b /\ D = C - c + d /\ A \in Nat /\ B \in Nat /\ C \in Nat /\ D \in Nat
        /\ E \in Nat /\ S \in Nat /\ N \in Nat /\ t \in Nat /\ w \in 1..2 /\ WindowLength[w] \in Nat
    <3>1. B = A - a + b /\ D = C - c + d /\ A \in Nat /\ B \in Nat /\ C \in Nat /\ D \in Nat
      BY <1>3, <1>4, RequestMoves
    <3>2. /\ E \in Nat /\ S \in Nat /\ N \in Nat /\ t \in Nat /\ w \in 1..2 /\ WindowLength[w] \in Nat
      BY RateFacts, RateConstants
    <3> QED BY <3>1, <3>2
  <2>2. a = 0 /\ a \in Nat /\ b \in Nat /\ c \in Nat /\ d \in Nat /\ Span(w, t)' = Span(w, t)
    BY <1>1 DEF WillAdd, Bit, Span, Times
  <2>3. CASE w # w0
    <3>1. b = 0 /\ d <= c
      BY <1>1, <1>2, <1>3, <2>1, <2>3 DEF WillAdd, MayCount, Bit, w0, now
    <3>2. window'[w] = window[w]
      BY <1>1, <1>4, <2>3
    <3> HIDE DEF a, b, c, d, A, B, C, D, E, S, N
    <3>3. B <= A /\ D <= C
      BY <2>1, <2>2, <3>1
    <3> QED BY <1>1, <1>4, <3>2, <3>3, BoundStays DEF A, B, C, D
  <2>4. CASE w = w0 /\ now \notin Span(w, t)
    <3>1. b = 0 /\ d = 0 /\ c = 0
      BY <1>3, <2>4 DEF WillAdd, MayCount, Bit, now
    <3>2. A + C <= S - 1
      BY <2>4, RequestsFit DEF now
    <3> HIDE DEF a, b, c, d, A, B, C, D, E, S, N
    <3>3. B = A /\ D = C
      BY <2>1, <2>2, <3>1
    <3>4. CASE now > t
      <4>1. clock > t
        BY <1>1, <2>1, <3>4
      <4>2. E + A + C <= N + 2 * (S - 1)
        <5>1. CASE Whole(w, t)
          <6>1. E + A <= N + S - 1
            BY <5>1 DEF Whole, E, A, N, S
          <6> QED BY <2>1, <3>2, <6>1
        <5>2. CASE Closing(w, t)
          BY <5>2 DEF Closing, E, A, C, N, S
        <5> QED BY <5>1, <5>2 DEF RateInv
      <4>3. Closing(w, t)'
        BY <1>4, <2>2, <3>3, <4>1, <4>2 DEF Closing, E, A, B, C, D, N, S
      <4> QED BY <4>3
    <3>5. CASE ~(now > t)
      <4>1. \A x \in Span(w, t) : window'[w][x] = window[w][x]
        <5> SUFFICES ASSUME NEW x \in Span(w, t) PROVE kept[x] = window[w][x]
          BY <1>1, <1>4, <2>4
        <5>1. x \in Times /\ x \in Nat /\ x > t - WindowLength[w]
          BY RateConstants DEF Span
        <5>2. ~(x <= now - WindowLength[w0])
          BY <1>1, <2>1, <2>4, <3>5, <5>1
        <5> QED BY <1>5, <2>4, <5>1, <5>2
      <4>2. B <= A /\ D <= C
        BY <2>1, <3>3
      <4> QED BY <1>1, <1>4, <4>1, <4>2, BoundStays DEF A, B, C, D
    <3> QED BY <3>4, <3>5
  <2>5. CASE w = w0 /\ now \in Span(w, t)
    <3>1. c = 1 /\ d = 0 /\ b <= 1 /\ (p # "add" => b = 0)
      <4>1. MayCount(slot[s], w, t)
        <5>1. slot[s].now \in Span(w, t) /\ slot[s].pc = "count" /\ slot[s].w <= w
          BY <1>1, <2>5 DEF w0, now
        <5> QED BY <5>1 DEF MayCount
      <4>2. ~MayCount(r, w, t)
        <5>1. r.pc # "count" /\ ~(r.w < w)
          BY <1>1, <1>2, <1>3, <2>5
        <5> QED BY <5>1 DEF MayCount
      <4>3. p # "add" => ~WillAdd(r, w, t)
        BY <1>3 DEF WillAdd
      <4> QED BY <4>1, <4>2, <4>3 DEF Bit
    <3>2. B <= S
      BY RequestsFit
    <3>3. \A x \in Span(w, t) : x \in Times /\ window'[w][x] = kept[x] /\ kept[x] = window[w][x]
      <4> SUFFICES ASSUME NEW x \in Span(w, t) PROVE x \in Times /\ window'[w][x] = kept[x] /\ kept[x] = window[w][x]
        OBVIOUS
      <4>1. x \in Times /\ x \in Nat /\ x > t - WindowLength[w] /\ now <= t
        BY <2>5, RateConstants DEF Span
      <4>2. ~(x <= now - WindowLength[w0])
        BY <1>1, <2>1, <2>5, <4>1
      <4> QED BY <1>1, <1>4, <1>5, <2>5, <4>1, <4>2
    <3> HIDE DEF a, b, c, d, A, B, C, D, E, S, N
    <3>4. CASE Whole(w, t)
      <4>1. (\A x \in Span(w, t) : window[w][x] = entered[w][x]) /\ E + A <= N + S - 1
        BY <3>4 DEF Whole, E, A, N, S
      <4>2. E + B <= N + S - 1
        <5>1. CASE p = "add"
          <6>1. SizeOf(entered[w], Span(w, t)) <= SizeOf(kept, Times)
            <7>1. Span(w, t) \in SUBSET Times /\ entered[w] \in [Times -> Nat]
              BY <1>1, SpanIs
            <7>2. \A x \in Span(w, t) : kept[x] = entered[w][x]
              BY <3>3, <4>1
            <7> QED BY <1>5, <7>1, <7>2, SizeOfPart
          <6>2. SizeOf(kept, Times) \in Nat
            BY <1>5, SizeIs
          <6>3. ~(SizeOf(kept, Times) >= N)
            BY <1>2, <2>5, <5>1 DEF N
          <6> QED BY <2>1, <3>2, <6>1, <6>2, <6>3 DEF E
        <5>2. CASE p # "add"
          BY <2>1, <2>2, <3>1, <4>1, <5>2
        <5> QED BY <5>1, <5>2
      <4>3. Whole(w, t)'
        BY <1>4, <2>2, <3>3, <4>1, <4>2 DEF Whole, E, B, N, S
      <4> QED BY <4>3
    <3>5. CASE Closing(w, t)
      <4>1. clock > t /\ E + A + C <= N + 2 * (S - 1)
        BY <3>5 DEF Closing, E, A, C, N, S
      <4>2. E + B + D <= N + 2 * (S - 1)
        BY <2>1, <2>2, <3>1, <4>1
      <4>3. Closing(w, t)'
        BY <1>4, <2>2, <4>1, <4>2 DEF Closing, E, B, D, N, S
      <4> QED BY <4>3
    <3> QED BY <3>4, <3>5 DEF RateInv
  <2> QED BY <2>3, <2>4, <2>5
<1> QED BY <1>6, <1>7, <1>8 DEF RateInv

\* The addition to a window.
LEMMA AddKeeps == ASSUME RateInv, NEW s \in RateSlots, AddToWindow(s) PROVE RateInv'
<1> DEFINE w0 == slot[s].w
           now == slot[s].now
           r == IF w0 = 1 THEN [pc |-> "count", w |-> 2, now |-> now] ELSE [pc |-> "idle", w |-> 1, now |-> 0]
<1>1. /\ slot[s].pc = "add" /\ w0 \in Windows /\ w0 \in 1..2 /\ now \in Times /\ now <= clock
      /\ clock \in Nat /\ slot \in [RateSlots -> Slot] /\ clock \in Times
      /\ window \in [Windows -> [Times -> Nat]] /\ entered \in [Windows -> [Times -> Nat]]
  BY RateFacts, RateConstants DEF AddToWindow
<1>2. /\ r \in Slot /\ r.pc # "add" /\ r.now <= clock
      /\ w0 = 1 => r.pc = "count" /\ r.w = 2 /\ r.now = now
      /\ w0 # 1 => r.pc = "idle"
  <2>1. CASE w0 = 1
    <3>1. r = [pc |-> "count", w |-> 2, now |-> now]
      BY <2>1
    <3> QED BY <1>1, <2>1, <3>1, SlotIs
  <2>2. CASE w0 # 1
    <3>1. r = [pc |-> "idle", w |-> 1, now |-> 0] /\ 0 \in Times /\ 0 <= clock
      BY <1>1, <2>2, RateConstants
    <3> QED BY <2>2, <3>1, SlotIs
  <2> QED BY <2>1, <2>2
<1>3. /\ UNCHANGED clock /\ window' = [window EXCEPT ![w0][now] = @ + 1] /\ entered' = [entered EXCEPT ![w0][now] = @ + 1]
      /\ SlotBecomes(slot, s, r, slot')
  <2>1. /\ slot' = [slot EXCEPT ![s] = IF w0 = 1 THEN [@ EXCEPT !.pc = "count", !.w = 2]
                                       ELSE [pc |-> "idle", w |-> 1, now |-> 0]]
        /\ UNCHANGED clock /\ window' = [window EXCEPT ![w0][now] = @ + 1] /\ entered' = [entered EXCEPT ![w0][now] = @ + 1]
    BY DEF AddToWindow
  <2>2. [slot[s] EXCEPT !.pc = "count", !.w = 2] = [pc |-> "count", w |-> 2, now |-> now]
    <3> DEFINE o == slot[s]
               p == [o EXCEPT !.pc = "count"]
    <3>1. [o EXCEPT !.pc = "count", !.w = 2] = [p EXCEPT !.w = 2]
      OBVIOUS
    <3>2. o = [pc |-> o.pc, w |-> o.w, now |-> now]
      BY <1>1 DEF Slot
    <3>3. p = [pc |-> "count", w |-> o.w, now |-> now]
      BY <3>2
    <3> HIDE DEF p
    <3>4. [p EXCEPT !.w = 2] = [pc |-> "count", w |-> 2, now |-> now]
      BY <3>3
    <3> QED BY <3>1, <3>4
  <2>3. (IF w0 = 1 THEN [slot[s] EXCEPT !.pc = "count", !.w = 2] ELSE [pc |-> "idle", w |-> 1, now |-> 0]) = r
    BY <2>2
  <2> QED BY <2>1, <2>3 DEF SlotBecomes
<1> HIDE DEF w0, now, r
<1>4. slot' \in [RateSlots -> Slot] /\ clock' \in Times /\ \A x \in RateSlots : slot'[x].now <= clock'
  BY <1>1, <1>2, <1>3, SlotTypes DEF SlotBecomes
<1>5. /\ window' \in [Windows -> [Times -> Nat]] /\ entered' \in [Windows -> [Times -> Nat]]
      /\ \A w \in Windows : w # w0 => window'[w] = window[w] /\ entered'[w] = entered[w]
      /\ entered'[w0] = [entered[w0] EXCEPT ![now] = @ + 1]
      /\ \A x \in Times : /\ window'[w0][x] = IF x = now THEN window[w0][x] + 1 ELSE window[w0][x]
                          /\ entered'[w0][x] = IF x = now THEN entered[w0][x] + 1 ELSE entered[w0][x]
  BY <1>1, <1>3
<1>6. RateTypeOK'
  <2>1. \A w \in Windows, t \in Times : window[w][t] <= entered[w][t] /\ entered[w][t] \in Nat /\ window[w][t] \in Nat
    BY <1>1 DEF RateInv, RateTypeOK
  <2>2. ASSUME NEW w \in Windows, NEW t \in Times PROVE window'[w][t] <= entered'[w][t]
    <3>1. CASE w = w0
      BY <1>5, <2>1, <3>1
    <3>2. CASE w # w0
      BY <1>5, <2>1, <3>2
    <3> QED BY <3>1, <3>2
  <2> QED BY <1>4, <1>5, <2>2 DEF RateTypeOK
<1>7. ASSUME NEW w \in Windows, NEW t \in Times PROVE (Whole(w, t) \/ Closing(w, t))'
  <2> DEFINE a == Bit(WillAdd(slot[s], w, t))
             b == Bit(WillAdd(r, w, t))
             c == Bit(MayCount(slot[s], w, t))
             d == Bit(MayCount(r, w, t))
             A == Cardinality(Adding(slot, w, t))
             B == Cardinality(Adding(slot', w, t))
             C == Cardinality(Counting(slot, w, t))
             D == Cardinality(Counting(slot', w, t))
             E == SizeOf(entered[w], Span(w, t))
             F == SizeOf(entered'[w], Span(w, t))
             S == Cardinality(RateSlots)
             N == WindowLimit[w]
  <2>1. /\ B = A - a + b /\ D = C - c + d /\ A \in Nat /\ B \in Nat /\ C \in Nat /\ D \in Nat
        /\ E \in Nat /\ S \in Nat /\ N \in Nat /\ t \in Nat /\ w \in 1..2
    <3>1. B = A - a + b /\ D = C - c + d /\ A \in Nat /\ B \in Nat /\ C \in Nat /\ D \in Nat
      BY <1>2, <1>3, RequestMoves
    <3>2. E \in Nat /\ S \in Nat /\ N \in Nat /\ t \in Nat /\ w \in 1..2
      BY RateFacts, RateConstants
    <3> QED BY <3>1, <3>2
  <2>2. Span(w, t)' = Span(w, t) /\ b = 0 /\ Span(w, t) \in SUBSET Times /\ entered[w] \in [Times -> Nat]
    BY <1>1, <1>2, SpanIs DEF WillAdd, Bit, Span, Times
  <2>3. c = d
    <3>1. MayCount(slot[s], w, t) <=> MayCount(r, w, t)
      <4>1. slot[s].pc = "add" /\ slot[s].w = w0 /\ slot[s].now = now
        BY <1>1 DEF w0, now
      <4>2. CASE w0 = 1
        <5>1. r.pc = "count" /\ r.w = 2 /\ r.now = now /\ (w0 < w <=> r.w <= w)
          BY <1>2, <2>1, <4>2
        <5> QED BY <4>1, <5>1 DEF MayCount
      <4>3. CASE w0 = 2
        <5>1. r.pc = "idle" /\ ~(w0 < w)
          BY <1>2, <2>1, <4>3
        <5> QED BY <4>1, <5>1 DEF MayCount
      <4> QED BY <1>1, <4>2, <4>3
    <3> QED BY <3>1 DEF Bit
  <2>4. /\ F = E + a
        /\ (\A x \in Span(w, t) : window[w][x] = entered[w][x]) => \A x \in Span(w, t) : window'[w][x] = entered'[w][x]
        /\ a \in Nat
    <3>1. CASE w = w0 /\ now \in Span(w, t)
      <4>1. a = 1
        <5>1. WillAdd(slot[s], w, t)
          BY <1>1, <3>1 DEF WillAdd, w0, now
        <5> QED BY <5>1 DEF Bit
      <4>2. F = E + 1
        <5>1. SizeOf([entered[w] EXCEPT ![now] = @ + 1], Span(w, t)) = SizeOf(entered[w], Span(w, t)) + 1
          BY <2>2, <3>1, SizeGrows
        <5> QED BY <1>5, <3>1, <5>1
      <4>3. \A x \in Span(w, t) : x \in Times
        BY <2>2
      <4> HIDE DEF a, E, F
      <4> QED BY <1>5, <3>1, <4>1, <4>2, <4>3
    <3>2. CASE w = w0 /\ now \notin Span(w, t)
      <4>1. a = 0
        <5>1. ~WillAdd(slot[s], w, t)
          BY <3>2 DEF WillAdd, now
        <5> QED BY <5>1 DEF Bit
      <4>2. \A x \in Span(w, t) : x \in Times /\ x # now /\ entered'[w][x] = entered[w][x] /\ window'[w][x] = window[w][x]
        BY <1>5, <2>2, <3>2
      <4>3. F = E
        BY <4>2, SizeSame
      <4> HIDE DEF a, E, F
      <4> QED BY <2>1, <4>1, <4>2, <4>3
    <3>3. CASE w # w0
      <4>1. a = 0
        <5>1. ~WillAdd(slot[s], w, t)
          BY <3>3 DEF WillAdd, w0
        <5> QED BY <5>1 DEF Bit
      <4>2. F = E /\ window'[w] = window[w] /\ entered'[w] = entered[w]
        BY <1>5, <3>3
      <4> HIDE DEF a, E, F
      <4> QED BY <2>1, <4>1, <4>2
    <3> QED BY <3>1, <3>2, <3>3
  <2>5. CASE Whole(w, t)
    <3>1. (\A x \in Span(w, t) : window[w][x] = entered[w][x]) /\ E + A <= N + S - 1
      BY <2>5 DEF Whole
    <3> HIDE DEF a, b, c, d, A, B, C, D, E, F, S, N
    <3>2. F + B <= N + S - 1
      BY <2>1, <2>2, <2>4, <3>1
    <3>3. Whole(w, t)'
      BY <2>2, <2>4, <3>1, <3>2 DEF Whole, F, B, N, S
    <3> QED BY <3>3
  <2>6. CASE Closing(w, t)
    <3>1. clock > t /\ E + A + C <= N + 2 * (S - 1)
      BY <2>6 DEF Closing
    <3>0. c \in Nat
      BY DEF Bit
    <3> HIDE DEF a, b, c, d, A, B, C, D, E, F, S, N
    <3>2. F + B + D <= N + 2 * (S - 1)
      BY <2>1, <2>2, <2>3, <2>4, <3>0, <3>1
    <3>3. Closing(w, t)'
      BY <1>3, <2>2, <3>1, <3>2 DEF Closing, F, B, D, N, S
    <3> QED BY <3>3
  <2> QED BY <2>5, <2>6 DEF RateInv
<1> QED BY <1>4, <1>6, <1>7 DEF RateInv

LEMMA RateStep == ASSUME RateInv, RwNext PROVE RateInv'
BY TicksKeep, ArrivesKeeps, CountKeeps, AddKeeps, RefusesKeeps DEF RwNext

LEMMA RateInit == ASSUME RwInit PROVE RateInv
<1> DEFINE none == [t \in Times |-> 0]
           idle == [pc |-> "idle", w |-> 1, now |-> 0]
<1>1. /\ clock = 0 /\ window = [w \in Windows |-> none] /\ entered = [w \in Windows |-> none]
      /\ slot = [s \in RateSlots |-> idle]
  BY DEF RwInit
<1>2. none \in [Times -> Nat] /\ 0 \in Times
  BY RateConstants
<1>3. idle \in Slot /\ idle.pc = "idle" /\ idle.now = 0
  BY <1>2, SlotIs
<1> HIDE DEF idle
<1>4. RateTypeOK /\ \A s \in RateSlots : slot[s].now <= clock
  BY <1>1, <1>2, <1>3 DEF RateTypeOK
<1>5. ASSUME NEW w \in Windows, NEW t \in Times PROVE Whole(w, t)
  <2>1. \A x \in Span(w, t) : x \in Times /\ window[w][x] = 0 /\ entered[w][x] = 0
    BY <1>1, <1>2, SpanIs
  <2>2. SizeOf(entered[w], Span(w, t)) = 0
    <3> DEFINE g == [x \in Span(w, t) |-> entered[w][x]]
    <3>1. g \in [Span(w, t) -> Nat] /\ \A x \in Span(w, t) : g[x] = 0
      BY <2>1
    <3>2. SizeOf(entered[w], Span(w, t)) = Tally(Span(w, t), g)
      <4>1. entered[w] \in [Times -> Nat] /\ Span(w, t) \in SUBSET Times
        BY <1>1, <1>2, SpanIs
      <4> QED BY <4>1, SizeIs
    <3> HIDE DEF g
    <3> QED BY <3>1, <3>2, TallyNone
  <2>3. Cardinality(Adding(slot, w, t)) = 0
    <3>1. Adding(slot, w, t) = {}
      BY <1>1, <1>3 DEF Adding, WillAdd
    <3> QED BY <3>1, FS_EmptySet
  <2>4. WindowLimit[w] \in Nat /\ WindowLimit[w] >= 1 /\ Cardinality(RateSlots) \in Nat /\ Cardinality(RateSlots) >= 1
    BY RateConstants
  <2> QED BY <2>1, <2>2, <2>3, <2>4 DEF Whole
<1> QED BY <1>4, <1>5 DEF RateInv

LEMMA RateInvImplies == ASSUME RateInv PROVE RateTypeOK /\ OvershootBounded
<1>1. ASSUME NEW w \in Windows, NEW t \in Times
      PROVE  SizeOf(entered[w], Span(w, t)) <= WindowLimit[w] + 2 * (Cardinality(RateSlots) - 1)
  <2>1. /\ SizeOf(entered[w], Span(w, t)) \in Nat /\ Cardinality(Adding(slot, w, t)) \in Nat
        /\ Cardinality(Counting(slot, w, t)) \in Nat /\ Cardinality(RateSlots) \in Nat /\ Cardinality(RateSlots) >= 1
        /\ WindowLimit[w] \in Nat
    BY RateFacts, RequestsFit, RateConstants
  <2> QED BY <2>1 DEF RateInv, Whole, Closing
<1> QED BY <1>1 DEF RateInv, OvershootBounded, Span

----------------------------------------------------------------------------
(* The semantic cache.                                                     *)

Entry == [key: ExactKeys, answer: CacheRequests]

\* An answer of the model that was asked, to a prompt of the same class.
Suits(a, r) == a.model = r.model /\ ClassOf[a.prompt] = ClassOf[r.prompt]
SuitsKey(k, a) == \A r \in CacheRequests : ExactKey(r) = k => Suits(a, r)
SuitsBucket(k, a) == \A r \in CacheRequests : SemanticKey(r) = k => Suits(a, r)

\* Entries of different keys, whose answers suit them.
Entries(s) ==
    /\ s \in Seq(Entry)
    /\ \A i, j \in 1..Len(s) : s[i].key = s[j].key => i = j
    /\ \A i \in 1..Len(s) : SuitsKey(s[i].key, s[i].answer)

ChatOK(o) ==
    /\ o \in Chat
    /\ o.pc \in {"set", "embed2", "hset"} => o.answer = o.req
    /\ o.pc = "served" => Suits(o.answer, o.req)

LEMMA CacheConstants == L1Capacity \in Nat /\ L1Capacity >= 1 /\ MaxChats \in Nat /\ CacheRequests # {}
BY CacheAssumption DEF CacheAssumption

LEMMA EntriesFacts ==
    ASSUME NEW s, Entries(s)
    PROVE  /\ s \in Seq(Entry) /\ Len(s) \in Nat
           /\ \A i \in 1..Len(s) : s[i] \in Entry /\ SuitsKey(s[i].key, s[i].answer)
           /\ \A i, j \in 1..Len(s) : s[i].key = s[j].key => i = j
<1>1. s \in Seq(Entry)
  BY DEF Entries
<1>2. Len(s) \in Nat /\ \A i \in 1..Len(s) : s[i] \in Entry
  BY <1>1, LenProperties, ElementOfSeq
<1> QED BY <1>1, <1>2 DEF Entries

\* Part of the entries of s in their order.
IsPart(p, s, f) ==
    /\ \A i \in 1..Len(p) : f[i] \in 1..Len(s) /\ p[i] = s[f[i]]
    /\ \A i, j \in 1..Len(p) : f[i] = f[j] => i = j
LEMMA PartOfEntries ==
    ASSUME NEW s, Entries(s), NEW p \in Seq(Entry), NEW f, IsPart(p, s, f)
    PROVE  Entries(p)
<1>1. /\ \A i \in 1..Len(p) : f[i] \in 1..Len(s) /\ p[i] = s[f[i]]
      /\ \A i, j \in 1..Len(p) : f[i] = f[j] => i = j
  BY DEF IsPart
<1>2. ASSUME NEW i \in 1..Len(p), NEW j \in 1..Len(p), p[i].key = p[j].key PROVE i = j
  <2>1. f[i] = f[j]
    BY <1>1, <1>2, EntriesFacts
  <2> QED BY <1>1, <2>1
<1>3. \A i \in 1..Len(p) : SuitsKey(p[i].key, p[i].answer)
  BY <1>1, EntriesFacts
<1> QED BY <1>2, <1>3 DEF Entries

LEMMA EntryRemoved ==
    ASSUME NEW s, Entries(s), NEW k, NEW left, left = RemoveFirstMatch(s, LAMBDA e : e.key = k)
    PROVE  Entries(left) /\ Len(left) <= Len(s) /\ \A i \in 1..Len(left) : left[i].key # k
<1>1. s \in Seq(Entry) /\ Len(s) \in Nat
  BY EntriesFacts
<1>2. CASE \E i \in 1..Len(s) : s[i].key = k
  <2>1. PICK i \in 1..Len(s) : s[i].key = k
    BY <1>2
  <2>2. \A j \in 1..Len(s) : s[j].key = k <=> j = i
    BY <2>1, EntriesFacts
  <2> DEFINE rest == RemoveAt(s, i)
             f == [j \in 1..Len(rest) |-> IF j < i THEN j ELSE j + 1]
  <2>3. left = rest
    <3>1. {j \in 1..Len(s) : s[j].key = k} = {i}
      BY <2>2
    <3>2. Min({i}) = i
      BY DEF Min
    <3> QED BY <2>1, <3>1, <3>2 DEF RemoveFirstMatch, SelectInSeq
  <2>4. /\ rest \in Seq(Entry) /\ Len(rest) = Len(s) - 1
        /\ \A j \in 1..Len(rest) : rest[j] = IF j < i THEN s[j] ELSE s[j + 1]
    BY <1>1, RemoveAtSeq
  <2> HIDE DEF rest
  <2>5. f \in [1..Len(rest) -> 1..Len(s)] /\ \A j \in 1..Len(rest) : f[j] # i /\ rest[j] = s[f[j]]
    BY <1>1, <2>4
  <2>6. \A j, m \in 1..Len(rest) : f[j] = f[m] => j = m
    BY <1>1, <2>4
  <2>7. Entries(rest)
    <3>1. IsPart(rest, s, f)
      BY <2>5, <2>6 DEF IsPart
    <3> HIDE DEF f
    <3> QED BY <2>4, <3>1, PartOfEntries
  <2>8. \A j \in 1..Len(rest) : rest[j].key # k
    BY <2>2, <2>5
  <2>9. Len(rest) <= Len(s)
    BY <1>1, <2>4
  <2> QED BY <2>3, <2>7, <2>8, <2>9
<1>3. CASE ~\E i \in 1..Len(s) : s[i].key = k
  <2>1. left = s
    BY <1>3 DEF RemoveFirstMatch, SelectInSeq
  <2> QED BY <1>1, <1>3, <2>1 DEF RemoveFirstMatch, SelectInSeq
<1> QED BY <1>2, <1>3 DEF RemoveFirstMatch, SelectInSeq

LEMMA L1Keeps ==
    ASSUME Entries(l1), Len(l1) <= L1Capacity, NEW k \in ExactKeys, NEW a \in CacheRequests, SuitsKey(k, a)
    PROVE  Entries(L1Set(k, a)) /\ Len(L1Set(k, a)) <= L1Capacity
<1> DEFINE rest == RemoveFirstMatch(l1, LAMBDA e : e.key = k)
           new == [key |-> k, answer |-> a]
           s == Append(rest, new)
           t == Tail(s)
<1>1. L1Set(k, a) = IF Len(s) > L1Capacity THEN t ELSE s
  BY DEF L1Set
<1>2. Entries(rest) /\ Len(rest) <= Len(l1) /\ \A i \in 1..Len(rest) : rest[i].key # k
  BY EntryRemoved
<1>3. Len(l1) \in Nat /\ L1Capacity \in Nat
  BY EntriesFacts, CacheConstants
<1> HIDE DEF rest
<1>4. rest \in Seq(Entry) /\ Len(rest) \in Nat /\ Len(rest) <= L1Capacity
  BY <1>2, <1>3, EntriesFacts
<1>5. new \in Entry /\ new.key = k /\ new.answer = a
  BY DEF Entry
<1> HIDE DEF new
<1>6. /\ s \in Seq(Entry) /\ Len(s) = Len(rest) + 1
      /\ \A i \in 1..Len(rest) : s[i] = rest[i]
      /\ s[Len(rest) + 1] = new
  BY <1>4, <1>5, AppendProperties
<1> HIDE DEF s
<1>7. Entries(s)
  <2>1. \A i \in 1..Len(s) : i \in 1..Len(rest) \/ (i = Len(rest) + 1 /\ s[i] = new)
    BY <1>4, <1>6
  <2>2. \A i, j \in 1..Len(rest) : rest[i].key = rest[j].key => i = j
    BY <1>2, EntriesFacts
  <2>3. \A i, j \in 1..Len(s) : s[i].key = s[j].key => i = j
    BY <1>2, <1>5, <1>6, <2>1, <2>2
  <2>4. \A i \in 1..Len(s) : SuitsKey(s[i].key, s[i].answer)
    BY <1>2, <1>5, <1>6, <2>1, EntriesFacts
  <2> QED BY <1>6, <2>3, <2>4 DEF Entries
<1>8. CASE Len(s) > L1Capacity
  <2>1. Len(s) > 0 /\ s # <<>>
    BY <1>4, <1>6
  <2>2. t \in Seq(Entry) /\ Len(t) = Len(s) - 1 /\ \A i \in 1..Len(t) : t[i] = s[i + 1]
    BY <1>6, <2>1, HeadTailProperties
  <2> HIDE DEF t
  <2> DEFINE f == [i \in 1..Len(t) |-> i + 1]
  <2>3. f \in [1..Len(t) -> 1..Len(s)] /\ \A i \in 1..Len(t) : t[i] = s[f[i]]
    BY <1>4, <1>6, <2>2
  <2>4. \A i, j \in 1..Len(t) : f[i] = f[j] => i = j
    BY <1>4, <1>6, <2>2
  <2>5. Entries(t)
    <3>1. IsPart(t, s, f)
      BY <2>3, <2>4 DEF IsPart
    <3> HIDE DEF f
    <3> QED BY <1>7, <2>2, <3>1, PartOfEntries
  <2> QED BY <1>1, <1>4, <1>6, <1>8, <2>2, <2>5
<1>9. CASE ~(Len(s) > L1Capacity)
  BY <1>1, <1>3, <1>4, <1>6, <1>7, <1>9
<1> QED BY <1>8, <1>9

\* The chats keep well formed when one of them moves to a well formed state.
ChatsOK == chat \in [Chats -> Chat] /\ \A c \in Chats : ChatOK(chat[c])
LEMMA ChatMoves ==
    ASSUME ChatsOK, NEW c \in Chats, NEW n, ChatOK(n), chat' = [chat EXCEPT ![c] = n]
    PROVE  ChatsOK'
BY DEF ChatsOK, ChatOK

LEMMA ToKeeps ==
    ASSUME ChatsOK, NEW c \in Chats, NEW pc, To(c, pc),
           pc \in {"idle", "l2", "embed", "l3", "calling", "set", "embed2", "hset", "served"},
           pc \in {"set", "embed2", "hset"} => chat[c].answer = chat[c].req,
           pc = "served" => Suits(chat[c].answer, chat[c].req)
    PROVE  ChatsOK'
<1> DEFINE n == [chat[c] EXCEPT !.pc = pc]
<1>1. ChatOK(chat[c]) /\ chat[c] \in Chat
  BY DEF ChatsOK, ChatOK
<1>2. n \in Chat /\ n.pc = pc /\ n.req = chat[c].req /\ n.answer = chat[c].answer
  BY <1>1 DEF Chat
<1>3. chat' = [chat EXCEPT ![c] = n]
  BY DEF To
<1> HIDE DEF n
<1>4. ChatOK(n)
  BY <1>2 DEF ChatOK
<1> QED BY <1>3, <1>4, ChatMoves

LEMMA ServeKeeps ==
    ASSUME ChatsOK, NEW c \in Chats, NEW a \in CacheRequests, Serve(c, a), Suits(a, chat[c].req)
    PROVE  ChatsOK'
<1> DEFINE n == [chat[c] EXCEPT !.pc = "served", !.answer = a]
<1>1. ChatOK(chat[c]) /\ chat[c] \in Chat
  BY DEF ChatsOK, ChatOK
<1>2. n \in Chat /\ n.pc = "served" /\ n.req = chat[c].req /\ n.answer = a
  BY <1>1 DEF Chat
<1>3. chat' = [chat EXCEPT ![c] = n]
  BY <1>1 DEF Serve, Chat
<1> HIDE DEF n
<1>4. ChatOK(n)
  BY <1>2 DEF ChatOK
<1> QED BY <1>3, <1>4, ChatMoves

\* The levels of the cache: what each holds suits the key it is held under.
L1OK == Entries(l1) /\ Len(l1) <= L1Capacity
L2OK ==
    /\ l2 \in [ExactKeys -> CacheRequests \union {NoAnswer}]
    /\ \A k \in ExactKeys : l2[k] # NoAnswer => SuitsKey(k, l2[k])
L3OK ==
    /\ l3 \in [SemanticKeys -> CacheRequests \union {NoAnswer}]
    /\ \A k \in SemanticKeys : l3[k] # NoAnswer => SuitsBucket(k, l3[k])

CacheInv == L1OK /\ L2OK /\ L3OK /\ ChatsOK /\ started \in 0..MaxChats

LEMMA KeysOf ==
    ASSUME NEW r \in CacheRequests
    PROVE  /\ ExactKey(r) \in ExactKeys /\ SemanticKey(r) \in SemanticKeys
           /\ SuitsKey(ExactKey(r), r) /\ SuitsBucket(SemanticKey(r), r)
BY DEF ExactKeys, SemanticKeys, SuitsKey, SuitsBucket, Suits, ExactKey, SemanticKey

LEMMA BucketSuitsKey ==
    ASSUME NEW r \in CacheRequests, NEW a, SuitsBucket(SemanticKey(r), a)
    PROVE  SuitsKey(ExactKey(r), a) /\ Suits(a, r)
BY DEF SuitsKey, SuitsBucket, Suits, ExactKey, SemanticKey

LEMMA ChatFacts ==
    ASSUME ChatsOK, NEW c \in Chats
    PROVE  /\ chat[c] \in Chat /\ ChatOK(chat[c])
           /\ chat[c].req \in CacheRequests /\ chat[c].answer \in CacheRequests \union {NoAnswer}
BY DEF ChatsOK, ChatOK, Chat

LEMMA L1OKKeeps ==
    ASSUME L1OK, NEW k \in ExactKeys, NEW a \in CacheRequests, SuitsKey(k, a), l1' = L1Set(k, a)
    PROVE  L1OK'
<1>1. Entries(L1Set(k, a)) /\ Len(L1Set(k, a)) <= L1Capacity
  BY L1Keeps DEF L1OK
<1>2. Entries(l1') /\ Len(l1') <= L1Capacity
  BY <1>1
<1> QED BY <1>2 DEF L1OK

LEMMA LookupKeeps ==
    ASSUME CacheInv, NEW c \in Chats, NEW r \in CacheRequests, Lookup(c, r)
    PROVE  CacheInv'
<1> USE CacheConstants
<1>1. started' \in 0..MaxChats
  BY DEF CacheInv, Lookup
<1>2. L2OK' /\ L3OK'
  BY DEF CacheInv, Lookup, L2OK, L3OK
<1>3. L1OK /\ ChatsOK
  BY DEF CacheInv
<1>4. ASSUME NEW e \in InL1(ExactKey(r)), l1' = L1Set(e.key, e.answer),
             chat' = [chat EXCEPT ![c] = [pc |-> "served", req |-> r, answer |-> e.answer]]
      PROVE  L1OK' /\ ChatsOK'
  <2>1. PICK i \in 1..Len(l1) : e = l1[i]
    BY <1>3, <1>4, EntriesFacts, RangeEquality DEF InL1, L1OK
  <2>2. e \in Entry /\ SuitsKey(e.key, e.answer) /\ e.key = ExactKey(r)
    BY <1>3, <1>4, <2>1, EntriesFacts DEF L1OK, InL1
  <2>3. e.key \in ExactKeys /\ e.answer \in CacheRequests /\ Suits(e.answer, r)
    BY <2>2 DEF Entry, SuitsKey
  <2> DEFINE n == [pc |-> "served", req |-> r, answer |-> e.answer]
  <2>4. ChatOK(n)
    BY <2>3 DEF ChatOK, Chat
  <2> HIDE DEF n
  <2>5. chat' = [chat EXCEPT ![c] = n]
    BY <1>4 DEF n
  <2> QED BY <1>3, <1>4, <2>2, <2>3, <2>4, <2>5, L1OKKeeps, ChatMoves
<1>5. ASSUME chat' = [chat EXCEPT ![c] = [pc |-> "l2", req |-> r, answer |-> NoAnswer]], l1' = l1
      PROVE  L1OK' /\ ChatsOK'
  <2> DEFINE n == [pc |-> "l2", req |-> r, answer |-> NoAnswer]
  <2>1. ChatOK(n)
    BY DEF ChatOK, Chat
  <2> HIDE DEF n
  <2>2. chat' = [chat EXCEPT ![c] = n]
    BY <1>5 DEF n
  <2> QED BY <1>3, <1>5, <2>1, <2>2, ChatMoves DEF L1OK
<1>6. L1OK' /\ ChatsOK'
  BY <1>4, <1>5 DEF Lookup
<1> QED BY <1>1, <1>2, <1>6 DEF CacheInv

LEMMA LookupL2Keeps ==
    ASSUME CacheInv, NEW c \in Chats, LookupL2(c)
    PROVE  CacheInv'
<1>1. L2OK' /\ L3OK' /\ started' \in 0..MaxChats
  BY DEF CacheInv, LookupL2, L2OK, L3OK
<1>2. L1OK /\ L2OK /\ ChatsOK
  BY DEF CacheInv
<1> DEFINE key == ExactKey(chat[c].req)
<1>3. key \in ExactKeys /\ chat[c].req \in CacheRequests
  BY <1>2, ChatFacts, KeysOf
<1>4. CASE l2[key] = NoAnswer /\ To(c, "embed") /\ l1' = l1
  <2>1. ChatsOK'
    BY <1>2, <1>4, ToKeeps
  <2> QED BY <1>1, <1>2, <1>4, <2>1 DEF CacheInv, L1OK
<1>5. CASE l2[key] # NoAnswer /\ Serve(c, l2[key]) /\ l1' = L1Set(key, l2[key])
  <2>1. l2[key] \in CacheRequests /\ SuitsKey(key, l2[key])
    BY <1>2, <1>3, <1>5 DEF L2OK
  <2>2. Suits(l2[key], chat[c].req)
    BY <1>3, <2>1 DEF SuitsKey
  <2> HIDE DEF key
  <2>3. L1OK'
    BY <1>2, <1>3, <1>5, <2>1, L1OKKeeps
  <2>4. ChatsOK'
    BY <1>2, <1>5, <2>1, <2>2, ServeKeeps
  <2> QED BY <1>1, <2>3, <2>4 DEF CacheInv
<1> QED BY <1>4, <1>5 DEF LookupL2

LEMMA LookupL3Keeps ==
    ASSUME CacheInv, NEW c \in Chats, LookupL3(c)
    PROVE  CacheInv'
<1>1. L2OK' /\ L3OK' /\ started' \in 0..MaxChats
  BY DEF CacheInv, LookupL3, L2OK, L3OK
<1>2. L1OK /\ L3OK /\ ChatsOK
  BY DEF CacheInv
<1> DEFINE r == chat[c].req
           hit == l3[SemanticKey(r)]
<1>3. r \in CacheRequests /\ ExactKey(r) \in ExactKeys /\ SemanticKey(r) \in SemanticKeys
  BY <1>2, ChatFacts, KeysOf
<1>4. CASE hit = NoAnswer /\ To(c, "calling") /\ l1' = l1
  <2>1. ChatsOK'
    BY <1>2, <1>4, ToKeeps
  <2> QED BY <1>1, <1>2, <1>4, <2>1 DEF CacheInv, L1OK
<1>5. CASE hit # NoAnswer /\ Serve(c, hit) /\ l1' = L1Set(ExactKey(r), hit)
  <2>1. hit \in CacheRequests /\ SuitsBucket(SemanticKey(r), hit)
    BY <1>2, <1>3, <1>5 DEF L3OK
  <2> HIDE DEF hit
  <2>2. SuitsKey(ExactKey(r), hit) /\ Suits(hit, r)
    BY <1>3, <2>1, BucketSuitsKey
  <2>3. L1OK'
    BY <1>2, <1>3, <1>5, <2>1, <2>2, L1OKKeeps
  <2>4. ChatsOK'
    BY <1>2, <1>5, <2>1, <2>2, ServeKeeps
  <2> QED BY <1>1, <2>3, <2>4 DEF CacheInv
<1> QED BY <1>4, <1>5 DEF LookupL3

LEMMA EmbedKeeps ==
    ASSUME CacheInv, NEW c \in Chats, Embed(c)
    PROVE  CacheInv'
<1>1. L1OK' /\ L2OK' /\ L3OK' /\ started' \in 0..MaxChats
  BY DEF CacheInv, Embed, L1OK, L2OK, L3OK
<1>2. ChatsOK
  BY DEF CacheInv
<1>3. ChatOK(chat[c])
  BY <1>2, ChatFacts
<1>4. CASE chat[c].pc = "embed"
  BY <1>1, <1>2, <1>4, ToKeeps DEF Embed, CacheInv
<1>5. CASE chat[c].pc = "embed2"
  <2>1. chat[c].answer = chat[c].req /\ Suits(chat[c].answer, chat[c].req)
    BY <1>3, <1>5 DEF ChatOK, Suits
  <2>2. To(c, "hset") \/ To(c, "served")
    BY <1>5 DEF Embed
  <2>3. ChatsOK'
    BY <1>2, <2>1, <2>2, ToKeeps
  <2> QED BY <1>1, <2>3 DEF CacheInv
<1> QED BY <1>4, <1>5 DEF Embed

LEMMA StoreKeeps ==
    ASSUME CacheInv, NEW c \in Chats, Store(c)
    PROVE  CacheInv'
<1>1. L2OK' /\ L3OK' /\ started' \in 0..MaxChats
  BY DEF CacheInv, Store, L2OK, L3OK
<1>2. L1OK /\ ChatsOK
  BY DEF CacheInv
<1> DEFINE r == chat[c].req
           n == [chat[c] EXCEPT !.pc = "set", !.answer = r]
<1>3. r \in CacheRequests /\ ExactKey(r) \in ExactKeys /\ SuitsKey(ExactKey(r), r) /\ chat[c] \in Chat
  BY <1>2, ChatFacts, KeysOf
<1>4. n \in Chat /\ n.pc = "set" /\ n.req = r /\ n.answer = r
  BY <1>3 DEF Chat
<1>5. chat' = [chat EXCEPT ![c] = n]
  BY <1>3 DEF Store, Chat
<1> HIDE DEF n
<1>6. ChatOK(n)
  BY <1>4 DEF ChatOK
<1>7. ChatsOK'
  BY <1>2, <1>5, <1>6, ChatMoves
<1>8. l1' = L1Set(ExactKey(r), r)
  BY DEF Store
<1> HIDE DEF r
<1>9. L1OK'
  BY <1>2, <1>3, <1>8, L1OKKeeps
<1> QED BY <1>1, <1>7, <1>9 DEF CacheInv

LEMMA StoreRedisKeeps ==
    ASSUME CacheInv, NEW c \in Chats, StoreL2(c) \/ StoreL3(c)
    PROVE  CacheInv'
<1>1. L1OK' /\ started' \in 0..MaxChats
  BY DEF CacheInv, StoreL2, StoreL3, L1OK
<1>2. L2OK /\ L3OK /\ ChatsOK
  BY DEF CacheInv
<1> DEFINE r == chat[c].req
<1>3. /\ r \in CacheRequests /\ ExactKey(r) \in ExactKeys /\ SuitsKey(ExactKey(r), r)
      /\ SemanticKey(r) \in SemanticKeys /\ SuitsBucket(SemanticKey(r), r) /\ ChatOK(chat[c])
  BY <1>2, ChatFacts, KeysOf
<1>4. chat[c].answer = r /\ Suits(chat[c].answer, r)
  BY <1>3 DEF StoreL2, StoreL3, ChatOK, Suits
<1>5. CASE StoreL2(c)
  <2>1. ChatsOK'
    BY <1>2, <1>4, <1>5, ToKeeps DEF StoreL2
  <2>2. L2OK'
    BY <1>2, <1>3, <1>4, <1>5 DEF StoreL2, L2OK
  <2> QED BY <1>1, <1>2, <1>5, <2>1, <2>2 DEF StoreL2, CacheInv, L3OK
<1>6. CASE StoreL3(c)
  <2>1. ChatsOK'
    BY <1>2, <1>4, <1>6, ToKeeps DEF StoreL3
  <2>2. L3OK'
    BY <1>2, <1>3, <1>4, <1>6 DEF StoreL3, L3OK
  <2> QED BY <1>1, <1>2, <1>6, <2>1, <2>2 DEF StoreL3, CacheInv, L2OK
<1> QED BY <1>5, <1>6

LEMMA ExpiryKeeps ==
    ASSUME CacheInv, CacheExpires
    PROVE  CacheInv'
<1>1. L1OK' /\ ChatsOK' /\ started' \in 0..MaxChats
  BY DEF CacheInv, CacheExpires, L1OK, ChatsOK
<1>2. L2OK'
  BY DEF CacheInv, CacheExpires, L2OK
<1>3. L3OK'
  BY DEF CacheInv, CacheExpires, L3OK
<1> QED BY <1>1, <1>2, <1>3 DEF CacheInv

LEMMA CacheStep == CacheInv /\ [ScNext]_scVars => CacheInv'
<1> SUFFICES ASSUME CacheInv, [ScNext]_scVars PROVE CacheInv'
  OBVIOUS
<1>1. CASE UNCHANGED scVars
  BY <1>1 DEF scVars, CacheInv, L1OK, L2OK, L3OK, ChatsOK
<1>2. CASE CacheExpires
  BY <1>2, ExpiryKeeps
<1>3. ASSUME NEW c \in Chats, ChatEnds(c) PROVE CacheInv'
  <2>1. ChatsOK'
    BY <1>3, ToKeeps DEF ChatEnds, CacheInv
  <2> QED BY <1>3, <2>1 DEF ChatEnds, CacheInv, L1OK, L2OK, L3OK
<1>4. ASSUME NEW c \in Chats, NEW r \in CacheRequests, Lookup(c, r) PROVE CacheInv'
  BY <1>4, LookupKeeps
<1>5. ASSUME NEW c \in Chats,
             LookupL2(c) \/ Embed(c) \/ LookupL3(c) \/ Store(c) \/ StoreL2(c) \/ StoreL3(c)
      PROVE  CacheInv'
  BY <1>5, LookupL2Keeps, EmbedKeeps, LookupL3Keeps, StoreKeeps, StoreRedisKeeps
<1> QED BY <1>1, <1>2, <1>3, <1>4, <1>5 DEF ScNext

LEMMA CacheStarts == ScInit => CacheInv
<1> SUFFICES ASSUME ScInit PROVE CacheInv
  OBVIOUS
<1>1. L1OK
  BY CacheConstants DEF ScInit, L1OK, Entries
<1>2. L2OK /\ L3OK
  BY DEF ScInit, L2OK, L3OK
<1>3. ChatsOK
  BY CacheConstants DEF ScInit, ChatsOK, ChatOK, Chat
<1> QED BY <1>1, <1>2, <1>3, CacheConstants DEF ScInit, CacheInv

LEMMA CacheInvSuffices == CacheInv => SemanticCacheTypeOK /\ ServedForTheQuestion /\ L1WithinCapacity
<1> SUFFICES ASSUME CacheInv PROVE SemanticCacheTypeOK /\ ServedForTheQuestion /\ L1WithinCapacity
  OBVIOUS
<1>1. L1WithinCapacity
  BY DEF CacheInv, L1OK, Entries, L1WithinCapacity
<1>2. ServedForTheQuestion
  BY DEF CacheInv, ChatsOK, ChatOK, Suits, ServedForTheQuestion
<1>3. chat \in [Chats -> Chat]
  BY DEF CacheInv, ChatsOK
<1> QED BY <1>1, <1>2, <1>3 DEF CacheInv, L1OK, L2OK, L3OK, Entries, Entry, SemanticCacheTypeOK

----------------------------------------------------------------------------
LEMMA RateRest == ASSUME RateInv, UNCHANGED rwVars PROVE RateInv'
BY DEF RateInv, rwVars, RateTypeOK, Whole, Closing

LEMMA CachesStep ==
    ASSUME RateInv, CacheInv, [Next]_<<part, mmVars, skVars, gwVars, txVars, kbVars>>
    PROVE  RateInv' /\ CacheInv'
<1>1. RwNext \/ UNCHANGED rwVars
  BY DEF Next, gwVars
<1>2. [ScNext]_scVars
  BY DEF Next, gwVars
<1> QED BY <1>1, <1>2, RateStep, RateRest, CacheStep

\* A window is overshot by no more than the other requests in progress allow, for any
\* windows, limits and requests, and a cached answer was given by the requested model to
\* a prompt of the same class, whichever level of the cache served it, for any requests,
\* classes, chats and capacity (RateLimiter.allow, SemanticCache.lookup and store).
THEOREM CachesStaySound == Spec => []CachesAreSound
<1>1. Init => RateInv /\ CacheInv
  BY RateInit, CacheStarts DEF Init
<1>2. RateInv /\ CacheInv /\ [Next]_<<part, mmVars, skVars, gwVars, txVars, kbVars>> => (RateInv /\ CacheInv)'
  BY CachesStep
<1>3. RateInv /\ CacheInv => CachesAreSound
  BY RateInvImplies, CacheInvSuffices DEF CachesAreSound
<1> QED BY <1>1, <1>2, <1>3, PTL DEF Spec
=============================================================================
