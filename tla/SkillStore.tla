----------------------------- MODULE SkillStore -----------------------------
(***************************************************************************)
(* The skill files of one tenant (app/skill/store.py): a directory per     *)
(* user, one the tenant shares and one everybody shares, and the two       *)
(* places where older versions kept them.  The operations are those of the *)
(* routes (app/api/skills.py) and of the tools (app/tools/skill.py); a     *)
(* handler does not await between its look at the files and its write,     *)
(* except while an install fetches a URL.                                  *)
(***************************************************************************)
EXTENDS Integers

CONSTANTS
    SkillUsers,         \* users of the tenant
    SkillNames,
    OldTenant,          \* names found in the tenant's root, where older versions wrote
    OldBase,            \* names found in the base directory
    SkillOps            \* bound: operations that write

Layers == {"tenant", "shared"}

\* _safe_segment: a user's directory is never _shared.
ASSUME SkillAssumption ==
    /\ OldTenant \subseteq SkillNames /\ OldBase \subseteq SkillNames
    /\ SkillOps \in Nat /\ SkillUsers \cap Layers = {}

Dirs == SkillUsers \union Layers
NoFile == [v |-> -1, on |-> FALSE]
Torn == [v |-> -2, on |-> FALSE]
Strange == [v |-> -3, on |-> FALSE]
Readable(f) == f.v >= 0
Old == [v |-> 0, on |-> TRUE]

VARIABLES
    files,      \* directory -> name -> NoFile, Torn (a write cut short), Strange (the file of a skill
                \* of another name) or the definition's version and "enabled"
    fetching,   \* installs from a URL under way: the directory they will write
    sops2,
    latest,     \* history: version an operation wrote last, 0 if none or deleted since
    off         \* history: names a user turned off, and did not write or delete since

ssVars == <<files, fetching, sops2, latest, off>>

StoreTypeOK ==
    /\ \A d \in Dirs, n \in SkillNames : files[d][n].v \in -3..SkillOps
    /\ fetching \subseteq Dirs /\ sops2 \in 0..SkillOps
    /\ latest \in [Dirs -> [SkillNames -> 0..SkillOps]] /\ off \in [SkillUsers -> SUBSET SkillNames]

StoreInit ==
    /\ files = [d \in Dirs |-> [n \in SkillNames |-> NoFile]] /\ fetching = {} /\ sops2 = 0
    /\ latest = [d \in Dirs |-> [n \in SkillNames |-> 0]] /\ off = [u \in SkillUsers |-> {}]

----------------------------------------------------------------------------
(* resolve_skill_roots                                                     *)

\* Who asks: a user, the tenant alone ("tenant"), or nobody ("shared").
Askers == Dirs
\* The directories an asker reads, nearest first; it writes the first, or the tenant's with scope=tenant.
SearchPath(a) == CASE a \in SkillUsers -> <<a, "tenant", "shared">>
               [] a = "tenant" -> <<"tenant", "shared">>
               [] a = "shared" -> <<"shared">>
WritesTo(a) == IF a = "shared" THEN {"shared"} ELSE {a, "tenant"}

\* get, list: the first readable file; a bad file is passed over.
Resolved(fs, a, n) ==
    LET s == SearchPath(a)
        hits == {i \in DOMAIN s : Readable(fs[s[i]][n])}
    IN IF hits = {} THEN NoFile ELSE fs[s[CHOOSE i \in hits : \A j \in hits : i <= j]][n]

\* Mutant: the old files are copied over what is there.
Migrated_Always(fs, d, old) == [fs EXCEPT ![d] = [n \in SkillNames |-> IF n \in old THEN Old ELSE fs[d][n]]]
\* _migrate_legacy_to_shared, _migrate_tenant_legacy_to_shared: into a layer without any
\* file, even a bad one, the old files are copied; they stay where they are.
Migrated(fs, d, old) ==
    IF \E n \in SkillNames : fs[d][n] # NoFile THEN fs
    ELSE [fs EXCEPT ![d] = [n \in SkillNames |-> IF n \in old THEN Old ELSE NoFile]]

\* Every SkillStore(...) migrates the layers its asker reads.
Opened(fs, a) ==
    LET g == Migrated(fs, "shared", OldBase) IN IF a = "shared" THEN g ELSE Migrated(g, "tenant", OldTenant)

----------------------------------------------------------------------------
(* Operations                                                              *)

Writes == sops2 < SkillOps /\ sops2' = sops2 + 1
Forgotten(a, d, n) == IF a \in SkillUsers /\ d = a THEN [off EXCEPT ![a] = @ \ {n}] ELSE off

\* list, get, discover and run read only, after the migration.
OpenStore(a) ==
    /\ Opened(files, a) # files /\ files' = Opened(files, a)
    /\ UNCHANGED <<fetching, sops2, latest, off>>

\* SkillStore.save: the definition, enabled, replaces the file; a process that dies in
\* write_text leaves a bad one.  A name is joined to the directory as it is (_path): one that
\* is itself a path leads to a file of another directory, which then holds a skill of that
\* name, so not one called n.
SaveSkill(fs, a, d, n) ==
    /\ Writes
    /\ \/ /\ files' \in {[fs EXCEPT ![d][n] = f] : f \in {[v |-> sops2 + 1, on |-> TRUE], Torn}}
          /\ latest' = [latest EXCEPT ![d][n] = sops2 + 1] /\ off' = Forgotten(a, d, n)
       \/ \E e \in Dirs : files' = [fs EXCEPT ![e][n] = Strange] /\ UNCHANGED <<latest, off>>

\* install_skill, generate_skill, skill_install, skill_generate.
InstallSkill(a) == \E d \in WritesTo(a), n \in SkillNames : SaveSkill(Opened(files, a), a, d, n) /\ UNCHANGED fetching

\* install from a URL: the store is opened before the fetch and written after it.
BeginFetch(a) == \E d \in WritesTo(a) :
    /\ d \notin fetching /\ sops2 < SkillOps /\ fetching' = fetching \union {d} /\ files' = Opened(files, a)
    /\ UNCHANGED <<sops2, latest, off>>
EndFetch(d) ==
    /\ d \in fetching /\ fetching' = fetching \ {d}
    /\ \/ \E n \in SkillNames : SaveSkill(files, d, d, n)
       \/ UNCHANGED <<files, sops2, latest, off>>

\* delete_skill: 404 for what does not resolve, else the asker's own file goes if there is one.
DeleteSkill(a) == \E n \in SkillNames :
    LET fs == Opened(files, a) IN
    /\ Resolved(fs, a, n) # NoFile /\ Writes
    /\ files' = [fs EXCEPT ![a][n] = NoFile]
    /\ latest' = [latest EXCEPT ![a][n] = 0] /\ off' = Forgotten(a, a, n)
    /\ UNCHANGED fetching

\* toggle_skill writes in the asker's own directory.
ToggleAt(fs, a, n) == a

\* toggle_skill: what resolves is saved with the flag, whole or cut short; a shared skill gets
\* a copy of the asker's.
ToggleSkill(a) == \E n \in SkillNames, on \in BOOLEAN :
    LET fs == Opened(files, a)
        found == Resolved(fs, a, n)
        d == ToggleAt(fs, a, n)
    IN /\ found # NoFile /\ Writes
       /\ latest' = [latest EXCEPT ![d][n] = found.v]
       /\ \/ /\ files' = [fs EXCEPT ![d][n] = [found EXCEPT !.on = on]]
             /\ off' = IF a \notin SkillUsers THEN off
                       ELSE [off EXCEPT ![a] = IF on THEN @ \ {n} ELSE @ \union {n}]
          \/ files' = [fs EXCEPT ![d][n] = Torn] /\ off' = Forgotten(a, a, n)
       /\ UNCHANGED fetching

StoreNext == \E a \in Askers : OpenStore(a) \/ InstallSkill(a) \/ BeginFetch(a) \/ EndFetch(a) \/ DeleteSkill(a) \/ ToggleSkill(a)

----------------------------------------------------------------------------
(* Properties                                                              *)

\* A skill a user turned off stays off for that user, whatever the team installs, toggles,
\* deletes or migrates, until the user writes or deletes it, or somebody saves a skill whose
\* name is the path of its file (toggle_skill, list, get, SkillStore._path).
OffStaysOff == \A u \in SkillUsers, n \in SkillNames :
    n \in off[u] => ~Resolved(files, u, n).on \/ files[u][n] = Strange

\* What was written last is what the file holds, unless the write was cut short or a skill
\* named by the file's path went over it: the migration, which every request repeats, never
\* puts an old version over it (_migrate_legacy_to_shared).
SavedIsKept ==
    \A d \in Dirs, n \in SkillNames :
        latest[d][n] # 0 => files[d][n] \in {Torn, Strange} \/ files[d][n].v = latest[d][n]
=============================================================================
