------------------------------- MODULE Memory -------------------------------
(***************************************************************************)
(* MemoryManager (memory/manager.py): answers kept in RAM (L1), on disk    *)
(* behind a manifest (L2) and in built-in indexes (L3 to L5), looked up in *)
(* that order, promoted upwards at the third hit; and the process that     *)
(* holds it, which may be killed and started again.                        *)
(*                                                                         *)
(* Both operations are synchronous. A write that fails, which the handlers *)
(* swallow, or a kill in its middle leaves a file as it was, empty, with a *)
(* part of the content or with all of it; a manifest cut short is          *)
(* unreadable, an answer cut short is an answer. File names are            *)
(* hash(prompt), which every process computes anew: a path is a prompt and *)
(* the boot that wrote it. Several keys may be similar enough: the search  *)
(* takes any of them, the code the one stored first. L4 and L5 differ from *)
(* L3 in nothing but their place in the order. No answer is empty. A part  *)
(* cut inside a character cannot be read and counts as empty.              *)
(***************************************************************************)
EXTENDS Naturals

CONSTANTS
    Asked,            \* prompts that are looked up and stored
    Content,          \* answers
    Text,             \* what a file may hold: answers and parts of them
    Part,             \* answer -> the texts a write cut short may leave of it
    BuiltIn,          \* keywords of the indexes L3 to L5
    IndexOf,          \* their contents
    Css,              \* <<prompt, key>> -> Jaccard score, in percent
    Threshold,        \* runtime -> min_threshold
    PromoteAt,        \* hits at which a content moves up; 3
    Empty, Nothing,   \* the empty string; no content at all
    Torn,             \* a manifest cut short
    MaxBoots          \* bound of the restarts

Prompt == Asked \cup BuiltIn
Boot == 1..MaxBoots
Path == Prompt \X Boot

ASSUME MemoryAssumption ==
    /\ Torn \notin [Prompt -> [path : {<<>>} \cup Path, access_count : Nat]]
    /\ Content \subseteq Text /\ Part \in [Content -> SUBSET Text]
    /\ Empty \notin Text /\ Nothing \notin Text \cup {Empty}
    /\ IndexOf \in [BuiltIn -> Content]
    /\ Css \in [Prompt \X Prompt -> Nat]
    /\ DOMAIN Threshold = {"STANDARD", "RETRIEVAL"}
    /\ \A runtime \in DOMAIN Threshold : Threshold[runtime] \in Nat
    /\ PromoteAt \in Nat
    /\ MaxBoots \in Nat \ {0}

VARIABLES
    up,          \* the process runs
    boot,
    l1,          \* _l1_cache: key -> text or Nothing
    stats,       \* _l3_stats, _l4_stats, _l5_stats
    manifest,    \* _l2_manifest: key -> entry or NoEntry
    disk,        \* l2_manifest.json: a manifest, or Torn
    files,       \* path -> text, Empty or Nothing
    latest,      \* history: what L2 may have for a key: its last store, and what
                 \* is left of the ones that have failed since
    durable,     \* history: and what it may after a restart: the last store that
                 \* is in the manifest on disk, and what is left of later ones
    seen,        \* history: all a key was stored with since the boot, or before
                 \* it and not lost, and what was left of it
    kept         \* history: keys with a store in the manifest on disk

vars == <<up, boot, l1, stats, manifest, disk, files, latest, durable, seen, kept>>

NoEntry == [path |-> <<>>, access_count |-> 0]
NoManifest == [k \in Prompt |-> NoEntry]

Init ==
    /\ up = TRUE /\ boot = 1
    /\ l1 = [k \in Prompt |-> Nothing]
    /\ stats = [k \in BuiltIn |-> 0]
    /\ manifest = NoManifest /\ disk = NoManifest
    /\ files = [f \in Path |-> Nothing]
    /\ latest = [k \in Prompt |-> {}]
    /\ durable = [k \in Prompt |-> {}]
    /\ seen = [k \in Prompt |-> {}]
    /\ kept = {}

-----------------------------------------------------------------------------
(* store_cache.                                                            *)

\* An entry that keeps the file it has.
EntryReusingFile(m, k) ==
    IF m[k] = NoEntry THEN [m EXCEPT ![k] = [path |-> <<k, boot>>, access_count |-> 0]]
    ELSE [m EXCEPT ![k].access_count = 0]

\* The entry of a store to L2.
WithEntry(m, k) == [m EXCEPT ![k] = [path |-> <<k, boot>>, access_count |-> 0]]

\* _save_l2_manifest: opening the file, which may fail, truncates it. Of the
\* saves of one operation the last decides.
Save(m) == disk' \in {m, Torn, disk}

\* The manifest in memory becomes m and is saved; pending are the contents a
\* restart may find if it is not.
Update(m, pending) ==
    /\ manifest' = m
    /\ Save(m)
    /\ IF disk' = m
       THEN durable' = latest' /\ kept' = {k \in Prompt : m[k] # NoEntry}
       ELSE durable' = pending /\ kept' = kept

\* The file, then the entry, then the manifest. L1 is left alone.
StoreL2(m, k, content) ==
    /\ files' = [files EXCEPT ![<<k, boot>>] = content]
    /\ latest' = [latest EXCEPT ![k] = {content}]
    /\ Update(WithEntry(m, k), [durable EXCEPT ![k] = @ \cup {content}])

\* What a write cut short may leave once it has opened the file.
Remains(content) == {Empty} \cup Part[content]

\* The file cannot be opened, or not be written whole once it is open.
WriteFails(k, content) ==
    \/ UNCHANGED files
    \/ \E t \in Remains(content) : files' = [files EXCEPT ![<<k, boot>>] = t]

\* A store to L2 that the handler gives up: no entry, no save.
FailL2(k, content) ==
    /\ WriteFails(k, content)
    /\ latest' = [latest EXCEPT ![k] = @ \cup Remains(content)]

\* scope = "L2".
store_cache(k, content) ==
    /\ up
    /\ \/ StoreL2(manifest, k, content)
       \/ /\ FailL2(k, content)
          /\ durable' = [durable EXCEPT ![k] = @ \cup Remains(content)]
          /\ UNCHANGED <<manifest, disk, kept>>
    /\ seen' = [seen EXCEPT ![k] = @ \cup {content} \cup Part[content]]
    /\ UNCHANGED <<up, boot, l1, stats>>

\* scope = "L1".
store_cache_L1(k, content) ==
    /\ up
    /\ l1' = [l1 EXCEPT ![k] = content]
    /\ seen' = [seen EXCEPT ![k] = @ \cup {content}]
    /\ UNCHANGED <<up, boot, stats, manifest, disk, files, latest, durable, kept>>

-----------------------------------------------------------------------------
(* check_cache_hit.                                                        *)

Similar(p, runtime) == {k \in Prompt : Css[<<p, k>>] >= Threshold[runtime]}

InL1(p, runtime) == {k \in Similar(p, runtime) : l1[k] # Nothing}
InL2(p, runtime) == {k \in Similar(p, runtime) : manifest[k] # NoEntry}
InIndex(p, runtime) == Similar(p, runtime) \cap BuiltIn

\* _read_l2_file; an empty content counts as none.
Read(k) == files[manifest[k].path]
Readable(k) == Read(k) \in Text

AtMost(i, max) == IF i < max THEN i ELSE max

\* Every entry tried is counted, whether its file can be read or not.
Counted(keys) ==
    [k \in Prompt |->
        IF k \in keys
        THEN [manifest[k] EXCEPT !.access_count = AtMost(@ + 1, PromoteAt)]
        ELSE manifest[k]]

\* pending are the contents a restart may find if the counts are not saved.
SaveCounts(keys, pending) ==
    IF keys = {} THEN durable' = pending /\ UNCHANGED <<manifest, disk, kept>>
    ELSE Update(Counted(keys), pending)

Promote(k, content, hits) ==
    l1' = IF hits >= PromoteAt THEN [l1 EXCEPT ![k] = content] ELSE l1

\* A hit in L1 only counts; the count is never used.
HitL1(p, runtime) == up /\ InL1(p, runtime) # {} /\ UNCHANGED vars

HitL2(p, runtime) ==
    /\ up
    /\ InL1(p, runtime) = {}
    /\ UNCHANGED <<up, boot, stats, files, latest, seen>>
    /\ \E k \in InL2(p, runtime) :
          /\ Readable(k)
          /\ \E tried \in SUBSET {i \in InL2(p, runtime) : ~Readable(i)} :
                SaveCounts(tried \cup {k}, durable)
          /\ Promote(k, Read(k), manifest[k].access_count + 1)

\* The search gets past L2: each matching entry has been tried in vain.
PastL2(p, runtime) ==
    /\ up
    /\ InL1(p, runtime) = {}
    /\ \A k \in InL2(p, runtime) : ~Readable(k)

\* At its third hit an index's content goes to L1 and, if it can, to L2.
HitIndex(p, runtime) ==
    /\ PastL2(p, runtime)
    /\ \E k \in InIndex(p, runtime) :
          /\ stats' = [stats EXCEPT ![k] = AtMost(@ + 1, PromoteAt)]
          /\ Promote(k, IndexOf[k], stats'[k])
          /\ IF stats'[k] < PromoteAt
             THEN /\ UNCHANGED <<files, latest, seen>>
                  /\ SaveCounts(InL2(p, runtime), durable)
             ELSE /\ seen' = [seen EXCEPT ![k] = @ \cup {IndexOf[k]} \cup Part[IndexOf[k]]]
                  /\ \/ StoreL2(Counted(InL2(p, runtime)), k, IndexOf[k])
                     \/ /\ FailL2(k, IndexOf[k])
                        /\ SaveCounts(InL2(p, runtime),
                                      [durable EXCEPT ![k] = @ \cup Remains(IndexOf[k])])
    /\ UNCHANGED <<up, boot>>

Miss(p, runtime) ==
    /\ PastL2(p, runtime)
    /\ InIndex(p, runtime) = {}
    /\ UNCHANGED <<up, boot, l1, stats, files, latest, seen>>
    /\ SaveCounts(InL2(p, runtime), durable)

-----------------------------------------------------------------------------
(* The process is killed and started again.                                *)

\* A store that saves the manifest before it writes the content.
CrashInStoreEntryFirst(k, content) ==
    /\ UNCHANGED files /\ disk' \in {WithEntry(manifest, k), Torn}
    /\ durable' = [durable EXCEPT ![k] = @ \cup {content} \cup Remains(content)]

\* Before, while or after the content is written, before or in the middle of the
\* save.
CrashInStore(k, content) ==
    /\ \/ WriteFails(k, content) /\ UNCHANGED disk
       \/ files' = [files EXCEPT ![<<k, boot>>] = content] /\ disk' \in {disk, Torn}
    /\ durable' = [durable EXCEPT ![k] = @ \cup {content} \cup Remains(content)]

\* Lookups save as well, once there is an entry to count.
CrashInSave == manifest # NoManifest /\ disk' = Torn /\ UNCHANGED <<files, durable>>

Crash ==
    /\ up
    /\ up' = FALSE
    /\ \/ UNCHANGED <<disk, files, durable>>
       \/ CrashInSave
       \/ \E k \in Asked, content \in Content : CrashInStore(k, content)
       \/ \E k \in BuiltIn : CrashInStore(k, IndexOf[k])
    /\ UNCHANGED <<boot, l1, stats, manifest, latest, seen, kept>>

\* __init__ and _load_l2_manifest: what cannot be read is forgotten.
Restart ==
    /\ ~up /\ boot < MaxBoots
    /\ up' = TRUE /\ boot' = boot + 1
    /\ l1' = [k \in Prompt |-> Nothing]
    /\ stats' = [k \in BuiltIn |-> 0]
    /\ manifest' = IF disk = Torn THEN NoManifest ELSE disk
    /\ durable' = IF disk = Torn THEN [k \in Prompt |-> {}] ELSE durable
    /\ kept' = IF disk = Torn THEN {} ELSE kept
    /\ latest' = durable' /\ seen' = durable'
    /\ UNCHANGED <<disk, files>>

Next ==
    \/ \E k \in Asked, content \in Content :
          store_cache(k, content) \/ store_cache_L1(k, content)
    \/ \E p \in Asked, runtime \in DOMAIN Threshold :
          \/ HitL1(p, runtime) \/ HitL2(p, runtime)
          \/ HitIndex(p, runtime) \/ Miss(p, runtime)
    \/ Crash
    \/ Restart

Spec == Init /\ [][Next]_vars

-----------------------------------------------------------------------------
(* Properties.                                                             *)

Entry == [path : Path, access_count : 0..PromoteAt]
Manifest == [Prompt -> Entry \cup {NoEntry}]
Contents == [Prompt -> SUBSET (Text \cup {Empty})]

\* Every variable stays in its range.
TypeOK ==
    /\ up \in BOOLEAN /\ boot \in Boot
    /\ l1 \in [Prompt -> Text \cup {Nothing}]
    /\ stats \in [BuiltIn -> 0..PromoteAt]
    /\ manifest \in Manifest /\ disk \in Manifest \cup {Torn}
    /\ files \in [Path -> Text \cup {Empty, Nothing}]
    /\ latest \in Contents /\ durable \in Contents /\ seen \in Contents
    /\ kept \subseteq Prompt

\* L2 has for a key what was last stored, or what is left of a store that has
\* failed since, a part of it or nothing: never an older answer. Only L1, which
\* stores to L2 do not touch, may answer with an older one, and with none from
\* before the boot that was replaced by then: staleness ends when the process does.
StalenessEndsAtRestart ==
    up => \A k \in Prompt :
              /\ manifest[k] # NoEntry => Read(k) \in latest[k]
              /\ l1[k] # Nothing => l1[k] \in seen[k]

\* A store whose manifest was saved is found after any restart, unless the
\* manifest is cut short later: its key has an entry, and the file it names holds
\* the content, as long as no later store of the key has failed or been cut off
\* by a kill; then it may hold what that one wrote, all, a part or nothing.
ReturnedStoresSurvive ==
    disk # Torn => \A k \in kept :
        disk[k] # NoEntry /\ files[disk[k].path] \in durable[k]

=============================================================================
