---------------------------- MODULE MemoryProofs ----------------------------
(***************************************************************************)
(* Theorems of Memory, for every set of prompts and contents, all scores,  *)
(* thresholds and numbers of restarts. A file belongs to the key and the   *)
(* boot that wrote it (OwnFiles), so a write to one key disturbs no other  *)
(* entry; and each manifest, the one in memory and the one on disk, has    *)
(* contents its files may hold (Backed).                                   *)
(***************************************************************************)
EXTENDS Memory, Sequences, TLAPS

\* The entry of a key names a file of that key.
OwnFiles(m) == \A k \in Prompt : m[k] # NoEntry => \E b \in Boot : m[k].path = <<k, b>>

\* The file of an entry holds something known of its key.
Backed(m, known) ==
    \A k \in Prompt : m[k] # NoEntry => files[m[k].path] \in known[k]

\* What holds of the manifest on disk, if it can be read.
DiskInv ==
    disk # Torn => /\ OwnFiles(disk) /\ Backed(disk, durable)
                   /\ \A k \in kept : disk[k] # NoEntry

\* What holds in memory while the process runs.
MemoryInv ==
    up => /\ OwnFiles(manifest) /\ Backed(manifest, latest)
          /\ \A k \in Prompt : latest[k] \subseteq seen[k] \cup {Empty}
          /\ \A k \in Prompt : l1[k] # Nothing => l1[k] \in seen[k]

Inv == TypeOK /\ DiskInv /\ MemoryInv

-----------------------------------------------------------------------------
(* Entries.                                                                *)

\* A path tells its key, and no entry is NoEntry.
LEMMA PathFacts ==
    /\ \A k \in Prompt, b \in Boot : <<k, b>> \in Path /\ <<k, b>> # <<>>
    /\ \A k, j \in Prompt : \A b, d \in Boot : <<k, b>> = <<j, d>> => k = j
    /\ \A e \in Entry : e # NoEntry
<1>1. \A k, b : <<k, b>> # <<>>
  <2>1. \A k, b : Len(<<k, b>>) = 2 /\ Len(<<>>) = 0
    OBVIOUS
  <2> QED
    BY <2>1
<1>2. \A k \in Prompt, b \in Boot : <<k, b>> \in Path
  BY DEF Path
<1>3. ASSUME NEW e \in Entry
      PROVE  e # NoEntry
  <2>1. PICK k \in Prompt, b \in Boot : e.path = <<k, b>>
    BY DEF Entry, Path
  <2>2. NoEntry.path = <<>>
    BY DEF NoEntry
  <2> QED
    BY <1>1, <2>1, <2>2
<1>4. \A k, j \in Prompt : \A b, d \in Boot : <<k, b>> = <<j, d>> => k = j
  OBVIOUS
<1> QED
  BY <1>1, <1>2, <1>3, <1>4

\* A manifest cut short is none.
LEMMA TornFacts == Torn \notin Manifest
<1>1. Manifest \subseteq [Prompt -> [path : {<<>>} \cup Path, access_count : Nat]]
  BY MemoryAssumption DEF MemoryAssumption, Manifest, Entry, NoEntry
<1> QED
  BY <1>1, MemoryAssumption DEF MemoryAssumption

\* A store gives its key an entry with a file of this boot, and no other.
LEMMA WithEntryFacts ==
    ASSUME NEW m \in Manifest, NEW k \in Prompt, boot \in Boot, OwnFiles(m)
    PROVE  /\ WithEntry(m, k) \in Manifest /\ OwnFiles(WithEntry(m, k))
           /\ WithEntry(m, k)[k] # NoEntry /\ WithEntry(m, k)[k].path = <<k, boot>>
           /\ \A j \in Prompt \ {k} : WithEntry(m, k)[j] = m[j]
<1> DEFINE e == [path |-> <<k, boot>>, access_count |-> 0]
<1>1. e \in Entry /\ e # NoEntry /\ e.path = <<k, boot>>
  BY PathFacts, MemoryAssumption DEF Entry, MemoryAssumption
<1>2. WithEntry(m, k) = [m EXCEPT ![k] = e]
  BY DEF WithEntry
<1> HIDE DEF e
<1> QED
  BY <1>1, <1>2 DEF Manifest, OwnFiles

\* Counting a lookup changes neither which keys have entries nor their files.
LEMMA CountedFacts ==
    ASSUME TypeOK, OwnFiles(manifest),
           NEW keys \in SUBSET {k \in Prompt : manifest[k] # NoEntry}
    PROVE  /\ Counted(keys) \in Manifest /\ OwnFiles(Counted(keys))
           /\ \A k \in Prompt :
                 /\ Counted(keys)[k] # NoEntry <=> manifest[k] # NoEntry
                 /\ Counted(keys)[k].path = manifest[k].path
<1>1. ASSUME NEW k \in keys
      PROVE  /\ Counted(keys)[k] \in Entry
             /\ Counted(keys)[k].path = manifest[k].path
  <2>1. manifest[k] \in Entry
    BY DEF TypeOK, Manifest
  <2>2. AtMost(manifest[k].access_count + 1, PromoteAt) \in 0..PromoteAt
    BY <2>1, MemoryAssumption DEF MemoryAssumption, AtMost, Entry
  <2>3. Counted(keys)[k] = [manifest[k] EXCEPT !.access_count =
                                AtMost(manifest[k].access_count + 1, PromoteAt)]
    BY DEF Counted
  <2> QED
    BY <2>1, <2>2, <2>3 DEF Entry
<1>2. \A k \in Prompt \ keys : Counted(keys)[k] = manifest[k]
  BY DEF Counted
<1>3. \A k \in Prompt : Counted(keys)[k] \in Entry \cup {NoEntry}
  BY <1>1, <1>2 DEF TypeOK, Manifest
<1>4. Counted(keys) \in Manifest
  BY <1>3 DEF Counted, Manifest
<1>5. ASSUME NEW k \in Prompt
      PROVE  /\ Counted(keys)[k] # NoEntry <=> manifest[k] # NoEntry
             /\ Counted(keys)[k].path = manifest[k].path
  BY <1>1, <1>2, PathFacts
<1> QED
  BY <1>4, <1>5 DEF OwnFiles

-----------------------------------------------------------------------------
(* Files, and saves of the manifest.                                       *)

\* The key's file of this boot gets a content.
Writes(k, c) == files' = [files EXCEPT ![<<k, boot>>] = c]

\* Writing to a key's file shows in that key's entry at most.
LEMMA WriteFacts ==
    ASSUME TypeOK, NEW m \in Manifest, OwnFiles(m), NEW known, Backed(m, known),
           NEW k \in Prompt, NEW c, Writes(k, c),
           NEW j \in Prompt, m[j] # NoEntry
    PROVE  \/ files'[m[j].path] \in known[j]
           \/ j = k /\ files'[m[j].path] = c
<1>1. PICK b \in Boot : m[j].path = <<j, b>>
  BY DEF OwnFiles
<1>2. files[<<j, b>>] \in known[j]
  BY <1>1 DEF Backed
<1>3. <<j, b>> \in Path /\ <<k, boot>> \in Path /\ files \in [Path -> Text \cup {Empty, Nothing}]
  BY PathFacts DEF TypeOK
<1>4. CASE <<j, b>> = <<k, boot>>
  BY <1>1, <1>3, <1>4, PathFacts DEF Writes, TypeOK
<1>5. CASE <<j, b>> # <<k, boot>>
  BY <1>1, <1>2, <1>3, <1>5 DEF Writes
<1> QED
  BY <1>4, <1>5

\* What a failed write leaves is text or nothing.
LEMMA RemainsType == \A c \in Content : Remains(c) \subseteq Text \cup {Empty}
  BY MemoryAssumption DEF MemoryAssumption, Remains

\* A write that fails leaves every manifest backed by what was known before and by
\* what it may leave itself.
LEMMA WriteFailsFacts ==
    ASSUME TypeOK, NEW k \in Prompt, NEW c \in Content, WriteFails(k, c),
           NEW more, Remains(c) \subseteq more[k]
    PROVE  /\ files' \in [Path -> Text \cup {Empty, Nothing}]
           /\ \A m \in Manifest : \A known :
                 /\ OwnFiles(m) /\ Backed(m, known)
                 /\ \A j \in Prompt : known[j] \subseteq more[j]
                 => \A j \in Prompt : m[j] # NoEntry => files'[m[j].path] \in more[j]
<1>1. CASE files' = files
  BY <1>1 DEF Backed, TypeOK
<1>2. ASSUME NEW t \in Remains(c), Writes(k, t)
      PROVE  /\ files' \in [Path -> Text \cup {Empty, Nothing}]
             /\ \A m \in Manifest : \A known :
                   /\ OwnFiles(m) /\ Backed(m, known)
                   /\ \A j \in Prompt : known[j] \subseteq more[j]
                   => \A j \in Prompt : m[j] # NoEntry => files'[m[j].path] \in more[j]
  <2>1. files' \in [Path -> Text \cup {Empty, Nothing}]
    BY <1>2, PathFacts, RemainsType DEF Writes, TypeOK
  <2>2. ASSUME NEW m \in Manifest, NEW known, OwnFiles(m), Backed(m, known),
               NEW j \in Prompt, m[j] # NoEntry
        PROVE  files'[m[j].path] \in known[j] \/ (j = k /\ files'[m[j].path] = t)
    BY <1>2, <2>2, WriteFacts
  <2>3. t \in more[k]
    OBVIOUS
  <2> QED
    BY <2>1, <2>2, <2>3
<1> QED
  BY <1>1, <1>2 DEF WriteFails, Writes

\* A save leaves the disk with a manifest backed by what a restart may find.
LEMMA UpdateFacts ==
    ASSUME disk \in Manifest \cup {Torn}, kept \subseteq Prompt,
           NEW m \in Manifest, OwnFiles(m), NEW pending \in Contents, latest' \in Contents,
           \A k \in Prompt : m[k] # NoEntry => files'[m[k].path] \in latest'[k],
           disk # Torn => /\ OwnFiles(disk) /\ \A k \in kept : disk[k] # NoEntry
                          /\ \A k \in Prompt : disk[k] # NoEntry =>
                                files'[disk[k].path] \in pending[k],
           Update(m, pending)
    PROVE  /\ manifest' = m /\ disk' \in Manifest \cup {Torn}
           /\ durable' \in Contents /\ kept' \subseteq Prompt /\ DiskInv'
<1> DEFINE Entries == {k \in Prompt : m[k] # NoEntry}
<1>1. manifest' = m /\ disk' \in {m, Torn, disk}
  BY DEF Update, Save
<1>2. CASE disk' = m
  <2>1. durable' = latest' /\ kept' = Entries
    BY <1>2 DEF Update
  <2> QED
    BY <1>1, <1>2, <2>1 DEF DiskInv, OwnFiles, Backed
<1>3. CASE disk' # m
  <2>1. durable' = pending /\ kept' = kept
    BY <1>3 DEF Update
  <2> QED
    BY <1>1, <1>3, <2>1 DEF DiskInv, OwnFiles, Backed
<1> QED
  BY <1>2, <1>3

\* A store to L2 keeps both manifests backed.
LEMMA StoreFacts ==
    ASSUME TypeOK, DiskInv, NEW m \in Manifest, OwnFiles(m), Backed(m, latest),
           NEW k \in Prompt, NEW c \in Content, StoreL2(m, k, c)
    PROVE  /\ files' \in [Path -> Text \cup {Empty, Nothing}]
           /\ latest' \in Contents /\ durable' \in Contents /\ kept' \subseteq Prompt
           /\ manifest' \in Manifest /\ disk' \in Manifest \cup {Torn}
           /\ latest' = [latest EXCEPT ![k] = {c}]
           /\ DiskInv' /\ OwnFiles(manifest)' /\ Backed(manifest, latest)'
<1> DEFINE n == WithEntry(m, k)
           pending == [durable EXCEPT ![k] = durable[k] \cup {c}]
<1>1. /\ n \in Manifest /\ OwnFiles(n) /\ n[k] # NoEntry /\ n[k].path = <<k, boot>>
      /\ \A j \in Prompt \ {k} : n[j] = m[j]
  BY WithEntryFacts DEF TypeOK
<1>2. /\ Writes(k, c)
      /\ latest' = [latest EXCEPT ![k] = {c}]
      /\ Update(n, pending)
  BY DEF StoreL2, Writes
<1>3. files' \in [Path -> Text \cup {Empty, Nothing}] /\ files'[<<k, boot>>] = c
  BY <1>2, PathFacts, MemoryAssumption DEF Writes, TypeOK, MemoryAssumption
<1>4. latest' \in Contents /\ pending \in Contents
  BY <1>2, MemoryAssumption DEF TypeOK, Contents, MemoryAssumption
<1>5. ASSUME NEW j \in Prompt, n[j] # NoEntry
      PROVE  files'[n[j].path] \in latest'[j]
  <2>1. CASE j = k
    BY <1>1, <1>2, <1>3, <2>1 DEF TypeOK, Contents
  <2>2. CASE j # k
    <3>1. n[j] = m[j] /\ latest'[j] = latest[j]
      BY <1>1, <1>2, <2>2 DEF TypeOK, Contents
    <3> QED
      BY <1>2, <1>5, <2>2, <3>1, WriteFacts
  <2> QED
    BY <2>1, <2>2
<1>6. ASSUME disk # Torn, NEW j \in Prompt, disk[j] # NoEntry
      PROVE  files'[disk[j].path] \in pending[j]
  <2>1. disk \in Manifest /\ OwnFiles(disk) /\ Backed(disk, durable)
    BY <1>6 DEF DiskInv, TypeOK
  <2>2. /\ durable[j] \subseteq pending[j]
        /\ j = k => c \in pending[j]
    BY DEF TypeOK, Contents
  <2> HIDE DEF pending
  <2> QED
    BY <1>2, <1>6, <2>1, <2>2, WriteFacts
<1> HIDE DEF n, pending
<1>7. /\ manifest' = n /\ disk' \in Manifest \cup {Torn}
      /\ durable' \in Contents /\ kept' \subseteq Prompt /\ DiskInv'
  <2>1. disk # Torn => OwnFiles(disk) /\ \A j \in kept : disk[j] # NoEntry
    BY DEF DiskInv
  <2>2. disk \in Manifest \cup {Torn} /\ kept \subseteq Prompt
    BY DEF TypeOK
  <2> QED
    BY <1>1, <1>2, <1>4, <1>5, <1>6, <2>1, <2>2, UpdateFacts
<1> QED
  BY <1>1, <1>2, <1>3, <1>4, <1>5, <1>7 DEF OwnFiles, Backed

\* Counting lookups keeps what holds of memory and disk.
LEMMA SaveCountsFacts ==
    ASSUME TypeOK, DiskInv, OwnFiles(manifest),
           NEW keys \in SUBSET {k \in Prompt : manifest[k] # NoEntry},
           NEW pending \in Contents, SaveCounts(keys, pending), latest' \in Contents,
           \A k \in Prompt : manifest[k] # NoEntry =>
               files'[manifest[k].path] \in latest'[k],
           disk # Torn => \A k \in Prompt : disk[k] # NoEntry =>
               files'[disk[k].path] \in pending[k]
    PROVE  /\ durable' \in Contents /\ kept' \subseteq Prompt
           /\ manifest' \in Manifest /\ disk' \in Manifest \cup {Torn}
           /\ DiskInv' /\ OwnFiles(manifest)' /\ Backed(manifest, latest)'
<1>1. CASE keys = {}
  <2>1. durable' = pending /\ UNCHANGED <<manifest, disk, kept>>
    BY <1>1 DEF SaveCounts
  <2> QED
    BY <2>1 DEF DiskInv, OwnFiles, Backed, TypeOK
<1>2. CASE keys # {}
  <2>1. Update(Counted(keys), pending)
    BY <1>2 DEF SaveCounts
  <2>2. Counted(keys) \in Manifest /\ OwnFiles(Counted(keys))
    BY CountedFacts
  <2>3. \A j \in Prompt : Counted(keys)[j] # NoEntry =>
            files'[Counted(keys)[j].path] \in latest'[j]
    BY CountedFacts
  <2>4. /\ disk \in Manifest \cup {Torn} /\ kept \subseteq Prompt
        /\ disk # Torn => OwnFiles(disk) /\ \A k \in kept : disk[k] # NoEntry
    BY DEF TypeOK, DiskInv
  <2>5. /\ manifest' = Counted(keys) /\ disk' \in Manifest \cup {Torn}
        /\ durable' \in Contents /\ kept' \subseteq Prompt /\ DiskInv'
    BY <2>1, <2>2, <2>3, <2>4, UpdateFacts
  <2> QED
    BY <2>2, <2>3, <2>5 DEF OwnFiles, Backed
<1> QED
  BY <1>1, <1>2

\* If nothing is written, everything stays backed.
LEMMA StillBacked ==
    ASSUME TypeOK, DiskInv, Backed(manifest, latest), UNCHANGED <<files, latest>>
    PROVE  /\ latest' \in Contents /\ durable \in Contents
           /\ \A k \in Prompt : manifest[k] # NoEntry =>
                  files'[manifest[k].path] \in latest'[k]
           /\ disk # Torn => \A k \in Prompt : disk[k] # NoEntry =>
                  files'[disk[k].path] \in durable[k]
  BY DEF TypeOK, DiskInv, Backed

\* A store that is given up leaves both manifests backed by what was known and
\* what is left of it.
LEMMA FailFacts ==
    ASSUME TypeOK, DiskInv, OwnFiles(manifest), Backed(manifest, latest),
           NEW k \in Prompt, NEW c \in Content, FailL2(k, c),
           NEW pending, pending = [durable EXCEPT ![k] = durable[k] \cup Remains(c)]
    PROVE  /\ files' \in [Path -> Text \cup {Empty, Nothing}]
           /\ latest' \in Contents /\ pending \in Contents
           /\ latest' = [latest EXCEPT ![k] = latest[k] \cup Remains(c)]
           /\ \A j \in Prompt : manifest[j] # NoEntry =>
                  files'[manifest[j].path] \in latest'[j]
           /\ disk # Torn => \A j \in Prompt : disk[j] # NoEntry =>
                  files'[disk[j].path] \in pending[j]
<1>1. WriteFails(k, c) /\ latest' = [latest EXCEPT ![k] = latest[k] \cup Remains(c)]
  BY DEF FailL2
<1>2. latest \in Contents /\ durable \in Contents /\ Remains(c) \in SUBSET (Text \cup {Empty})
  BY RemainsType DEF TypeOK
<1>3. /\ latest' \in Contents /\ Remains(c) \subseteq latest'[k]
      /\ \A j \in Prompt : latest[j] \subseteq latest'[j]
  BY <1>1, <1>2 DEF Contents
<1>4. /\ pending \in Contents /\ Remains(c) \subseteq pending[k]
      /\ \A j \in Prompt : durable[j] \subseteq pending[j]
  BY <1>2 DEF Contents
<1>5. /\ files' \in [Path -> Text \cup {Empty, Nothing}]
      /\ \A j \in Prompt : manifest[j] # NoEntry =>
             files'[manifest[j].path] \in latest'[j]
  BY <1>1, <1>3, WriteFailsFacts DEF TypeOK
<1>6. ASSUME disk # Torn
      PROVE  \A j \in Prompt : disk[j] # NoEntry => files'[disk[j].path] \in pending[j]
  <2>1. disk \in Manifest /\ OwnFiles(disk) /\ Backed(disk, durable)
    BY <1>6 DEF TypeOK, DiskInv
  <2> QED
    BY <1>1, <1>4, <2>1, WriteFailsFacts
<1> QED
  BY <1>1, <1>3, <1>4, <1>5, <1>6

-----------------------------------------------------------------------------
(* Steps.                                                                  *)

\* Both kinds of store keep the invariant, whatever fails.
LEMMA StoreStep ==
    ASSUME Inv, NEW k \in Asked, NEW c \in Content,
           store_cache(k, c) \/ store_cache_L1(k, c)
    PROVE  Inv'
<1> USE DEF Inv
<1> DEFINE S == IF store_cache(k, c) THEN {c} \cup Part[c] ELSE {c}
<1>1. k \in Prompt /\ up /\ seen' = [seen EXCEPT ![k] = seen[k] \cup S]
  <2>1. k \in Prompt
    BY DEF Prompt
  <2>2. CASE store_cache(k, c)
    <3>1. up /\ seen' = [seen EXCEPT ![k] = seen[k] \cup {c} \cup Part[c]]
      BY <2>2 DEF store_cache
    <3>2. S = {c} \cup Part[c]
      BY <2>2
    <3> HIDE DEF S
    <3> QED
      BY <2>1, <3>1, <3>2
  <2>3. CASE ~store_cache(k, c)
    <3>1. store_cache_L1(k, c) /\ S = {c}
      BY <2>3
    <3>2. up /\ seen' = [seen EXCEPT ![k] = seen[k] \cup {c}]
      BY <3>1 DEF store_cache_L1
    <3> QED
      BY <2>1, <3>1, <3>2
  <2> QED
    BY <2>2, <2>3
<1>2. /\ seen' \in Contents /\ c \in seen'[k] /\ \A j \in Prompt : seen[j] \subseteq seen'[j]
      /\ store_cache(k, c) => Part[c] \subseteq seen'[k]
  <2>1. /\ S \in SUBSET (Text \cup {Empty}) /\ c \in S
        /\ store_cache(k, c) => Part[c] \subseteq S
    BY MemoryAssumption DEF MemoryAssumption
  <2>2. seen \in Contents
    BY DEF TypeOK
  <2> HIDE DEF S
  <2>3. seen' \in Contents /\ S \subseteq seen'[k] /\ \A j \in Prompt : seen[j] \subseteq seen'[j]
    BY <1>1, <2>1, <2>2 DEF Contents
  <2> QED
    BY <2>1, <2>3
<1> HIDE DEF S
<1>3. CASE store_cache_L1(k, c)
  <2>1. /\ l1' = [l1 EXCEPT ![k] = c]
        /\ UNCHANGED <<up, boot, stats, manifest, disk, files, latest, durable, kept>>
    BY <1>3 DEF store_cache_L1
  <2>2. TypeOK'
    BY <1>1, <1>2, <2>1, MemoryAssumption DEF TypeOK, MemoryAssumption
  <2>3. DiskInv' /\ OwnFiles(manifest)' /\ Backed(manifest, latest)'
    BY <1>1, <2>1 DEF DiskInv, MemoryInv, OwnFiles, Backed
  <2>4. \A j \in Prompt : l1'[j] # Nothing => l1'[j] \in seen'[j]
    BY <1>1, <1>2, <2>1 DEF MemoryInv, TypeOK
  <2> QED
    BY <1>1, <1>2, <2>1, <2>2, <2>3, <2>4 DEF MemoryInv
<1>4. CASE store_cache(k, c) /\ StoreL2(manifest, k, c)
  <2>1. UNCHANGED <<up, boot, l1, stats>>
    BY <1>4 DEF store_cache
  <2>2. /\ files' \in [Path -> Text \cup {Empty, Nothing}]
        /\ latest' \in Contents /\ durable' \in Contents /\ kept' \subseteq Prompt
        /\ manifest' \in Manifest /\ disk' \in Manifest \cup {Torn}
        /\ latest' = [latest EXCEPT ![k] = {c}]
        /\ DiskInv' /\ OwnFiles(manifest)' /\ Backed(manifest, latest)'
    <3>1. manifest \in Manifest /\ OwnFiles(manifest) /\ Backed(manifest, latest)
      BY <1>1 DEF MemoryInv, TypeOK
    <3> QED
      BY <1>1, <1>4, <3>1, StoreFacts
  <2>3. TypeOK'
    BY <1>2, <2>1, <2>2 DEF TypeOK
  <2>4. \A j \in Prompt : latest'[j] \subseteq seen'[j] \cup {Empty}
    BY <1>1, <1>2, <2>2 DEF MemoryInv, TypeOK, Contents
  <2>5. \A j \in Prompt : l1'[j] # Nothing => l1'[j] \in seen'[j]
    BY <1>1, <1>2, <2>1 DEF MemoryInv
  <2> QED
    BY <2>2, <2>3, <2>4, <2>5 DEF MemoryInv
<1>5. CASE /\ store_cache(k, c) /\ FailL2(k, c) /\ UNCHANGED <<manifest, disk, kept>>
           /\ durable' = [durable EXCEPT ![k] = durable[k] \cup Remains(c)]
  <2>1. UNCHANGED <<up, boot, l1, stats>>
    BY <1>5 DEF store_cache
  <2>2. /\ files' \in [Path -> Text \cup {Empty, Nothing}]
        /\ latest' \in Contents /\ durable' \in Contents
        /\ latest' = [latest EXCEPT ![k] = latest[k] \cup Remains(c)]
        /\ \A j \in Prompt : manifest[j] # NoEntry =>
               files'[manifest[j].path] \in latest'[j]
        /\ disk # Torn => \A j \in Prompt : disk[j] # NoEntry =>
               files'[disk[j].path] \in durable'[j]
    BY <1>1, <1>5, FailFacts DEF MemoryInv
  <2>3. TypeOK'
    BY <1>1, <1>2, <1>5, <2>1, <2>2 DEF TypeOK
  <2>4. DiskInv'
    BY <1>5, <2>2 DEF DiskInv, OwnFiles, Backed
  <2>5. OwnFiles(manifest)' /\ Backed(manifest, latest)'
    BY <1>1, <1>5, <2>2 DEF MemoryInv, OwnFiles, Backed
  <2>6. \A j \in Prompt : latest'[j] \subseteq seen'[j] \cup {Empty}
    BY <1>1, <1>2, <1>5, <2>2 DEF MemoryInv, TypeOK, Contents, Remains
  <2>7. \A j \in Prompt : l1'[j] # Nothing => l1'[j] \in seen'[j]
    BY <1>1, <1>2, <2>1 DEF MemoryInv
  <2> QED
    BY <2>3, <2>4, <2>5, <2>6, <2>7 DEF MemoryInv
<1> QED
  BY <1>3, <1>4, <1>5 DEF store_cache

\* What a lookup puts into L1 it has just read, or stores to L2 as well.
LEMMA LookupStep ==
    ASSUME Inv, NEW p \in Asked, NEW runtime \in DOMAIN Threshold,
           HitL2(p, runtime) \/ HitIndex(p, runtime) \/ Miss(p, runtime)
    PROVE  Inv'
<1> USE DEF Inv
<1>1. up /\ up' = up /\ boot' = boot
  BY DEF HitL2, HitIndex, PastL2, Miss
<1>2. OwnFiles(manifest) /\ Backed(manifest, latest)
  BY <1>1 DEF MemoryInv
<1>3. InL2(p, runtime) \in SUBSET {i \in Prompt : manifest[i] # NoEntry}
  BY DEF InL2, Similar
<1> DEFINE pending(k) == [durable EXCEPT ![k] = durable[k] \cup Remains(IndexOf[k])]
<1>4. CASE HitL2(p, runtime)
  <2>1. PICK k \in InL2(p, runtime) :
          /\ Readable(k)
          /\ \E tried \in SUBSET {i \in InL2(p, runtime) : ~Readable(i)} :
                SaveCounts(tried \cup {k}, durable)
          /\ Promote(k, Read(k), manifest[k].access_count + 1)
    BY <1>4 DEF HitL2
  <2>2. PICK tried \in SUBSET {i \in InL2(p, runtime) : ~Readable(i)} :
          SaveCounts(tried \cup {k}, durable)
    BY <2>1
  <2>3. UNCHANGED <<stats, files, latest, seen>>
    BY <1>4 DEF HitL2
  <2>4. latest' = latest
    BY <2>3
  <2>5. /\ durable' \in Contents /\ kept' \subseteq Prompt
        /\ manifest' \in Manifest /\ disk' \in Manifest \cup {Torn}
        /\ DiskInv' /\ OwnFiles(manifest)' /\ Backed(manifest, latest)'
    BY <1>2, <1>3, <2>2, <2>3, StillBacked, SaveCountsFacts
  <2>6. k \in Prompt /\ Read(k) \in Text /\ Read(k) \in seen[k]
    <3>1. k \in Prompt /\ manifest[k] # NoEntry /\ Read(k) \in Text
      BY <1>3, <2>1 DEF Readable
    <3>2. Read(k) \in latest[k]
      BY <1>2, <3>1 DEF Backed, Read
    <3> QED
      BY <1>1, <3>1, <3>2, MemoryAssumption DEF MemoryInv, MemoryAssumption
  <2>7. l1' = l1 \/ l1' = [l1 EXCEPT ![k] = Read(k)]
    BY <2>1 DEF Promote
  <2>8. TypeOK'
    BY <1>1, <2>3, <2>4, <2>5, <2>6, <2>7 DEF TypeOK
  <2>9. \A j \in Prompt : l1'[j] # Nothing => l1'[j] \in seen'[j]
    BY <1>1, <2>3, <2>6, <2>7 DEF MemoryInv, TypeOK
  <2> QED
    BY <1>1, <2>3, <2>4, <2>5, <2>8, <2>9 DEF MemoryInv
<1>5. CASE HitIndex(p, runtime)
  <2>1. PICK k \in InIndex(p, runtime) :
          /\ stats' = [stats EXCEPT ![k] = AtMost(stats[k] + 1, PromoteAt)]
          /\ Promote(k, IndexOf[k], stats'[k])
          /\ IF stats'[k] < PromoteAt
             THEN UNCHANGED <<files, latest, seen>> /\ SaveCounts(InL2(p, runtime), durable)
             ELSE /\ seen' = [seen EXCEPT ![k] =
                                seen[k] \cup {IndexOf[k]} \cup Part[IndexOf[k]]]
                  /\ \/ StoreL2(Counted(InL2(p, runtime)), k, IndexOf[k])
                     \/ FailL2(k, IndexOf[k]) /\ SaveCounts(InL2(p, runtime), pending(k))
    BY <1>5 DEF HitIndex
  <2>2. k \in BuiltIn /\ k \in Prompt /\ IndexOf[k] \in Content
    BY MemoryAssumption DEF InIndex, Prompt, MemoryAssumption
  <2>3. stats' \in [BuiltIn -> 0..PromoteAt] /\ stats'[k] \in 0..PromoteAt
    <3>1. AtMost(stats[k] + 1, PromoteAt) \in 0..PromoteAt
      BY <2>2, MemoryAssumption DEF MemoryAssumption, AtMost, TypeOK
    <3> QED
      BY <2>1, <2>2, <3>1 DEF TypeOK
  <2>4. CASE stats'[k] < PromoteAt
    <3>1. /\ SaveCounts(InL2(p, runtime), durable)
          /\ UNCHANGED <<files, latest, seen>> /\ l1' = l1
      BY <2>1, <2>3, <2>4, MemoryAssumption DEF Promote, MemoryAssumption
    <3>2. latest' = latest
      BY <3>1
    <3>3. /\ durable' \in Contents /\ kept' \subseteq Prompt
          /\ manifest' \in Manifest /\ disk' \in Manifest \cup {Torn}
          /\ DiskInv' /\ OwnFiles(manifest)' /\ Backed(manifest, latest)'
      BY <1>2, <1>3, <3>1, StillBacked, SaveCountsFacts
    <3> QED
      BY <1>1, <2>3, <3>1, <3>2, <3>3 DEF TypeOK, MemoryInv
  <2>5. CASE ~(stats'[k] < PromoteAt)
    <3>1. /\ seen' = [seen EXCEPT ![k] = seen[k] \cup {IndexOf[k]} \cup Part[IndexOf[k]]]
          /\ \/ StoreL2(Counted(InL2(p, runtime)), k, IndexOf[k])
             \/ FailL2(k, IndexOf[k]) /\ SaveCounts(InL2(p, runtime), pending(k))
      BY <2>1, <2>5
    <3>2. l1' = l1 \/ l1' = [l1 EXCEPT ![k] = IndexOf[k]]
      BY <2>1 DEF Promote
    <3>3. /\ seen' \in Contents /\ {IndexOf[k]} \cup Part[IndexOf[k]] \subseteq seen'[k]
          /\ \A j \in Prompt : seen[j] \subseteq seen'[j]
      <4> DEFINE S == {IndexOf[k]} \cup Part[IndexOf[k]]
      <4>1. S \in SUBSET (Text \cup {Empty})
        BY <2>2, MemoryAssumption DEF MemoryAssumption
      <4>2. seen' = [seen EXCEPT ![k] = seen[k] \cup S] /\ seen \in Contents
        BY <3>1 DEF TypeOK
      <4> HIDE DEF S
      <4>3. /\ seen' \in Contents /\ S \subseteq seen'[k]
            /\ \A j \in Prompt : seen[j] \subseteq seen'[j]
        BY <2>2, <4>1, <4>2 DEF Contents
      <4> QED
        BY <4>3 DEF S
    <3>4. \A j \in Prompt : l1'[j] # Nothing => l1'[j] \in seen'[j]
      BY <1>1, <2>2, <3>2, <3>3 DEF MemoryInv, TypeOK
    <3>5. CASE StoreL2(Counted(InL2(p, runtime)), k, IndexOf[k])
      <4>1. /\ Counted(InL2(p, runtime)) \in Manifest
            /\ OwnFiles(Counted(InL2(p, runtime)))
            /\ Backed(Counted(InL2(p, runtime)), latest)
        BY <1>2, <1>3, CountedFacts DEF Backed
      <4>2. /\ files' \in [Path -> Text \cup {Empty, Nothing}]
            /\ latest' \in Contents /\ durable' \in Contents /\ kept' \subseteq Prompt
            /\ manifest' \in Manifest /\ disk' \in Manifest \cup {Torn}
            /\ latest' = [latest EXCEPT ![k] = {IndexOf[k]}]
            /\ DiskInv' /\ OwnFiles(manifest)' /\ Backed(manifest, latest)'
        BY <2>2, <3>5, <4>1, StoreFacts
      <4>3. \A j \in Prompt : latest'[j] \subseteq seen'[j] \cup {Empty}
        BY <1>1, <2>2, <3>3, <4>2 DEF MemoryInv, TypeOK, Contents
      <4>4. TypeOK'
        BY <1>1, <2>2, <2>3, <3>2, <3>3, <4>2, MemoryAssumption DEF TypeOK, MemoryAssumption
      <4> QED
        BY <3>4, <4>2, <4>3, <4>4 DEF MemoryInv
    <3>6. CASE FailL2(k, IndexOf[k]) /\ SaveCounts(InL2(p, runtime), pending(k))
      <4>1. /\ files' \in [Path -> Text \cup {Empty, Nothing}]
            /\ latest' \in Contents /\ pending(k) \in Contents
            /\ latest' = [latest EXCEPT ![k] = latest[k] \cup Remains(IndexOf[k])]
            /\ \A j \in Prompt : manifest[j] # NoEntry =>
                   files'[manifest[j].path] \in latest'[j]
            /\ disk # Torn => \A j \in Prompt : disk[j] # NoEntry =>
                   files'[disk[j].path] \in pending(k)[j]
        BY <1>2, <2>2, <3>6, FailFacts
      <4> HIDE DEF pending
      <4>3. /\ durable' \in Contents /\ kept' \subseteq Prompt
            /\ manifest' \in Manifest /\ disk' \in Manifest \cup {Torn}
            /\ DiskInv' /\ OwnFiles(manifest)' /\ Backed(manifest, latest)'
        BY <1>2, <1>3, <3>6, <4>1, SaveCountsFacts
      <4>4. \A j \in Prompt : latest'[j] \subseteq seen'[j] \cup {Empty}
        BY <1>1, <2>2, <3>3, <4>1 DEF MemoryInv, TypeOK, Contents, Remains
      <4>5. TypeOK'
        BY <1>1, <2>2, <2>3, <3>2, <3>3, <4>1, <4>3, MemoryAssumption
           DEF TypeOK, MemoryAssumption
      <4> QED
        BY <3>4, <4>3, <4>4, <4>5 DEF MemoryInv
    <3> QED
      BY <3>1, <3>5, <3>6
  <2> QED
    BY <2>4, <2>5
<1>6. CASE Miss(p, runtime)
  <2>1. SaveCounts(InL2(p, runtime), durable) /\ UNCHANGED <<l1, stats, files, latest, seen>>
    BY <1>6 DEF Miss
  <2>2. latest' = latest
    BY <2>1
  <2>3. /\ durable' \in Contents /\ kept' \subseteq Prompt
        /\ manifest' \in Manifest /\ disk' \in Manifest \cup {Torn}
        /\ DiskInv' /\ OwnFiles(manifest)' /\ Backed(manifest, latest)'
    BY <1>2, <1>3, <2>1, StillBacked, SaveCountsFacts
  <2> QED
    BY <1>1, <2>1, <2>2, <2>3 DEF TypeOK, MemoryInv
<1> QED
  BY <1>4, <1>5, <1>6

\* Whatever a kill cuts short, the disk keeps a manifest that is backed, or none.
LEMMA CrashStep == Inv /\ Crash => Inv'
<1> SUFFICES ASSUME Inv, Crash
             PROVE  Inv'
  OBVIOUS
<1> USE DEF Inv
<1>1. up' = FALSE /\ UNCHANGED <<boot, l1, stats, manifest, latest, seen, kept>>
  BY DEF Crash
<1>2. CASE UNCHANGED <<disk, files, durable>>
  BY <1>1, <1>2 DEF TypeOK, DiskInv, MemoryInv, OwnFiles, Backed
<1>3. CASE CrashInSave
  BY <1>1, <1>3 DEF CrashInSave, TypeOK, DiskInv, MemoryInv
<1>4. ASSUME NEW k \in Prompt, NEW c \in Content, CrashInStore(k, c)
      PROVE  Inv'
  <2>1. /\ durable' = [durable EXCEPT ![k] = durable[k] \cup ({c} \cup Remains(c))]
        /\ disk' \in {disk, Torn}
    BY <1>4 DEF CrashInStore, TypeOK, Contents
  <2>2. /\ durable' \in Contents /\ {c} \cup Remains(c) \subseteq durable'[k]
        /\ \A j \in Prompt : durable[j] \subseteq durable'[j]
    <3> DEFINE S == {c} \cup Remains(c)
    <3>1. S \in SUBSET (Text \cup {Empty})
      BY RemainsType, MemoryAssumption DEF MemoryAssumption
    <3>2. durable' = [durable EXCEPT ![k] = durable[k] \cup S] /\ durable \in Contents
      BY <2>1 DEF TypeOK
    <3> HIDE DEF S
    <3>3. /\ durable' \in Contents /\ S \subseteq durable'[k]
          /\ \A j \in Prompt : durable[j] \subseteq durable'[j]
      BY <3>1, <3>2 DEF Contents
    <3> QED
      BY <3>3 DEF S
  <2>4. files' \in [Path -> Text \cup {Empty, Nothing}]
    <3>1. CASE WriteFails(k, c)
      BY <2>2, <3>1, WriteFailsFacts
    <3>2. CASE Writes(k, c)
      BY <3>2, PathFacts, MemoryAssumption DEF Writes, TypeOK, MemoryAssumption
    <3> QED
      BY <1>4, <3>1, <3>2 DEF CrashInStore, Writes
  <2>5. ASSUME disk # Torn, NEW j \in Prompt, disk[j] # NoEntry
        PROVE  files'[disk[j].path] \in durable'[j]
    <3>1. disk \in Manifest /\ OwnFiles(disk) /\ Backed(disk, durable)
      BY <2>5 DEF DiskInv, TypeOK
    <3>2. CASE WriteFails(k, c)
      BY <2>2, <2>5, <3>1, <3>2, WriteFailsFacts
    <3>3. CASE Writes(k, c)
      BY <2>2, <2>5, <3>1, <3>3, WriteFacts
    <3> QED
      BY <1>4, <3>2, <3>3 DEF CrashInStore, Writes
  <2>6. DiskInv'
    BY <1>1, <2>1, <2>5 DEF DiskInv, OwnFiles, Backed
  <2> QED
    BY <1>1, <2>1, <2>2, <2>4, <2>6 DEF TypeOK, MemoryInv
<1>5. \A k \in BuiltIn : IndexOf[k] \in Content
  BY MemoryAssumption DEF MemoryAssumption
<1> QED
  BY <1>2, <1>3, <1>4, <1>5 DEF Crash, Prompt

\* What a restart loads is backed by what may be found.
LEMMA RestartStep == Inv /\ Restart => Inv'
<1> SUFFICES ASSUME Inv, Restart
             PROVE  Inv'
  OBVIOUS
<1> USE DEF Inv
<1>1. /\ up' = TRUE /\ boot' = boot + 1 /\ boot < MaxBoots
      /\ l1' = [k \in Prompt |-> Nothing] /\ stats' = [k \in BuiltIn |-> 0]
      /\ latest' = durable' /\ seen' = durable' /\ UNCHANGED <<disk, files>>
  BY DEF Restart
<1>2. boot' \in Boot
  BY <1>1, MemoryAssumption DEF MemoryAssumption, Boot, TypeOK
<1>3. stats' \in [BuiltIn -> 0..PromoteAt]
  BY <1>1, MemoryAssumption DEF MemoryAssumption
<1>4. CASE disk = Torn
  <2>1. /\ manifest' = NoManifest /\ durable' = [k \in Prompt |-> {}] /\ kept' = {}
    BY <1>4 DEF Restart
  <2>2. \A k \in Prompt : manifest'[k] = NoEntry
    BY <2>1 DEF NoManifest
  <2>3. TypeOK'
    BY <1>1, <1>2, <1>3, <2>1 DEF TypeOK, NoManifest, Manifest, Contents
  <2> QED
    BY <1>1, <1>4, <2>1, <2>2, <2>3 DEF DiskInv, MemoryInv, OwnFiles, Backed
<1>5. CASE disk # Torn
  <2>1. manifest' = disk /\ durable' = durable /\ kept' = kept
    BY <1>5 DEF Restart
  <2>2. TypeOK'
    BY <1>1, <1>2, <1>3, <1>5, <2>1 DEF TypeOK
  <2> QED
    BY <1>1, <1>5, <2>1, <2>2 DEF DiskInv, MemoryInv, OwnFiles, Backed
<1> QED
  BY <1>4, <1>5

\* The invariant holds initially.
LEMMA InvInit == Init => Inv
<1> SUFFICES ASSUME Init
             PROVE  Inv
  OBVIOUS
<1>1. \A k \in Prompt : NoManifest[k] = NoEntry
  BY DEF NoManifest
<1>2. 1 \in Boot
  <2>1. MaxBoots \in Nat /\ MaxBoots >= 1
    BY MemoryAssumption DEF MemoryAssumption
  <2> QED
    BY <2>1 DEF Boot
<1>3. stats \in [BuiltIn -> 0..PromoteAt]
  BY MemoryAssumption DEF Init, MemoryAssumption
<1>4. manifest \in Manifest /\ disk \in Manifest
  BY DEF Init, NoManifest, Manifest
<1>5. /\ latest \in Contents /\ durable \in Contents /\ seen \in Contents
      /\ \A k \in Prompt : latest[k] = {} /\ l1[k] = Nothing
  BY DEF Init, Contents
<1>6. TypeOK
  BY <1>2, <1>3, <1>4, <1>5 DEF Init, TypeOK
<1> QED
  BY <1>1, <1>5, <1>6 DEF Init, Inv, DiskInv, MemoryInv, OwnFiles, Backed

\* Each step keeps it.
LEMMA InvStep == Inv /\ [Next]_vars => Inv'
<1> SUFFICES ASSUME Inv, [Next]_vars
             PROVE  Inv'
  OBVIOUS
<1>1. CASE UNCHANGED vars
  BY <1>1 DEF vars, Inv, TypeOK, DiskInv, MemoryInv, OwnFiles, Backed
<1>2. ASSUME NEW p, NEW runtime, HitL1(p, runtime)
      PROVE  UNCHANGED vars
  BY <1>2 DEF HitL1
<1> QED
  BY <1>1, <1>2, StoreStep, LookupStep, CrashStep, RestartStep DEF Next

-----------------------------------------------------------------------------
(* Theorems.                                                               *)

\* It holds in every reachable state.
LEMMA InvCorrect == Spec => []Inv
  BY InvInit, InvStep, PTL DEF Spec

\* THEOREM: every variable stays in its range.
THEOREM TypeCorrect == Spec => []TypeOK
<1>1. Inv => TypeOK
  BY DEF Inv
<1> QED
  BY <1>1, InvCorrect, PTL

\* THEOREM: L2 has what was last stored, or what is left of a store that has
\* failed since; L1 nothing that was replaced before the process was started.
THEOREM StalenessBounded == Spec => []StalenessEndsAtRestart
<1>1. Inv => StalenessEndsAtRestart
  BY DEF Inv, MemoryInv, Backed, Read, StalenessEndsAtRestart
<1> QED
  BY <1>1, InvCorrect, PTL

\* THEOREM: while the manifest on disk can be read, what was stored before it was
\* saved is found in the files it names, however often the process is killed, save
\* for keys whose later stores were cut short: those have what these left.
THEOREM StoresSurvive == Spec => []ReturnedStoresSurvive
<1>1. Inv => ReturnedStoresSurvive
  BY DEF Inv, TypeOK, DiskInv, Backed, ReturnedStoresSurvive
<1> QED
  BY <1>1, InvCorrect, PTL

=============================================================================
