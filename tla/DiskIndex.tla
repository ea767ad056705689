------------------------------ MODULE DiskIndex ------------------------------
(***************************************************************************)
(* The packed source store of a search session (search_index.rs,           *)
(* DiskIndex).                                                             *)
(*                                                                         *)
(* Every class that was rendered leaves an entry: a filter that can reject *)
(* a query without the source, and, while there is room, the source itself *)
(* as a record in one packed file.  Removed records leave free extents     *)
(* that later records reuse, first fit first; neighbouring extents are     *)
(* merged and the end of the file is given back.  All of this is memory of *)
(* one session: the file is private, so anything wrong in it is damage     *)
(* from outside, which a digest detects when a record is loaded.           *)
(*                                                                         *)
(* The search session that owns the index runs one operation at a time.    *)
(***************************************************************************)
EXTENDS ChargeSum

CONSTANTS
  Keys,         \* SearchTarget: the classes
  Nobody,       \* content of a position that no record wrote, or none at all
  RecordSizes,  \* the sizes of encoded records
  FilterSizes,  \* the sizes of filters
  BaseMetadata, \* ENTRY_BASE_METADATA and the name of the class
  DocLimit, DiskLimit, MetaLimit, EntryLimit

ASSUME DiskAssumption ==
  /\ IsFiniteSet(Keys) /\ Nobody \notin Keys
  /\ RecordSizes \subseteq Nat \ {0} /\ FilterSizes \subseteq Nat
  /\ BaseMetadata \in Nat \ {0}
  /\ DocLimit \in Nat /\ DiskLimit \in Nat /\ MetaLimit \in Nat /\ EntryLimit \in Nat

VARIABLES
  entries,   \* the entry of each key; an absent one has no metadata
  free,      \* the free extents
  storeLen,  \* where the next record is appended
  bytes,     \* the bytes of all records
  metadata,  \* the bytes of all filters and entries
  opened,    \* whether the packed file exists
  cells,     \* what each position of the file holds: a part of a key's record
  damaged    \* history: the file was touched from outside

book == <<entries, free, storeLen, bytes, metadata>>
diskVars == <<book, opened, cells, damaged>>

Position == 0 .. DiskLimit - 1
Extent == [offset : 0 .. DiskLimit, bytes : 1 .. DiskLimit]
Entry == [offset : 0 .. DiskLimit, bytes : 0 .. DiskLimit, metadata : Nat, filter : BOOLEAN]

Absent == [offset |-> 0, bytes |-> 0, metadata |-> 0, filter |-> FALSE]

DiskTypeOK ==
  /\ entries \in [Keys -> Entry]
  /\ free \subseteq Extent
  /\ storeLen \in 0 .. DiskLimit
  /\ bytes \in Nat /\ metadata \in Nat
  /\ opened \in BOOLEAN /\ damaged \in BOOLEAN
  /\ cells \in [Position -> Keys \cup {Nobody}]

DiskInit ==
  /\ entries = [k \in Keys |-> Absent]
  /\ free = {}
  /\ storeLen = 0
  /\ bytes = 0 /\ metadata = 0
  /\ opened = FALSE
  /\ cells = [p \in Position |-> Nobody]
  /\ damaged = FALSE

Present == { k \in Keys : entries[k].metadata # 0 }

-----------------------------------------------------------------------------
(* Extents *)

End(e) == e.offset + e.bytes

\* The nearest free extent below an offset, and the nearest from an offset on.
Below(extents, offset) ==
  { e \in extents : /\ e.offset < offset
                    /\ \A f \in extents : f.offset < offset => f.offset <= e.offset }

From(extents, offset) ==
  { e \in extents : /\ e.offset >= offset
                    /\ \A f \in extents : f.offset >= offset => e.offset <= f.offset }

\* Fault: the extent above is not merged.
RightMissedMutant(extents, e) == {}

\* The free neighbours that an extent is merged with.
Left(extents, e) == { f \in Below(extents, e.offset) : End(f) = e.offset }
Right(extents, e) == { f \in From(extents, e.offset) : f.offset = End(e) }

Unmerged(extents, e) == extents \ (Left(extents, e) \cup Right(extents, e))

Merged(extents, e) ==
  [offset |-> IF Left(extents, e) = {} THEN e.offset
              ELSE (CHOOSE f \in Left(extents, e) : TRUE).offset,
   bytes |-> e.bytes + (IF Left(extents, e) = {} THEN 0
                        ELSE (CHOOSE f \in Left(extents, e) : TRUE).bytes)
                     + (IF Right(extents, e) = {} THEN 0
                        ELSE (CHOOSE f \in Right(extents, e) : TRUE).bytes)]

\* release(offset, bytes): a merged extent at the end shortens the store, and
\* the file if that succeeds; another one becomes free.
ReleaseExtent(extents, length, e) ==
  LET merged == Merged(extents, e)
      others == Unmerged(extents, e)
  IN IF End(merged) = length
       THEN [free |-> others, storeLen |-> merged.offset]
       ELSE [free |-> others \cup {merged}, storeLen |-> length]

\* First fit: the lowest free extent that is large enough.
Fitting(size) ==
  { e \in free : /\ e.bytes >= size
                 /\ \A f \in free : f.bytes >= size => e.offset <= f.offset }

\* Fault: the rest of a reused extent still covers the record.
RestOverlapsMutant(e, size) ==
  IF e.bytes > size THEN {[offset |-> e.offset, bytes |-> e.bytes - size]} ELSE {}

Rest(e, size) ==
  IF e.bytes > size THEN {[offset |-> e.offset + size, bytes |-> e.bytes - size]} ELSE {}

\* Fault: the bytes fit in total, so the record is appended wherever the file ends.
PlacementsMutant(size) ==
  IF Fitting(size) # {}
    THEN { [offset |-> e.offset, free |-> (free \ {e}) \cup Rest(e, size), storeLen |-> storeLen] :
             e \in Fitting(size) }
    ELSE {[offset |-> storeLen, free |-> free, storeLen |-> storeLen + size]}

\* Where a record of this size goes, and what is left free then.
Placements(size) ==
  IF Fitting(size) # {}
    THEN { [offset |-> e.offset, free |-> (free \ {e}) \cup Rest(e, size), storeLen |-> storeLen] :
             e \in Fitting(size) }
    ELSE IF storeLen + size <= DiskLimit
      THEN {[offset |-> storeLen, free |-> free, storeLen |-> storeLen + size]}
      ELSE {}

-----------------------------------------------------------------------------
(* Insertion *)

\* An entry is only made for a new key, and within the limits.  A filter that
\* would exceed its limit is dropped, and so is the entry if that is not enough.
Filter(size) == IF metadata + BaseMetadata + size > MetaLimit THEN 0 ELSE size

Admitted(k, size) ==
  /\ k \notin Present
  /\ Cardinality(Present) < EntryLimit
  /\ metadata < MetaLimit
  /\ metadata + BaseMetadata + Filter(size) <= MetaLimit

\* The entry, which claims no record yet.
NewEntry(size) ==
  [offset |-> 0, bytes |-> 0, metadata |-> BaseMetadata + Filter(size), filter |-> Filter(size) > 0]

\* Whether the record may be stored.
Storable(record) ==
  /\ bytes < DiskLimit
  /\ record <= DocLimit
  /\ bytes + record <= DiskLimit

\* The entry without its record: the record may not be stored, the file cannot
\* be created, or no place is large enough.
InsertFilter(k, filter, record) ==
  /\ Admitted(k, filter)
  /\ ~Storable(record) \/ ~opened \/ Placements(record) = {}
  /\ entries' = [entries EXCEPT ![k] = NewEntry(filter)]
  /\ metadata' = metadata + NewEntry(filter).metadata
  /\ UNCHANGED <<free, storeLen, bytes, opened, cells, damaged>>

\* The first n bytes of a record are written.
Written(k, offset, n) ==
  [p \in Position |-> IF p \in offset .. offset + n - 1 THEN k ELSE cells[p]]

\* The file is cut off, unless that fails.
Cut(contents, length) ==
  { contents, [p \in Position |-> IF p < length THEN contents[p] ELSE Nobody] }

Insert(k, filter, record) ==
  /\ Admitted(k, filter)
  /\ Storable(record)
  /\ \E place \in Placements(record) :
       /\ entries' = [entries EXCEPT ![k] =
                        [NewEntry(filter) EXCEPT !.offset = place.offset, !.bytes = record]]
       /\ free' = place.free
       /\ storeLen' = place.storeLen
       /\ cells' = Written(k, place.offset, record)
  /\ metadata' = metadata + NewEntry(filter).metadata
  /\ bytes' = bytes + record
  /\ opened' = TRUE
  /\ UNCHANGED damaged

\* release after a failed write.
GivenBack(place, record) ==
  ReleaseExtent(place.free, place.storeLen, [offset |-> place.offset, bytes |-> record])

\* The write fails after n bytes: the place is given back, the entry stays.
InsertFails(k, filter, record) ==
  /\ Admitted(k, filter)
  /\ Storable(record)
  /\ entries' = [entries EXCEPT ![k] = NewEntry(filter)]
  /\ metadata' = metadata + NewEntry(filter).metadata
  /\ \E place \in Placements(record), n \in 0 .. record - 1 :
       /\ free' = GivenBack(place, record).free
       /\ storeLen' = GivenBack(place, record).storeLen
       /\ cells' \in Cut(Written(k, place.offset, n), storeLen')
  /\ opened' = TRUE
  /\ UNCHANGED <<bytes, damaged>>

-----------------------------------------------------------------------------
(* Removal *)

\* remove: when a source was rendered again, or a record could not be read.
Remove(k) ==
  /\ k \in Present
  /\ entries' = [entries EXCEPT ![k] = Absent]
  /\ bytes' = SatSub(bytes, entries[k].bytes)
  /\ metadata' = SatSub(metadata, entries[k].metadata)
  /\ IF entries[k].bytes = 0
       THEN UNCHANGED <<free, storeLen, cells>>
       ELSE LET after == ReleaseExtent(free, storeLen, [offset |-> entries[k].offset,
                                                        bytes |-> entries[k].bytes])
            IN /\ free' = after.free
               /\ storeLen' = after.storeLen
               /\ cells' \in Cut(cells, storeLen')
  /\ UNCHANGED <<opened, damaged>>

\* load: a record whose digest matches is returned and nothing changes; else
\* the whole entry is removed, so that fresh source is rendered.
Readable(k) == \A p \in entries[k].offset .. End(entries[k]) - 1 : cells[p] = k

LoadFails(k) ==
  /\ k \in Present
  /\ entries[k].bytes # 0
  /\ ~Readable(k)
  /\ Remove(k)

\* Another project is opened: the index is replaced by a new one.
Reset ==
  /\ entries' = [k \in Keys |-> Absent]
  /\ free' = {}
  /\ storeLen' = 0
  /\ bytes' = 0 /\ metadata' = 0
  /\ opened' = FALSE
  /\ cells' = [p \in Position |-> Nobody]
  /\ damaged' = FALSE

\* The file is changed or cut off from outside.
Damage ==
  /\ opened
  /\ \E p \in Position : cells[p] # Nobody /\ cells' = [cells EXCEPT ![p] = Nobody]
  /\ damaged' = TRUE
  /\ UNCHANGED <<book, opened>>

DiskNext ==
  \/ \E k \in Keys, filter \in FilterSizes, record \in RecordSizes :
       \/ InsertFilter(k, filter, record)
       \/ Insert(k, filter, record)
       \/ InsertFails(k, filter, record)
  \/ \E k \in Keys : Remove(k) \/ LoadFails(k)
  \/ Reset
  \/ Damage

DiskSpec == DiskInit /\ [][DiskNext]_diskVars

-----------------------------------------------------------------------------
(* Properties *)

Stored == { k \in Keys : entries[k].bytes # 0 }

Inside(e) == e.offset .. End(e) - 1

Disjoint ==
  /\ \A k, l \in Stored : k # l => Inside(entries[k]) \cap Inside(entries[l]) = {}
  /\ \A k \in Stored, e \in free : Inside(entries[k]) \cap Inside(e) = {}
  /\ \A e, f \in free : e # f => Inside(e) \cap Inside(f) = {}

Covered ==
  (UNION { Inside(entries[k]) : k \in Stored }) \cup (UNION { Inside(e) : e \in free })
    = 0 .. storeLen - 1

Coalesced ==
  \A e \in free : End(e) # storeLen /\ \A f \in free : End(e) # f.offset

\* However records come and go and writes fail, the records and the free extents
\* divide the store among them: no record overwrites another one, no position
\* leaks, and free space is never split: no two free extents touch, and none is
\* at the end.
Tiled == Disjoint /\ Covered /\ Coalesced

\* Both counters are exact and within their limits, and so is the file, also when the
\* bytes of all records leave room for one more but the free space is in pieces.
StoreAccounted ==
  /\ bytes = Total([k \in Keys |-> entries[k].bytes])
  /\ metadata = Total([k \in Keys |-> entries[k].metadata])
  /\ bytes <= DiskLimit /\ metadata <= MetaLimit /\ storeLen <= DiskLimit

\* Without damage from outside every record that was stored can be loaded, and
\* what is loaded is that record.
RecordsIntact == ~damaged => \A k \in Stored : Readable(k)
=============================================================================
