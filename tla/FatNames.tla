------------------------------ MODULE FatNames ------------------------------
(* Long file names in a FAT directory (fs/fat/fs_fat32dirent.c): a name is a *)
(* run of entries that hold its parts from the last to the first, followed   *)
(* by the entry of a short alias whose checksum ties the run together.  The  *)
(* directory is a list of entries in clusters; it grows by a cluster.        *)
EXTENDS Naturals, Sequences, FiniteSets

CONSTANTS
  LongNames,     \* long names, as lists of parts (13 characters each)
  ShortNames,    \* names that are short names already
  StemOf,        \* StemOf[name]: the base fat_createalias makes for a name
  PerSector,     \* entries in a sector
  PerCluster,    \* entries in a cluster
  Clusters,      \* clusters a directory can grow to: a bound
  Checksums,     \* values of the checksum of a short name: a byte in the code
  PowerLosses    \* creations cut by a loss of power: a bound

ASSUME FatAssumption ==
  /\ PerSector \in Nat \ {0} /\ PerCluster \in Nat \ {0} /\ Clusters \in Nat \ {0}
  /\ Checksums \in Nat \ {0} /\ PowerLosses \in Nat
  /\ \A name \in LongNames : /\ Len(name) \in Nat \ {0}
                             /\ name = [j \in 1 .. Len(name) |-> name[j]]
  /\ LongNames \cap ShortNames = {}

VARIABLES
  dir,       \* the entries of the directory
  made,      \* the names that were created and not removed
  cut        \* the names whose creation was cut

fatVars == <<dir, made, cut>>

End  == [kind |-> "end"]
FreePart == [kind |-> "free"]
Sfn(alias, name) == [kind |-> "sfn", alias |-> alias, name |-> name]
Available(e) == e.kind \in {"end", "free"}

(* The checksum of a short name is a byte: with fewer values than numbers,    *)
(* different names share it.                                                 *)
fat_lfnchecksum(alias) == alias.number % Checksums

ClusterOf(i) == (i - 1) \div PerCluster
NoEntry == 0

FatInit == /\ dir = [i \in 1 .. PerCluster |-> End]
           /\ made = {} /\ cut = {}

-----------------------------------------------------------------------------
(* Finding.                                                                  *)

fat_cmplfname(e, part) == e.part = part

(* A mistake that would be easy to make here; the properties exclude it:     *)
(* whatever short entry follows the parts is taken for theirs.               *)
SumFits_any(alias, sum) == TRUE
SumFits(alias, sum) == fat_lfnchecksum(alias) = sum

(* fat_findlfnentry: the parts are looked for in order; whatever does not    *)
(* fit starts the search over at the next entry, and the entry after the     *)
(* first part must have the checksum of the run.                             *)
LfnStep(name, found, i) ==
  LET e == dir[i]
      n == Len(name)
      fits == /\ e.kind = "lfn" /\ e.seq = found.want /\ ~e.last
              /\ e.sum = found.sum /\ fat_cmplfname(e, name[found.want])
      begins == /\ e.kind = "lfn" /\ e.seq = n /\ e.last /\ fat_cmplfname(e, name[n])
      over == [found EXCEPT !.want = n]
      begun == [found EXCEPT !.want = n - 1, !.lfn = i, !.sum = e.sum]
  IN IF found.end THEN found
     ELSE IF found.want = 0 /\ e.kind = "sfn" /\ SumFits(e.alias, found.sum)
          THEN [found EXCEPT !.sfn = i, !.end = TRUE]
     ELSE IF e.kind = "end" THEN [found EXCEPT !.end = TRUE]
     ELSE IF found.want \in {0, n} THEN IF begins THEN begun ELSE over
     ELSE IF fits THEN [found EXCEPT !.want = @ - 1] ELSE over

Nothing(want) == [want |-> want, sum |-> 0, lfn |-> NoEntry, sfn |-> NoEntry, end |-> FALSE]
Lowest(places) == CHOOSE i \in places : \A j \in places : i <= j

fat_findlfnentry(name) ==
  LET found[i \in 0 .. Len(dir)] ==
        IF i = 0 THEN Nothing(Len(name)) ELSE LfnStep(name, found[i - 1], i)
  IN found[Len(dir)]

(* fat_findsfnentry: the first entry with the alias, unless the end mark     *)
(* comes before it, among the entries at `places`.                           *)
fat_findsfnentry(alias, places) ==
  LET Stops == {i \in places : \/ dir[i].kind = "end"
                               \/ dir[i].kind = "sfn" /\ dir[i].alias = alias}
      i == Lowest(Stops)
  IN IF Stops = {} \/ dir[i].kind = "end" THEN Nothing(0)
     ELSE [Nothing(0) EXCEPT !.lfn = i, !.sfn = i, !.end = TRUE]

AsAlias(short) == [stem |-> short, number |-> 0]
fat_finddirentry(name) ==
  IF name \in LongNames THEN fat_findlfnentry(name)
  ELSE fat_findsfnentry(AsAlias(name), DOMAIN dir)

-----------------------------------------------------------------------------
(* Creating.                                                                 *)

Needed(name) == IF name \in LongNames THEN Len(name) + 1 ELSE 1

(* fat_allocatelfnentry, fat_allocatesfnentry: the first run of available    *)
(* entries that is long enough, or none.                                     *)
Runs(name) == {i \in DOMAIN dir :
                 /\ i + Needed(name) - 1 <= Len(dir)
                 /\ \A j \in i .. i + Needed(name) - 1 : Available(dir[j])}
fat_allocate(name) == IF Runs(name) = {} THEN NoEntry ELSE Lowest(Runs(name))

fat_createalias(name, k) == [stem |-> StemOf[name], number |-> k]

(* fat_uniquealias: the base and the smallest number that fat_findalias      *)
(* does not find.  fat_findalias starts at the first sector of the directory *)
(* with the cluster the new entries are in, so that after the first cluster  *)
(* it goes on behind that one.                                               *)
AliasPlaces(at) == {i \in DOMAIN dir : ClusterOf(i) = 0 \/ ClusterOf(i) > ClusterOf(at)}
Taken(name, at, k) ==
  fat_findsfnentry(fat_createalias(name, k), AliasPlaces(at)).sfn # NoEntry
fat_uniquealias(name, at) ==
  fat_createalias(name, Lowest({k \in 1 .. Len(dir) + 1 : ~Taken(name, at, k)}))

(* fat_putlfname, fat_putsfdirentry: the entries of a name, in the order     *)
(* they are written.                                                         *)
Entries(name, at) ==
  LET alias == fat_uniquealias(name, at)
      Part(j) == Len(name) + 1 - j
      Lfn(j) == [kind |-> "lfn", seq |-> Part(j), last |-> j = 1,
                 sum |-> fat_lfnchecksum(alias), part |-> name[Part(j)]]
  IN IF name \in LongNames
     THEN [j \in 1 .. Len(name) |-> Lfn(j)] \o <<Sfn(alias, name)>>
     ELSE <<Sfn(AsAlias(name), name)>>

Put(entries, at) ==
  [i \in DOMAIN dir |-> IF i \in at .. at + Len(entries) - 1
                        THEN entries[i - at + 1] ELSE dir[i]]

(* fat_allocatedirentry: without room, a cleared cluster is added and the    *)
(* search starts again.                                                      *)
Extends(name) ==
  /\ name \notin made /\ fat_allocate(name) = NoEntry
  /\ Len(dir) < Clusters * PerCluster
  /\ dir' = dir \o [i \in 1 .. PerCluster |-> End]
  /\ UNCHANGED <<made, cut>>

(* fat_dircreate, called when fat_finddirentry found nothing.                *)
fat_dircreate(name) ==
  /\ name \notin made /\ fat_finddirentry(name).sfn = NoEntry
  /\ fat_allocate(name) # NoEntry
  /\ dir' = Put(Entries(name, fat_allocate(name)), fat_allocate(name))
  /\ made' = made \cup {name}
  /\ UNCHANGED cut

(* The power fails while a name is created: only the sectors that were left  *)
(* behind, when the next one was read into the cache, are on the medium.     *)
PowerFails(name) ==
  LET at == fat_allocate(name)
      Sector(i) == (i - 1) \div PerSector
  IN /\ name \notin made /\ fat_finddirentry(name).sfn = NoEntry
     /\ Cardinality(cut) < PowerLosses
     /\ at # NoEntry
     /\ \E k \in 1 .. Needed(name) - 1 :
          /\ Sector(at + k - 1) # Sector(at + k)
          /\ dir' = Put(SubSeq(Entries(name, at), 1, k), at)
     /\ cut' = cut \cup {name}
     /\ UNCHANGED made

-----------------------------------------------------------------------------
(* Removing: fat_remove frees the entries from the first of the run to the   *)
(* short one (fat_freedirentry), and the file whose short entry it is goes.  *)
Emptied(from, to) ==
  [i \in DOMAIN dir |-> IF i \in from .. to THEN FreePart ELSE dir[i]]
fat_freedirentry(found) == Emptied(found.lfn, found.sfn)

fat_remove(name) ==
  LET found == fat_finddirentry(name)
  IN /\ found.sfn # NoEntry
     /\ dir' = fat_freedirentry(found)
     /\ made' = made \ {dir[found.sfn].name}
     /\ UNCHANGED cut

FatNext == \E name \in LongNames \cup ShortNames :
             \/ Extends(name) \/ fat_dircreate(name) \/ PowerFails(name)
             \/ fat_remove(name)

FatSpec == FatInit /\ [][FatNext]_fatVars

-----------------------------------------------------------------------------
(* fat_getlfname: the name that the run beginning at an entry spells, or     *)
(* nothing when the run is not whole.                                        *)
fat_getlfname(i) ==
  LET n == dir[i].seq
      run == SubSeq(dir, i, i + n - 1)
      whole == /\ i + n <= Len(dir)
               /\ \A j \in 1 .. n : /\ run[j].kind = "lfn" /\ run[j].seq = n + 1 - j
                                    /\ run[j].sum = dir[i].sum
               /\ dir[i + n].kind = "sfn"
               /\ fat_lfnchecksum(dir[i + n].alias) = dir[i].sum
  IN IF whole THEN [j \in 1 .. n |-> run[n + 1 - j].part] ELSE <<>>

Listed == {fat_getlfname(i) : i \in {k \in DOMAIN dir : dir[k].kind = "lfn" /\ dir[k].last}}

FatTypeOK ==
  /\ Len(dir) \in {c * PerCluster : c \in 1 .. Clusters}
  /\ \A i \in DOMAIN dir : dir[i].kind \in {"end", "free", "sfn", "lfn"}
  /\ made \subseteq LongNames \cup ShortNames

(* The parts that a cut creation left behind can hide a name that ends with  *)
(* the same part and is put right after them; no other name is affected.     *)
Hidden(name) ==
  \E other \in cut \cap LongNames :
    name \in LongNames /\ name[Len(name)] = other[Len(other)]

(* Whatever was created, removed and cut before, every name that was created *)
(* is found, at the entry of its own file, a name that was not is not, and   *)
(* the listing shows the long names that are there.  Even a name that a cut  *)
(* hides leads to a file of another name only if the checksum of that file's *)
(* short name is the one in the parts (fat_findlfnentry, fat_getlfname       *)
(* against fat_allocatelfnentry, fat_putlfname, fat_freedirentry).           *)
NamesAreFound ==
  \A name \in LongNames \cup ShortNames :
    LET found == fat_finddirentry(name) IN
    /\ ~Hidden(name) =>
         /\ name \in made <=> found.sfn # NoEntry
         /\ name \in made => dir[found.sfn].name = name
         /\ name \in LongNames => (name \in made <=> name \in Listed)
    /\ found.sfn # NoEntry /\ dir[found.sfn].name # name =>
         fat_lfnchecksum(dir[found.sfn].alias) = dir[found.lfn].sum

(* No two entries of a directory have the same short name (the comment of    *)
(* fat_uniquealias: the alias is modified to assure uniqueness).             *)
AliasesAreUnique ==
  \A i, j \in DOMAIN dir :
    dir[i].kind = "sfn" /\ dir[j].kind = "sfn" /\ dir[i].alias = dir[j].alias => i = j
=============================================================================
