-------------------------------- MODULE PetitFat --------------------------------
(***************************************************************************)
(* The FAT32 reader of the bootloader (petit_fatfs/pff.c as configured:     *)
(* reading only, FAT32 only): mounting a card, following a path through     *)
(* chained directories, and reading a file in pieces.  One step reads the   *)
(* card once (disk_readp), and the card may refuse (diskio.c).              *)
(*                                                                         *)
(* The sizes are scaled: SectorBytes for 512 bytes, SectorEntries for 16    *)
(* directory entries, SectorLinks for 128 FAT entries, NameChars and        *)
(* ExtChars for the 8 and 3 characters of a name, a sequence of characters  *)
(* filled up with spaces.                                                   *)
(*                                                                         *)
(* A card is given by what is on it, an intact file system, and its sectors *)
(* follow: objects[1] is the root directory, the others are directories and *)
(* files; an object has a chain of clusters, a size in bytes, and entries   *)
(* with a name, attributes and the number of an object.  Byte n of object   *)
(* k is <<k, n>>.                                                           *)
(***************************************************************************)
EXTENDS Naturals, Sequences, FiniteSets, SequencesExt

CONSTANTS
  Cards,          \* records of mbr, bsect, rsvd, fatsz, csize, clusters, objects
  Goals,          \* what is looked for: sequences of names
  SectorBytes, SectorEntries, SectorLinks, NameChars, ExtChars,
  MinClusters     \* fewer are not FAT32

VARIABLES
  card, goal, path,
  pc,             \* what the reader is doing
  fs,             \* FATFS, and bsect of pf_mount
  dj,             \* DIR, with the name fn and its flag last
  btr,            \* bytes still to be read by this pf_read
  res,            \* FRESULT of the last call
  got,            \* the bytes read so far
  refused         \* the card has refused a read

vars == <<card, goal, path, pc, fs, dj, btr, res, got, refused>>

EOC == 2^28 - 1   \* end of chain

-------------------------------------------------------------------------------
(* What is in the sectors of the card                                       *)

FatStart  == card.bsect + card.rsvd
DataStart == FatStart + 2 * card.fatsz

Chain(k) == card.objects[k].chain

\* The FAT.
LinkAt(sect, ofs) ==
  LET clst == (sect - FatStart) * SectorLinks + ofs
  IN  IF \E k \in DOMAIN card.objects : Contains(Chain(k), clst)
      THEN LET c == Chain(CHOOSE k \in DOMAIN card.objects : Contains(Chain(k), clst))
               n == CHOOSE n \in DOMAIN c : c[n] = clst
           IN  IF n = Len(c) THEN EOC ELSE c[n + 1]
      ELSE 0

\* Whose data sector this is, and the how-maniest of its sectors, from 0; object 0 for none.
Owner(sect) ==
  LET clst == 2 + (sect - DataStart) \div card.csize
      owns(k) == sect >= DataStart /\ Contains(Chain(k), clst)
  IN  IF \E k \in DOMAIN card.objects : owns(k)
      THEN LET k == CHOOSE k \in DOMAIN card.objects : owns(k)
               n == CHOOSE n \in DOMAIN Chain(k) : Chain(k)[n] = clst
           IN  [object |-> k, sector |-> (n - 1) * card.csize + ((sect - DataStart) % card.csize)]
      ELSE [object |-> 0, sector |-> 0]

NoEntry == [name |-> << >>, attr |-> {}, object |-> 0]
EntryAt(sect, ofs) ==
  LET o == Owner(sect)
      n == o.sector * SectorEntries + ofs + 1
  IN  IF o.object # 0 /\ n <= Len(card.objects[o.object].entries) THEN card.objects[o.object].entries[n] ELSE NoEntry

ByteAt(sect, ofs) == LET o == Owner(sect) IN <<o.object, o.sector * SectorBytes + ofs + 1>>

\* DIR_FstClusHI/LO and DIR_FileSize: the root is cluster 0 when it is the parent, and so is an empty file.
get_clust(entry) ==
  IF entry.object = 1 \/ Chain(entry.object) = << >> THEN 0 ELSE Chain(entry.object)[1]

-------------------------------------------------------------------------------
(* Names and paths                                                          *)

Spaces(n) == [k \in 1 .. n |-> " "]
Letters == [a |-> "A", b |-> "B", s |-> "S", x |-> "X"]
IsLower(c) == c \in DOMAIN Letters

\* create_name: the name of the segment in directory form, with the rest of the path.  Every
\* character past the widths ends the segment, too.
create_name(p) ==
  LET RECURSIVE Scan(_, _, _, _)
      Scan(si, i, ni, sfn) ==
        LET c == IF si <= Len(p) THEN p[si] ELSE "end"
            rest == SubSeq(p, si + 1, Len(p))
        IN  IF c \in {"end", " ", "/"} THEN [fn |-> sfn, last |-> c # "/", rest |-> rest]
            ELSE IF c = "." \/ i >= ni
            THEN IF ni # NameChars \/ c # "." THEN [fn |-> sfn, last |-> FALSE, rest |-> rest]
                 ELSE Scan(si + 1, NameChars, NameChars + ExtChars, sfn)
            ELSE Scan(si + 1, i + 1, ni, [sfn EXCEPT ![i + 1] = IF IsLower(c) THEN Letters[c] ELSE c])
  IN  Scan(1, 0, NameChars, Spaces(NameChars + ExtChars))

\* "Strip leading spaces", "Strip heading separator if exist"
Stripped(p) ==
  LET n == IF \E k \in DOMAIN p : p[k] # " " THEN CHOOSE k \in DOMAIN p : p[k] # " " /\ \A j \in 1 .. k - 1 : p[j] = " "
           ELSE Len(p) + 1
      q == SubSeq(p, n, Len(p))
  IN  IF q # << >> /\ q[1] = "/" THEN Tail(q) ELSE q

\* A goal as a user may write it: lower case letters or not, with or without the first separator.
Written(name, lower) ==
  LET Shown(chars) == LET s == SelectSeq(chars, LAMBDA c : c # " ")
                      IN  [k \in DOMAIN s |-> IF lower THEN CHOOSE c \in DOMAIN Letters : Letters[c] = s[k] ELSE s[k]]
      ext == Shown(SubSeq(name, NameChars + 1, NameChars + ExtChars))
  IN  Shown(SubSeq(name, 1, NameChars)) \o (IF ext = << >> THEN << >> ELSE <<".">> \o ext)
Spellings(g) ==
  LET Joined(lower) == FoldLeft(LAMBDA p, name : p \o <<"/">> \o Written(name, lower), << >>, g)
  IN  UNION {{Joined(lower), <<" ">> \o Joined(lower), SubSeq(Joined(lower), 2, Len(Joined(lower)))} : lower \in BOOLEAN}

-------------------------------------------------------------------------------
(* Mounting                                                                 *)

Unopened == [bsect |-> 0, fatbase |-> 0, csize |-> 1, n_fatent |-> 0, dirbase |-> 0, database |-> 0,
             flag |-> FALSE, org_clust |-> 0, curr_clust |-> 0, fsize |-> 0, fptr |-> 0, dsect |-> 0]
NoDir == [sclust |-> 0, clust |-> 0, sect |-> 0, index |-> 0, fn |-> << >>, last |-> FALSE]

Init ==
  /\ card \in Cards /\ goal \in Goals /\ path \in Spellings(goal)
  /\ pc = "check_fs" /\ fs = Unopened /\ dj = NoDir /\ btr = 0
  /\ res = "FR_OK" /\ got = << >> /\ refused = FALSE

Refuse == refused' = TRUE
Answer == UNCHANGED refused
world == <<card, goal>>

\* A call returns; the next one is made if it succeeded.
Return(result, next) == res' = result /\ pc' = IF result = "FR_OK" THEN next ELSE "failed"

\* check_fs of sector 0, then of the partition: the signature, and the type if there is one.
CheckFs ==
  /\ pc \in {"check_fs", "check_partition"}
  /\ LET boot_record == fs.bsect = card.bsect
         NotFat == IF pc = "check_fs" THEN pc' = "partition" /\ UNCHANGED res ELSE Return("FR_NO_FILESYSTEM", "")
     IN  \/ Refuse /\ Return("FR_DISK_ERR", "")
         \/ Refuse /\ NotFat
         \/ Answer /\ IF boot_record THEN Return("FR_OK", "bpb") ELSE NotFat
  /\ UNCHANGED <<world, path, fs, dj, btr, got>>

\* "1st partition entry"
Partition ==
  /\ pc = "partition"
  /\ \/ Refuse /\ Return("FR_DISK_ERR", "") /\ UNCHANGED fs
     \/ /\ Answer
        /\ IF card.mbr THEN fs' = [fs EXCEPT !.bsect = card.bsect] /\ Return("FR_OK", "check_partition")
           ELSE Return("FR_NO_FILESYSTEM", "") /\ UNCHANGED fs
  /\ UNCHANGED <<world, path, dj, btr, got>>

\* The geometry, from the boot record.
ReadBpb ==
  /\ pc = "bpb"
  /\ \/ Refuse /\ Return("FR_DISK_ERR", "") /\ UNCHANGED fs
     \/ LET fsize == 2 * card.fatsz
            tsect == card.rsvd + fsize + card.clusters * card.csize
            mclst == (tsect - card.rsvd - fsize) \div card.csize + 2
        IN  /\ Answer
            /\ Return(IF mclst < MinClusters THEN "FR_NO_FILESYSTEM" ELSE "FR_OK", "open")
            /\ fs' = [fs EXCEPT !.fatbase = fs.bsect + card.rsvd, !.csize = card.csize, !.n_fatent = mclst,
                                !.dirbase = Chain(1)[1], !.database = fs.bsect + card.rsvd + fsize]
  /\ UNCHANGED <<world, path, dj, btr, got>>

-------------------------------------------------------------------------------
(* The FAT                                                                  *)

clust2sect(clst) ==
  IF clst >= 2 /\ clst < fs.n_fatent THEN (clst - 2) * fs.csize + fs.database ELSE 0

\* get_fat answers clst: 1 when out of range or refused.
GetFat(of, clst) ==
  IF of < 2 \/ of >= fs.n_fatent THEN clst = 1 /\ Answer
  ELSE \/ clst = 1 /\ Refuse
       \/ clst = LinkAt(fs.fatbase + of \div SectorLinks, of % SectorLinks) /\ Answer

-------------------------------------------------------------------------------
(* Opening                                                                  *)

\* The next segment of the path is looked for in the directory that starts at clst: dir_rewind.
Follow(p, clst) ==
  LET name  == create_name(p)
      first == IF clst = 0 THEN fs.dirbase ELSE clst
  IN  /\ path' = name.rest
      /\ IF clst = 1 \/ clst >= fs.n_fatent THEN Return("FR_DISK_ERR", "") /\ UNCHANGED dj
         ELSE /\ pc' = "find" /\ UNCHANGED res
              /\ dj' = [sclust |-> clst, clust |-> first, sect |-> clust2sect(first), index |-> 0,
                        fn |-> name.fn, last |-> name.last]

\* pf_open.  The empty path is the root directory, which is no file.
Open ==
  /\ pc = "open"
  /\ LET p == Stripped(path)
     IN  IF p = << >> THEN Return("FR_NO_FILE", "") /\ UNCHANGED <<path, dj>> ELSE Follow(p, 0)
  /\ UNCHANGED <<world, fs, btr, got, refused>>

\* The entry is found: the last one is opened unless it is a directory, another one is followed if it is one.
Found(entry) ==
  IF ~dj.last
  THEN /\ UNCHANGED fs
       /\ IF "DIR" \in entry.attr THEN Follow(path, get_clust(entry))
          ELSE Return("FR_NO_FILE", "") /\ UNCHANGED <<path, dj>>
  ELSE /\ UNCHANGED <<path, dj>>
       /\ IF "DIR" \in entry.attr THEN Return("FR_NO_FILE", "") /\ UNCHANGED fs
          ELSE /\ Return("FR_OK", "ready")
               /\ fs' = [fs EXCEPT !.org_clust = get_clust(entry), !.fsize = card.objects[entry.object].size,
                                   !.fptr = 0, !.flag = TRUE]

Matches(entry) == "VOL" \notin entry.attr /\ entry.name = dj.fn

\* Mutant: a directory goes on in the next sector, whatever its clusters.
ClusterChanged_Never(sectors) == FALSE
\* "Cluster changed?"
ClusterChanged(sectors) == sectors % fs.csize = 0

\* dir_find reads an entry, and dir_next moves on to the next one.
Find ==
  /\ pc = "find"
  /\ LET entry == EntryAt(dj.sect, dj.index % SectorEntries)
         next  == dj.index + 1
     IN  \/ Refuse /\ Return("FR_DISK_ERR", "") /\ UNCHANGED <<path, fs, dj>>
         \/ /\ Answer
            /\ IF entry = NoEntry THEN Return("FR_NO_FILE", "") /\ UNCHANGED <<path, fs, dj>>
               ELSE IF Matches(entry) THEN Found(entry)
               ELSE /\ UNCHANGED <<path, fs, res>>
                    /\ IF next % SectorEntries # 0 THEN dj' = [dj EXCEPT !.index = next] /\ UNCHANGED pc
                       ELSE /\ dj' = [dj EXCEPT !.index = next, !.sect = @ + 1]
                            /\ pc' = IF ClusterChanged(next \div SectorEntries) THEN "next" ELSE "find"
  /\ UNCHANGED <<world, btr, got>>

\* dir_next at the end of a cluster.
NextCluster ==
  /\ pc = "next"
  /\ \E clst \in {1, LinkAt(fs.fatbase + dj.clust \div SectorLinks, dj.clust % SectorLinks)} :
       /\ GetFat(dj.clust, clst)
       /\ IF clst <= 1 THEN Return("FR_DISK_ERR", "") /\ UNCHANGED dj
          ELSE IF clst >= fs.n_fatent THEN Return("FR_NO_FILE", "") /\ UNCHANGED dj
          ELSE dj' = [dj EXCEPT !.clust = clst, !.sect = clust2sect(clst)] /\ Return("FR_OK", "find")
  /\ UNCHANGED <<world, path, fs, btr, got>>

-------------------------------------------------------------------------------
(* Reading                                                                  *)

\* The loop of pf_read starts again, or pf_read returns.
Continue(left, fptr) ==
  /\ btr' = left
  /\ Return("FR_OK", IF left = 0 THEN "ready" ELSE IF fptr % SectorBytes = 0 THEN "sector" ELSE "data")

ABORT == Return("FR_DISK_ERR", "") /\ fs' = [fs EXCEPT !.flag = FALSE] /\ btr' = 0

\* pf_read of n bytes, or of those that are left.
Read(n) ==
  /\ pc = "ready" /\ fs.flag /\ fs.fptr < fs.fsize
  /\ Continue(IF n > fs.fsize - fs.fptr THEN fs.fsize - fs.fptr ELSE n, fs.fptr)
  /\ UNCHANGED <<world, path, fs, dj, got, refused>>

\* Mutant: the chain is always followed from the start of the file.
Linked_FromStart == fs.org_clust
\* The cluster whose link leads to the next one.
Linked == fs.curr_clust

\* "On the sector boundary?"
Sector ==
  /\ pc = "sector"
  /\ LET cs == (fs.fptr \div SectorBytes) % fs.csize
         Go(clst) ==
           IF clst <= 1 \/ clust2sect(clst) = 0 THEN ABORT
           ELSE /\ fs' = [fs EXCEPT !.curr_clust = clst, !.dsect = clust2sect(clst) + cs]
                /\ pc' = "data" /\ UNCHANGED <<btr, res>>
     IN  IF cs # 0 THEN Go(fs.curr_clust) /\ Answer
         ELSE IF fs.fptr = 0 THEN Go(fs.org_clust) /\ Answer
         ELSE \E clst \in {1, LinkAt(fs.fatbase + Linked \div SectorLinks, Linked % SectorLinks)} :
                GetFat(Linked, clst) /\ Go(clst)
  /\ UNCHANGED <<world, path, dj, got>>

\* As much of the sector as is wanted.
Data ==
  /\ pc = "data"
  /\ LET ofs  == fs.fptr % SectorBytes
         rcnt == IF SectorBytes - ofs > btr THEN btr ELSE SectorBytes - ofs
     IN  \/ Refuse /\ ABORT /\ UNCHANGED got
         \/ /\ Answer
            /\ got' = got \o [k \in 1 .. rcnt |-> ByteAt(fs.dsect, ofs + k - 1)]
            /\ fs' = [fs EXCEPT !.fptr = @ + rcnt]
            /\ Continue(btr - rcnt, fs.fptr + rcnt)
  /\ UNCHANGED <<world, path, dj>>

Next ==
  \/ CheckFs \/ Partition \/ ReadBpb \/ Open \/ Find \/ NextCluster
  \/ \E n \in 1 .. SectorBytes + 1 : Read(n)
  \/ Sector \/ Data

Spec == Init /\ [][Next]_vars

-------------------------------------------------------------------------------
\* The object that a goal names, from the directories themselves; 0 for none.
Named(g) ==
  LET Step(k, name) ==
        LET hits == IF k = 0 THEN {}
                    ELSE {e \in Range(card.objects[k].entries) : e.name = name /\ "VOL" \notin e.attr}
        IN  IF hits = {} THEN 0 ELSE (CHOOSE e \in hits : TRUE).object
  IN  FoldLeft(Step, 1, g)
IsFile(k) == k # 0 /\ card.objects[k].entries = << >>

\* pf_open finds the file that the path names, however its directories are scattered over the
\* card and however the path is spelled, and nothing else; no call fails on a card that has
\* answered every read.
OpensWhatIsNamed ==
  /\ fs.flag => IsFile(Named(goal))
  /\ pc = "failed" /\ ~refused => res = "FR_NO_FILE" /\ ~IsFile(Named(goal))

\* What pf_read delivers in pieces of any size is the beginning of the file, to the byte, in order.
ReadsTheFile ==
  fs.flag => got = [n \in 1 .. fs.fptr |-> <<Named(goal), n>>]
===============================================================================
