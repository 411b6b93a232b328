------------------------------ MODULE DirUtil ------------------------------
(***************************************************************************)
(* dir_util.h, dir_util.cpp: listings of a directory.  An entry is what    *)
(* readdir() gives, "." and ".." left out, with the kind that stat() finds *)
(* a moment later: an entry that is gone by then has no mode bits.         *)
(***************************************************************************)
EXTENDS Integers, Sequences, FiniteSetsExt

\* The bits of S_IFMT.
ModeBits == [REG |-> {8}, DIR |-> {4}, BLK |-> {4, 2}, CHR |-> {2}, SOCK |-> {8, 4},
             FIFO |-> {1}, GONE |-> {}]

NO_MODE == {}
S_IFDIR == ModeBits["DIR"]
S_IFREG == ModeBits["REG"]

\* (*mode & st_mode) == *mode, which is true of every entry without a mode.
HasMode(entry, mode) == mode \subseteq ModeBits[entry.kind]

\* listed[k]: what is listed after k entries.
Ls(entries, mode) ==
    LET listed[k \in 0 .. Len(entries)] ==
            IF k = 0 THEN <<>>
            ELSE IF HasMode(entries[k], mode) THEN Append(listed[k - 1], entries[k])
            ELSE listed[k - 1]
    IN listed[Len(entries)]

LsDir(entries) == Ls(entries, S_IFDIR)
LsFile(entries) == Ls(entries, S_IFREG)

DirCount(entries) == Len(LsDir(entries))
FileCount(entries) == Len(LsFile(entries))

\* A map from inode to name; insert() leaves a name that is there.
LsOrdered(entries, mode) ==
    LET listed == Ls(entries, mode)
        First(n) == Min({k \in DOMAIN listed : listed[k].ino = n})
    IN [n \in {listed[k].ino : k \in DOMAIN listed} |-> listed[First(n)].name]

LsDirOrdered(entries) == LsOrdered(entries, S_IFDIR)
LsFileOrdered(entries) == LsOrdered(entries, S_IFREG)

-----------------------------------------------------------------------------
OfKinds(entries, kinds) == {i \in DOMAIN entries : entries[i].kind \in kinds}
Names(entries, kinds) == {entries[k].name : k \in OfKinds(entries, kinds)}

(***************************************************************************)
(* The listings have what they are named for, an entry that is gone left   *)
(* out.  The exceptions: a socket is listed as both, as its bits include   *)
(* those of both, a block device as a directory; an ordered listing has    *)
(* one name of the names of a file, though the count has all.              *)
(***************************************************************************)
ListsExact(entries) ==
    /\ Names(LsFile(entries), DOMAIN ModeBits) = Names(entries, {"REG", "SOCK"})
    /\ Names(LsDir(entries), DOMAIN ModeBits) = Names(entries, {"DIR", "BLK", "SOCK"})
    /\ Ls(entries, NO_MODE) = entries
    /\ \A n \in DOMAIN LsFileOrdered(entries) :
           \E k \in DOMAIN entries : /\ entries[k].ino = n
                                     /\ entries[k].name = LsFileOrdered(entries)[n]
    /\ \/ {LsFileOrdered(entries)[n] : n \in DOMAIN LsFileOrdered(entries)}
              = Names(LsFile(entries), DOMAIN ModeBits)
       \/ \E i, j \in DOMAIN entries : i # j /\ entries[i].ino = entries[j].ino
    /\ DirCount(entries) + FileCount(entries)
           = Cardinality(OfKinds(entries, {"REG", "DIR", "BLK"}))
             + 2 * Cardinality(OfKinds(entries, {"SOCK"}))
=============================================================================
