--------------------------- MODULE FileTransport ---------------------------
(* The file transport of the shared library (FileTransportUtilty.cpp/.h):     *)
(* PackFile cuts a file into packages, UnPackFile writes packages to a file.  *)
(* Both test !file.open(...), that is, they work on the file only when it     *)
(* could not be opened: reads from it then return no bytes and writes to it   *)
(* do nothing.  Sizes stand for contents.  Users and other programs change    *)
(* the files, and a FilePack may come from anywhere.                          *)
EXTENDS Integers, Sequences

CONSTANTS
  Names,    \* file names
  PakSize,  \* m_PakSize
  MaxSize   \* bound: size of a file

ASSUME SizesAssumption == PakSize \in Nat \ {0} /\ MaxSize \in Nat

VARIABLES
  disk,           \* the files
  packing,        \* the file PackFile is at, or NoFile
  size,           \* what fileInfo.size() returned for it
  fileSize_byte,  \* the part of it the loop has not come to
  pak_size,       \* pak_size of the loop
  subPackList     \* sizes that were asked for, one for each package: its
                  \* packId is its place (from 0), its data is empty

loopVars == << packing, size, fileSize_byte, pak_size, subPackList >>
fileVars == << disk, loopVars >>

(* A file: how large it is and what open() may do with it.                    *)
NoFile == [size |-> 0, may |-> {"create"}]
File == {NoFile} \union [size : 0 .. MaxSize, may : SUBSET {"read", "write"}]

NotPacking == "none"
ASSUME NamesAssumption == NotPacking \notin Names

FileInit ==
  /\ disk \in [Names -> File]
  /\ packing = NotPacking /\ size = 0
  /\ fileSize_byte = 0 /\ pak_size = PakSize /\ subPackList = << >>

-----------------------------------------------------------------------------
(* PackFile.  open(ReadOnly) succeeds: the FilePack stays empty.              *)
PackOpened(n) ==
  /\ packing = NotPacking
  /\ "read" \in disk[n].may
  /\ UNCHANGED fileVars

(* It fails: the loop over fileInfo.size() begins.                            *)
PackBegin(n) ==
  /\ packing = NotPacking
  /\ "read" \notin disk[n].may
  /\ packing' = n
  /\ size' = disk[n].size
  /\ fileSize_byte' = disk[n].size
  /\ pak_size' = PakSize
  /\ subPackList' = << >>
  /\ UNCHANGED disk

(* pak_size = qMin(fileSize_byte, pak_size), one package, fileSize_byte -= it *)
qMin(a, b) == IF a < b THEN a ELSE b

PackNext_FullSize ==
  /\ packing # NotPacking
  /\ fileSize_byte > 0
  /\ pak_size' = pak_size
  /\ subPackList' = Append(subPackList, pak_size')
  /\ fileSize_byte' = fileSize_byte - pak_size'
  /\ UNCHANGED << disk, packing, size >>

PackNext ==
  /\ packing # NotPacking
  /\ fileSize_byte > 0
  /\ pak_size' = qMin(fileSize_byte, pak_size)
  /\ subPackList' = Append(subPackList, pak_size')
  /\ fileSize_byte' = fileSize_byte - pak_size'
  /\ UNCHANGED << disk, packing, size >>

(* The head: packCount = pak_size + 1.                                        *)
packCount == pak_size + 1

PackEnd ==
  /\ packing # NotPacking
  /\ fileSize_byte <= 0
  /\ packing' = NotPacking
  /\ UNCHANGED << disk, size, fileSize_byte, pak_size, subPackList >>

(* UnPackFile of a FilePack for file n, whatever its data.  The name          *)
(* "n(1)" for a file that exists is computed and not used: open(WriteOnly)    *)
(* creates or empties n itself, and the packages are only written, to no      *)
(* effect, if it failed.                                                      *)
Opened(file) == file.may \intersect {"write", "create"} # {}
Emptied(file) ==
  [size |-> 0, may |-> IF file = NoFile THEN {"read", "write"} ELSE file.may]

UnPackFile(n, count) ==
  /\ disk' = IF count > 0 /\ Opened(disk[n])
               THEN [disk EXCEPT ![n] = Emptied(@)]
               ELSE disk
  /\ UNCHANGED loopVars

(* Somebody else changes a file.                                              *)
Change(n, file) ==
  /\ disk' = [disk EXCEPT ![n] = file]
  /\ UNCHANGED loopVars

Pack == \/ \E n \in Names : PackOpened(n) \/ PackBegin(n)
        \/ PackNext \/ PackEnd
UnPack == \E n \in Names, count \in {0, packCount} : UnPackFile(n, count)

FileNext == Pack \/ UnPack \/ \E n \in Names, file \in File : Change(n, file)

FileSpec == FileInit /\ [][FileNext]_fileVars

-----------------------------------------------------------------------------
(* The loop of PackFile cuts the size into full packages and a rest: what it  *)
(* has not come to yet is missing from a whole number of full packages, and   *)
(* at its end pak_size is the size of the last package, so that packCount is  *)
(* that size plus one and not the number of packages.                         *)
Packages == Len(subPackList)
PackLoopInv ==
  /\ fileSize_byte \in Nat /\ size \in Nat /\ pak_size \in 1 .. PakSize
  /\ subPackList \in Seq(1 .. PakSize)
  /\ \A i \in 1 .. Packages - 1 : subPackList[i] = PakSize
  /\ fileSize_byte > 0 => pak_size = PakSize /\ size = fileSize_byte + Packages * PakSize
  /\ Packages > 0 => subPackList[Packages] = pak_size
  /\ fileSize_byte = 0 =>
       size = IF Packages = 0 THEN 0 ELSE (Packages - 1) * PakSize + pak_size

(* "file already exist" (FileTransportUtilty.cpp:37): UnPackFile of a file    *)
(* that exists is meant for another name, "n(1)", and leaves n itself as it   *)
(* is.  The code does not keep this.                                          *)
ExistingKept == [][UnPack => \A n \in Names : disk[n] # NoFile => disk'[n] = disk[n]]_fileVars
=============================================================================
