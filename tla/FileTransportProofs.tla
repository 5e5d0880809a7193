------------------------ MODULE FileTransportProofs ------------------------
(* The loop of PackFile, for files and packages of any size.                  *)
EXTENDS FileTransport, SequenceTheorems, TLAPS

Sizes == \A n \in Names : disk[n].size \in Nat
DiskOK == disk \in [Names -> File] /\ Sizes
Inv == DiskOK /\ PackLoopInv

LEMMA FileSize == \A f \in File : f.size \in Nat
BY SizesAssumption DEF File, NoFile

LEMMA DiskType ==
  ASSUME disk \in [Names -> File]
  PROVE  DiskOK
BY FileSize DEF DiskOK, Sizes

LEMMA InitInv == FileInit => Inv
<1> SUFFICES ASSUME FileInit PROVE Inv
  OBVIOUS
<1>1. DiskOK
  BY DiskType DEF FileInit
<1>2. subPackList \in Seq(1 .. PakSize) /\ Len(subPackList) = 0 /\ PakSize \in 1 .. PakSize
  BY SizesAssumption DEF FileInit
<1>3. PackLoopInv
  BY <1>2 DEF FileInit, PackLoopInv, Packages
<1> QED
  BY <1>1, <1>3 DEF Inv

(* A file that UnPackFile has opened.                                         *)
LEMMA UnPackDisk ==
  ASSUME DiskOK, UnPack
  PROVE  disk' \in [Names -> File] /\ UNCHANGED loopVars
<1>1. PICK n \in Names, count \in {0, packCount} : UnPackFile(n, count)
  BY DEF UnPack
<1>2. Emptied(disk[n]) \in File
  BY SizesAssumption DEF DiskOK, File, NoFile, Emptied
<1>3. \/ disk' = [disk EXCEPT ![n] = Emptied(@)]
      \/ disk' = disk
  BY <1>1 DEF UnPackFile
<1> QED
  BY <1>1, <1>2, <1>3 DEF UnPackFile, DiskOK

LEMMA NextPackage ==
  ASSUME Inv, PackNext
  PROVE  PackLoopInv'
<1>1. /\ PakSize \in Nat /\ PakSize > 0 /\ fileSize_byte \in Nat /\ fileSize_byte > 0
      /\ size \in Nat /\ subPackList \in Seq(1 .. PakSize) /\ Packages \in Nat
      /\ pak_size = PakSize
      /\ \A i \in 1 .. Packages - 1 : subPackList[i] = PakSize
      /\ Packages > 0 => subPackList[Packages] = PakSize
  <2>1. PackLoopInv /\ fileSize_byte > 0
    BY DEF Inv, PackNext
  <2>2. subPackList \in Seq(1 .. PakSize)
    BY <2>1 DEF PackLoopInv
  <2>3. Packages \in Nat
    BY <2>2, LenProperties DEF Packages
  <2>4. pak_size = PakSize /\ size = fileSize_byte + Packages * PakSize
    BY <2>1, Zenon DEF PackLoopInv
  <2>5. fileSize_byte \in Nat /\ size \in Nat /\ PakSize \in Nat /\ PakSize > 0
    BY <2>1, SizesAssumption DEF PackLoopInv
  <2>6. /\ \A i \in 1 .. Packages - 1 : subPackList[i] = PakSize
        /\ Packages > 0 => subPackList[Packages] = PakSize
    BY <2>1, <2>4, Zenon DEF PackLoopInv
  <2> QED
    BY <2>1, <2>2, <2>3, <2>4, <2>5, <2>6, Zenon
<1>0. size = fileSize_byte + Packages * PakSize
  BY Zenon DEF Inv, PackLoopInv, PackNext
<1>2. /\ pak_size' \in 1 .. PakSize /\ size' = size
      /\ pak_size' = (IF fileSize_byte < PakSize THEN fileSize_byte ELSE PakSize)
      /\ fileSize_byte' = fileSize_byte - pak_size' /\ fileSize_byte' \in Nat
      /\ subPackList' = Append(subPackList, pak_size')
  BY <1>1 DEF PackNext, qMin
<1>3. /\ subPackList' \in Seq(1 .. PakSize) /\ Len(subPackList') = Packages + 1
      /\ subPackList'[Packages + 1] = pak_size'
      /\ \A i \in 1 .. Packages : subPackList'[i] = subPackList[i]
  BY <1>1, <1>2, AppendProperties DEF Packages
<1>4. \A i \in 1 .. Packages : subPackList'[i] = PakSize
  <2> TAKE i \in 1 .. Packages
  <2>1. CASE i = Packages
    BY <1>1, <1>3, <2>1
  <2>2. CASE i # Packages
    <3>1. i \in 1 .. Packages - 1
      BY <1>1, <2>2
    <3> QED
      BY <1>1, <1>3, <3>1
  <2> QED
    BY <2>1, <2>2
<1>5. (Packages + 1) * PakSize = Packages * PakSize + PakSize
  BY <1>1
<1>6. fileSize_byte' > 0 =>
        pak_size' = PakSize /\ size' = fileSize_byte' + (Packages + 1) * PakSize
  BY <1>0, <1>1, <1>2, <1>5
<1>7. fileSize_byte' = 0 => size' = ((Packages + 1) - 1) * PakSize + pak_size'
  BY <1>0, <1>1, <1>2
<1>8. Packages' = Packages + 1 /\ (Packages + 1) - 1 = Packages /\ Packages + 1 # 0
  BY <1>1, <1>3 DEF Packages
<1>9. fileSize_byte' \in Nat /\ size' \in Nat /\ pak_size' \in 1 .. PakSize
  BY <1>1, <1>2
<1>10. \A i \in 1 .. Packages' - 1 : subPackList'[i] = PakSize
  BY <1>4, <1>8
<1>11. subPackList'[Packages'] = pak_size'
  BY <1>3, <1>8
<1>12. fileSize_byte' > 0 =>
         pak_size' = PakSize /\ size' = fileSize_byte' + Packages' * PakSize
  BY <1>6, <1>8, Zenon
<1>13. fileSize_byte' = 0 =>
         size' = IF Packages' = 0 THEN 0 ELSE (Packages' - 1) * PakSize + pak_size'
  BY <1>7, <1>8, Zenon
<1> QED
  BY <1>3, <1>9, <1>10, <1>11, <1>12, <1>13, Zenon DEF PackLoopInv

LEMMA InvNext == Inv /\ [FileNext]_fileVars => Inv'
<1> SUFFICES ASSUME Inv, [FileNext]_fileVars PROVE Inv'
  OBVIOUS
<1>1. CASE PackNext
  <2>1. DiskOK'
    BY <1>1 DEF Inv, DiskOK, Sizes, PackNext
  <2> QED
    BY <1>1, <2>1, NextPackage DEF Inv
<1>2. ASSUME NEW n \in Names, PackBegin(n) PROVE Inv'
  <2>1. DiskOK'
    BY <1>2 DEF Inv, DiskOK, Sizes, PackBegin
  <2>2. /\ subPackList' \in Seq(1 .. PakSize) /\ Len(subPackList') = 0
        /\ PakSize \in 1 .. PakSize /\ PakSize \in Nat /\ pak_size' = PakSize
        /\ fileSize_byte' \in Nat /\ size' = fileSize_byte'
    BY <1>2, SizesAssumption DEF PackBegin, Inv, DiskOK, Sizes
  <2>3. Packages' = 0 /\ size' = fileSize_byte' + Packages' * PakSize
    <3>1. Packages' = 0
      BY <2>2 DEF Packages
    <3>2. 0 * PakSize = 0
      BY SizesAssumption
    <3>3. ASSUME NEW b \in Nat PROVE b = b + 0
      OBVIOUS
    <3> QED
      BY <2>2, <3>1, <3>2, <3>3, Zenon
  <2>4. \A i \in 1 .. Packages' - 1 : subPackList'[i] = PakSize
    BY <2>3
  <2>5. ~ (Packages' > 0)
    BY <2>3
  <2>6. PackLoopInv'
    BY <2>2, <2>3, <2>4, <2>5, Zenon DEF PackLoopInv
  <2> QED
    BY <2>1, <2>6 DEF Inv
<1>3. CASE UnPack
  <2>1. disk' \in [Names -> File] /\ UNCHANGED loopVars
    BY <1>3, UnPackDisk DEF Inv
  <2>2. DiskOK'
    BY <2>1, FileSize DEF DiskOK, Sizes
  <2> QED
    BY <2>1, <2>2 DEF Inv, PackLoopInv, Packages, loopVars
<1>4. ASSUME NEW n \in Names, NEW file \in File, Change(n, file) PROVE Inv'
  <2>1. disk' \in [Names -> File] /\ UNCHANGED loopVars
    BY <1>4 DEF Change, Inv, DiskOK
  <2>2. DiskOK'
    BY <2>1, FileSize DEF DiskOK, Sizes
  <2> QED
    BY <2>1, <2>2 DEF Inv, PackLoopInv, Packages, loopVars
<1>5. CASE UNCHANGED << disk, size, fileSize_byte, pak_size, subPackList >>
  BY <1>5 DEF Inv, DiskOK, Sizes, PackLoopInv, Packages
<1> QED
  BY <1>1, <1>2, <1>3, <1>4, <1>5 DEF FileNext, Pack, PackOpened, PackEnd, fileVars, loopVars

THEOREM InvCorrect == FileSpec => []Inv
<1> QED
  BY InitInv, InvNext, PTL DEF FileSpec

(* PackFile cuts the size of a file into full packages and a rest.            *)
THEOREM PackLoopCorrect == FileSpec => []PackLoopInv
<1>1. Inv => PackLoopInv
  BY DEF Inv
<1> QED
  BY <1>1, InvCorrect, PTL
=============================================================================
