--------------------------- MODULE UbpfDriverProofs ---------------------------
(***************************************************************************)
(* ubpf_load_elf stays inside the file and the copy of its text, and the   *)
(* code that main of vm/test.c runs is what the file means, for all files  *)
(* and for every way in which loading, unloading and loading again go.     *)
(***************************************************************************)
EXTENDS UbpfDriver, TLAPS

-----------------------------------------------------------------------------
(* ubpf_load_elf stays inside. *)

(* bounds_check means what it says, for offsets and sizes below 2^64. *)
LEMMA BoundsChecked ==
  ASSUME file.size \in Nat, NEW offset \in Addresses, NEW size \in Addresses,
         bounds_check(offset, size)
  PROVE  offset + size <= file.size
  <1>1. AddrMod \in Nat /\ AddrMod > 0
    BY LayoutAssumption
  <1>2. offset \in Nat /\ size \in Nat /\ offset < AddrMod /\ size < AddrMod
    BY <1>1 DEF Addresses
  <1>3. CASE offset + size < AddrMod
    <2>1. (offset + size) % AddrMod = offset + size
      BY <1>1, <1>2, <1>3
    <2> QED
      BY <2>1 DEF bounds_check
  <1>4. CASE offset + size >= AddrMod
    <2>1. (offset + size) % AddrMod = offset + size - AddrMod
      BY <1>1, <1>2, <1>4
    <2> QED
      BY <2>1, <1>1, <1>2 DEF bounds_check
  <1> QED
    BY <1>1, <1>2, <1>3, <1>4

(* An entry of a table of b bytes with entries of c bytes ends inside it. *)
LEMMA EntryInside ==
  ASSUME NEW a \in Nat, NEW b \in Nat, NEW c \in Nat, c > 0, a < b \div c
  PROVE  a * c + c <= b
  <1> DEFINE q == b \div c
  <1>1. q \in Nat /\ q * c <= b
    OBVIOUS
  <1> HIDE DEF q
  <1>2. a + 1 <= q
    BY <1>1 DEF q
  <1>3. (a + 1) * c <= q * c
    BY <1>1, <1>2
  <1>4. (a + 1) * c = a * c + c
    OBVIOUS
  <1>5. a * c \in Nat /\ q * c \in Nat
    BY <1>1
  <1> QED
    BY <1>1, <1>3, <1>4, <1>5

-----------------------------------------------------------------------------
(***************************************************************************)
(* The invariant: the sections looked at so far lie in the file, all of    *)
(* them once relocation has begun.  A second load of the same file finds   *)
(* the same text, so what the first has written stays accounted for.       *)
(***************************************************************************)
LoaderInv ==
  /\ file \in Files
  /\ sec \in Nat /\ entry \in Nat /\ text_shndx \in Nat
  /\ elf \in {"out", "sections", "relocate", "load"}
  /\ elf # "out" => file.elf
  /\ elf = "sections" =>
       sec <= shnum /\ \A s \in 0 .. shnum - 1 : s < sec => InFile(file, s)
  /\ elf = "relocate" =>
       text_shndx # 0 /\ \A s \in 0 .. shnum - 1 : InFile(file, s)
  /\ text_shndx # 0 =>
       file.elf /\ text_shndx \in 0 .. shnum - 1 /\ FirstText(text_shndx)
  /\ text_shndx = 0 => \A t \in touched : t.in = "file"

IInv == LoaderInv /\ LoaderStaysInside

LEMMA SectionTyping ==
  ASSUME file \in Files, file.elf, NEW s \in 0 .. shnum - 1
  PROVE  /\ file.size \in Nat /\ file.shoff \in Nat /\ shnum \in Nat
         /\ Section(s) \in SectionHeader
         /\ Section(s).info \in Nat /\ Section(s).link \in Nat
         /\ Section(s).offset \in Addresses /\ Section(s).size \in Addresses
         /\ Section(s).offset \in Nat /\ Section(s).size \in Nat
  <1>1. file.size \in Nat /\ file.shoff \in Nat /\ file.sections \in Seq(SectionHeader)
    BY FilesAssumption
  <1>2. shnum \in Nat /\ s + 1 \in 1 .. Len(file.sections)
    BY <1>1 DEF shnum
  <1>3. Section(s) \in SectionHeader
    BY <1>1, <1>2 DEF Section
  <1>4. /\ Section(s).info \in Nat /\ Section(s).link \in Nat
        /\ Section(s).offset \in Addresses /\ Section(s).size \in Addresses
    BY <1>3 DEF SectionHeader
  <1>5. Addresses \subseteq Nat
    BY LayoutAssumption DEF Addresses
  <1> QED
    BY <1>1, <1>2, <1>3, <1>4, <1>5

(* What a step has touched beyond what was touched before *)
Inside(t) ==
  IF t.in = "file" THEN t.offset + t.size <= file.size
  ELSE t.offset < Section(text_shndx).size \/ t.offset = AddrMod - 1

(* A failing step, and one that goes on in a place where nothing is claimed *)
LEMMA FailsKeepsInv ==
  ASSUME IInv, NEW reads, LoadElfFails(reads), UNCHANGED file,
         \A t \in reads : t.in = "file" /\ Inside(t)
  PROVE  IInv'
  <1>1. LoaderStaysInside'
    BY DEF IInv, LoaderStaysInside, Inside, LoadElfFails, Section
  <1>2. LoaderInv'
    BY DEF IInv, LoaderInv, LoadElfFails, shnum, FirstText, IsText, Section
  <1> QED
    BY <1>1, <1>2 DEF IInv

LEMMA LoadElfKeepsInv ==
  ASSUME IInv, LoadElf, UNCHANGED file, file.elf
  PROVE  IInv'
  <1> DEFINE header == IF bounds_check(0, EhdrSize) THEN {Read(0, EhdrSize)} ELSE {}
  <1>0. file \in Files
    BY DEF IInv, LoaderInv
  <1>1. file.size \in Nat /\ file.sections \in Seq(SectionHeader)
    BY <1>0, FilesAssumption
  <1>2. 0 \in Addresses /\ EhdrSize \in Addresses /\ EhdrSize \in Nat
    BY ElfSizesAssumption, LayoutAssumption DEF Addresses
  <1>3. bounds_check(0, EhdrSize) => 0 + EhdrSize <= file.size
    BY <1>1, <1>2, BoundsChecked
  <1>4. \A t \in header : t.in = "file" /\ Inside(t)
    BY <1>3 DEF Inside, Read
  <1> HIDE DEF header
  <1>5. CASE LoadElfFails(header)
    BY <1>4, <1>5, FailsKeepsInv
  <1>6. CASE LoadElfGoesOn("sections", 0, 0, header) /\ UNCHANGED <<text_shndx, text_copy>>
    <2>1. LoaderStaysInside'
      BY <1>4, <1>6 DEF IInv, LoaderStaysInside, Inside, LoadElfGoesOn, Section
    <2>2. shnum \in Nat
      BY <1>1 DEF shnum
    <2>3. LoaderInv'
      BY <1>4, <1>6, <2>2
         DEF IInv, LoaderInv, LoadElfGoesOn, shnum, InFile, FirstText, IsText, Section
    <2> QED
      BY <2>1, <2>3 DEF IInv
  <1> QED
    BY <1>5, <1>6 DEF LoadElf, header

LEMMA ReadSectionKeepsInv ==
  ASSUME IInv, ReadSection, UNCHANGED file
  PROVE  IInv'
  <1>0. file \in Files /\ file.elf /\ sec \in Nat
    BY DEF IInv, LoaderInv, ReadSection
  <1>1. shnum \in Nat
    BY <1>0, FilesAssumption DEF shnum
  <1>2. sec \in 0 .. shnum - 1
    BY <1>0, <1>1 DEF ReadSection
  <1>3. /\ file.size \in Nat /\ file.shoff \in Nat
        /\ Section(sec).offset \in Addresses /\ Section(sec).size \in Addresses
    BY <1>0, <1>2, SectionTyping
  <1>4. HeaderOf(sec) \in Addresses /\ ShdrSize \in Addresses
    <2>1. AddrMod \in Nat /\ AddrMod > 0 /\ ShdrSize \in 1 .. AddrMod - 1
      BY ElfSizesAssumption, LayoutAssumption
    <2>2. file.shoff + sec * ShdrSize \in Nat
      BY <1>0, <1>3, <2>1
    <2> QED
      BY <2>1, <2>2 DEF HeaderOf, Addresses
  <1>5. bounds_check(HeaderOf(sec), ShdrSize) => HeaderOf(sec) + ShdrSize <= file.size
    BY <1>3, <1>4, BoundsChecked
  <1>6. bounds_check(Section(sec).offset, Section(sec).size) => InFile(file, sec)
    BY <1>3, BoundsChecked DEF InFile, Section
  <1>7. CASE LoadElfFails({})
    BY <1>7, FailsKeepsInv
  <1> DEFINE read == {Read(HeaderOf(sec), ShdrSize)}
  <1>8. bounds_check(HeaderOf(sec), ShdrSize) => \A t \in read : t.in = "file" /\ Inside(t)
    BY <1>5 DEF Inside, Read
  <1> HIDE DEF read
  <1>9. CASE bounds_check(HeaderOf(sec), ShdrSize) /\ LoadElfFails(read)
    BY <1>8, <1>9, FailsKeepsInv
  <1>10. CASE /\ bounds_check(HeaderOf(sec), ShdrSize)
              /\ bounds_check(Section(sec).offset, Section(sec).size)
              /\ LoadElfGoesOn("sections", sec + 1, 0, read)
              /\ UNCHANGED <<text_shndx, text_copy>>
    <2>1. LoaderStaysInside'
      BY <1>8, <1>10 DEF IInv, LoaderStaysInside, Inside, LoadElfGoesOn, Section
    <2>2. /\ elf' = "sections" /\ sec' = sec + 1 /\ entry' = 0
          /\ text_shndx' = text_shndx /\ shnum' = shnum
      BY <1>10 DEF LoadElfGoesOn, shnum
    <2>3. \A s \in 0 .. shnum - 1 : s < sec + 1 => InFile(file, s)
      BY <1>0, <1>1, <1>6, <1>10 DEF IInv, LoaderInv, ReadSection
    <2>4. touched' = touched \cup read
      BY <1>10 DEF LoadElfGoesOn
    <2>5. LoaderInv'
      BY <1>0, <1>1, <1>2, <1>8, <1>10, <2>2, <2>3, <2>4
         DEF IInv, LoaderInv, InFile, FirstText, IsText, Section
    <2> QED
      BY <2>1, <2>5 DEF IInv
  <1> QED
    BY <1>7, <1>9, <1>10 DEF ReadSection, read

(* There is one first text. *)
LEMMA OneText ==
  ASSUME NEW s \in Nat, NEW t \in Nat, FirstText(s), FirstText(t)
  PROVE  s = t
  BY DEF FirstText

LEMMA CopyTextKeepsInv ==
  ASSUME IInv, CopyText, UNCHANGED file
  PROVE  IInv'
  <1>0. file \in Files /\ file.elf /\ shnum' = shnum /\ sec \in Nat
    BY DEF IInv, LoaderInv, CopyText, shnum
  <1>1. shnum \in Nat /\ sec >= shnum
    BY <1>0, FilesAssumption DEF shnum, CopyText
  <1>2. \A s \in 0 .. shnum - 1 : InFile(file, s)
    BY <1>0, <1>1 DEF IInv, LoaderInv, CopyText
  <1>3. PICK s \in 0 .. shnum - 1 :
          /\ FirstText(s)
          /\ text_shndx' = s
          /\ LoadElfGoesOn("relocate", 0, 0, {Read(Section(s).offset, Section(s).size)})
    BY DEF CopyText
  <1>4. s # 0 /\ s \in Nat
    BY <1>1, <1>3 DEF FirstText
  <1>5. text_shndx \in Nat /\ (text_shndx # 0 => text_shndx = s)
    BY <1>3, <1>4, OneText DEF IInv, LoaderInv
  <1> DEFINE read == Read(Section(s).offset, Section(s).size)
  <1>6. read.in = "file" /\ read.offset + read.size <= file.size
    BY <1>2, <1>3 DEF Read, InFile, Section
  <1> HIDE DEF read
  <1>7. touched' = touched \cup {read}
    BY <1>3 DEF LoadElfGoesOn, read
  <1>8. LoaderStaysInside'
    <2>1. SUFFICES ASSUME NEW t \in touched
                   PROVE  IF t.in = "file" THEN t.offset + t.size <= file.size
                          ELSE t.offset < Section(s).size \/ t.offset = AddrMod - 1
      BY <1>3, <1>6, <1>7 DEF LoaderStaysInside, Section
    <2> QED
      BY <1>5 DEF IInv, LoaderInv, LoaderStaysInside
  <1>9. LoaderInv'
    BY <1>0, <1>1, <1>2, <1>3, <1>4
       DEF IInv, LoaderInv, LoadElfGoesOn, InFile, FirstText, IsText, Section
  <1> QED
    BY <1>8, <1>9 DEF IInv

(* A step of the relocation loop that reads and writes inside *)
LEMMA RelocationKeepsInv ==
  ASSUME IInv, elf = "relocate", NEW s \in Nat, NEW j \in Nat, NEW more,
         LoadElfGoesOn("relocate", s, j, more), UNCHANGED <<file, text_shndx>>,
         \A t \in more : Inside(t)
  PROVE  IInv'
  <1>1. LoaderStaysInside'
    BY DEF IInv, LoaderStaysInside, Inside, LoadElfGoesOn, Section
  <1>2. LoaderInv'
    BY DEF IInv, LoaderInv, LoadElfGoesOn, shnum, InFile, FirstText, IsText, Section
  <1> QED
    BY <1>1, <1>2 DEF IInv

LEMMA RelocateKeepsInv ==
  ASSUME IInv, Relocate, UNCHANGED file
  PROVE  IInv'
  <1>0. /\ file \in Files /\ file.elf /\ sec \in Nat /\ entry \in Nat
        /\ elf = "relocate" /\ sec < shnum /\ Relocates(sec) /\ text_shndx # 0
        /\ text_shndx \in 0 .. shnum - 1
        /\ \A s \in 0 .. shnum - 1 : InFile(file, s)
    BY DEF IInv, LoaderInv, Relocate, Relocating
  <1>1. shnum \in Nat /\ AddrMod \in Nat /\ AddrMod > 0
    BY <1>0, FilesAssumption, LayoutAssumption DEF shnum
  <1>2. sec \in 0 .. shnum - 1
    BY <1>0, <1>1
  <1>3. Symtab \in 0 .. shnum - 1 /\ Strtab \in 0 .. shnum - 1
    <2>1. Symtab \in Nat /\ Symtab < shnum /\ Strtab < shnum
      BY <1>0, <1>2, SectionTyping DEF Symtab, Relocate, LinksInside
    <2>2. Symtab \in 0 .. shnum - 1
      BY <1>1, <2>1
    <2>3. Strtab \in Nat
      BY <1>0, <2>2, SectionTyping DEF Strtab
    <2> QED
      BY <1>1, <2>1, <2>2, <2>3
  <1>4. /\ file.size \in Nat
        /\ \A s \in {sec, Symtab, Strtab, text_shndx} :
             /\ Section(s).offset \in Nat /\ Section(s).size \in Nat
             /\ Section(s).offset + Section(s).size <= file.size
    BY <1>0, <1>2, <1>3, SectionTyping DEF InFile, Section
  <1>5. RelSize \in Nat /\ RelSize > 0 /\ SymSize \in Nat /\ SymSize > 0
    BY ElfSizesAssumption, <1>1
  <1> DEFINE r == file.data[sec + 1][entry + 1]
             name == file.data[Symtab + 1][r.sym + 1]
             readRel == {Read(Section(sec).offset + entry * RelSize, RelSize)}
             readSym == {Read(Section(Symtab).offset + r.sym * SymSize, SymSize)}
             readName == {Read(Section(Strtab).offset + name, 1)}
             at0 == (r.offset + 1) % AddrMod
             imm == Lookup(file.data[Strtab + 1][name + 1])
  <1>6. entry < Section(sec).size \div RelSize
    BY DEF Relocate, EntryCount
  <1>7. entry \in 0 .. (Section(sec).size \div RelSize) - 1
    BY <1>0, <1>4, <1>5, <1>6
  <1>8. Section(sec).type = "rel" /\ InFile(file, sec) /\ InFile(file, Symtab)
    BY <1>0, <1>2, <1>3 DEF Relocates
  <1>9. /\ r.sym \in Nat /\ r.offset \in Addresses
        /\ \A k \in 0 .. (Section(Symtab).size \div SymSize) - 1 :
             file.data[Symtab + 1][k + 1] \in Nat
    <2> DEFINE link == file.sections[sec + 1].link
    <2>1. sec \in 0 .. Len(file.sections) - 1
      BY <1>2 DEF shnum
    <2>2. file.sections[sec + 1].type = "rel" /\ InFile(file, sec)
      BY <1>8 DEF Section
    <2>3. /\ \A j \in 0 .. (file.sections[sec + 1].size \div RelSize) - 1 :
               /\ file.data[sec + 1][j + 1].sym \in Nat
               /\ file.data[sec + 1][j + 1].offset \in Addresses
          /\ link < Len(file.sections) /\ InFile(file, link) =>
               \A k \in 0 .. (file.sections[link + 1].size \div SymSize) - 1 :
                 file.data[link + 1][k + 1] \in Nat
      BY <1>0, <2>1, <2>2, FilesAssumption, Zenon
    <2>4. link = Symtab /\ link < Len(file.sections) /\ InFile(file, link)
      BY <1>3, <1>8, <1>1 DEF Symtab, Section, shnum
    <2>5. entry \in 0 .. (file.sections[sec + 1].size \div RelSize) - 1
      BY <1>7 DEF Section
    <2>6. r.sym \in Nat /\ r.offset \in Addresses
      BY <2>3, <2>5
    <2> HIDE DEF link, r
    <2> QED
      BY <2>3, <2>4, <2>6 DEF Section
  <1>10. \A t \in readRel : t.in = "file" /\ Inside(t)
    <2>1. entry * RelSize + RelSize <= Section(sec).size
      BY <1>0, <1>4, <1>5, <1>6, EntryInside
    <2>2. entry * RelSize \in Nat
      BY <1>0, <1>5
    <2> QED
      BY <1>4, <1>5, <2>1, <2>2 DEF Inside, Read
  <1>11. r.sym < Section(Symtab).size \div SymSize => \A t \in readSym : t.in = "file" /\ Inside(t)
    <2> SUFFICES ASSUME r.sym < Section(Symtab).size \div SymSize
                 PROVE  \A t \in readSym : t.in = "file" /\ Inside(t)
      OBVIOUS
    <2> HIDE DEF r
    <2>1. r.sym * SymSize + SymSize <= Section(Symtab).size
      BY <1>4, <1>5, <1>9, EntryInside
    <2>2. r.sym * SymSize \in Nat
      BY <1>5, <1>9
    <2> QED
      BY <1>4, <1>5, <2>1, <2>2 DEF Inside, Read
  <1>12. r.sym < Section(Symtab).size \div SymSize => name \in Nat
    <2> HIDE DEF r
    <2> QED
      BY <1>4, <1>5, <1>9
  <1>13. name \in Nat /\ name < Section(Strtab).size => \A t \in readName : t.in = "file" /\ Inside(t)
    <2> HIDE DEF name
    <2> QED
      BY <1>4 DEF Inside, Read
  <1>14. (r.offset + 2) % AddrMod <= Section(text_shndx).size => Inside(Write(at0))
    <2> SUFFICES ASSUME (r.offset + 2) % AddrMod <= Section(text_shndx).size
                 PROVE  at0 < Section(text_shndx).size \/ at0 = AddrMod - 1
      BY DEF Inside, Write
    <2> HIDE DEF r
    <2>1. r.offset \in Nat /\ r.offset < AddrMod
      BY <1>1, <1>9 DEF Addresses
    <2>2. CASE r.offset + 2 < AddrMod
      <3>1. (r.offset + 2) % AddrMod = r.offset + 2 /\ at0 = r.offset + 1
        BY <1>1, <2>1, <2>2
      <3> QED
        BY <2>1, <3>1, <1>4
    <2>3. CASE r.offset + 2 = AddrMod
      <3>1. at0 = AddrMod - 1
        BY <1>1, <2>1, <2>3
      <3> QED
        BY <3>1
    <2>4. CASE r.offset + 1 = AddrMod /\ AddrMod > 1
      <3>1. at0 = 0 /\ (r.offset + 2) % AddrMod = 1
        BY <1>1, <2>1, <2>4
      <3> QED
        BY <3>1, <1>4
    <2>5. CASE AddrMod = 1
      <3>1. at0 = AddrMod - 1
        BY <1>1, <2>1, <2>5
      <3> QED
        BY <3>1
    <2> QED
      BY <1>1, <2>1, <2>2, <2>3, <2>4, <2>5
  <1>15. CASE LoadElfFails(readRel)
    BY <1>10, <1>15, FailsKeepsInv
  <1>16. CASE LoadElfFails(readRel \cup readSym) /\ r.sym < Section(Symtab).size \div SymSize
    BY <1>10, <1>11, <1>16, FailsKeepsInv
  <1>17. CASE /\ LoadElfFails(readRel \cup readSym \cup readName)
              /\ r.sym < Section(Symtab).size \div SymSize
              /\ name < Section(Strtab).size
    BY <1>10, <1>11, <1>12, <1>13, <1>17, FailsKeepsInv
  <1>18. CASE /\ LoadElfGoesOn("relocate", sec, entry + 1,
                               readRel \cup readSym \cup readName \cup {Write(at0)})
              /\ r.sym < Section(Symtab).size \div SymSize
              /\ name < Section(Strtab).size
              /\ (r.offset + 2) % AddrMod <= Section(text_shndx).size
              /\ UNCHANGED text_shndx
    <2>1. \A t \in readRel \cup readSym \cup readName \cup {Write(at0)} : Inside(t)
      BY <1>10, <1>11, <1>12, <1>13, <1>14, <1>18
    <2>2. entry + 1 \in Nat /\ UNCHANGED <<file, text_shndx>>
      BY <1>0, <1>18
    <2> DEFINE more == readRel \cup readSym \cup readName \cup {Write(at0)}
    <2>3. LoadElfGoesOn("relocate", sec, entry + 1, more) /\ \A t \in more : Inside(t)
      BY <1>18, <2>1
    <2> HIDE DEF more
    <2> QED
      BY <1>0, <2>2, <2>3, RelocationKeepsInv
  <1> QED
    <2>1. /\ (r.type # 2 \/ r.sym >= Section(Symtab).size \div SymSize) => LoadElfFails(readRel)
          /\ ~(r.type # 2 \/ r.sym >= Section(Symtab).size \div SymSize) =>
             /\ (\/ name >= Section(Strtab).size
                 \/ (r.offset + 2) % AddrMod > Section(text_shndx).size) =>
                  LoadElfFails(readRel \cup readSym)
             /\ ~(\/ name >= Section(Strtab).size
                  \/ (r.offset + 2) % AddrMod > Section(text_shndx).size) =>
                  IF imm = -1
                  THEN LoadElfFails(readRel \cup readSym \cup readName)
                  ELSE /\ LoadElfGoesOn("relocate", sec, entry + 1,
                               readRel \cup readSym \cup readName \cup {Write(at0)})
                       /\ UNCHANGED text_shndx
      BY DEF Relocate
    <2>2. Section(Symtab).size \div SymSize \in Nat
      BY <1>4, <1>5
    <2>3. (r.offset + 2) % AddrMod \in Nat
      BY <1>1, <1>9 DEF Addresses
    <2>4. Section(Strtab).size \in Nat /\ Section(text_shndx).size \in Nat
      BY <1>4
    <2> HIDE DEF r, readRel, readSym, readName, at0, imm, name
    <2>5. CASE r.type # 2 \/ r.sym >= Section(Symtab).size \div SymSize
      BY <1>15, <2>1, <2>5
    <2>6. CASE ~(r.type # 2 \/ r.sym >= Section(Symtab).size \div SymSize)
      <3>1. r.sym < Section(Symtab).size \div SymSize /\ name \in Nat
        BY <1>9, <1>12, <2>2, <2>6
      <3>2. CASE \/ name >= Section(Strtab).size
                 \/ (r.offset + 2) % AddrMod > Section(text_shndx).size
        BY <1>16, <2>1, <2>6, <3>1, <3>2
      <3>3. CASE ~(\/ name >= Section(Strtab).size
                   \/ (r.offset + 2) % AddrMod > Section(text_shndx).size)
        <4>1. /\ name < Section(Strtab).size
              /\ (r.offset + 2) % AddrMod <= Section(text_shndx).size
          BY <2>3, <2>4, <3>1, <3>3
        <4> QED
          BY <1>17, <1>18, <2>1, <2>6, <3>1, <3>3, <4>1
      <3> QED
        BY <3>2, <3>3
    <2> QED
      BY <2>5, <2>6

(* The steps that touch neither the file nor the copy *)
LEMMA LoadTextKeepsInv ==
  ASSUME IInv, LoadText \/ LoadTextStep, UNCHANGED file
  PROVE  IInv'
  <1>1. LoaderStaysInside'
    BY DEF IInv, LoaderStaysInside, LoadText, LoadTextStep, Section
  <1>2. LoaderInv'
    BY DEF IInv, LoaderInv, LoadText, LoadTextStep, shnum, FirstText, IsText, Section
  <1> QED
    BY <1>1, <1>2 DEF IInv

LEMMA LoadElfStepKeepsInv ==
  ASSUME IInv, LoadElfStep, UNCHANGED file
  PROVE  IInv'
  <1>1. CASE ReadSection
    BY <1>1, ReadSectionKeepsInv
  <1>2. CASE CopyText
    BY <1>2, CopyTextKeepsInv
  <1>3. CASE CopyTextFails \/ BadLink
    <2>1. LoadElfFails({})
      BY <1>3 DEF CopyTextFails, BadLink
    <2> QED
      BY <2>1, FailsKeepsInv
  <1>4. CASE NextSection
    <2>1. /\ LoadElfGoesOn("relocate", sec + 1, 0, {}) /\ UNCHANGED text_shndx
          /\ elf = "relocate" /\ sec + 1 \in Nat /\ 0 \in Nat
      BY <1>4 DEF NextSection, IInv, LoaderInv
    <2> QED
      BY <2>1, RelocationKeepsInv
  <1>5. CASE Relocate
    BY <1>5, RelocateKeepsInv
  <1>6. CASE LoadText \/ LoadTextStep
    BY <1>6, LoadTextKeepsInv
  <1> QED
    BY <1>1, <1>2, <1>3, <1>4, <1>5, <1>6 DEF LoadElfStep

LEMMA UntouchedKeepsInv ==
  ASSUME IInv, UNCHANGED <<file, elfVars>>
  PROVE  IInv'
  BY DEF IInv, LoaderInv, LoaderStaysInside, elfVars, shnum, InFile, FirstText, IsText, Section

LEMMA DriverStepKeepsInv ==
  ASSUME IInv, [DriverStep]_driverVars
  PROVE  IInv'
  <1>1. CASE StartLoad
    <2>1. CASE file.elf
      <3>1. LoadElf /\ UNCHANGED file
        BY <1>1, <2>1 DEF StartLoad
      <3> QED
        BY <2>1, <3>1, LoadElfKeepsInv
    <2>2. CASE ~file.elf
      BY <1>1, <2>2, UntouchedKeepsInv DEF StartLoad
    <2> QED
      BY <2>1, <2>2
  <1>2. CASE Loading
    <2>1. CASE file.elf
      <3>1. LoadElfStep /\ UNCHANGED file
        BY <1>2, <2>1 DEF Loading
      <3> QED
        BY <3>1, LoadElfStepKeepsInv
    <2>2. CASE ~file.elf
      BY <1>2, <2>2, UntouchedKeepsInv DEF Loading
    <2> QED
      BY <2>1, <2>2
  <1>3. CASE ReadFile \/ CreateVm \/ RegisterNext \/ RegisterUnwind
    BY <1>3, UntouchedKeepsInv DEF ReadFile, CreateVm, RegisterNext, RegisterUnwind
  <1>4. CASE UnloadAgain \/ LoadAgain \/ LoadResult
    BY <1>4, UntouchedKeepsInv DEF UnloadAgain, LoadAgain, LoadResult
  <1>5. CASE CompileAndRun \/ Interpret \/ Interpreting \/ DestroyVm
    BY <1>5, UntouchedKeepsInv DEF CompileAndRun, Interpret, Interpreting, DestroyVm
  <1>6. CASE UNCHANGED driverVars
    BY <1>6, UntouchedKeepsInv DEF driverVars
  <1> QED
    BY <1>1, <1>2, <1>3, <1>4, <1>5, <1>6 DEF DriverStep

(***************************************************************************)
(* Whatever counts, offsets, indices and links a file holds, ubpf_load_elf *)
(* reads inside the file and writes inside its copy of the text, but for a *)
(* relocation offset whose sum with 8 wraps (2^64 - 8 to 2^64 - 5 bytes).  *)
(***************************************************************************)
THEOREM LoaderInside == DriverSpec => []LoaderStaysInside
  <1>1. DriverInit => IInv
    BY DEF DriverInit, IInv, LoaderInv, LoaderStaysInside
  <1>2. IInv /\ [DriverStep]_driverVars => IInv'
    BY DriverStepKeepsInv
  <1>3. IInv => LoaderStaysInside
    BY DEF IInv
  <1> QED
    BY <1>1, <1>2, <1>3, PTL DEF DriverSpec

-----------------------------------------------------------------------------
(* The table of functions. *)

(* Nothing is registered but the helpers, each at its own index. *)
NamesInv ==
  /\ ext_funcs \in Table
  /\ \A idx \in 0 .. MaxExtFuncs - 1 : ext_funcs[idx] # NULL =>
       idx + 1 \in 1 .. Len(Helpers) /\ ext_funcs[idx] = Helpers[idx + 1]

LEMMA LookupIsIndex ==
  ASSUME NamesInv, NEW name, Lookup(name) # -1
  PROVE  Lookup(name) = IndexOf(name)
  <1> DEFINE found == {idx \in 0 .. MaxExtFuncs - 1 : ext_funcs[idx] # NULL /\ ext_funcs[idx] = name}
  <1>1. PICK idx \in found : TRUE
    BY DEF Lookup
  <1>2. MaxExtFuncs \in Nat /\ idx \in Nat /\ idx + 1 \in 1 .. Len(Helpers) /\ Helpers[idx + 1] = name
    BY <1>1, MaxExtFuncsAssumption DEF NamesInv
  <1>3. \A k \in 1 .. Len(Helpers) : Helpers[k] = name => k = idx + 1
    BY <1>2, HelpersAssumption
  <1>4. \A other \in found : other = idx
    <2> SUFFICES ASSUME NEW other \in found
                 PROVE  other = idx
      OBVIOUS
    <2>1. other \in Nat /\ other + 1 \in 1 .. Len(Helpers) /\ Helpers[other + 1] = name
      BY <1>2 DEF NamesInv
    <2> QED
      BY <1>2, <1>3, <2>1
  <1>5. (CHOOSE least \in found : \A other \in found : least <= other) = idx
    <2>1. idx \in found /\ \A other \in found : idx <= other
      BY <1>1, <1>2, <1>4
    <2> HIDE DEF found
    <2>2. (CHOOSE least \in found : \A other \in found : least <= other) \in found
      BY <2>1
    <2> QED
      BY <1>4, <2>2
  <1>6. Lookup(name) = idx
    BY <1>1, <1>5 DEF Lookup
  <1>7. (CHOOSE k \in 1 .. Len(Helpers) : Helpers[k] = name) = idx + 1
    BY <1>2, <1>3
  <1>8. IndexOf(name) = (idx + 1) - 1
    BY <1>7, Zenon DEF IndexOf
  <1> QED
    BY <1>2, <1>6, <1>8

-----------------------------------------------------------------------------
(* Relocations in the order of the file. *)

LEMMA OneLast ==
  ASSUME NEW hits, hits \subseteq Nat \X Nat, NEW e, IsLast(e, hits)
  PROVE  (CHOOSE c \in hits : IsLast(c, hits)) = e
  <1>1. ASSUME NEW c \in hits, IsLast(c, hits)
        PROVE  c = e
    <2>1. c \in Nat \X Nat /\ e \in Nat \X Nat
      BY DEF IsLast
    <2>2. c[1] = e[1] /\ c[2] = e[2]
      BY <1>1, <2>1 DEF IsLast
    <2> QED
      BY <2>1, <2>2
  <1>2. e \in hits
    BY DEF IsLast
  <1> QED
    BY <1>1, <1>2

(* The relocations the loop over sections and entries has been through *)
Done(e) == e[1] < sec \/ (e[1] = sec /\ e[2] <= entry)

DoneHits(h) == {e \in Hits(file, h) : Done(e)}

(* The copy of the text with these relocations, and no others, applied *)
CopyInv ==
  LET text == file.data[text_shndx + 1]
  IN /\ text_copy = [h \in DOMAIN text |-> text_copy[h]]
     /\ \A h \in DOMAIN text :
          \/ DoneHits(h) = {} /\ text_copy[h] = text[h]
          \/ \E e \in DoneHits(h) :
               IsLast(e, DoneHits(h)) /\ text_copy[h] = [imm |-> IndexOf(NameOf(file, e))]

LEMMA HitsArePairs ==
  ASSUME file \in Files, file.elf, NEW h
  PROVE  /\ Hits(file, h) \subseteq (0 .. shnum - 1) \X (1 .. file.size)
         /\ Hits(file, h) \subseteq Nat \X Nat
         /\ DoneHits(h) \subseteq Nat \X Nat
  <1>1. shnum \in Nat /\ file.size \in Nat
    BY FilesAssumption DEF shnum
  <1>2. Hits(file, h) \subseteq (0 .. shnum - 1) \X (1 .. file.size)
    BY DEF Hits, Relocations, shnum
  <1>3. (0 .. shnum - 1) \X (1 .. file.size) \subseteq Nat \X Nat
    BY <1>1
  <1> QED
    BY <1>2, <1>3 DEF DoneHits

(* The loader's text is the file's. *)
LEMMA TextIsText ==
  ASSUME file \in Files, file.elf, NEW s \in 0 .. shnum - 1, FirstText(s)
  PROVE  TextOf(file) = s
  <1>1. shnum \in Nat /\ s \in 1 .. shnum - 1 /\ s # 0
    BY FilesAssumption DEF shnum, FirstText
  <1>2. IsCode(file, s) /\ \A t \in 0 .. s - 1 : ~IsCode(file, t)
    BY DEF FirstText, IsText, IsCode, Section, SectionOf
  <1>3. ASSUME NEW t \in 1 .. shnum - 1, IsCode(file, t), \A u \in 0 .. t - 1 : ~IsCode(file, u)
        PROVE  t = s
    BY <1>1, <1>2, <1>3
  <1> QED
    BY <1>1, <1>2, <1>3 DEF TextOf, shnum

-----------------------------------------------------------------------------
(* The loop over sections and entries. *)

(* Nothing is done when the text has been copied ... *)
LEMMA CopyTextCopies ==
  ASSUME IInv, CopyText, UNCHANGED file
  PROVE  CopyInv'
  <1>1. file \in Files /\ file.elf /\ shnum \in Nat
    BY FilesAssumption DEF IInv, LoaderInv, CopyText, shnum
  <1>2. PICK s \in 0 .. shnum - 1 :
          /\ FirstText(s) /\ text_shndx' = s /\ sec' = 0 /\ entry' = 0
          /\ text_copy' = file.data[s + 1]
    BY DEF CopyText, LoadElfGoesOn
  <1>3. InFile(file, s) /\ file.sections[s + 1].exec
    <2>1. sec >= shnum /\ sec \in Nat /\ elf = "sections"
      BY DEF CopyText, IInv, LoaderInv
    <2> QED
      BY <1>1, <1>2, <2>1 DEF IInv, LoaderInv, FirstText, IsText, Section
  <1>4. file.data[s + 1] = [h \in 1 .. file.sections[s + 1].size |-> file.data[s + 1][h]]
    BY <1>1, <1>2, <1>3, FilesAssumption DEF shnum
  <1>5. \A h : DoneHits(h)' = {}
    <2> SUFFICES ASSUME NEW h, NEW e \in Hits(file, h)
                 PROVE  ~(e[1] < 0 \/ (e[1] = 0 /\ e[2] <= 0))
      BY <1>2 DEF DoneHits, Done
    <2>1. e[1] \in 0 .. shnum - 1 /\ e[2] \in 1 .. file.size /\ file.size \in Nat
      BY <1>1, HitsArePairs, FilesAssumption
    <2> QED
      BY <1>1, <2>1
  <1>6. text_copy' = [h \in DOMAIN file.data[s + 1] |-> text_copy'[h]]
    BY <1>2, <1>4
  <1> QED
    BY <1>2, <1>5, <1>6 DEF CopyInv

(* ... a section that is no relocation of the text, or has been gone      *)
(* through, adds nothing ...                                              *)
LEMMA NextSectionKeepsCopy ==
  ASSUME IInv, CopyInv, NextSection, UNCHANGED file
  PROVE  CopyInv'
  <1>1. /\ file \in Files /\ file.elf /\ shnum \in Nat /\ file.size \in Nat
        /\ sec \in Nat /\ entry \in Nat /\ sec < shnum
    BY FilesAssumption DEF IInv, LoaderInv, NextSection, shnum
  <1>2. /\ sec' = sec + 1 /\ entry' = 0 /\ UNCHANGED <<text_shndx, text_copy>>
    BY DEF NextSection, LoadElfGoesOn
  <1>3. TextOf(file) = text_shndx
    BY <1>1, TextIsText DEF IInv, LoaderInv, NextSection
  <1>4. ASSUME NEW h, NEW e \in Hits(file, h)
        PROVE  Done(e)' <=> Done(e)
    <2>1. e[1] \in 0 .. shnum - 1 /\ e[2] \in 1 .. file.size
      BY <1>1, HitsArePairs
    <2>2. e[1] = sec => e[2] <= entry
      <3>1. CASE ~Relocates(sec)
        BY <1>3, <3>1 DEF Relocates, Hits, Relocations, Section, SectionOf
      <3>2. CASE entry >= EntryCount
        <4>1. e[1] = sec => e[2] <= EntryCount
          BY DEF Hits, Relocations, SectionOf, Section, EntryCount
        <4>2. EntryCount \in Nat
          <5>1. sec \in 0 .. shnum - 1 /\ RelSize \in Nat /\ RelSize > 0
            BY <1>1, ElfSizesAssumption, LayoutAssumption
          <5>2. Section(sec).size \in Nat
            BY <1>1, <5>1, SectionTyping
          <5> QED
            BY <5>1, <5>2 DEF EntryCount
        <4> QED
          BY <1>1, <2>1, <3>2, <4>1, <4>2
      <3> QED
        BY <3>1, <3>2 DEF NextSection
    <2> QED
      BY <1>1, <1>2, <2>1, <2>2 DEF Done
  <1>5. \A h : DoneHits(h)' = DoneHits(h)
    BY <1>4 DEF DoneHits
  <1> QED
    BY <1>2, <1>5 DEF CopyInv

(* ... and an entry adds itself, as the last. *)
LEMMA RelocateKeepsCopy ==
  ASSUME IInv, NamesInv, CopyInv, Relocate, elf' # "out", UNCHANGED file
  PROVE  CopyInv'
  <1>1. /\ file \in Files /\ file.elf /\ shnum \in Nat /\ file.size \in Nat
        /\ sec \in Nat /\ entry \in Nat /\ sec < shnum
        /\ Relocates(sec) /\ entry < EntryCount /\ sec \in 0 .. shnum - 1
        /\ InFile(file, sec)
    <2>1. file \in Files /\ file.elf /\ sec \in Nat /\ entry \in Nat
          /\ elf = "relocate" /\ sec < shnum /\ Relocates(sec) /\ entry < EntryCount
      BY DEF IInv, LoaderInv, Relocate, Relocating
    <2>2. shnum \in Nat /\ file.size \in Nat
      BY <2>1, FilesAssumption DEF shnum
    <2>3. sec \in 0 .. shnum - 1
      BY <2>1, <2>2
    <2> QED
      BY <2>1, <2>2, <2>3 DEF IInv, LoaderInv
  <1> DEFINE r == file.data[sec + 1][entry + 1]
             new == <<sec, entry + 1>>
             half == ((r.offset + 1) % AddrMod) + 1
             imm == Lookup(NameOf(file, new))
  <1>2. /\ imm # -1
        /\ sec' = sec /\ entry' = entry + 1 /\ text_shndx' = text_shndx
        /\ text_copy' = [h \in DOMAIN text_copy |->
                           IF h = half THEN [imm |-> imm] ELSE text_copy[h]]
    BY DEF Relocate, LoadElfFails, LoadElfGoesOn, NameOf, RelocationOf, SectionOf,
           Symtab, Strtab, Section
  <1>3. TextOf(file) = text_shndx
    BY <1>1, TextIsText DEF IInv, LoaderInv, Relocate, Relocating
  <1>4. new \in Relocations(file)
    <2>1. /\ Section(sec).size \in Nat /\ Section(sec).offset \in Nat
          /\ Section(sec).offset + Section(sec).size <= file.size
      BY <1>1, SectionTyping DEF InFile, Section
    <2>2. RelSize \in Nat /\ RelSize > 0
      BY ElfSizesAssumption, LayoutAssumption
    <2>3. EntryCount \in Nat /\ EntryCount <= Section(sec).size
      BY <2>1, <2>2 DEF EntryCount
    <2>4. entry + 1 \in 1 .. file.size /\ entry + 1 <= EntryCount
      BY <1>1, <2>1, <2>3
    <2>5. new \in (0 .. Len(file.sections) - 1) \X (1 .. file.size)
      BY <1>1, <2>4 DEF shnum
    <2> QED
      BY <1>1, <1>3, <2>4, <2>5 DEF Relocations, Relocates, EntryCount, Section, SectionOf
  <1>5. \A h : new \in Hits(file, h) <=> h = half
    BY <1>4 DEF Hits, RelocationOf
  <1>6. ASSUME NEW h, NEW e \in Hits(file, h)
        PROVE  Done(e)' <=> Done(e) \/ e = new
    <2>1. e \in Nat \X Nat
      BY <1>1, HitsArePairs
    <2> QED
      BY <1>1, <1>2, <2>1 DEF Done
  <1>7. \A h : DoneHits(h)' = IF h = half THEN DoneHits(h) \cup {new} ELSE DoneHits(h)
    BY <1>5, <1>6 DEF DoneHits
  <1>8. IsLast(new, DoneHits(half) \cup {new})
    <2>1. \A e \in DoneHits(half) : e \in Nat \X Nat /\ Done(e)
      BY <1>1, HitsArePairs DEF DoneHits
    <2> QED
      BY <1>1, <2>1 DEF IsLast, Done
  <1>9. imm = IndexOf(NameOf(file, new))
    BY <1>2, LookupIsIndex
  <1> DEFINE text == file.data[text_shndx + 1]
  <1>10. DOMAIN text_copy = DOMAIN text
    BY DEF CopyInv
  <1>11. text_copy' = [h \in DOMAIN text |-> text_copy'[h]]
    BY <1>2, <1>10
  <1>12. ASSUME NEW h \in DOMAIN text
         PROVE  \/ DoneHits(h)' = {} /\ text_copy'[h] = text[h]
                \/ \E e \in DoneHits(h)' :
                     IsLast(e, DoneHits(h)') /\ text_copy'[h] = [imm |-> IndexOf(NameOf(file, e))]
    <2> HIDE DEF new, imm, half, r
    <2>1. CASE h = half
      <3>1. text_copy'[h] = [imm |-> IndexOf(NameOf(file, new))]
        BY <1>2, <1>9, <1>10, <2>1
      <3> QED
        BY <1>7, <1>8, <2>1, <3>1
    <2>2. CASE h # half
      <3>1. text_copy'[h] = text_copy[h] /\ DoneHits(h)' = DoneHits(h)
        BY <1>2, <1>7, <1>10, <2>2
      <3> QED
        BY <3>1 DEF CopyInv
    <2> QED
      BY <2>1, <2>2
  <1> HIDE DEF new, imm, half, r
  <1> QED
    BY <1>2, <1>11, <1>12 DEF CopyInv

(* When the loop is through, the copy is what the file means. *)
LEMMA CopyIsMeant ==
  ASSUME IInv, CopyInv, elf = "relocate", sec >= shnum
  PROVE  text_copy = Meant(file)
  <1>1. /\ file \in Files /\ file.elf /\ shnum \in Nat /\ sec \in Nat /\ entry \in Nat
    BY FilesAssumption DEF IInv, LoaderInv, shnum
  <1>2. TextOf(file) = text_shndx
    BY <1>1, TextIsText DEF IInv, LoaderInv
  <1>3. \A h : DoneHits(h) = Hits(file, h)
    <2> SUFFICES ASSUME NEW h, NEW e \in Hits(file, h)
                 PROVE  Done(e)
      BY DEF DoneHits
    <2>1. e[1] \in 0 .. shnum - 1
      BY <1>1, HitsArePairs
    <2> QED
      BY <1>1, <2>1 DEF Done
  <1> DEFINE text == file.data[text_shndx + 1]
             meant == [h \in DOMAIN text |->
                        IF Hits(file, h) = {} THEN text[h]
                        ELSE [imm |-> IndexOf(NameOf(file,
                                CHOOSE e \in Hits(file, h) : IsLast(e, Hits(file, h))))]]
  <1>4. ASSUME NEW h \in DOMAIN text
        PROVE  text_copy[h] = meant[h]
    <2>1. CASE DoneHits(h) = {} /\ text_copy[h] = text[h]
      BY <1>3, <2>1
    <2>2. CASE \E e \in DoneHits(h) :
                 IsLast(e, DoneHits(h)) /\ text_copy[h] = [imm |-> IndexOf(NameOf(file, e))]
      <3>1. PICK e \in Hits(file, h) :
              IsLast(e, Hits(file, h)) /\ text_copy[h] = [imm |-> IndexOf(NameOf(file, e))]
        BY <1>3, <2>2
      <3>2. (CHOOSE c \in Hits(file, h) : IsLast(c, Hits(file, h))) = e
        BY <1>1, <3>1, HitsArePairs, OneLast
      <3> QED
        BY <3>1, <3>2
    <2> QED
      BY <2>1, <2>2 DEF CopyInv
  <1>5. text_copy = [h \in DOMAIN text |-> text_copy[h]]
    BY DEF CopyInv
  <1>6. text_copy = meant
    <2> HIDE DEF text
    <2> QED
      BY <1>4, <1>5
  <1> QED
    BY <1>1, <1>2, <1>6 DEF Meant

-----------------------------------------------------------------------------
(* The vm and main. *)

LinkInv ==
  /\ NamesInv
  /\ elf = "relocate" => CopyInv
  /\ mode = "validate" => code = Decode(Meant(file))
  /\ insts # NULL => insts = Decode(Meant(file))
  /\ jitted # NULL => at \in {"destroy", "ended"} /\ jitted.code = insts
  /\ text_copy # NULL => elf # "out"
  /\ at \in {"start", "create"} => ~live
  /\ at = "ended" /\ live => status = Crashed \/ (options.jit /\ status = 1)

LEMMA LinkInitially == DriverInit => LinkInv
  BY DEF DriverInit, Init, EmptyTable, Table, LinkInv, NamesInv

(* What the invariant says of the vm, the loader and main, one by one *)
VmPart ==
  /\ NamesInv
  /\ mode = "validate" => code = Decode(Meant(file))
  /\ insts # NULL => insts = Decode(Meant(file))

(* A step of ubpf_load_elf *)
LEMMA LoadElfKeepsLink ==
  ASSUME IInv, LinkInv, at \in {"load", "loading"}, LoadElf \/ LoadElfStep, UNCHANGED file
  PROVE  /\ VmPart' /\ jitted' = NULL
         /\ elf' = "relocate" => CopyInv'
         /\ text_copy' # NULL => elf' # "out"
  <1>1. jitted = NULL /\ VmPart
    BY DEF LinkInv, VmPart
  <1>2. CASE LoadElf \/ ReadSection \/ CopyText \/ CopyTextFails \/ NextSection \/ BadLink \/ Relocate
    <2>1. UNCHANGED <<ext_funcs, insts, jitted, mode, code>>
      BY <1>2 DEF LoadElf, ReadSection, CopyText, CopyTextFails, NextSection, BadLink, Relocate,
                  LoadElfFails, LoadElfGoesOn, vmVars, codeVars, loadVars
    <2>2. VmPart' /\ jitted' = NULL
      BY <1>1, <2>1 DEF VmPart, NamesInv, Table
    <2>3. text_copy' # NULL => elf' # "out"
      BY <1>2 DEF LinkInv, LoadElf, ReadSection, CopyText, CopyTextFails, NextSection, BadLink,
                  Relocate, LoadElfFails, LoadElfGoesOn
    <2>4. elf' = "relocate" => CopyInv'
      <3>1. elf' = "relocate" => CopyText \/ NextSection \/ Relocate
        BY <1>2 DEF LoadElf, ReadSection, CopyTextFails, BadLink, LoadElfFails, LoadElfGoesOn
      <3>2. NextSection \/ Relocate => elf = "relocate"
        BY DEF NextSection, Relocate, Relocating
      <3> QED
        BY <3>1, <3>2, CopyTextCopies, NextSectionKeepsCopy, RelocateKeepsCopy DEF LinkInv
    <2> QED
      BY <2>2, <2>3, <2>4
  <1>3. CASE LoadText
    <2>1. text_copy = Meant(file)
      BY <1>3, CopyIsMeant DEF LinkInv, LoadText
    <2>2. /\ UNCHANGED <<ext_funcs, insts, jitted>>
          /\ mode' = "validate" => mode = "validate" \/ code' = Decode(Meant(file))
          /\ code' = code \/ code' = Decode(Meant(file))
      BY <1>3, <2>1
         DEF LoadText, LoadCode, LoadRefused, LoadCall, Idle, vmVars, codeVars, loadVars
    <2>3. VmPart' /\ jitted' = NULL
      BY <1>1, <2>2 DEF VmPart, NamesInv, Table
    <2>4. elf' # "relocate" /\ (text_copy' # NULL => elf' # "out")
      BY <1>3 DEF LoadText
    <2> QED
      BY <2>3, <2>4
  <1>4. CASE LoadTextStep
    <2>1. /\ UNCHANGED <<ext_funcs, jitted>>
          /\ mode' = "validate" => code' = code
          /\ mode = "validate" /\ insts' \in {insts, code}
      BY <1>4 DEF LoadTextStep, LoadStep, ValidateAccept, ValidateReject, LoadDone, LoadNoMemory,
                  vmVars, codeVars, loadVars
    <2>2. VmPart' /\ jitted' = NULL
      BY <1>1, <2>1 DEF VmPart, NamesInv, Table
    <2>3. elf' # "relocate" /\ (text_copy' # NULL => elf' # "out")
      BY <1>4 DEF LoadTextStep
    <2> QED
      BY <2>2, <2>3
  <1> QED
    BY <1>2, <1>3, <1>4 DEF LoadElfStep

(* The same for plain code *)
LEMMA LoadKeepsLink ==
  ASSUME LinkInv, at \in {"load", "loading"}, ~file.elf, UNCHANGED <<file, elfVars>>,
         LoadCode(file.data[1]) \/ LoadStep
  PROVE  /\ VmPart' /\ jitted' = NULL
         /\ elf' = "relocate" => CopyInv'
         /\ text_copy' # NULL => elf' # "out"
  <1>1. jitted = NULL /\ VmPart
    BY DEF LinkInv, VmPart
  <1>2. Meant(file) = file.data[1]
    BY DEF Meant
  <1>3. /\ UNCHANGED <<ext_funcs, jitted>>
        /\ mode' = "validate" => (mode = "validate" /\ code' = code) \/ code' = Decode(Meant(file))
        /\ insts' = insts \/ (mode = "validate" /\ insts' = code)
    BY <1>2 DEF LoadCode, LoadRefused, LoadCall, Idle, LoadStep, ValidateAccept, ValidateReject,
                LoadDone, LoadNoMemory, vmVars, codeVars, loadVars
  <1>4. VmPart' /\ jitted' = NULL
    BY <1>1, <1>3 DEF VmPart, NamesInv, Table
  <1>5. elf' = "relocate" => CopyInv'
    BY DEF LinkInv, elfVars, CopyInv, DoneHits, Done
  <1> QED
    BY <1>4, <1>5 DEF LinkInv, elfVars

LEMMA RegisterKeepsNames ==
  ASSUME NamesInv, RegisterNext
  PROVE  NamesInv'
  <1>1. PICK idx \in 0 .. Len(Helpers) - 1 : Register(idx, Helpers[idx + 1])
    BY DEF RegisterNext
  <1>2. /\ MaxExtFuncs \in Nat /\ Len(Helpers) \in Nat /\ Len(Helpers) <= MaxExtFuncs
        /\ idx \in 0 .. MaxExtFuncs - 1 /\ idx + 1 \in 1 .. Len(Helpers)
        /\ Helpers[idx + 1] \in Funcs
    BY <1>1, HelpersAssumption, MaxExtFuncsAssumption
  <1>3. ext_funcs' = [ext_funcs EXCEPT ![idx] = Helpers[idx + 1]]
    BY <1>1, <1>2 DEF Register
  <1> QED
    BY <1>2, <1>3 DEF NamesInv, Table

LEMMA DriverStepKeepsLink ==
  ASSUME IInv, LinkInv, [DriverStep]_driverVars
  PROVE  LinkInv'
  <1> USE DEF Exit, GoTo
  <1>1. CASE StartLoad \/ Loading
    <2>1. UNCHANGED <<file, options>> /\ at \in {"load", "loading"} /\ at' \in {"loading", "loaded"}
      BY <1>1 DEF StartLoad, Loading
    <2>2. CASE file.elf
      <3>1. LoadElf \/ LoadElfStep
        BY <1>1, <2>2 DEF StartLoad, Loading
      <3> QED
        BY <2>1, <3>1, LoadElfKeepsLink DEF LinkInv, VmPart
    <2>3. CASE ~file.elf
      <3>1. (LoadCode(file.data[1]) \/ LoadStep) /\ UNCHANGED elfVars
        BY <1>1, <2>3 DEF StartLoad, Loading
      <3> QED
        BY <2>1, <2>3, <3>1, LoadKeepsLink DEF LinkInv, VmPart
    <2> QED
      BY <2>2, <2>3
  <1>2. ASSUME UNCHANGED <<file, elfVars>>, elf' = "relocate"
        PROVE  CopyInv'
    BY <1>2 DEF LinkInv, elfVars, CopyInv, DoneHits, Done
  <1>3. CASE ReadFile
    BY <1>2, <1>3 DEF ReadFile, LinkInv, NamesInv, Table, elfVars, vars, vmVars, codeVars, loadVars
  <1>4. CASE CreateVm
    <2>1. UNCHANGED <<file, elfVars, options, insts, jitted, mode, code>> /\ at = "create"
      BY <1>4 DEF CreateVm, Create, CreateFails, codeVars, loadVars
    <2>2. jitted = NULL
      BY <2>1 DEF LinkInv
    <2>3. NamesInv'
      BY <1>4 DEF CreateVm, Create, CreateFails, LinkInv, NamesInv, EmptyTable, Table, vmVars
    <2>4. at' = "register" \/ (at' = "ended" /\ ~live')
      BY <1>4 DEF CreateVm, CreateFails, vmVars
    <2> QED
      BY <1>2, <2>1, <2>2, <2>3, <2>4 DEF LinkInv, elfVars
  <1>5. CASE RegisterNext
    <2>1. NamesInv'
      BY <1>5, RegisterKeepsNames DEF LinkInv
    <2> QED
      BY <1>2, <1>5, <2>1 DEF RegisterNext, Register, Idle, LinkInv, elfVars, codeVars, loadVars
  <1>6. CASE RegisterUnwind
    BY <1>2, <1>6 DEF RegisterUnwind, SetUnwind, Idle, LinkInv, NamesInv, Table, elfVars,
                      codeVars, loadVars
  <1>7. CASE UnloadAgain
    BY <1>2, <1>7 DEF UnloadAgain, Unload, DropCode, Idle, LinkInv, NamesInv, Table, elfVars, vmVars
  <1>8. CASE LoadAgain
    BY <1>2, <1>8 DEF LoadAgain, LinkInv, NamesInv, Table, elfVars, vars, vmVars, codeVars, loadVars
  <1>9. CASE LoadResult
    <2>1. CASE rc = "ok"
      BY <1>2, <1>9, <2>1 DEF LoadResult, LinkInv, NamesInv, Table, elfVars, vars, vmVars,
                              codeVars, loadVars
    <2>2. CASE rc # "ok"
      BY <1>2, <1>9, <2>2 DEF LoadResult, Destroy, DropCode, Idle, LinkInv, NamesInv, Table, elfVars
    <2> QED
      BY <2>1, <2>2
  <1>10. CASE CompileAndRun
    <2>1. /\ UNCHANGED <<file, elfVars, options, ext_funcs, insts, code>> /\ at = "run"
          /\ options.jit /\ mode' \in {mode, "crash"}
      BY <1>10 DEF CompileAndRun, Compile, CompileFails, CompileNoBuffer, vmVars, codeVars, loadVars
    <2>2. /\ jitted' # NULL => jitted'.code = insts'
          /\ at' = "destroy" \/ (at' = "ended" /\ status' \in {1, Crashed})
      BY <1>10 DEF CompileAndRun, Compile, CompileFails, CompileNoBuffer, codeVars
    <2> QED
      BY <1>2, <2>1, <2>2 DEF LinkInv, NamesInv, Table, elfVars
  <1>11. CASE Interpret
    BY <1>2, <1>11 DEF Interpret, ExecCall, Idle, LinkInv, NamesInv, Table, elfVars, vmVars,
                       codeVars, loadVars
  <1>12. CASE Interpreting
    <2>1. /\ UNCHANGED <<ext_funcs, insts, jitted, code>>
          /\ mode' # "validate"
      BY <1>12 DEF Interpreting, ExecStep, StepAlu, StepDivReg, StepDiv32LowHalfZero, StepJump,
                   StepMemory, CarryOut, StepCall, StepExit, FetchPastEnd, Fetching, Goto, Return,
                   vmVars, codeVars, loadVars
    <2> QED
      BY <1>2, <1>12, <2>1 DEF Interpreting, LinkInv, NamesInv, Table, elfVars
  <1>13. CASE DestroyVm
    BY <1>2, <1>13 DEF DestroyVm, Destroy, DropCode, Idle, LinkInv, NamesInv, Table, elfVars
  <1>14. CASE UNCHANGED driverVars
    <2>1. /\ UNCHANGED <<file, elfVars, at, options, status>>
          /\ UNCHANGED <<live, ext_funcs, insts, jitted, mode, code>>
      BY <1>14 DEF driverVars, vars, vmVars, codeVars, loadVars
    <2> QED
      BY <1>2, <2>1 DEF LinkInv, NamesInv, Table, elfVars
  <1> QED
    BY <1>1, <1>3, <1>4, <1>5, <1>6, <1>7, <1>8, <1>9, <1>10, <1>11, <1>12, <1>13, <1>14
       DEF DriverStep

(***************************************************************************)
(* Whatever files there are and however often code is loaded, the code of  *)
(* the vm, and the machine code, are what the file means.                  *)
(***************************************************************************)
THEOREM FileIsRun == DriverSpec => []RunsTheLinkedFile
  <1>1. DriverInit => IInv /\ LinkInv
    BY LinkInitially DEF DriverInit, IInv, LoaderInv, LoaderStaysInside
  <1>2. IInv /\ LinkInv /\ [DriverStep]_driverVars => IInv' /\ LinkInv'
    BY DriverStepKeepsInv, DriverStepKeepsLink
  <1>3. LinkInv => RunsTheLinkedFile
    BY DEF LinkInv, RunsTheLinkedFile
  <1> QED
    BY <1>1, <1>2, <1>3, PTL DEF DriverSpec
=============================================================================
