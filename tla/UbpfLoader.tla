------------------------------ MODULE UbpfLoader ------------------------------
(***************************************************************************)
(* ubpf_load_elf (vm/ubpf_loader.c): it looks for the text section of an   *)
(* object file, copies it, writes into each call the index under which the *)
(* called function is registered, and passes the copy to ubpf_load.        *)
(*                                                                         *)
(* Sizes and offsets count units of four bytes, so an instruction is two   *)
(* halves: the second holds the immediate.  A first half that a relocation *)
(* has overwritten looks like a second one.  A function stands for its own *)
(* name as well: the hosts register each under a name of its own.          *)
(***************************************************************************)
EXTENDS UbpfVm

CONSTANTS
  EhdrSize, ShdrSize, RelSize, SymSize,  \* sizes of the ELF structures
  MaxSections                            \* MAX_SECTIONS

ASSUME ElfSizesAssumption ==
  /\ {EhdrSize, ShdrSize, RelSize, SymSize} \subseteq 1 .. AddrMod - 1
  /\ MaxSections \in Nat

VARIABLES
  file,       \* the object file: its header, its section headers, their data
  elf,        \* how far ubpf_load_elf is, or "out"
  sec,        \* the loop index over the sections
  entry,      \* the loop index over the entries of a relocation section
  text_shndx, \* the index of the text section, once it was found
  text_copy,  \* the copy of the text section, or NULL
  touched     \* what was read of the file and written of the copy (history)

elfVars == <<elf, sec, entry, text_shndx, text_copy, touched>>

-----------------------------------------------------------------------------
(* Code as bytes. *)

(* The instruction whose first half is the number n, less than 2^8 *)
Opcode(n) ==
  [op |-> CASE n = 0 -> "zero" [] n = 4 -> "alu" [] n = 5 -> "ja"
            [] OTHER -> "unknown",
   dst |-> 0, src |-> 0, offset |-> 0]

Decode(halves) ==
  [k \in 1 .. Len(halves) \div 2 |->
     LET first == halves[2 * k - 1]
         inst == IF "imm" \in DOMAIN first THEN Opcode(first.imm) ELSE first
     IN [op |-> inst.op, dst |-> inst.dst, src |-> inst.src,
         offset |-> inst.offset, imm |-> halves[2 * k].imm]]

(* The call of ubpf_load; it refuses a length that is no multiple of 8. *)
LoadCode(halves) ==
  IF insts # NULL \/ Len(halves) % 2 # 0
  THEN LoadRefused
  ELSE LoadCall(Decode(halves))

-----------------------------------------------------------------------------
(* The walk through the file. *)

(* Mutant of bounds_check: a sum that wraps is not noticed. *)
bounds_check_wraps(offset, size) == (offset + size) % AddrMod <= file.size

(* !NULL: the bytes are in the file *)
bounds_check(offset, size) ==
  /\ (offset + size) % AddrMod <= file.size
  /\ (offset + size) % AddrMod >= offset

shnum == Len(file.sections)
Section(s) == file.sections[s + 1]
HeaderOf(s) == (file.shoff + s * ShdrSize) % AddrMod
IsText(s) == Section(s).type = "progbits" /\ Section(s).exec

(* Section s is the text.  Index 0 stands for none. *)
FirstText(s) == s # 0 /\ IsText(s) /\ \A t \in 0 .. s - 1 : ~IsText(t)

Read(offset, size) == [in |-> "file", offset |-> offset, size |-> size]
Write(offset) == [in |-> "copy", offset |-> offset, size |-> 1]

(* goto error, which frees the copy *)
LoadElfFails(reads) ==
  /\ elf' = "out" /\ rc' = "error"
  /\ text_copy' = NULL /\ sec' = 0 /\ entry' = 0
  /\ touched' = touched \cup reads
  /\ UNCHANGED <<vmVars, codeVars, mode, loadVars, execVars, text_shndx>>

LoadElfGoesOn(place, s, j, reads) ==
  /\ elf' = place /\ sec' = s /\ entry' = j
  /\ touched' = touched \cup reads
  /\ UNCHANGED <<vmVars, codeVars, mode, loadVars, execVars, rc>>

(* The tests of the ELF header *)
LoadElf ==
  /\ Idle /\ elf = "out"
  /\ LET header == IF bounds_check(0, EhdrSize) THEN {Read(0, EhdrSize)} ELSE {}
     IN IF header = {} \/ ~file.header \/ shnum > MaxSections
        THEN LoadElfFails(header)
        ELSE LoadElfGoesOn("sections", 0, 0, header) /\ UNCHANGED <<text_shndx, text_copy>>

(* One section header, and where it says that its data are *)
ReadSection ==
  /\ elf = "sections" /\ sec < shnum
  /\ IF ~bounds_check(HeaderOf(sec), ShdrSize)
     THEN LoadElfFails({})
     ELSE LET read == {Read(HeaderOf(sec), ShdrSize)}
          IN IF bounds_check(Section(sec).offset, Section(sec).size)
             THEN /\ LoadElfGoesOn("sections", sec + 1, 0, read)
                  /\ UNCHANGED <<text_shndx, text_copy>>
             ELSE LoadElfFails(read)

CopyText ==
  /\ elf = "sections" /\ sec >= shnum
  /\ \E s \in 0 .. shnum - 1 :
       /\ FirstText(s)
       /\ text_shndx' = s
       /\ LoadElfGoesOn("relocate", 0, 0, {Read(Section(s).offset, Section(s).size)})
       /\ text_copy' = file.data[s + 1]

(* "text section not found", or "failed to allocate memory" *)
CopyTextFails ==
  /\ elf = "sections" /\ sec >= shnum
  /\ LoadElfFails({})

-----------------------------------------------------------------------------
(* Relocations. *)

(* ubpf_lookup_registered_function *)
Lookup(name) ==
  LET found == {idx \in 0 .. MaxExtFuncs - 1 : ext_funcs[idx] # NULL /\ ext_funcs[idx] = name}
  IN IF found = {} THEN -1
     ELSE CHOOSE idx \in found : \A other \in found : idx <= other

(* Mutant of Relocates: every relocation section is taken to be the text's. *)
RelocatesAny(s) == Section(s).type = "rel"

(* Section s holds the relocations of the text section. *)
Relocates(s) == Section(s).type = "rel" /\ Section(s).info = text_shndx

Relocating == elf = "relocate" /\ sec < shnum /\ Relocates(sec)
Symtab == Section(sec).link
Strtab == Section(Symtab).link
LinksInside == Symtab < shnum /\ Strtab < shnum
EntryCount == Section(sec).size \div RelSize

NextSection ==
  /\ elf = "relocate" /\ sec < shnum
  /\ \/ ~Relocates(sec)
     \/ Relocating /\ LinksInside /\ entry >= EntryCount
  /\ LoadElfGoesOn("relocate", sec + 1, 0, {})
  /\ UNCHANGED <<text_shndx, text_copy>>

BadLink ==
  /\ Relocating
  /\ ~LinksInside
  /\ LoadElfFails({})

(***************************************************************************)
(* One entry.  r_offset + 8 > text->size is computed in 64 bits, and the   *)
(* word after r_offset is written.                                         *)
(***************************************************************************)
Relocate ==
  /\ Relocating
  /\ LinksInside
  /\ entry < EntryCount
  /\ LET r == file.data[sec + 1][entry + 1]
         readRel == {Read(Section(sec).offset + entry * RelSize, RelSize)}
         readSym == {Read(Section(Symtab).offset + r.sym * SymSize, SymSize)}
         name == file.data[Symtab + 1][r.sym + 1]
         readName == {Read(Section(Strtab).offset + name, 1)}
         imm == Lookup(file.data[Strtab + 1][name + 1])
         at == (r.offset + 1) % AddrMod
     IN IF r.type # 2 \/ r.sym >= Section(Symtab).size \div SymSize
        THEN LoadElfFails(readRel)
        ELSE IF \/ name >= Section(Strtab).size
                \/ (r.offset + 2) % AddrMod > Section(text_shndx).size
        THEN LoadElfFails(readRel \cup readSym)
        ELSE IF imm = -1
        THEN LoadElfFails(readRel \cup readSym \cup readName)
        ELSE /\ LoadElfGoesOn("relocate", sec, entry + 1,
                              readRel \cup readSym \cup readName \cup {Write(at)})
             /\ text_copy' = [h \in DOMAIN text_copy |->
                                IF h = at + 1 THEN [imm |-> imm] ELSE text_copy[h]]
             /\ UNCHANGED text_shndx

(* ubpf_load(vm, text_copy, ...): refused, or on to its validate *)
LoadText ==
  /\ elf = "relocate" /\ sec >= shnum
  /\ LoadCode(text_copy)
  /\ elf' = IF mode' = "validate" THEN "load" ELSE "out"
  /\ text_copy' = IF mode' = "validate" THEN text_copy ELSE NULL
  /\ UNCHANGED <<sec, entry, text_shndx, touched>>

(* ... and free(text_copy) when it returns *)
LoadTextStep ==
  /\ elf = "load"
  /\ LoadStep
  /\ elf' = IF mode' = "validate" THEN "load" ELSE "out"
  /\ text_copy' = IF mode' = "validate" THEN text_copy ELSE NULL
  /\ UNCHANGED <<sec, entry, text_shndx, touched>>

LoadElfStep ==
  \/ ReadSection \/ CopyText \/ CopyTextFails
  \/ NextSection \/ BadLink \/ Relocate
  \/ LoadText \/ LoadTextStep

-----------------------------------------------------------------------------
(* Properties. *)

(***************************************************************************)
(* Every byte that is read belongs to the file and every byte that is      *)
(* written to the copy of the text, whatever counts, offsets, indices and  *)
(* links the file holds.  The exception is a relocation offset from        *)
(* 2^64 - 8 to 2^64 - 5 bytes, whose sum with 8 wraps: the write then      *)
(* begins up to four bytes before the copy, which is one case in units of  *)
(* four bytes.  A name is only claimed to start inside: it may lack its    *)
(* final 0.                                                                *)
(***************************************************************************)
LoaderStaysInside ==
  \A t \in touched :
    IF t.in = "file"
    THEN t.offset + t.size <= file.size
    ELSE t.offset < Section(text_shndx).size \/ t.offset = AddrMod - 1
=============================================================================
