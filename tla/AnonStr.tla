------------------------------- MODULE AnonStr --------------------------------
(***************************************************************************)
(* The string section that patch/pahole.patch gives to libbpf: names of    *)
(* functions, fields and extern variables are replaced by hashes, all      *)
(* other names but those of ints by "0".                                   *)
(*                                                                         *)
(* A name has four hashes.  It is stored as its first hash; when another   *)
(* name took that, as its first two joined by "|", and so on.  Which       *)
(* hashes are taken is kept in exist_strs, a cache beside the section that *)
(* also holds the names seen; nothing records which hashed form a name     *)
(* got, so asking for it again searches the section for it.                *)
(*                                                                         *)
(* The section holds each string once, so its offset is represented by the *)
(* string itself, and a hashed string by the tuple of its parts.           *)
(***************************************************************************)
EXTENDS Integers

CONSTANTS
  Names,    \* names that are anonymised
  Hashes,   \* values of a hash, as decimal text
  HashOf,   \* BKDR, AP, DJB and JS hash of each name
  Zero,     \* the hash value 0, and the text "0" written for other names
  Raws,     \* names of int types, written as they are
  NULL,
  ENOENT, ENOMEM

Rounds == 4   \* ANONY_HASH_FUNC_NUM

ASSUME HashAssumption == HashOf \in [Names -> [1 .. Rounds -> Hashes]]
ASSUME RawsAssumption ==
  /\ Zero \in Hashes
  /\ Raws \cap (Hashes \cup Names) = {} /\ Names \cap Hashes = {}

(* get_hash_str_n: the first n + 1 hashes, and the name itself at n = 4 *)
Level(s, n) == [k \in 1 .. n + 1 |-> IF k <= Rounds THEN HashOf[s][k] ELSE s]

Hashed == {Level(s, n) : s \in Names, n \in 0 .. Rounds}
Raw(r) == [k \in 1 .. 1 |-> r]
Stored == Hashed \cup {Raw(r) : r \in Raws \cup {Zero}}

ASSUME NullAssumption ==
  NULL \notin Stored \cup {ENOENT, ENOMEM} /\ {ENOENT, ENOMEM} \cap Stored = {}

VARIABLES
  strs,     \* btf->strs_hash: the strings of the section
  added,    \* names in exist_strs
  marked,   \* hashed strings in exist_strs
  own,      \* the string that was stored for a name (not in the program)
  ret,      \* the last call's name and the string at the offset it returned
  aborted   \* assert(0)

vars == <<strs, added, marked, own, ret, aborted>>

Errors == {ENOENT, ENOMEM}

TypeOK ==
  /\ strs \in SUBSET Stored
  /\ added \in SUBSET Names
  /\ marked \in SUBSET Hashed
  /\ own \in [Names -> Hashed \cup {NULL}]
  /\ ret \in [name : Names, str : Stored \cup Errors] \cup {NULL}
  /\ aborted \in BOOLEAN

Init ==
  /\ strs = {} /\ added = {} /\ marked = {}
  /\ own = [s \in Names |-> NULL]
  /\ ret = NULL
  /\ aborted = FALSE

First(S) == CHOOSE n \in S : \A m \in S : n <= m

(* Returns str for name s. *)
Answer(s, str) == ret' = [name |-> s, str |-> str]

-----------------------------------------------------------------------------

(***************************************************************************)
(* btf__add_raw_str, from btf__add_str ("0"), from btf__add_int and from   *)
(* btf_add_ref_kind: a string that is there already is not added.          *)
(***************************************************************************)
AddRawStr(r) ==
  /\ ~aborted
  /\ strs' = strs \cup {Raw(r)}
  /\ UNCHANGED <<added, marked, own, ret, aborted>>

(* The levels the search of btf__add_anony_str stops at for a known name. *)
Hits(s) == {n \in 0 .. Rounds - 1 : Level(s, n) \in strs /\ Level(s, n + 1) \notin strs}

(* Mutant of Found: the search stops at the first level it finds. *)
FoundFirst(s) ==
  IF \E n \in 0 .. Rounds : Level(s, n) \in strs
  THEN Level(s, First({n \in 0 .. Rounds : Level(s, n) \in strs}))
  ELSE ENOENT

(* What that search returns; its last resort is the form with the name. *)
Found(s) ==
  IF Hits(s) # {} THEN Level(s, First(Hits(s)))
  ELSE IF Level(s, Rounds) \in strs THEN Level(s, Rounds)
  ELSE ENOENT

(***************************************************************************)
(* btf__add_anony_str of a name that exist_strs knows; btf__find_str is    *)
(* taken to have the memory it needs.                                      *)
(***************************************************************************)
Lookup(s) ==
  /\ ~aborted
  /\ s \in added
  /\ Answer(s, Found(s))
  /\ UNCHANGED <<strs, added, marked, own, aborted>>

Unused(s) == {n \in 0 .. Rounds - 1 : Level(s, n) \notin marked}

(* chack_and_add_to_cache: the first unused form, or the last one tried *)
Choice(s) ==
  IF Unused(s) = {} THEN Level(s, Rounds - 1) ELSE Level(s, First(Unused(s)))

(* Mutant of MarkAll: the name is noted, its hashed forms are not. *)
MarkName(s) == added' = added \cup {s} /\ UNCHANGED marked

(* ... then all four forms are marked as used, whichever was chosen. *)
MarkAll(s) ==
  /\ added' = added \cup {s}
  /\ marked' = marked \cup {Level(s, n) : n \in 0 .. Rounds - 1}

(* Mutant of AddNew: one hash, and a string that is there is used again. *)
AddNewReuse(s) ==
  /\ ~aborted
  /\ s \notin added
  /\ MarkAll(s)
  /\ strs' = strs \cup {Level(s, 0)}
  /\ own' = [own EXCEPT ![s] = Level(s, 0)]
  /\ Answer(s, Level(s, 0))
  /\ UNCHANGED aborted

(* Mutant of AddNew: the name is written as it is. *)
AddNewPlain(s) ==
  /\ ~aborted
  /\ s \notin added
  /\ MarkAll(s)
  /\ strs' = strs \cup {Raw(s)}
  /\ Answer(s, Choice(s))
  /\ UNCHANGED <<own, aborted>>

(* btf__add_anony_str of a new name *)
AddNew(s) ==
  /\ ~aborted
  /\ s \notin added
  /\ MarkAll(s)
  /\ IF Choice(s) \in strs
     THEN aborted' = TRUE /\ UNCHANGED <<strs, own, ret>>
     ELSE /\ strs' = strs \cup {Choice(s)}
          /\ own' = [own EXCEPT ![s] = Choice(s)]
          /\ Answer(s, Choice(s))
          /\ UNCHANGED aborted

(* btf_ensure_modifiable fails, before anything was marked *)
AddNotModifiable(s) ==
  /\ ~aborted
  /\ s \notin added
  /\ Answer(s, ENOMEM)
  /\ UNCHANGED <<strs, added, marked, own, aborted>>

(* btf_add_str_mem fails, after the name was marked *)
AddNoMemory(s) ==
  /\ ~aborted
  /\ s \notin added
  /\ MarkAll(s)
  /\ Answer(s, ENOMEM)
  /\ UNCHANGED <<strs, own, aborted>>

Next ==
  \/ \E r \in Raws \cup {Zero} : AddRawStr(r)
  \/ \E s \in Names :
       Lookup(s) \/ AddNew(s) \/ AddNotModifiable(s) \/ AddNoMemory(s)

Spec == Init /\ [][Next]_vars

-----------------------------------------------------------------------------
(* Properties. *)

(***************************************************************************)
(* "generate a unique func_hash for s": two names never share the string   *)
(* they were stored as, whatever the hash functions do.                    *)
(***************************************************************************)
StoredIsUnique ==
  \A s, t \in Names : s # t /\ own[s] # NULL => own[s] # own[t]

(***************************************************************************)
(* "fetch the correct hash value index for the string": each call for a    *)
(* name that is in the section answers the string it was stored as.        *)
(***************************************************************************)
LookupFindsOwn ==
  ret # NULL /\ own[ret.name] # NULL => ret.str = own[ret.name]

(* "should not exist": the assert(0) of btf__add_anony_str is never met. *)
AssertHolds == ~aborted

(***************************************************************************)
(* When these hold: no two names agree on their first and second hash, and *)
(* no name's first hash is the text that stands for other names.           *)
(***************************************************************************)
FewCollisions ==
  /\ \A s, t \in Names :
       s # t /\ HashOf[s][1] = HashOf[t][1] => HashOf[s][2] # HashOf[t][2]
  /\ \A s \in Names : HashOf[s][1] # Zero
=============================================================================
