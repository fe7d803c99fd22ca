-------------------------- MODULE MemcmpAccelerator --------------------------
(***************************************************************************)
(* index-fabric/src/memcmp_accelerator.rs: per program, for each of the    *)
(* offsets it tracks, the accounts whose data has given bytes there.  The  *)
(* methods that change it take &mut self, so one runs at a time.           *)
(*                                                                         *)
(* An account's data is its length and the bytes at each offset; bytes are *)
(* model values.                                                           *)
(***************************************************************************)
EXTENDS Integers, FiniteSets, Maps

CONSTANTS AccelPrograms,   \* program ids
          AccelIds,        \* account ids
          FieldBytes,      \* byte strings a field can hold
          DataLengths,     \* lengths of account data
          Samples,         \* the data accounts are filed and removed with
          OffsetLists,     \* sets of offsets configure_program() is given
          MaxAccelCalls    \* bound: number of calls

\* CommonOffset: where the field is, and how long; a Custom one has no length.
CommonOffset == [Discriminator |-> [offset |-> 0,  expected_size |-> 8],
                 Owner         |-> [offset |-> 32, expected_size |-> 32],
                 Mint          |-> [offset |-> 64, expected_size |-> 32],
                 Collection    |-> [offset |-> 1,  expected_size |-> 32],
                 Custom        |-> [offset |-> 16, expected_size |-> 0]]
Fields == DOMAIN CommonOffset

\* predefined_configs: the offsets of the programs the crate knows.
token_program == {"Discriminator", "Owner", "Mint"}
metaplex_nft == {"Discriminator", "Collection"}
default_config == {"Discriminator"}

AccountData == [len : DataLengths, field : [Fields -> FieldBytes]]

ASSUME AccelAssumption ==
    /\ DataLengths \subseteq Nat /\ MaxAccelCalls \in Nat
    /\ OffsetLists \subseteq SUBSET Fields
    /\ Samples \subseteq AccountData

VARIABLES program_accelerators,     \* program -> [tracked, indexes, seen, entries]
          program_offset_configs,   \* program -> set of fields
          filed,                    \* history: program -> account -> data of its last
                                    \* insertion, unless a removal came after it
          misused,                  \* history: accounts filed again without a removal, or
                                    \* removed with other data than they were filed with
          miscounted,               \* history: programs with an account filed twice, or
                                    \* removed but not filed with that data
          accelCalls

accelState == <<program_accelerators, program_offset_configs, filed, misused, miscounted,
                accelCalls>>

AccelInit ==
    /\ program_accelerators = EmptyMap /\ program_offset_configs = EmptyMap
    /\ filed = [p \in AccelPrograms |-> EmptyMap] /\ misused = {} /\ miscounted = {}
    /\ accelCalls = 0

AccelTypeOK ==
    /\ \A p \in DOMAIN program_accelerators :
         /\ program_accelerators[p].tracked \subseteq Fields
         /\ program_accelerators[p].indexes \in [Fields -> SUBSET (FieldBytes \X AccelIds)]
         /\ program_accelerators[p].seen \in [Fields -> SUBSET FieldBytes]
         /\ program_accelerators[p].entries \in [Fields -> Nat]
    /\ \A p \in DOMAIN program_offset_configs : program_offset_configs[p] \subseteq Fields

\* A new ProgramMemcmpAccelerator.  The index of an offset is the pairs of bytes
\* and account it lists; "seen" are the bytes that have a bitmap, if an empty one,
\* and "entries" is entry_count.
NewAccelerator(tracked) ==
    [tracked |-> tracked, indexes |-> [f \in Fields |-> {}], seen |-> [f \in Fields |-> {}],
     entries |-> [f \in Fields |-> 0]]

CountCall == accelCalls < MaxAccelCalls /\ accelCalls' = accelCalls + 1

-----------------------------------------------------------------------------
\* The tracked fields that data is long enough for; Custom ones are skipped.
Indexed(acc, data) ==
    {f \in acc.tracked : /\ data.len >= CommonOffset[f].offset + CommonOffset[f].expected_size
                         /\ CommonOffset[f].expected_size > 0}

FileIn(acc, a, data) ==
    LET fs == Indexed(acc, data) IN
    [acc EXCEPT !.indexes = [f \in Fields |-> IF f \in fs THEN @[f] \cup {<<data.field[f], a>>}
                                                           ELSE @[f]],
                !.seen = [f \in Fields |-> IF f \in fs THEN @[f] \cup {data.field[f]} ELSE @[f]],
                !.entries = [f \in Fields |-> IF f \in fs THEN @[f] + 1 ELSE @[f]]]

\* The counts after a removal from the fields fs: bytes without a bitmap are left alone,
\* and the subtraction stops at 0.
Discounted(acc, fs, data) ==
    [f \in Fields |-> IF f \in fs /\ data.field[f] \in acc.seen[f] /\ acc.entries[f] > 0
                        THEN acc.entries[f] - 1 ELSE acc.entries[f]]

\* Mutant of RemoveEntries: the loop ends at the first field that data is too short for.
RemoveWhileLong(acc, a, data) ==
    LET fs == IF Indexed(acc, data) = acc.tracked THEN acc.tracked ELSE {} IN
    [acc EXCEPT !.indexes = [f \in Fields |-> IF f \in fs THEN @[f] \ {<<data.field[f], a>>}
                                                           ELSE @[f]],
                !.entries = Discounted(acc, fs, data)]

RemoveEntries(acc, a, data) ==
    LET fs == Indexed(acc, data) IN
    [acc EXCEPT !.indexes = [f \in Fields |-> IF f \in fs THEN @[f] \ {<<data.field[f], a>>}
                                                           ELSE @[f]],
                !.entries = Discounted(acc, fs, data)]

-----------------------------------------------------------------------------
\* The new offsets are for the next accelerator: an existing one keeps its own.
ConfigureProgram(p, offsets) ==
    /\ CountCall
    /\ program_offset_configs' = Put(program_offset_configs, p, offsets)
    /\ program_accelerators' =
         IF p \in DOMAIN program_accelerators THEN program_accelerators
         ELSE Put(program_accelerators, p, NewAccelerator(offsets))
    /\ UNCHANGED <<filed, misused, miscounted>>

AccelInsert(p, a, data) ==
    LET configured == IF p \in DOMAIN program_offset_configs THEN program_offset_configs[p]
                      ELSE {"Discriminator", "Owner"}
        acc == IF p \in DOMAIN program_accelerators THEN program_accelerators[p]
               ELSE NewAccelerator(configured)
    IN  /\ CountCall
        /\ program_accelerators' = Put(program_accelerators, p, FileIn(acc, a, data))
        /\ filed' = [filed EXCEPT ![p] = Put(@, a, data)]
        /\ misused' = IF a \in DOMAIN filed[p] /\ filed[p][a] # data
                        THEN misused \cup {<<p, a>>} ELSE misused
        /\ miscounted' = IF a \in DOMAIN filed[p] THEN miscounted \cup {p} ELSE miscounted
        /\ UNCHANGED program_offset_configs

AccelRemove(p, a, data) ==
    /\ CountCall
    /\ program_accelerators' =
         IF p \in DOMAIN program_accelerators
           THEN Put(program_accelerators, p, RemoveEntries(program_accelerators[p], a, data))
           ELSE program_accelerators
    /\ filed' = [filed EXCEPT ![p] = Drop(@, a)]
    /\ misused' = IF a \in DOMAIN filed[p] /\ filed[p][a] # data
                    THEN misused \cup {<<p, a>>} ELSE misused
    /\ miscounted' = IF a \in DOMAIN filed[p] /\ filed[p][a] = data
                       THEN miscounted ELSE miscounted \cup {p}
    /\ UNCHANGED program_offset_configs

AccelNext ==
    \E p \in AccelPrograms :
        \/ \E offsets \in OffsetLists : ConfigureProgram(p, offsets)
        \/ \E a \in AccelIds, data \in Samples :
              AccelInsert(p, a, data) \/ AccelRemove(p, a, data)

AccelSpec == AccelInit /\ [][AccelNext]_accelState

-----------------------------------------------------------------------------
\* query(): no answer for bytes no account was ever filed under, so that the
\* caller falls back to another index; else the accounts listed, if any.
HasAnswer(p, f, b) ==
    p \in DOMAIN program_accelerators /\ b \in program_accelerators[p].seen[f]
AccelAnswer(p, f, b) == {x[2] : x \in {y \in program_accelerators[p].indexes[f] : y[1] = b}}

\* stats() of the index of an offset.
OffsetIndexStats(p, f) ==
    [unique_keys |-> Cardinality(program_accelerators[p].seen[f]),
     total_entries |-> program_accelerators[p].entries[f]]

\* An account is found by the bytes of its last insertion at every tracked offset
\* its data reaches, however it was filed before; and where the accelerator
\* answers, it lists only accounts whose data has these bytes, provided callers
\* remove an account with the data they filed, and before they file it again.  While
\* they file every account once and remove only what is filed, each offset reports as
\* many entries as it lists, and at least the keys it lists them under.
AcceleratorExact ==
    \A p \in DOMAIN program_accelerators : LET acc == program_accelerators[p] IN
        /\ \A a \in DOMAIN filed[p], f \in Fields :
             f \in Indexed(acc, filed[p][a]) =>
                /\ HasAnswer(p, f, filed[p][a].field[f])
                /\ a \in AccelAnswer(p, f, filed[p][a].field[f])
        /\ \A f \in Fields, b \in FieldBytes : HasAnswer(p, f, b) =>
             \A a \in AccelAnswer(p, f, b) :
                <<p, a>> \in misused \/ (a \in DOMAIN filed[p] /\ filed[p][a].field[f] = b)
        /\ p \notin miscounted => \A f \in Fields :
             /\ OffsetIndexStats(p, f).total_entries = Cardinality(acc.indexes[f])
             /\ OffsetIndexStats(p, f).unique_keys >= Cardinality({x[1] : x \in acc.indexes[f]})
=============================================================================
